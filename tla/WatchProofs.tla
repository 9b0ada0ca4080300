------------------------------ MODULE WatchProofs ------------------------------
(***************************************************************************)
(* Proofs about Watch, for any of the backends, any capacity of the signal *)
(* channel and any number of signals under way: no change is lost, and     *)
(* what the client sees is a StatusStream.                                 *)
(***************************************************************************)
EXTENDS Watch, SequenceTheorems, TLAPS

Signals == IF backend = "iwd" THEN Links.iwd ELSE {"changed"}

\* There is something to send.
Sending == pc = "send" => last # Silent

\* What the goroutine knows of the link: with no signal under way it has offered
\* its state, or what it made of it; iwd's last signal carries it; and the state
\* that was read before the subscription is still the state unless `missed`.
Informed ==
  /\ pc \in {"lookup", "subscribe"} => sigs = <<>>
  /\ pc \notin {"send", "closed"} => last \notin Terminal
  /\ backend = "iwd" => pc # "read"
  /\ ~missed /\ link # "gone" =>
       /\ backend = "iwd" /\ pc = "subscribe" => held = link
       /\ backend = "iwd" /\ pc \in {"send", "wait"} /\ sigs # <<>> =>
            sigs[Len(sigs)] = link
       /\ backend \in Signalled /\ pc \in {"send", "wait"} /\ sigs = <<>> =>
            last \in {StateOf(backend, link)} \cup Terminal

\* The newest status the goroutine has sent, received or not.
Newest == IF out = <<>> THEN client ELSE Head(out)

\* A terminal status closes the stream at once and is the last one sent; nothing
\* else closes it but a client that is gone or a stream that broke.
Closing ==
  /\ pc # "closed" => Newest \notin Terminal
  /\ pc = "closed" => Newest \in Terminal \/ cancelled \/ broken
  /\ out # <<>> => client \notin Terminal

-----------------------------------------------------------------------------
(* States, links and signals. *)

LEMMA StateOfType == \A b, l : StateOf(b, l) \in States
  BY DEF StateOf, SectionState, StationState, DeviceState, States

LEMMA VerdictType == \A s \in States : Verdict(s) \in States
  BY DEF Verdict, States

LEMMA ChangesType ==
  ASSUME NEW b \in {"ubus", "nmcli", "iwd", "nmdbus"}, NEW l \in Links[b],
         NEW n \in Changes(b, l)
  PROVE  n \in Links[b]
  <1>1. CASE b = "ubus"
    BY <1>1 DEF Changes, Links
  <1>2. CASE b = "iwd"
    BY <1>2 DEF Changes, Links, IwdChanges
  <1>3. CASE b \in {"nmcli", "nmdbus"}
    BY <1>3 DEF Changes, Links, NMChanges
  <1>. QED  BY <1>1, <1>2, <1>3

LEMMA GoneIsLink == \A b \in {"ubus", "nmcli", "iwd", "nmdbus"} : "gone" \in Links[b]
  BY DEF Links

\* A link that is gone for a signalled backend stays gone.
LEMMA GoneStays == \A b \in Signalled : Changes(b, "gone") = {}
  BY DEF Changes, Signalled

\* The last item stays the last when the first is taken.
LEMMA LastOfTail ==
  ASSUME NEW S, NEW s \in Seq(S), s # <<>>
  PROVE  /\ Tail(s) # <<>> => Tail(s)[Len(Tail(s))] = s[Len(s)]
         /\ Tail(s) = <<>> => Head(s) = s[Len(s)]
  <1>1. Len(s) \in Nat \ {0} /\ Tail(s) \in Seq(S) /\ Len(Tail(s)) = Len(s) - 1
    BY EmptySeq, HeadTailProperties
  <1>2. \A i \in 1 .. Len(Tail(s)) : Tail(s)[i] = s[i + 1]
    BY HeadTailProperties
  <1>3. ASSUME Tail(s) # <<>> PROVE Tail(s)[Len(Tail(s))] = s[Len(s)]
    <2>1. Len(Tail(s)) \in Nat \ {0}
      BY <1>1, <1>3, EmptySeq
    <2>2. Len(Tail(s)) \in 1 .. Len(Tail(s)) /\ Len(Tail(s)) + 1 = Len(s)
      BY <1>1, <2>1
    <2>. QED  BY <1>2, <2>2
  <1>4. ASSUME Tail(s) = <<>> PROVE Head(s) = s[Len(s)]
    <2>1. \A t : t = <<>> => Len(t) = 0
      OBVIOUS
    <2>2. \A m, n : m \in Nat \ {0} /\ n = m - 1 /\ n = 0 => m = 1
      OBVIOUS
    <2>3. Len(s) = 1
      BY <1>1, <1>4, <2>1, <2>2, Zenon
    <2>4. Head(s) = s[1]
      OBVIOUS
    <2>. QED  BY <2>3, <2>4, Zenon
  <1>. QED  BY <1>3, <1>4

LEMMA RestType ==
  ASSUME NEW S, NEW q \in Seq(S), q # <<>>, NEW r \in Rest(q)
  PROVE  r \in Seq(S)
  <1>0. Len(q) \in Nat /\ \A i \in 1 .. Len(q) : q[i] \in S
    BY LenProperties, ElementOfSeq
  <1>1. CASE r = Tail(q)
    BY <1>1, HeadTailProperties
  <1>2. ASSUME NEW i \in SigBuffer + 1 .. Len(q),
               r = SubSeq(q, 2, SigBuffer) \o <<q[i]>> \o SubSeq(q, SigBuffer + 1, i - 1)
                     \o SubSeq(q, i + 1, Len(q))
        PROVE  r \in Seq(S)
    <2>0. SigBuffer \in Nat \ {0} /\ i \in Nat /\ i <= Len(q) /\ i > SigBuffer
      BY <1>0, BufferAssumption
    <2>1. SubSeq(q, 2, SigBuffer) \in Seq(S)
      <3>1. \A j \in 2 .. SigBuffer : q[j] \in S
        BY <1>0, <2>0
      <3>. QED  BY <2>0, <3>1, SubSeqProperties
    <2>2. <<q[i]>> \in Seq(S)
      BY <1>0, <2>0
    <2>3. SubSeq(q, SigBuffer + 1, i - 1) \in Seq(S)
      <3>1. \A j \in SigBuffer + 1 .. i - 1 : q[j] \in S
        BY <1>0, <2>0
      <3>. QED  BY <2>0, <3>1, SubSeqProperties
    <2>4. SubSeq(q, i + 1, Len(q)) \in Seq(S)
      <3>1. \A j \in i + 1 .. Len(q) : q[j] \in S
        BY <1>0, <2>0
      <3>. QED  BY <1>0, <2>0, <3>1, SubSeqProperties
    <2>5. SubSeq(q, 2, SigBuffer) \o <<q[i]>> \in Seq(S)
      BY <2>1, <2>2, ConcatProperties
    <2>6. SubSeq(q, 2, SigBuffer) \o <<q[i]>> \o SubSeq(q, SigBuffer + 1, i - 1) \in Seq(S)
      BY <2>5, <2>3, ConcatProperties
    <2>. QED  BY <1>2, <2>6, <2>4, ConcatProperties
  <1>. QED  BY <1>1, <1>2 DEF Rest

-----------------------------------------------------------------------------
(* Types. *)

LEMMA InitType == Init => TypeOK /\ Sending
  <1>. SUFFICES ASSUME Init PROVE TypeOK /\ Sending
    OBVIOUS
  <1>1. backend \in Backends /\ link \in Links[backend] /\ held \in Links[backend]
    BY BackendsAssumption, GoneIsLink DEF Init
  <1>2. sigs \in Seq(Signals) /\ out \in Seq(States) /\ Len(out) <= 1
    BY DEF Init
  <1>. QED  BY <1>1, <1>2 DEF Init, TypeOK, Signals, Sending, Silent

LEMMA ChangeType == TypeOK /\ Change => TypeOK'
  <1>. SUFFICES ASSUME TypeOK, pc # "closed",
                       NEW l \in Changes(backend, link), link' = l,
                       sigs' = IF Subscribed /\ l # "gone" THEN Append(sigs, Signal(l))
                               ELSE sigs,
                       missed' = (missed \/ (backend = "iwd" /\ pc = "subscribe")),
                       UNCHANGED <<backend, late, pc, held, last, seen, out, client,
                                   ended, cancelled, broken>>
                PROVE  TypeOK'
    BY DEF Change
  <1>1. link' \in Links[backend]
    BY ChangesType, BackendsAssumption DEF TypeOK
  <1>2. sigs' \in Seq(Signals)
    <2>1. Signal(l) \in Signals
      BY <1>1 DEF Signal, Signals
    <2>2. sigs \in Seq(Signals)
      BY DEF TypeOK, Signals
    <2>. QED  BY <2>1, <2>2, AppendProperties
  <1>3. missed' \in BOOLEAN
    BY DEF TypeOK
  <1>. QED  BY <1>1, <1>2, <1>3 DEF TypeOK, Signals

\* What Offer leaves in the variables it sets.
LEMMA OfferType ==
  ASSUME TypeOK, NEW from, NEW s \in States, Offer(from, s)
  PROVE  pc' \in {"wait", "send"} /\ last' \in States /\ seen' \in BOOLEAN
  BY VerdictType DEF Offer, Goto, TypeOK

LEMMA BreakType ==
  ASSUME TypeOK, NEW from, Break(from)
  PROVE  TypeOK'
  <1>1. held' \in Links[backend]
    BY GoneIsLink, BackendsAssumption DEF Break, TypeOK
  <1>2. sigs' \in Seq(Signals)
    BY DEF Break
  <1>. QED  BY <1>1, <1>2 DEF Break, Goto, TypeOK, Signals

LEMMA LookupType == TypeOK /\ Lookup => TypeOK'
  BY BreakType DEF Lookup, Goto, TypeOK

LEMMA SubscribeType == TypeOK /\ Subscribe => TypeOK'
  <1>1. ASSUME TypeOK, backend = "nmdbus", Goto("subscribe", "read"),
               UNCHANGED <<backend, link, late, held, last, seen, sigs, out, client,
                           ended, cancelled, broken, missed>>
        PROVE  TypeOK'
    BY <1>1 DEF Goto, TypeOK
  <1>2. ASSUME TypeOK, backend = "iwd", Offer("subscribe", StateOf(backend, held)),
               held' = "gone",
               UNCHANGED <<backend, link, late, sigs, out, client, ended,
                           cancelled, broken, missed>>
        PROVE  TypeOK'
    <2>1. pc' \in {"wait", "send"} /\ last' \in States /\ seen' \in BOOLEAN
      BY <1>2, StateOfType, OfferType
    <2>2. held' \in Links[backend]
      BY <1>2, GoneIsLink
    <2>. QED  BY <1>2, <2>1, <2>2 DEF TypeOK
  <1>. QED  BY <1>1, <1>2, BreakType DEF Subscribe

LEMMA MisreadType == Misread \subseteq States
  <1>1. CASE backend = "nmdbus"
    BY <1>1 DEF Misread, States
  <1>2. CASE backend = "ubus" /\ link \in {"up", "associated"}
    BY <1>2 DEF Misread, States
  <1>3. CASE ~(backend = "nmdbus") /\ ~(backend = "ubus" /\ link \in {"up", "associated"})
    <2>1. Misread = {}
      BY <1>3 DEF Misread
    <2>. QED  BY <2>1
  <1>. QED  BY <1>1, <1>2, <1>3

LEMMA ReadType == TypeOK /\ Read => TypeOK'
  <1>1. ASSUME TypeOK, NEW s \in States, Offer("read", s),
               missed' \in BOOLEAN,
               UNCHANGED <<backend, link, late, held, sigs, out, client, ended,
                           cancelled, broken>>
        PROVE  TypeOK'
    BY <1>1, OfferType DEF TypeOK
  <1>2. Misread \subseteq States
    BY MisreadType
  <1>. QED  BY <1>1, <1>2, BreakType, StateOfType DEF Read, TypeOK

LEMMA SendType == TypeOK /\ Sending /\ Send => TypeOK'
  <1>1. ASSUME TypeOK, out = <<>>, pc = "send", out' = <<last>>,
               pc' = IF last \in Terminal THEN "closed" ELSE "wait", last # Silent,
               UNCHANGED <<backend, link, late, held, last, seen, sigs, client, ended,
                           cancelled, broken, missed>>
        PROVE  TypeOK'
    <2>1. last \in States
      BY <1>1 DEF TypeOK
    <2>2. out' \in Seq(States) /\ Len(out') = 1
      BY <1>1, <2>1
    <2>. QED  BY <1>1, <2>2 DEF TypeOK
  <1>. QED  BY <1>1 DEF Send, Goto, Sending, TypeOK

LEMMA ReceiveType == TypeOK /\ Receive => TypeOK'
  <1>1. ASSUME TypeOK, pc = "wait", sigs # <<>>, Look(Head(sigs)),
               NEW r \in Rest(sigs), sigs' = r, missed' = (missed \/ r # Tail(sigs)),
               UNCHANGED <<backend, link, late, held, out, client, ended, cancelled,
                           broken>>
        PROVE  TypeOK'
    <2>1. pc' \in {"wait", "send", "read"} /\ last' \in States \cup {Silent}
            /\ seen' \in BOOLEAN
      <3>1. CASE backend = "iwd"
        BY <1>1, <3>1, StateOfType, OfferType DEF Look
      <3>2. CASE backend # "iwd"
        BY <1>1, <3>2 DEF Look, Goto, TypeOK
      <3>. QED  BY <3>1, <3>2
    <2>2. sigs' \in Seq(Signals)
      <3>1. sigs \in Seq(Signals)
        BY <1>1 DEF TypeOK, Signals
      <3>. QED  BY <1>1, <3>1, RestType
    <2>3. missed' \in BOOLEAN
      BY <1>1 DEF TypeOK
    <2>. QED  BY <1>1, <2>1, <2>2, <2>3 DEF TypeOK, Signals
  <1>2. Look(Head(sigs)) => pc = "wait"
    BY DEF Look, Offer, Goto
  <1>. QED  BY <1>1, <1>2, BreakType DEF Receive

LEMMA ForwardType == TypeOK /\ Forward => TypeOK'
  <1>. SUFFICES ASSUME TypeOK, Forward PROVE TypeOK'
    OBVIOUS
  <1>1. out \in Seq(States) /\ out # <<>> /\ Len(out) <= 1
    BY DEF TypeOK, Forward
  <1>2. client' \in States
    BY <1>1, HeadTailProperties DEF Forward
  <1>3. out' \in Seq(States) /\ Len(out') <= 1
    BY <1>1, HeadTailProperties, LenProperties DEF Forward
  <1>. QED  BY <1>2, <1>3 DEF TypeOK, Forward

LEMMA OtherType ==
  TypeOK /\ (Deadline \/ Cancel \/ Tick \/ Stop \/ Return \/ UNCHANGED vars) => TypeOK'
  <1>. SUFFICES ASSUME TypeOK PROVE Deadline \/ Cancel \/ Tick \/ Stop \/ Return
                                      \/ UNCHANGED vars => TypeOK'
    OBVIOUS
  <1>1. Deadline => TypeOK'
    BY DEF Deadline, TypeOK
  <1>2. Cancel => TypeOK'
    BY DEF Cancel, TypeOK
  <1>3. Tick => TypeOK'
    BY DEF Tick, Goto, TypeOK
  <1>4. Stop => TypeOK'
    <2>1. <<>> \in Seq(Signals)
      OBVIOUS
    <2>. QED  BY <2>1 DEF Stop, Goto, TypeOK, Signals
  <1>5. Return => TypeOK'
    BY DEF Return, TypeOK
  <1>6. UNCHANGED vars => TypeOK'
    BY DEF vars, TypeOK
  <1>. QED  BY <1>1, <1>2, <1>3, <1>4, <1>5, <1>6

\* Only Offer goes to "send", and what it offers is a state.
LEMMA StepSending == TypeOK /\ Sending /\ [Next]_vars => Sending'
  <1>. SUFFICES ASSUME TypeOK, Sending, [Next]_vars, pc' = "send"
                PROVE  last' # Silent
    BY DEF Sending
  <1>1. ASSUME NEW from, NEW s \in States, Offer(from, s) PROVE last' # Silent
    BY <1>1, OfferType DEF States, Silent
  <1>2. CASE Change \/ Deadline \/ Cancel \/ Forward \/ Return \/ UNCHANGED vars
    BY <1>2 DEF Change, Deadline, Cancel, Forward, Return, vars, Sending
  <1>3. CASE Lookup \/ Send \/ Tick \/ Stop
    BY <1>3 DEF Lookup, Send, Tick, Stop, Break, Goto
  <1>4. CASE Subscribe
    BY <1>1, <1>4, StateOfType DEF Subscribe, Break, Goto
  <1>5. CASE Read
    <2>1. Misread \subseteq States
      BY MisreadType
    <2>. QED  BY <1>1, <1>5, <2>1, StateOfType DEF Read, Break, Goto
  <1>6. CASE Receive
    BY <1>1, <1>6, StateOfType DEF Receive, Look, Break, Goto
  <1>. QED  BY <1>2, <1>3, <1>4, <1>5, <1>6 DEF Next, Goroutine

LEMMA StepType == TypeOK /\ Sending /\ [Next]_vars => TypeOK'
  BY ChangeType, LookupType, SubscribeType, ReadType, SendType, ReceiveType,
     ForwardType, OtherType
  DEF Next, Goroutine

TypeInv == TypeOK /\ Sending

LEMMA TypeInvariant == Spec => []TypeInv
  <1>1. Init => TypeInv
    BY InitType DEF TypeInv
  <1>2. TypeInv /\ [Next]_vars => TypeInv'
    BY StepType, StepSending DEF TypeInv
  <1>. QED  BY <1>1, <1>2, PTL DEF Spec

\* Every variable keeps its type; the channel never holds more than one status,
\* because the goroutine waits for room before it sends (internal/wnet, Watch).
THEOREM TypeCorrect == Spec => []TypeOK
  BY TypeInvariant, PTL DEF TypeInv

-----------------------------------------------------------------------------
(* No change is lost. *)

LEMMA InitInformed == Init => Informed
  BY DEF Init, Informed, Silent, Terminal

LEMMA ChangeInformed == TypeOK /\ Informed /\ Change => Informed'
  <1>. SUFFICES ASSUME TypeOK, Informed, pc # "closed",
                       NEW l \in Changes(backend, link), link' = l,
                       sigs' = IF Subscribed /\ l # "gone" THEN Append(sigs, Signal(l))
                               ELSE sigs,
                       missed' = (missed \/ (backend = "iwd" /\ pc = "subscribe")),
                       UNCHANGED <<backend, late, pc, held, last, seen, out, client,
                                   ended, cancelled, broken>>
                PROVE  Informed'
    BY DEF Change
  <1>1. pc' \in {"lookup", "subscribe"} => sigs' = <<>>
    BY DEF Informed, Subscribed
  <1>2. (pc' \notin {"send", "closed"} => last' \notin Terminal)
          /\ (backend' = "iwd" => pc' # "read")
    BY DEF Informed
  <1>3. ASSUME ~missed', link' # "gone", backend' \in Signalled, pc' \in {"send", "wait"}
        PROVE  sigs' # <<>> /\ (backend' = "iwd" => sigs'[Len(sigs')] = link')
    <2>1. sigs \in Seq(Signals) /\ Signal(l) \in Signals
      BY ChangesType, BackendsAssumption DEF TypeOK, Signals, Signal
    <2>2. sigs' = Append(sigs, Signal(l))
      BY <1>3 DEF Subscribed
    <2>. QED  BY <2>1, <2>2, AppendProperties DEF Signal
  <1>4. backend' = "iwd" /\ pc' = "subscribe" /\ ~missed' => held' = link'
    OBVIOUS
  <1>5. backend' = "iwd" => backend' \in Signalled
    BY DEF Signalled
  <1>. QED  BY <1>1, <1>2, <1>3, <1>4, <1>5 DEF Informed

\* What Offer does to a state that is the link's.
LEMMA OfferInformed ==
  ASSUME NEW from, NEW s \in States, Offer(from, s), last \notin Terminal
  PROVE  /\ pc' \in {"send", "wait"}
         /\ pc' = "wait" => last' \notin Terminal
         /\ backend \in Signalled => last' \in {s} \cup Terminal
  <1>1. backend \in Signalled => Verdict(s) \in {s} \cup Terminal
    BY DEF Verdict, Signalled, Terminal
  <1>. QED  BY <1>1 DEF Offer, Goto

LEMMA BreakInformed ==
  ASSUME NEW from, Break(from)
  PROVE  Informed'
  BY DEF Break, Goto, Informed

LEMMA LookupInformed == Informed /\ Lookup => Informed'
  <1>1. ASSUME Informed, Findable(backend, link),
               Goto("lookup", IF backend \in Signalled THEN "subscribe" ELSE "read"),
               held' = (IF backend = "iwd" THEN link ELSE held),
               UNCHANGED <<backend, link, late, last, seen, sigs, out, client, ended,
                           cancelled, broken, missed>>
        PROVE  Informed'
    BY <1>1 DEF Informed, Goto, Signalled
  <1>. QED  BY <1>1, BreakInformed DEF Lookup

LEMMA SubscribeInformed == Informed /\ Subscribe => Informed'
  <1>1. ASSUME Informed, backend = "nmdbus", Goto("subscribe", "read"),
               UNCHANGED <<backend, link, late, held, last, seen, sigs, out, client,
                           ended, cancelled, broken, missed>>
        PROVE  Informed'
    BY <1>1 DEF Informed, Goto
  <1>2. ASSUME Informed, backend = "iwd", Offer("subscribe", StateOf(backend, held)),
               UNCHANGED <<backend, link, late, sigs, out, client, ended,
                           cancelled, broken, missed>>
        PROVE  Informed'
    <2>1. pc = "subscribe" /\ last \notin Terminal /\ sigs = <<>>
      BY <1>2 DEF Offer, Goto, Informed
    <2>2. /\ pc' \in {"send", "wait"}
          /\ pc' = "wait" => last' \notin Terminal
          /\ last' \in {StateOf(backend, held)} \cup Terminal
      BY <1>2, <2>1, StateOfType, OfferInformed DEF Signalled
    <2>3. ~missed /\ link # "gone" => held = link
      BY <1>2, <2>1 DEF Informed
    <2>. QED  BY <1>2, <2>1, <2>2, <2>3 DEF Informed
  <1>. QED  BY <1>1, <1>2, BreakInformed DEF Subscribe

LEMMA ReadInformed == Informed /\ Read => Informed'
  <1>1. ASSUME Informed, NEW s \in States, Offer("read", s),
               s = StateOf(backend, link) \/ missed' \/ backend \notin Signalled,
               UNCHANGED <<backend, link, late, held, sigs, out, client, ended,
                           cancelled, broken>>, missed => missed'
        PROVE  Informed'
    <2>1. last \notin Terminal /\ backend # "iwd"
      BY <1>1 DEF Offer, Goto, Informed
    <2>2. /\ pc' \in {"send", "wait"}
          /\ pc' = "wait" => last' \notin Terminal
          /\ backend \in Signalled => last' \in {s} \cup Terminal
      BY <1>1, <2>1, OfferInformed
    <2>. QED  BY <1>1, <2>1, <2>2 DEF Informed
  <1>2. ASSUME Informed, NEW m \in Misread, Offer("read", m),
               missed' = (missed \/ backend = "nmdbus"),
               UNCHANGED <<backend, link, late, held, sigs, out, client, ended,
                           cancelled, broken>>
        PROVE  Informed'
    <2>1. backend # "iwd"
      BY <1>2 DEF Offer, Goto, Informed
    <2>2. missed' \/ backend \notin Signalled
      BY <1>2, <2>1 DEF Signalled
    <2>. QED  BY <1>1, <1>2, <2>2, MisreadType
  <1>. QED  BY <1>1, <1>2, BreakInformed, StateOfType DEF Read

LEMMA ReceiveInformed == TypeOK /\ Informed /\ Receive => Informed'
  <1>1. ASSUME TypeOK, Informed, backend \in Signalled, pc = "wait", sigs # <<>>,
               Look(Head(sigs)),
               NEW r \in Rest(sigs), sigs' = r, missed' = (missed \/ r # Tail(sigs)),
               UNCHANGED <<backend, link, late, held, out, client, ended, cancelled,
                           broken>>
        PROVE  Informed'
    <2>1. CASE backend = "iwd"
      <3>0. last \notin Terminal
        BY <1>1 DEF Informed
      <3>1. /\ pc' \in {"send", "wait"}
            /\ pc' = "wait" => last' \notin Terminal
            /\ last' \in {StateOf(backend, Head(sigs))} \cup Terminal
        BY <1>1, <2>1, <3>0, StateOfType, OfferInformed DEF Look
      <3>2. ASSUME ~missed', link # "gone"
            PROVE  /\ sigs' # <<>> => sigs'[Len(sigs')] = link
                   /\ sigs' = <<>> => Head(sigs) = link
        <4>1. sigs' = Tail(sigs) /\ sigs[Len(sigs)] = link
          BY <1>1, <2>1, <3>2 DEF Informed
        <4>2. sigs \in Seq(Signals)
          BY <1>1 DEF TypeOK, Signals
        <4>. QED  BY <1>1, <4>1, <4>2, LastOfTail
      <3>3. ~missed' /\ link # "gone" /\ sigs' = <<>> =>
              last' \in {StateOf(backend, link)} \cup Terminal
        BY <3>1, <3>2
      <3>. QED  BY <1>1, <2>1, <3>1, <3>2, <3>3 DEF Informed
    <2>2. CASE backend # "iwd"
      BY <1>1, <2>2 DEF Look, Goto, Informed
    <2>. QED  BY <2>1, <2>2
  <1>2. Look(Head(sigs)) => pc = "wait"
    BY DEF Look, Offer, Goto
  <1>. QED  BY <1>1, <1>2, BreakInformed DEF Receive

LEMMA OtherInformed ==
  Informed /\ (Send \/ Deadline \/ Cancel \/ Tick \/ Stop \/ Forward \/ Return
               \/ UNCHANGED vars) => Informed'
  <1>1. Informed /\ Send => Informed'
    BY DEF Send, Goto, Informed
  <1>2. Informed /\ Tick => Informed'
    BY DEF Tick, Goto, Informed, Signalled
  <1>3. Stop => Informed'
    BY DEF Stop, Goto, Informed
  <1>4. Informed /\ (Deadline \/ Cancel \/ Forward \/ Return \/ UNCHANGED vars) => Informed'
    BY DEF Deadline, Cancel, Forward, Return, vars, Informed
  <1>. QED  BY <1>1, <1>2, <1>3, <1>4

LEMMA InformedInvariant == Spec => []Informed
  <1>1. TypeInv /\ Informed /\ [Next]_vars => Informed'
    BY ChangeInformed, LookupInformed, SubscribeInformed, ReadInformed,
       ReceiveInformed, OtherInformed
    DEF Next, Goroutine, TypeInv
  <1>. QED  BY <1>1, InitInformed, TypeInvariant, PTL DEF Spec

\* A signalled backend that waits with no signal under way has offered the state
\* of its link (Watch of iwd and nmdbus), but in the cases `missed` names.
THEOREM NoLostChangeCorrect == Spec => []NoLostChange
  <1>1. Informed => NoLostChange
    BY DEF Informed, NoLostChange
  <1>. QED  BY <1>1, InformedInvariant, PTL

-----------------------------------------------------------------------------
(* The stream the client sees. *)

LEMMA InitClosing == Init => Closing
  BY DEF Init, Closing, Newest, Silent, Terminal

LEMMA StepClosing == TypeInv /\ Closing /\ [Next]_vars => Closing'
  <1>. SUFFICES ASSUME TypeInv, Closing, [Next]_vars PROVE Closing'
    OBVIOUS
  <1>1. ASSUME UNCHANGED <<out, client, cancelled>>, broken => broken',
               pc = "closed" => pc' = "closed",
               pc' = "closed" => pc = "closed" \/ cancelled \/ broken'
        PROVE  Closing'
    BY <1>1 DEF Closing, Newest
  <1>2. CASE Change \/ Deadline \/ Return \/ UNCHANGED vars
    BY <1>1, <1>2 DEF Change, Deadline, Return, vars
  <1>3. CASE Lookup \/ Subscribe \/ Read \/ Tick \/ Receive \/ Stop
    BY <1>1, <1>3
    DEF Lookup, Subscribe, Read, Tick, Receive, Stop, Look, Offer, Break, Goto
  <1>4. CASE Cancel
    BY <1>4 DEF Cancel, Closing, Newest
  <1>5. CASE Send
    <2>1. CASE out = <<>> /\ out' = <<last>>
      <3>1. client \notin Terminal /\ client' = client /\ Newest' = last
        BY <1>5, <2>1 DEF Send, Goto, Closing, Newest
      <3>. QED  BY <1>5, <2>1, <3>1 DEF Send, Goto, Closing
    <2>2. CASE cancelled /\ UNCHANGED out
      BY <1>5, <2>2 DEF Send, Goto, Closing, Newest
    <2>. QED  BY <1>5, <2>1, <2>2 DEF Send
  <1>6. CASE Forward
    <2>1. out \in Seq(States) /\ out # <<>> /\ Len(out) <= 1
      BY <1>6 DEF Forward, TypeInv, TypeOK
    <2>2. out' = <<>>
      BY <1>6, <2>1, HeadTailProperties, EmptySeq, LenProperties DEF Forward
    <2>3. Newest' = Newest /\ UNCHANGED <<pc, cancelled, broken>>
      BY <1>6, <2>1, <2>2 DEF Newest, Forward
    <2>. QED  BY <2>2, <2>3 DEF Closing
  <1>. QED  BY <1>2, <1>3, <1>4, <1>5, <1>6 DEF Next, Goroutine

LEMMA ClosingInvariant == Spec => []Closing
  BY InitClosing, StepClosing, TypeInvariant, PTL DEF Spec

LEMMA StreamStep == TypeInv /\ Closing /\ [Next]_vars => [Stream!Next]_(Stream!vars)
  <1>. SUFFICES ASSUME TypeInv, Closing, [Next]_vars
                PROVE  Stream!Next \/ UNCHANGED Stream!vars
    OBVIOUS
  <1>1. CASE Forward
    <2>1. out # <<>> /\ ~ended /\ client' = Head(out) /\ client \notin Terminal
            /\ UNCHANGED <<ended, cancelled, broken>>
      BY <1>1 DEF Forward, Closing
    <2>2. client' \in States
      BY <2>1, HeadTailProperties DEF TypeInv, TypeOK
    <2>. QED  BY <2>1, <2>2 DEF Stream!Next, Stream!Say, Stream!vars
  <1>2. CASE Return
    <2>1. client \in Terminal \/ cancelled \/ broken
      BY <1>2 DEF Return, Closing, Newest
    <2>2. ~ended /\ ended' /\ UNCHANGED <<client, cancelled, broken>>
      BY <1>2 DEF Return
    <2>. QED  BY <2>1, <2>2 DEF Stream!Next, Stream!Close
  <1>3. CASE Cancel
    BY <1>3 DEF Cancel, Stream!Next, Stream!Cut
  <1>4. ASSUME UNCHANGED <<client, ended, cancelled>>, broken => broken'
        PROVE  Stream!Next \/ UNCHANGED Stream!vars
    BY <1>4 DEF Stream!Next, Stream!Cut, Stream!vars, TypeInv, TypeOK
  <1>5. CASE Change \/ Deadline \/ Goroutine \/ UNCHANGED vars
    BY <1>4, <1>5
    DEF Change, Deadline, Goroutine, Lookup, Subscribe, Read, Send, Tick, Receive,
        Stop, Look, Offer, Break, vars
  <1>. QED  BY <1>1, <1>2, <1>3, <1>5 DEF Next

\* What the client of the RPC sees (ConnectionServer.Watch) is a StatusStream: no
\* status is sent twice in a row, none after a terminal one, and the stream is
\* closed only after a terminal one or when it was cut.  The safety half of Contract.
THEOREM StreamImplemented == Spec => Stream!Spec
  <1>1. Init => Stream!Init
    BY DEF Init, Stream!Init
  <1>. QED  BY <1>1, StreamStep, TypeInvariant, ClosingInvariant, PTL
            DEF Spec, Stream!Spec
=============================================================================
