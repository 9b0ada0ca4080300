---------------------------- MODULE ScanCacheProofs ----------------------------
(***************************************************************************)
(* Proofs about ScanCache, for any number of handlers and interfaces, any  *)
(* TTL and any bounds.                                                     *)
(***************************************************************************)
EXTENDS ScanCache, TLAPS

\* What is true of an entry wherever it is kept (memory, a file image, the file).
GenuineEntry(e) ==
  /\ e.aps.of = e.iface
  /\ e.aps.seen <= e.at
  /\ e.aps.run <= run
Genuine(c) == \A e \in c : GenuineEntry(e)

\* No entry of c is a scan the current run took of an interface it hides.
Filtered(c) == \A e \in c : e.aps.run = run => e.iface \notin hidden

\* What is true of the scan a handler holds.
Held(h) ==
  \A a \in got[h] :
    /\ a.of = iface[h]
    /\ a.seen <= now
    /\ a.run = run
    /\ iface[h] \notin hidden
    /\ pc[h] \in {"put", "persist"} => a.seen <= at[h]

\* What is true of a response.
Answered(h) ==
  \A r \in reply[h] :
    /\ r.kind = "error" => r.aps = {}
    /\ \A a \in r.aps :
         /\ a.of = iface[h]
         /\ a.seen <= r.at
         /\ a.run <= run
         /\ r.kind = "cached" => asked[h] <= r.at + TTL
         /\ iface[h] \in hidden => r.kind = "cached" /\ a.run < run

\* The inductive invariant behind ServedFresh and HiddenNotScanned.
IInv ==
  /\ TypeOK
  /\ up \/ \A h \in Handlers : got[h] = {} /\ blob[h] = {} /\ reply[h] = {}
  /\ Genuine(mem) /\ Filtered(mem)
  /\ Genuine(disk) /\ Filtered(disk)
  /\ \A h \in Handlers :
       /\ Genuine(blob[h]) /\ Filtered(blob[h])
       /\ Held(h)
       /\ Answered(h)

-----------------------------------------------------------------------------
(* Type correctness *)

LEMMA InitType == Init => TypeOK
  <1>1. 0 \in Time /\ 1 \in Runs
    BY BoundAssumption DEF Time, Runs
  <1>. QED  BY <1>1 DEF Init, TypeOK

\* One operation of a handler at a time.
LEMMA HandleType ==
  ASSUME TypeOK, NEW h \in Handlers, Handle(h)
  PROVE  TypeOK'
  <1>. USE DEF TypeOK, Goto, Answer, serverVars, callVars
  <1>1. CASE Hit(h)
    <2>1. PICK e \in FindScan(mem, iface[h]) : Answer(h, "cached", {e.aps}, e.at)
      BY <1>1 DEF Hit
    <2>2. e \in Entry
      BY <2>1 DEF FindScan
    <2>3. [kind |-> "cached", aps |-> {e.aps}, at |-> e.at] \in Reply
      BY <2>2 DEF Entry, Reply
    <2>. QED  BY <1>1, <2>1, <2>3 DEF Hit
  <1>2. CASE Miss(h)
    BY <1>2, BoundAssumption DEF Miss, Time
  <1>3. CASE ScanReturns(h)
    <2>1. [of |-> iface[h], seen |-> now, run |-> run] \in Result
      BY DEF Result
    <2>. QED  BY <1>3, <2>1 DEF ScanReturns
  <1>4. CASE ScanFails(h)
    <2>1. [kind |-> "error", aps |-> {}, at |-> 0] \in Reply
      BY BoundAssumption DEF Reply, Time
    <2>. QED  BY <1>4, <2>1 DEF ScanFails
  <1>5. CASE Stamp(h)
    BY <1>5 DEF Stamp
  <1>6. CASE Put(h)
    <2>1. PICK aps \in got[h] :
            mem' = PutScan(mem, [iface |-> iface[h], at |-> at[h], aps |-> aps])
      BY <1>6 DEF Put
    <2>2. [iface |-> iface[h], at |-> at[h], aps |-> aps] \in Entry
      BY <2>1 DEF Entry
    <2>3. mem' \in SUBSET Entry
      BY <2>1, <2>2 DEF PutScan
    <2>. QED  BY <1>6, <2>3 DEF Put
  <1>7. CASE Persist(h)
    <2>1. [kind |-> "scanned", aps |-> got[h], at |-> at[h]] \in Reply
      BY DEF Reply
    <2>2. 0 \in Time
      BY BoundAssumption DEF Time
    <2>. QED  BY <1>7, <2>1, <2>2 DEF Persist, Forget
  <1>8. CASE PersistFails(h)
    <2>1. [kind |-> "scanned", aps |-> got[h], at |-> at[h]] \in Reply
      BY DEF Reply
    <2>2. 0 \in Time
      BY BoundAssumption DEF Time
    <2>. QED  BY <1>8, <2>1, <2>2 DEF PersistFails, Forget
  <1>. QED  BY <1>1, <1>2, <1>3, <1>4, <1>5, <1>6, <1>7, <1>8 DEF Handle

LEMMA StepType == TypeOK /\ [Next]_vars => TypeOK'
  <1>. SUFFICES ASSUME TypeOK, [Next]_vars PROVE TypeOK'
    OBVIOUS
  <1>1. ASSUME NEW h \in Handlers, NEW i \in Interfaces, Receive(h, i) PROVE TypeOK'
    BY <1>1 DEF Receive, Goto, TypeOK, serverVars
  <1>2. ASSUME NEW h \in Handlers, Handle(h) PROVE TypeOK'
    BY <1>2, HandleType
  <1>3. CASE Tick
    BY <1>3, BoundAssumption DEF Tick, TypeOK, Time, callVars
  <1>4. CASE Crash
    <2>1. 0 \in Time
      BY BoundAssumption DEF Time
    <2>. QED  BY <1>4, <2>1 DEF Crash, TypeOK
  <1>5. ASSUME NEW H \in SUBSET Interfaces, Start(H) PROVE TypeOK'
    <2>1. mem' \in SUBSET Entry
      BY <1>5 DEF Start, TypeOK, Load
    <2>. QED  BY <1>5, <2>1, BoundAssumption DEF Start, TypeOK, Runs, callVars
  <1>6. CASE UNCHANGED vars
    BY <1>6 DEF vars, TypeOK
  <1>. QED  BY <1>1, <1>2, <1>3, <1>4, <1>5, <1>6 DEF Next

\* TypeOK: every variable keeps its type, whatever overlaps or crashes.
THEOREM TypeCorrect == Spec => []TypeOK
  BY InitType, StepType, PTL DEF Spec

-----------------------------------------------------------------------------
(* One entry per interface *)

LEMMA PutScanOneEntry ==
  ASSUME NEW c, NEW e, OneEntry(c)
  PROVE  OneEntry(PutScan(c, e))
  BY DEF OneEntry, PutScan

\* OneEntryPerInterface: putScan replaces, Load filters and a file is always a
\* whole marshalled cache, so no interface ever has two entries.
THEOREM OneEntryCorrect == Spec => []OneEntryPerInterface
  <1>1. Init => OneEntryPerInterface
    BY DEF Init, OneEntryPerInterface, OneEntry
  <1>2. TypeOK /\ OneEntryPerInterface /\ [Next]_vars => OneEntryPerInterface'
    <2>. SUFFICES ASSUME TypeOK, OneEntryPerInterface, [Next]_vars
                  PROVE  OneEntryPerInterface'
      OBVIOUS
    <2>1. ASSUME NEW h \in Handlers, Put(h) PROVE OneEntryPerInterface'
      <3>1. OneEntry(mem')
        BY <2>1, PutScanOneEntry DEF Put, OneEntryPerInterface
      <3>. QED  BY <2>1, <3>1 DEF Put, OneEntryPerInterface, TypeOK
    <2>2. ASSUME NEW h \in Handlers, Persist(h) PROVE OneEntryPerInterface'
      BY <2>2 DEF Persist, Forget, OneEntryPerInterface, OneEntry, TypeOK
    <2>6. ASSUME NEW h \in Handlers, PersistFails(h) PROVE OneEntryPerInterface'
      BY <2>6 DEF PersistFails, Forget, OneEntryPerInterface, OneEntry, TypeOK
    <2>3. CASE Crash
      BY <2>3 DEF Crash, OneEntryPerInterface, OneEntry
    <2>4. ASSUME NEW H \in SUBSET Interfaces, Start(H) PROVE OneEntryPerInterface'
      BY <2>4 DEF Start, Load, OneEntryPerInterface, OneEntry, callVars
    <2>5. CASE UNCHANGED <<mem, disk, blob>>
      BY <2>5 DEF OneEntryPerInterface, OneEntry
    <2>. QED
      BY <2>1, <2>2, <2>3, <2>4, <2>5, <2>6
      DEF Next, Handle, vars, callVars, Receive, Hit, Miss, ScanReturns, ScanFails,
          Stamp, Tick
  <1>. QED  BY <1>1, <1>2, TypeCorrect, PTL DEF Spec

-----------------------------------------------------------------------------
(* What a client is shown *)

LEMMA PutScanGenuine ==
  ASSUME NEW c, NEW e, Genuine(c), Filtered(c),
         GenuineEntry(e), e.iface \notin hidden
  PROVE  Genuine(PutScan(c, e)) /\ Filtered(PutScan(c, e))
  BY DEF Genuine, Filtered, PutScan

LEMMA InitIInv == Init => IInv
  BY InitType DEF Init, IInv, Genuine, Filtered, Held, Answered

\* A step that leaves the run, the exclusions and the entries alone keeps what
\* is known of them; only the handlers need a look.
LEMMA SameEntries ==
  ASSUME IInv, UNCHANGED <<run, hidden, mem, disk, blob>>
  PROVE  /\ Genuine(mem)' /\ Filtered(mem)'
         /\ Genuine(disk)' /\ Filtered(disk)'
         /\ \A h \in Handlers : Genuine(blob[h])' /\ Filtered(blob[h])'
  BY DEF IInv, Genuine, GenuineEntry, Filtered

LEMMA ReceiveIInv ==
  ASSUME IInv, NEW h \in Handlers, NEW i \in Interfaces, Receive(h, i), TypeOK'
  PROVE  IInv'
  <1>1. ASSUME NEW k \in Handlers PROVE Held(k)' /\ Answered(k)'
    BY DEF IInv, TypeOK, Receive, Goto, Held, Answered, serverVars
  <1>2. up'
    BY DEF Receive, Goto, serverVars
  <1>. QED  BY <1>1, <1>2, SameEntries DEF IInv, Receive, serverVars

LEMMA HandleIInv ==
  ASSUME IInv, NEW h \in Handlers, Handle(h), TypeOK'
  PROVE  IInv'
  <1>. USE DEF serverVars, callVars
  <1>0. up'
    BY DEF Handle, Hit, Miss, ScanReturns, ScanFails, Stamp, Put, Persist, PersistFails, Goto
  <1>1. CASE Hit(h)
    <2>1. PICK e \in mem : /\ e.iface = iface[h]
                           /\ Fresh(e, asked[h])
                           /\ Answer(h, "cached", {e.aps}, e.at)
      BY <1>1 DEF Hit, FindScan
    <2>2. GenuineEntry(e) /\ (e.aps.run = run => e.iface \notin hidden)
      BY DEF IInv, Genuine, Filtered
    <2>3. e.aps.run \in Nat /\ run \in Nat
      BY BoundAssumption DEF IInv, TypeOK, Entry, Result, Runs
    <2>4. ASSUME NEW k \in Handlers PROVE Held(k)'
      BY <1>1 DEF Hit, Goto, IInv, TypeOK, Held
    <2>5. ASSUME NEW k \in Handlers PROVE Answered(k)'
      <3>1. UNCHANGED <<run, hidden, iface, asked>>
        BY <1>1 DEF Hit
      <3>2. e.aps.run <= run /\ (iface[h] \in hidden => e.aps.run < run)
        BY <2>1, <2>2, <2>3 DEF GenuineEntry
      <3>3. CASE k = h
        <4>1. reply'[k] = {[kind |-> "cached", aps |-> {e.aps}, at |-> e.at]}
          BY <2>1, <3>3 DEF Answer, IInv, TypeOK
        <4>. QED  BY <2>1, <2>2, <3>1, <3>2, <3>3, <4>1 DEF Answered, GenuineEntry, Fresh
      <3>4. CASE k # h
        <4>1. reply'[k] = reply[k]
          BY <2>1, <3>4 DEF Answer, IInv, TypeOK
        <4>. QED  BY <3>1, <4>1 DEF IInv, Answered
      <3>. QED  BY <3>3, <3>4
    <2>. QED  BY <1>0, <1>1, <2>4, <2>5, SameEntries DEF Hit, IInv
  <1>2. CASE Miss(h)
    <2>1. ASSUME NEW k \in Handlers PROVE Held(k)'
      BY <1>2 DEF Miss, Goto, IInv, TypeOK, Held
    <2>2. ASSUME NEW k \in Handlers, NEW r \in reply[k] PROVE 0 <= r.at + TTL
      BY <2>2, BoundAssumption, TTLAssumption DEF IInv, TypeOK, Reply, Time
    <2>3. ASSUME NEW k \in Handlers PROVE Answered(k)'
      BY <1>2, <2>2 DEF Miss, IInv, TypeOK, Answered
    <2>. QED  BY <1>0, <1>2, <2>1, <2>3, SameEntries DEF Miss, IInv
  <1>3. CASE ScanReturns(h)
    <2>1. now \in Nat
      BY BoundAssumption DEF IInv, TypeOK, Time
    <2>2. ASSUME NEW k \in Handlers PROVE Held(k)'
      BY <1>3, <2>1 DEF ScanReturns, Goto, IInv, TypeOK, Held
    <2>3. ASSUME NEW k \in Handlers PROVE Answered(k)'
      BY <1>3 DEF ScanReturns, IInv, Answered
    <2>. QED  BY <1>0, <1>3, <2>2, <2>3, SameEntries DEF ScanReturns, IInv
  <1>4. CASE ScanFails(h)
    <2>1. ASSUME NEW k \in Handlers PROVE Held(k)'
      BY <1>4 DEF ScanFails, Goto, IInv, TypeOK, Held
    <2>2. ASSUME NEW k \in Handlers PROVE Answered(k)'
      BY <1>4 DEF ScanFails, Answer, IInv, TypeOK, Answered
    <2>. QED  BY <1>0, <1>4, <2>1, <2>2, SameEntries DEF ScanFails, IInv
  <1>5. CASE Stamp(h)
    <2>1. ASSUME NEW k \in Handlers PROVE Held(k)'
      BY <1>5 DEF Stamp, Goto, IInv, TypeOK, Held
    <2>2. ASSUME NEW k \in Handlers PROVE Answered(k)'
      BY <1>5 DEF Stamp, IInv, Answered
    <2>. QED  BY <1>0, <1>5, <2>1, <2>2, SameEntries DEF Stamp, IInv
  <1>6. CASE Put(h)
    <2>1. PICK aps \in got[h] :
            mem' = PutScan(mem, [iface |-> iface[h], at |-> at[h], aps |-> aps])
      BY <1>6 DEF Put
    <2>2. /\ aps.of = iface[h]
          /\ aps.seen <= at[h]
          /\ aps.run = run
          /\ iface[h] \notin hidden
      BY <1>6, <2>1 DEF Put, Goto, IInv, Held
    <2>3. run <= run
      BY BoundAssumption DEF IInv, TypeOK, Runs
    <2>4. Genuine(mem') /\ Filtered(mem')
      BY <2>1, <2>2, <2>3, PutScanGenuine DEF IInv, GenuineEntry
    <2>5. UNCHANGED <<run, hidden, disk>>
      BY <1>6 DEF Put
    <2>6. \A e : GenuineEntry(e)' <=> GenuineEntry(e)
      BY <2>5 DEF GenuineEntry
    <2>7. /\ Genuine(mem)' /\ Filtered(mem)'
          /\ Genuine(disk)' /\ Filtered(disk)'
      BY <2>4, <2>5, <2>6 DEF IInv, Genuine, Filtered
    <2>8. ASSUME NEW k \in Handlers PROVE Genuine(blob[k])' /\ Filtered(blob[k])'
      BY <1>6, <2>4, <2>5, <2>6 DEF Put, IInv, TypeOK, Genuine, Filtered
    <2>9. ASSUME NEW k \in Handlers PROVE Held(k)' /\ Answered(k)'
      BY <1>6 DEF Put, Goto, IInv, TypeOK, Held, Answered
    <2>. QED  BY <1>0, <2>7, <2>8, <2>9 DEF IInv
  <1>7. ASSUME Persist(h) \/ PersistFails(h) PROVE IInv'
    <2>1. UNCHANGED <<run, hidden, mem>> /\ disk' \in {disk, blob[h]}
      BY <1>7 DEF Persist, PersistFails
    <2>2. \A e : GenuineEntry(e)' <=> GenuineEntry(e)
      BY <2>1 DEF GenuineEntry
    <2>3. /\ Genuine(mem)' /\ Filtered(mem)'
          /\ Genuine(disk)' /\ Filtered(disk)'
      BY <2>1, <2>2 DEF IInv, Genuine, Filtered
    <2>4. ASSUME NEW k \in Handlers PROVE Genuine(blob[k])' /\ Filtered(blob[k])'
      BY <1>7, <2>1, <2>2
      DEF Persist, PersistFails, Forget, IInv, TypeOK, Genuine, Filtered
    <2>5. \A a \in got[h] : a.seen <= at[h] /\ a.run <= run
      BY <1>7, BoundAssumption
      DEF Persist, PersistFails, Goto, IInv, Held, TypeOK, Runs
    <2>6. ASSUME NEW k \in Handlers PROVE Held(k)'
      BY <1>7 DEF Persist, PersistFails, Goto, Forget, IInv, TypeOK, Held
    <2>7. Answer(h, "scanned", got[h], at[h]) /\ UNCHANGED <<iface, asked>>
      BY <1>7 DEF Persist, PersistFails
    <2>8. ASSUME NEW k \in Handlers PROVE Answered(k)'
      BY <2>1, <2>5, <2>7 DEF Answer, IInv, Held, TypeOK, Answered
    <2>. QED  BY <1>0, <2>3, <2>4, <2>6, <2>8 DEF IInv
  <1>. QED  BY <1>1, <1>2, <1>3, <1>4, <1>5, <1>6, <1>7 DEF Handle

\* Load keeps entries of earlier runs only: none can be a scan of this run.
LEMMA StartIInv ==
  ASSUME IInv, NEW H \in SUBSET Interfaces, Start(H), TypeOK'
  PROVE  IInv'
  <1>1. run \in Nat /\ run' = run + 1 /\ mem' \subseteq disk /\ disk' = disk
    BY BoundAssumption DEF IInv, TypeOK, Runs, Start, Load
  <1>2. ASSUME NEW e \in disk PROVE GenuineEntry(e)' /\ e.aps.run # run'
    <2>1. e.aps.run <= run /\ e.aps.run \in Nat
      BY BoundAssumption DEF IInv, TypeOK, Entry, Result, Runs, Genuine, GenuineEntry
    <2>. QED  BY <1>1, <2>1 DEF IInv, Genuine, GenuineEntry
  <1>3. /\ Genuine(mem)' /\ Filtered(mem)'
        /\ Genuine(disk)' /\ Filtered(disk)'
    BY <1>1, <1>2 DEF Genuine, Filtered
  <1>4. \A h \in Handlers : got[h]' = {} /\ blob[h]' = {} /\ reply[h]' = {}
    BY DEF Start, callVars, IInv
  <1>. QED  BY <1>3, <1>4 DEF IInv, Start, Genuine, Filtered, Held, Answered

LEMMA StepIInv ==
  ASSUME IInv, [Next]_vars
  PROVE  IInv'
  <1>1. TypeOK'
    BY StepType DEF IInv
  <1>2. ASSUME NEW h \in Handlers, NEW i \in Interfaces, Receive(h, i) PROVE IInv'
    BY <1>1, <1>2, ReceiveIInv
  <1>3. ASSUME NEW h \in Handlers, Handle(h) PROVE IInv'
    BY <1>1, <1>3, HandleIInv
  <1>4. CASE Tick
    <2>1. now \in Nat /\ now' = now + 1
      BY <1>4, BoundAssumption DEF Tick, IInv, TypeOK, Time
    <2>2. ASSUME NEW h \in Handlers PROVE Held(h)'
      <3>1. ASSUME NEW a \in got[h] PROVE a.seen \in Nat
        BY <3>1, BoundAssumption DEF IInv, TypeOK, Result, Time
      <3>. QED  BY <1>4, <2>1, <3>1 DEF Tick, callVars, IInv, Held
    <2>3. ASSUME NEW h \in Handlers PROVE Answered(h)'
      BY <1>4 DEF Tick, callVars, IInv, Answered
    <2>. QED  BY <1>1, <1>4, <2>2, <2>3, SameEntries DEF Tick, callVars, IInv
  <1>5. CASE Crash
    <2>1. \A e : GenuineEntry(e)' <=> GenuineEntry(e)
      BY <1>5 DEF Crash, GenuineEntry
    <2>. QED
      BY <1>1, <1>5, <2>1 DEF Crash, IInv, Genuine, Filtered, Held, Answered
  <1>6. ASSUME NEW H \in SUBSET Interfaces, Start(H) PROVE IInv'
    BY <1>1, <1>6, StartIInv
  <1>7. CASE UNCHANGED vars
    <2>1. ASSUME NEW h \in Handlers PROVE Held(h)' /\ Answered(h)'
      BY <1>7 DEF vars, IInv, Held, Answered
    <2>. QED  BY <1>1, <1>7, <2>1, SameEntries DEF vars, IInv
  <1>. QED  BY <1>2, <1>3, <1>4, <1>5, <1>6, <1>7 DEF Next

LEMMA Inductive == Spec => []IInv
  BY InitIInv, StepIInv, PTL DEF Spec

\* ServedFresh: whatever a client is shown is a scan of the interface it asked
\* for, and a cached one was recorded within the TTL of the request.
THEOREM ServedFreshCorrect == Spec => []ServedFresh
  <1>1. IInv => ServedFresh
    BY DEF IInv, Answered, ServedFresh
  <1>. QED  BY <1>1, Inductive, PTL

\* HiddenNotScanned: only a scan an earlier run left in the file can show a
\* client an interface the present run excludes.
THEOREM HiddenNotScannedCorrect == Spec => []HiddenNotScanned
  <1>1. IInv => HiddenNotScanned
    BY DEF IInv, Answered, HiddenNotScanned
  <1>. QED  BY <1>1, Inductive, PTL

-----------------------------------------------------------------------------
(* The cache file catches up with memory *)

\* The image of the last Put, while it is not written yet, is all of memory; once
\* it is written, and nothing older after it, the file is.
CaughtUp ==
  /\ up \/ last = {}
  /\ \A h, k \in last : h = k
  /\ \A h \in last : pc[h] = "persist" => blob[h] = mem
  /\ up /\ ~behind /\ (\A h \in last : pc[h] # "persist") => mem \subseteq disk

LEMMA HandleCaughtUp ==
  ASSUME TypeOK, CaughtUp, NEW h \in Handlers, Handle(h)
  PROVE  CaughtUp'
  <1>1. CASE Put(h)
    <2>1. up' /\ last' = {h} /\ pc'[h] = "persist" /\ blob'[h] = mem'
      BY <1>1 DEF Put, Goto, TypeOK, serverVars
    <2>. QED  BY <2>1 DEF CaughtUp
  <1>2. CASE Persist(h)
    <2>1. /\ pc[h] = "persist" /\ pc'[h] = "idle"
          /\ \A k \in Handlers \ {h} : pc'[k] = pc[k] /\ blob'[k] = blob[k]
          /\ up' /\ UNCHANGED <<mem, last>>
          /\ disk' = blob[h]
          /\ ~behind' => h \in last
      BY <1>2 DEF Persist, Goto, Forget, TypeOK, serverVars
    <2>2. last \subseteq Handlers
      BY DEF TypeOK
    <2>. QED  BY <2>1, <2>2 DEF CaughtUp
  <1>3. CASE PersistFails(h)
    <2>1. /\ pc[h] = "persist" /\ pc'[h] = "idle"
          /\ \A k \in Handlers \ {h} : pc'[k] = pc[k] /\ blob'[k] = blob[k]
          /\ UNCHANGED <<up, mem, disk, last>>
          /\ ~behind' => ~behind /\ h \notin last
      BY <1>3 DEF PersistFails, Goto, Forget, TypeOK, serverVars
    <2>2. last \subseteq Handlers
      BY DEF TypeOK
    <2>. QED  BY <2>1, <2>2 DEF CaughtUp
  <1>4. CASE Hit(h) \/ Miss(h) \/ ScanReturns(h) \/ ScanFails(h) \/ Stamp(h)
    <2>1. /\ pc[h] # "persist" /\ pc'[h] # "persist"
          /\ \A k \in Handlers \ {h} : pc'[k] = pc[k]
      BY <1>4 DEF Hit, Miss, ScanReturns, ScanFails, Stamp, Goto, TypeOK
    <2>2. UNCHANGED <<up, mem, disk, last, behind, blob>>
      BY <1>4 DEF Hit, Miss, ScanReturns, ScanFails, Stamp, serverVars
    <2>3. last \subseteq Handlers
      BY DEF TypeOK
    <2>. QED  BY <2>1, <2>2, <2>3 DEF CaughtUp
  <1>. QED  BY <1>1, <1>2, <1>3, <1>4 DEF Handle

LEMMA StepCaughtUp == TypeOK /\ CaughtUp /\ [Next]_vars => CaughtUp'
  <1>. SUFFICES ASSUME TypeOK, CaughtUp, [Next]_vars PROVE CaughtUp'
    OBVIOUS
  <1>1. ASSUME NEW h \in Handlers, NEW i \in Interfaces, Receive(h, i) PROVE CaughtUp'
    <2>1. /\ pc[h] # "persist" /\ pc'[h] # "persist"
          /\ \A k \in Handlers \ {h} : pc'[k] = pc[k]
      BY <1>1 DEF Receive, Goto, TypeOK
    <2>2. UNCHANGED <<up, mem, disk, last, behind, blob>>
      BY <1>1 DEF Receive, serverVars
    <2>3. last \subseteq Handlers
      BY DEF TypeOK
    <2>. QED  BY <2>1, <2>2, <2>3 DEF CaughtUp
  <1>2. ASSUME NEW h \in Handlers, Handle(h) PROVE CaughtUp'
    BY <1>2, HandleCaughtUp
  <1>3. CASE Tick
    BY <1>3 DEF Tick, CaughtUp, callVars
  <1>4. CASE Crash
    BY <1>4 DEF Crash, CaughtUp
  <1>5. ASSUME NEW H \in SUBSET Interfaces, Start(H) PROVE CaughtUp'
    <2>1. mem' \subseteq disk'
      BY <1>5 DEF Start, Load
    <2>. QED  BY <1>5, <2>1 DEF Start, CaughtUp, callVars
  <1>6. CASE UNCHANGED vars
    BY <1>6 DEF vars, CaughtUp
  <1>. QED  BY <1>1, <1>2, <1>3, <1>4, <1>5, <1>6 DEF Next

\* PersistedWhenQuiet: only a failed or an overtaken write leaves the file behind.
THEOREM PersistedWhenQuietCorrect == Spec => []PersistedWhenQuiet
  <1>1. Init => CaughtUp
    BY DEF Init, CaughtUp
  <1>2. TypeOK /\ CaughtUp => PersistedWhenQuiet
    <2>. SUFFICES ASSUME TypeOK, CaughtUp, Quiet, ~behind PROVE mem \subseteq disk
      BY DEF PersistedWhenQuiet
    <2>1. \A h \in last : pc[h] # "persist"
      BY DEF TypeOK, Quiet
    <2>. QED  BY <2>1 DEF CaughtUp, Quiet
  <1>. QED  BY <1>1, <1>2, StepCaughtUp, TypeCorrect, PTL DEF Spec

-----------------------------------------------------------------------------
(* What a request is answered *)

\* A request under way has no answer yet, and nothing of a scan before its own.
Waiting(h) ==
  /\ pc[h] # "idle" => reply[h] = {}
  /\ pc[h] \in {"get", "scan"} => got[h] = {}

Excused(h) == \A r \in reply[h] : r.kind = "error" => got[h] = {}

AnswerInv == \A h \in Handlers : Waiting(h) /\ Excused(h)

LEMMA HandleAnswerInv ==
  ASSUME TypeOK, AnswerInv, NEW h \in Handlers, Handle(h)
  PROVE  AnswerInv'
  <1>1. \A k \in Handlers \ {h} :
          pc'[k] = pc[k] /\ reply'[k] = reply[k] /\ got'[k] = got[k]
    BY DEF Handle, Hit, Miss, ScanReturns, ScanFails, Stamp, Put, Persist, PersistFails,
           Goto, Answer, TypeOK
  <1>2. ASSUME NEW k \in Handlers \ {h} PROVE Waiting(k)' /\ Excused(k)'
    BY <1>1 DEF AnswerInv, Waiting, Excused
  <1>3. CASE Hit(h) \/ Persist(h) \/ PersistFails(h)
    <2>1. /\ pc'[h] = "idle"
          /\ \A r \in reply'[h] : r.kind # "error"
      BY <1>3 DEF Hit, Persist, PersistFails, Goto, Answer, TypeOK
    <2>. QED  BY <1>2, <2>1 DEF AnswerInv, Waiting, Excused
  <1>4. CASE ScanFails(h)
    <2>1. pc'[h] = "idle" /\ pc[h] = "scan" /\ got' = got
      BY <1>4 DEF ScanFails, Goto, TypeOK
    <2>2. got'[h] = {}
      BY <2>1 DEF AnswerInv, Waiting
    <2>. QED  BY <1>2, <2>1, <2>2 DEF AnswerInv, Waiting, Excused
  <1>5. CASE Miss(h) \/ ScanReturns(h) \/ Stamp(h) \/ Put(h)
    <2>1. pc[h] # "idle" /\ UNCHANGED reply
      BY <1>5 DEF Miss, ScanReturns, Stamp, Put, Goto
    <2>2. reply'[h] = {}
      BY <2>1 DEF AnswerInv, Waiting
    <2>3. pc'[h] \in {"get", "scan"} => got'[h] = {}
      BY <1>5 DEF Miss, ScanReturns, Stamp, Put, Goto, AnswerInv, Waiting, TypeOK
    <2>. QED  BY <1>2, <2>2, <2>3 DEF AnswerInv, Waiting, Excused
  <1>. QED  BY <1>3, <1>4, <1>5 DEF Handle

LEMMA StepAnswerInv == TypeOK /\ AnswerInv /\ [Next]_vars => AnswerInv'
  <1>. SUFFICES ASSUME TypeOK, AnswerInv, [Next]_vars PROVE AnswerInv'
    OBVIOUS
  <1>1. ASSUME NEW h \in Handlers, NEW i \in Interfaces, Receive(h, i) PROVE AnswerInv'
    <2>1. /\ reply'[h] = {} /\ got'[h] = {}
          /\ \A k \in Handlers \ {h} :
               pc'[k] = pc[k] /\ reply'[k] = reply[k] /\ got'[k] = got[k]
      BY <1>1 DEF Receive, Goto, TypeOK
    <2>. QED  BY <2>1 DEF AnswerInv, Waiting, Excused
  <1>2. CASE UNCHANGED <<pc, reply, got>>
    BY <1>2 DEF AnswerInv, Waiting, Excused
  <1>3. CASE Crash
    BY <1>3 DEF Crash, AnswerInv, Waiting, Excused
  <1>. QED
    BY <1>1, <1>2, <1>3, HandleAnswerInv DEF Next, Tick, Start, callVars, vars

\* WriteFailureHidden: an error is answered only by a request that has no scan.
THEOREM WriteFailureHiddenCorrect == Spec => []WriteFailureHidden
  <1>1. Init => AnswerInv
    BY DEF Init, AnswerInv, Waiting, Excused
  <1>2. AnswerInv => WriteFailureHidden
    BY DEF AnswerInv, Excused, WriteFailureHidden
  <1>. QED  BY <1>1, <1>2, StepAnswerInv, TypeCorrect, PTL DEF Spec

-----------------------------------------------------------------------------
(* The server is a ScanService *)

LEMMA Stages ==
  /\ Stage("idle") = "free"
  /\ Stage("get") = "asked"
  /\ Stage("scan") = "scanning"
  /\ Stage("stamp") = "scanned"
  /\ Stage("put") = "scanned"
  /\ Stage("persist") = "recorded"
  BY DEF Stage

\* A step of a handler is a step of its request.
LEMMA Moved ==
  ASSUME TypeOK, NEW h \in Handlers, NEW from, NEW to,
         Goto(h, from, to), UNCHANGED serverVars
  PROVE  Service!Move(h, Stage(from), Stage(to))
  BY DEF TypeOK, Goto, serverVars, Service!Move

LEMMA Told ==
  ASSUME TypeOK, NEW h \in Handlers, NEW kind, NEW aps, NEW t, Answer(h, kind, aps, t)
  PROVE  Service!Tell(h, kind, aps)
  <1>1. \A k \in Handlers \ {h} : Shown(k)' = Shown(k)
    BY DEF TypeOK, Answer, Shown
  <1>2. Shown(h)' = {[kind |-> kind, aps |-> aps]}
    <2>1. reply'[h] = {[kind |-> kind, aps |-> aps, at |-> t]}
      BY DEF TypeOK, Answer
    <2>. QED  BY <2>1 DEF Shown
  <1>. QED  BY <1>1, <1>2 DEF Service!Tell

LEMMA NothingTold ==
  ASSUME UNCHANGED reply
  PROVE  UNCHANGED [h \in Handlers |-> Shown(h)]
  BY DEF Shown

\* Only Put adds to what is known: a file is an image that was in flight, an image
\* is the memory, and a restarted server reads no more than the file.
LEMMA Kept ==
  ASSUME TypeOK,
         mem' \subseteq Known,
         disk' \subseteq Known,
         \A h \in Handlers : blob'[h] \subseteq Known
  PROVE  Service!Keep
  BY DEF Known, Service!Keep

LEMMA KeptSame ==
  ASSUME UNCHANGED <<mem, disk, blob>>
  PROVE  Service!Keep
  BY DEF Known, Service!Keep

\* No handler holds a time stamp of the future.
Stamped == \A h \in Handlers : at[h] <= now

LEMMA StepStamped == TypeOK /\ Stamped /\ [Next]_vars => Stamped'
  <1>. SUFFICES ASSUME TypeOK, Stamped, [Next]_vars PROVE Stamped'
    OBVIOUS
  <1>1. now \in Nat /\ \A h \in Handlers : at[h] \in Nat
    BY BoundAssumption DEF TypeOK, Time
  <1>2. now' \in Nat /\ now <= now'
    BY <1>1 DEF Next, Handle, Receive, Hit, Miss, ScanReturns, ScanFails, Stamp, Put,
                Persist, PersistFails, Tick, Crash, Start, serverVars, vars
  <1>3. \A h \in Handlers : at'[h] \in {at[h], now, 0}
    BY DEF TypeOK, Next, Handle, Receive, Hit, Miss, ScanReturns, ScanFails, Stamp, Put,
           Persist, PersistFails, Forget, Tick, Crash, Start, callVars, vars
  <1>. QED  BY <1>1, <1>2, <1>3 DEF Stamped

LEMMA ReceiveIsAsk ==
  ASSUME TypeOK, NEW h \in Handlers, NEW i \in Interfaces, Receive(h, i)
  PROVE  Service!Ask(h, i)
  <1>1. Service!Move(h, "free", "asked")
    BY Moved, Stages DEF Receive
  <1>2. [k \in Handlers |-> Shown(k)'] = [[k \in Handlers |-> Shown(k)] EXCEPT ![h] = {}]
    BY DEF Receive, Shown, TypeOK
  <1>. QED  BY <1>1, <1>2, KeptSame DEF Receive, Service!Ask

LEMMA PutIsRecord ==
  ASSUME IInv, Stamped, NEW h \in Handlers, Put(h)
  PROVE  Service!Record(h)
  <1>1. PICK aps \in got[h] :
          mem' = PutScan(mem, [iface |-> iface[h], at |-> at[h], aps |-> aps])
    BY DEF Put
  <1>2. at[h] \in aps.seen..now
    <2>1. aps.seen <= at[h]
      BY <1>1 DEF IInv, Held, Put, Goto
    <2>2. aps.seen \in Nat /\ now \in Nat /\ at[h] \in Nat
      BY <1>1, BoundAssumption DEF IInv, TypeOK, Result, Time
    <2>. QED  BY <2>1, <2>2 DEF Stamped
  <1>3. Known' \subseteq Known \cup {[iface |-> iface[h], at |-> at[h], aps |-> aps]}
    <2>1. mem' \subseteq Known \cup {[iface |-> iface[h], at |-> at[h], aps |-> aps]}
      BY <1>1 DEF PutScan, Known
    <2>2. disk' \subseteq Known
      BY DEF Put, Known
    <2>3. \A k \in Handlers : blob'[k] \in {mem', blob[k]}
      BY DEF Put, IInv, TypeOK
    <2>. QED  BY <2>1, <2>2, <2>3 DEF Known
  <1>4. Service!Move(h, "scanned", "recorded")
    BY Moved, Stages DEF Put, IInv
  <1>. QED  BY <1>1, <1>2, <1>3, <1>4, NothingTold DEF Put, Service!Record

LEMMA PersistIsTellScan ==
  ASSUME TypeOK, NEW h \in Handlers, Persist(h) \/ PersistFails(h)
  PROVE  Service!TellScan(h)
  <1>1. Service!Move(h, "recorded", "free")
    BY Moved, Stages DEF Persist, PersistFails
  <1>2. Service!Tell(h, "scanned", got[h])
    BY Told DEF Persist, PersistFails
  <1>3. \A k \in Handlers : blob'[k] \subseteq Known
    BY DEF Persist, PersistFails, Forget, TypeOK, Known
  <1>4. mem' \subseteq Known /\ disk' \subseteq Known
    BY DEF Persist, PersistFails, Known
  <1>. QED  BY <1>1, <1>2, <1>3, <1>4, Kept DEF Persist, PersistFails, Service!TellScan

LEMMA HandleIsService ==
  ASSUME IInv, Stamped, NEW h \in Handlers, Handle(h)
  PROVE  Service!Next \/ UNCHANGED Service!vars
  <1>0. TypeOK
    BY DEF IInv
  <1>1. CASE Hit(h)
    <2>1. Service!Move(h, "asked", "free")
      BY <1>0, <1>1, Moved, Stages DEF Hit
    <2>2. PICK e \in mem : /\ e.iface = iface[h]
                           /\ asked[h] <= e.at + TTL
                           /\ Answer(h, "cached", {e.aps}, e.at)
      BY <1>1 DEF Hit, FindScan, Fresh
    <2>3. e \in Known /\ Service!Tell(h, "cached", {e.aps})
      BY <1>0, <2>2, Told DEF Known
    <2>4. Service!TellKnown(h)
      BY <1>1, <2>1, <2>2, <2>3, KeptSame DEF Hit, Service!TellKnown
    <2>. QED  BY <2>4 DEF Service!Next
  <1>2. CASE Miss(h)
    <2>1. Service!Move(h, "asked", "scanning")
      BY <1>0, <1>2, Moved, Stages DEF Miss
    <2>2. Service!TurnToRadio(h)
      BY <1>2, <2>1, KeptSame, NothingTold DEF Miss, Service!TurnToRadio
    <2>. QED  BY <2>2 DEF Service!Next
  <1>3. CASE ScanReturns(h)
    <2>1. Service!Move(h, "scanning", "scanned")
      BY <1>0, <1>3, Moved, Stages DEF ScanReturns
    <2>2. Service!TakeScan(h)
      BY <1>3, <2>1, KeptSame, NothingTold DEF ScanReturns, Service!TakeScan
    <2>. QED  BY <2>2 DEF Service!Next
  <1>4. CASE ScanFails(h)
    <2>1. Service!Move(h, "scanning", "free")
      BY <1>0, <1>4, Moved, Stages DEF ScanFails
    <2>2. Service!Tell(h, "error", {})
      BY <1>0, <1>4, Told DEF ScanFails
    <2>3. Service!TellError(h)
      BY <1>4, <2>1, <2>2, KeptSame DEF ScanFails, Service!TellError
    <2>. QED  BY <2>3 DEF Service!Next
  <1>5. CASE Stamp(h)
    <2>1. UNCHANGED [k \in Handlers |-> Stage(pc[k])]
      BY <1>0, <1>5, Stages DEF Stamp, Goto, TypeOK
    <2>2. UNCHANGED Known
      BY <1>5 DEF Stamp, Known
    <2>. QED  BY <1>5, <2>1, <2>2, NothingTold DEF Stamp, serverVars, Service!vars
  <1>6. CASE Put(h)
    BY <1>6, PutIsRecord DEF Service!Next
  <1>7. CASE Persist(h) \/ PersistFails(h)
    BY <1>0, <1>7, PersistIsTellScan DEF Service!Next
  <1>. QED  BY <1>1, <1>2, <1>3, <1>4, <1>5, <1>6, <1>7 DEF Handle

LEMMA CrashIsKill ==
  ASSUME TypeOK, Crash
  PROVE  Service!Kill
  <1>1. /\ [k \in Handlers |-> Stage(pc'[k])] = [k \in Handlers |-> "free"]
        /\ [k \in Handlers |-> Shown(k)'] = [k \in Handlers |-> {}]
    BY Stages DEF Crash, Shown
  <1>2. Service!Keep
    BY Kept DEF Crash, Known
  <1>. QED  BY <1>1, <1>2 DEF Crash, Service!Kill

LEMMA ServiceStep ==
  ASSUME IInv, Stamped, [Next]_vars
  PROVE  Service!Next \/ UNCHANGED Service!vars
  <1>0. TypeOK
    BY DEF IInv
  <1>1. ASSUME NEW h \in Handlers, NEW i \in Interfaces, Receive(h, i)
        PROVE  Service!Next
    BY <1>0, <1>1, ReceiveIsAsk DEF Service!Next
  <1>2. CASE Tick
    <2>1. UNCHANGED <<Known, [k \in Handlers |-> Stage(pc[k])]>>
      BY <1>2 DEF Tick, callVars, Known
    <2>2. Service!Tick
      BY <1>2, <2>1, NothingTold DEF Tick, callVars, Service!Tick
    <2>. QED  BY <2>2 DEF Service!Next
  <1>3. CASE Crash
    BY <1>0, <1>3, CrashIsKill DEF Service!Next
  <1>4. ASSUME NEW H \in SUBSET Interfaces, Start(H) PROVE Service!Next
    <2>1. Service!Keep
      <3>1. mem' \subseteq Known /\ disk' \subseteq Known
        BY <1>4 DEF Start, Load, Known
      <3>2. \A k \in Handlers : blob'[k] \subseteq Known
        BY <1>4 DEF Start, callVars, Known
      <3>. QED  BY <1>0, <3>1, <3>2, Kept
    <2>2. UNCHANGED [k \in Handlers |-> Stage(pc[k])]
      BY <1>4 DEF Start
    <2>3. Service!Start(H)
      BY <1>4, <2>1, <2>2, NothingTold DEF Start, callVars, Service!Start
    <2>. QED  BY <2>3 DEF Service!Next
  <1>5. CASE UNCHANGED vars
    <2>1. UNCHANGED <<Known, [k \in Handlers |-> Stage(pc[k])]>>
      BY <1>5 DEF vars, Known
    <2>. QED  BY <1>5, <2>1, NothingTold DEF vars, Service!vars
  <1>. QED
    BY <1>1, <1>2, <1>3, <1>4, <1>5, HandleIsService DEF Next

\* IsScanService: whatever overlaps, overtakes, fails or is restarted, each request
\* is answered once, with the one scan it took or with one that a request recorded
\* within the TTL, and never with an error once it has a scan (AccessPointServer.Scan
\* and ScanCache together).
THEOREM IsScanServiceCorrect == Spec => IsScanService
  <1>1. Init => Service!Init
    <2>. SUFFICES ASSUME Init PROVE Service!Init
      OBVIOUS
    <2>1. Known = {}
      BY DEF Init, Known
    <2>2. /\ [k \in Handlers |-> Stage(pc[k])] = [k \in Handlers |-> "free"]
          /\ [k \in Handlers |-> Shown(k)] = [k \in Handlers |-> {}]
      BY Stages DEF Init, Shown
    <2>. QED  BY <2>1, <2>2 DEF Init, Service!Init
  <1>2. Init => Stamped
    BY DEF Init, Stamped
  <1>3. IInv /\ Stamped /\ [Next]_vars => [Service!Next]_(Service!vars)
    BY ServiceStep
  <1>. QED  BY <1>1, <1>2, <1>3, StepStamped, TypeCorrect, Inductive, PTL
            DEF Spec, IsScanService, Service!Spec
=============================================================================
