--------------------------------- MODULE Watch ---------------------------------
(***************************************************************************)
(* Watch of the four backends and the RPC that forwards it: a goroutine    *)
(* looks at the state of a link and puts every change into a channel of    *)
(* one item, the handler (internal/server/connection.go) takes the items   *)
(* out and sends them to the client.  ubus and nmcli poll the state; iwd   *)
(* and nmdbus subscribe to D-Bus signals, and iwd takes the state from the *)
(* signal where nmdbus reads it again.                                     *)
(*                                                                         *)
(* A status is abstracted to its state; pbState maps states one to one.    *)
(***************************************************************************)
EXTENDS Naturals, Sequences

CONSTANTS
  Backends,    \* the adapters of this instance
  SigBuffer,   \* capacity of the signal channel (16 in the code)
  MaxPending   \* bound: signals not yet received

ASSUME BackendsAssumption == Backends \subseteq {"ubus", "nmcli", "iwd", "nmdbus"}
ASSUME BufferAssumption == SigBuffer \in Nat \ {0} /\ MaxPending \in Nat

Signalled == {"iwd", "nmdbus"}

Terminal == {"connected", "failed"}

Silent == "silent"   \* wnet.ConnState(-1)

States == {"unspecified", "idle", "associating", "authenticating",
           "configuring", "connected", "failed", "disconnecting"}

VARIABLES
  backend,    \* the adapter the server runs
  link,       \* the state of the link as its daemon has it
  late,       \* ubus: the deadline of 30 seconds has passed
  pc,         \* where the goroutine is
  held,       \* iwd: the state read when the connection was looked up
  last,       \* the state it offered last
  seen,       \* iwd: sawAssociating
  sigs,       \* signals under way to it, oldest first
  out,        \* the channel of statuses
  client,     \* the last state the client was sent
  ended,      \* the RPC has returned
  cancelled,  \* the client has gone away: ctx is done
  broken,     \* the connection was not found, or a poll failed, or the bus is gone
  missed      \* history: a change was not signalled, its signal was overtaken,
              \* or a read failed

vars == <<backend, link, late, pc, held, last, seen, sigs, out, client, ended,
          cancelled, broken, missed>>

-----------------------------------------------------------------------------
(* The daemons' states and what the adapters make of them. *)

Links ==
  [ubus   |-> {"disabled", "down", "up", "associated", "gone"},
   nmcli  |-> {"unmanaged", "disconnected", "prepare", "needAuth", "ipConfig",
               "activated", "deactivating", "failed", "gone"},
   iwd    |-> {"disconnected", "connecting", "connected", "roaming",
               "disconnecting", "gone"},
   nmdbus |-> {"unmanaged", "disconnected", "prepare", "needAuth", "ipConfig",
               "activated", "deactivating", "failed", "gone"}]

\* From which states a link may change to which.  A section of OpenWrt may be
\* rewritten to anything at any time.
NMChanges ==
  [unmanaged    |-> {"disconnected"},
   disconnected |-> {"prepare", "unmanaged"},
   prepare      |-> {"needAuth", "ipConfig", "failed", "deactivating"},
   needAuth     |-> {"prepare", "failed", "deactivating"},
   ipConfig     |-> {"activated", "failed", "deactivating"},
   activated    |-> {"failed", "deactivating"},
   deactivating |-> {"disconnected", "prepare"},
   failed       |-> {"disconnected"}]

IwdChanges ==
  [disconnected  |-> {"connecting"},
   connecting    |-> {"connected", "disconnecting", "disconnected"},
   connected     |-> {"roaming", "disconnecting", "disconnected"},
   roaming       |-> {"connected", "disconnected"},
   disconnecting |-> {"disconnected"}]

Changes(b, l) ==
  IF b = "ubus" THEN Links.ubus \ {l}
  ELSE IF l = "gone" THEN {}
  ELSE {"gone"} \cup (IF b = "iwd" THEN IwdChanges[l] ELSE NMChanges[l])

\* nmcli's mapState and nmdbus' mapDeviceState.
DeviceState(l) ==
  CASE l = "prepare"      -> "associating"
    [] l = "needAuth"     -> "authenticating"
    [] l = "ipConfig"     -> "configuring"
    [] l = "activated"    -> "connected"
    [] l = "deactivating" -> "disconnecting"
    [] l = "failed"       -> "failed"
    [] l = "disconnected" -> "idle"
    [] OTHER              -> "unspecified"

\* iwd's mapState: association, authentication and DHCP are one state.
StationState(l) ==
  CASE l \in {"connected", "roaming"} -> "connected"
    [] l = "connecting"               -> "associating"
    [] l = "disconnecting"            -> "disconnecting"
    [] l = "disconnected"             -> "idle"
    [] OTHER                          -> "unspecified"

\* ubus' statusFor: an enabled station that is not associated is on its way.
SectionState(l) ==
  CASE l = "associated"     -> "connected"
    [] l \in {"down", "up"} -> "associating"
    [] OTHER                -> "idle"

StateOf(b, l) ==
  CASE b = "ubus" -> SectionState(l)
    [] b = "iwd"  -> StationState(l)
    [] OTHER      -> DeviceState(l)

\* A connection is found under its id: a station section of OpenWrt whatever its
\* state, an active connection of NetworkManager, a station with a network.
Findable(b, l) ==
  CASE b = "ubus" -> l # "gone"
    [] b = "iwd"  -> l \in {"connecting", "connected", "roaming", "disconnecting"}
    [] OTHER      -> l \in {"prepare", "needAuth", "ipConfig", "activated", "deactivating"}

-----------------------------------------------------------------------------
TypeOK ==
  /\ backend \in Backends
  /\ link \in Links[backend]
  /\ late \in BOOLEAN
  /\ pc \in {"lookup", "subscribe", "read", "send", "wait", "closed"}
  /\ held \in Links[backend]
  /\ last \in States \cup {Silent}
  /\ seen \in BOOLEAN
  /\ sigs \in Seq(IF backend = "iwd" THEN Links.iwd ELSE {"changed"})
  /\ out \in Seq(States) /\ Len(out) <= 1
  /\ client \in States \cup {Silent}
  /\ ended \in BOOLEAN
  /\ cancelled \in BOOLEAN
  /\ broken \in BOOLEAN
  /\ missed \in BOOLEAN

Init ==
  /\ backend \in Backends
  /\ link \in Links[backend]
  /\ held = "gone"
  /\ late = FALSE
  /\ pc = "lookup"
  /\ last = Silent
  /\ seen = FALSE
  /\ sigs = <<>>
  /\ out = <<>>
  /\ client = Silent
  /\ ended = FALSE
  /\ cancelled = FALSE
  /\ broken = FALSE
  /\ missed = FALSE

-----------------------------------------------------------------------------
(* The link, the clock and the client. *)

Subscribed ==
  backend \in Signalled /\ pc \notin {"lookup", "subscribe", "closed"}

\* iwd's signals carry the new state; nmdbus takes any as word that it changed.
Signal(l) == IF backend = "iwd" THEN l ELSE "changed"

\* The daemon signals a change of state to those who subscribed; a device that
\* is removed says nothing on the interfaces that are watched.  What the link
\* does when the goroutine has ended is of no matter.
Change ==
  /\ pc # "closed"
  /\ \E l \in Changes(backend, link) :
      /\ link' = l
      /\ sigs' = IF Subscribed /\ l # "gone" THEN Append(sigs, Signal(l)) ELSE sigs
      /\ Len(sigs') <= MaxPending
      /\ missed' = (missed \/ (backend = "iwd" /\ pc = "subscribe"))
      /\ UNCHANGED <<backend, late, pc, held, last, seen, out, client, ended,
                     cancelled, broken>>

Deadline ==
  /\ backend = "ubus" /\ ~late
  /\ late' = TRUE
  /\ UNCHANGED <<backend, link, pc, held, last, seen, sigs, out, client, ended,
                 cancelled, broken, missed>>

Cancel ==
  /\ ~ended /\ ~cancelled
  /\ cancelled' = TRUE
  /\ UNCHANGED <<backend, link, late, pc, held, last, seen, sigs, out, client,
                 ended, broken, missed>>

-----------------------------------------------------------------------------
(* The goroutine. *)

Goto(from, to) == pc = from /\ pc' = to

Break(from) ==
  /\ Goto(from, "closed")
  /\ broken' = TRUE
  /\ sigs' = <<>>
  /\ held' = "gone"
  /\ UNCHANGED <<backend, link, late, last, seen, out, client, ended, cancelled,
                 missed>>

\* Watch looks the connection up, or returns an error.
Lookup ==
  \/ /\ Findable(backend, link)
     /\ Goto("lookup", IF backend \in Signalled THEN "subscribe" ELSE "read")
     /\ held' = IF backend = "iwd" THEN link ELSE held
     /\ UNCHANGED <<backend, link, late, last, seen, sigs, out, client, ended,
                    cancelled, broken, missed>>
  \/ Break("lookup")

\* Faulty variant: ubus polls for as long as it takes.
VerdictPatient(s) ==
  IF backend = "iwd" /\ s = "idle" /\ seen THEN "failed" ELSE s

\* What the adapter says of a state it was given: iwd calls a station that falls
\* back to idle a failure, ubus one that is not connected by the deadline.
Verdict(s) ==
  CASE backend = "iwd"  -> IF s = "idle" /\ seen THEN "failed" ELSE s
    [] backend = "ubus" -> IF s # "connected" /\ late THEN "failed" ELSE s
    [] OTHER            -> s

\* Only a state that differs from the last is sent.  seen is sawAssociating.
Offer(from, s) ==
  /\ Goto(from, IF Verdict(s) = last THEN "wait" ELSE "send")
  /\ last' = Verdict(s)
  /\ seen' = (seen \/ (backend = "iwd" /\ s = "associating"))

\* AddMatchSignal.  iwd goes on with the state it read before it.
Subscribe ==
  \/ /\ backend = "nmdbus"
     /\ Goto("subscribe", "read")
     /\ UNCHANGED <<backend, link, late, held, last, seen, sigs, out, client,
                    ended, cancelled, broken, missed>>
  \/ /\ backend = "iwd"
     /\ Offer("subscribe", StateOf(backend, held))
     /\ held' = "gone"   \* not used any more
     /\ UNCHANGED <<backend, link, late, sigs, out, client, ended,
                    cancelled, broken, missed>>
  \/ Break("subscribe")

\* What is said of a state that cannot be read: nmdbus takes it for state 0, ubus
\* a station without an answer from iwinfo for idle.
Misread ==
  CASE backend = "nmdbus"                                -> {"unspecified"}
    [] backend = "ubus" /\ link \in {"up", "associated"} -> {"idle"}
    [] OTHER                                             -> {}

\* ubus and nmcli close the stream when a poll fails or the connection is gone.
Read ==
  \/ /\ backend = "nmdbus" \/ link # "gone"
     /\ Offer("read", StateOf(backend, link))
     /\ UNCHANGED <<backend, link, late, held, sigs, out, client, ended,
                    cancelled, broken, missed>>
  \/ /\ \E m \in Misread : Offer("read", m)
     /\ missed' = (missed \/ backend = "nmdbus")
     /\ UNCHANGED <<backend, link, late, held, sigs, out, client, ended,
                    cancelled, broken>>
  \/ backend # "nmdbus" /\ Break("read")

\* Faulty variant: the goroutine goes on after a terminal state.
SendOn ==
  /\ out = <<>>
  /\ Goto("send", "wait")
  /\ out' = <<last>>
  /\ UNCHANGED <<backend, link, late, held, last, seen, sigs, client, ended,
                 cancelled, broken, missed>>

\* Faulty variant: the send does not look at ctx.
SendDeaf ==
  /\ out = <<>>
  /\ Goto("send", IF last \in Terminal THEN "closed" ELSE "wait")
  /\ out' = <<last>>
  /\ UNCHANGED <<backend, link, late, held, last, seen, sigs, client, ended,
                 cancelled, broken, missed>>

\* Faulty variant: it does not wait for room in the channel.
SendOver ==
  /\ Goto("send", IF last \in Terminal THEN "closed" ELSE "wait")
  /\ out' = Append(out, last)
  /\ UNCHANGED <<backend, link, late, held, last, seen, sigs, client, ended,
                 cancelled, broken, missed>>

\* `ch <- st`, when the one-item buffer is empty; or ctx is done.  emit of the
\* signalled backends reports a terminal state as sent also then.
Send ==
  \/ /\ out = <<>>
     /\ Goto("send", IF last \in Terminal THEN "closed" ELSE "wait")
     /\ out' = <<last>>
     /\ UNCHANGED <<backend, link, late, held, last, seen, sigs, client, ended,
                    cancelled, broken, missed>>
  \/ /\ cancelled
     /\ Goto("send", IF backend \in Signalled /\ last \notin Terminal
                     THEN "wait" ELSE "closed")
     /\ UNCHANGED <<backend, link, late, held, last, seen, sigs, out, client,
                    ended, cancelled, broken, missed>>

\* The ticker of the polling backends.
Tick ==
  /\ backend \notin Signalled
  /\ Goto("wait", "read")
  /\ UNCHANGED <<backend, link, late, held, last, seen, sigs, out, client,
                 ended, cancelled, broken, missed>>

\* What is left when a signal is taken from the channel.  Those that found the
\* channel full wait in goroutines of the D-Bus library, and any of these may be
\* the next to get in.  A later one that gets in ahead of them counts as one that came
\* before the last was taken: iwd's goroutine does not look at the link in between.
Rest(q) ==
  {Tail(q)} \cup
  {SubSeq(q, 2, SigBuffer) \o <<q[i]>> \o SubSeq(q, SigBuffer + 1, i - 1)
     \o SubSeq(q, i + 1, Len(q)) : i \in SigBuffer + 1 .. Len(q)}

\* Looking at a signal: iwd's carries the state, nmdbus' says it has changed.
Look(s) ==
  IF backend = "iwd" THEN Offer("wait", StateOf(backend, s))
  ELSE Goto("wait", "read") /\ UNCHANGED <<last, seen>>

\* Faulty variant: of several signals under way only the first is looked at.
ReceiveOne ==
  \/ /\ backend \in Signalled
     /\ sigs # <<>>
     /\ Look(Head(sigs))
     /\ sigs' = <<>>
     /\ UNCHANGED <<backend, link, late, held, out, client, ended, cancelled,
                    broken, missed>>
  \/ backend \in Signalled /\ Break("wait")

Receive ==
  \/ /\ backend \in Signalled
     /\ sigs # <<>>
     /\ Look(Head(sigs))
     /\ \E r \in Rest(sigs) :
          /\ sigs' = r
          /\ missed' = (missed \/ r # Tail(sigs))
     /\ UNCHANGED <<backend, link, late, held, out, client, ended, cancelled, broken>>
  \/ backend \in Signalled /\ Break("wait")

\* `case <-ctx.Done()` while it waits.
Stop ==
  /\ cancelled
  /\ Goto("wait", "closed")
  /\ sigs' = <<>>
  /\ UNCHANGED <<backend, link, late, held, last, seen, out, client, ended,
                 cancelled, broken, missed>>

Goroutine == Lookup \/ Subscribe \/ Read \/ Send \/ Tick \/ Receive \/ Stop

-----------------------------------------------------------------------------
(* The handler: `for st := range ch { stream.Send(...) }`. *)

Forward ==
  /\ ~ended
  /\ out # <<>>
  /\ client' = Head(out)
  /\ out' = Tail(out)
  /\ UNCHANGED <<backend, link, late, pc, held, last, seen, sigs, ended,
                 cancelled, broken, missed>>

\* The channel is closed and drained, or Send fails because the client is gone.
Return ==
  /\ ~ended
  /\ (pc = "closed" /\ out = <<>>) \/ cancelled
  /\ ended' = TRUE
  /\ UNCHANGED <<backend, link, late, pc, held, last, seen, sigs, out, client,
                 cancelled, broken, missed>>

Next == Change \/ Deadline \/ Cancel \/ Goroutine \/ Forward \/ Return

Spec == Init /\ [][Next]_vars

\* The goroutine runs, the client reads what it is sent, time passes, and a
\* select that finds ctx done again and again takes that case once (Go chooses
\* among the ready cases at random).
Fairness ==
  /\ WF_vars(Goroutine)
  /\ SF_vars(Stop)
  /\ WF_vars(Forward)
  /\ WF_vars(Return)
  /\ WF_vars(Deadline)

FairSpec == Spec /\ Fairness

-----------------------------------------------------------------------------
(* Properties. *)

\* What the client of the RPC sees is a StatusStream.
Stream ==
  INSTANCE StatusStream
    WITH last <- client, open <- ~ended, cut <- cancelled \/ broken

Contract == Stream!FairSpec

\* A signalled backend that waits with no signal under way has offered the state
\* the link is in: no change is lost between the reading, the subscription and
\* the signals, but for the exceptions `missed` names and a device that is gone.
NoLostChange ==
  /\ pc = "wait" /\ backend \in Signalled /\ sigs = <<>>
  /\ ~missed /\ ~cancelled /\ link # "gone"
  => last = StateOf(backend, link)

\* A link that stays connected or failed ends the stream; that of ubus is ended
\* by its deadline whatever the link does.
Settled ==
  \/ backend = "ubus"
  \/ StateOf(backend, link) \in Terminal

SettledEnds == <>[](Settled /\ ~missed) => <>ended

\* When the client is gone the goroutine ends: nothing blocks it for good.
CancelReleases == cancelled ~> pc = "closed"
=============================================================================
