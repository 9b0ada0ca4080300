------------------------------ MODULE ScanService ------------------------------
(***************************************************************************)
(* What clients of AccessPointService.Scan are promised, with no cache, no *)
(* file and no lock: a request is answered once, with a scan of its own or *)
(* with one an earlier request recorded within the TTL, and with an error  *)
(* only when it has no scan.  The service knows the scans that were        *)
(* recorded and may forget any of them at any time, but it never invents   *)
(* one: not when requests overlap, and not when the server is restarted.   *)
(***************************************************************************)
EXTENDS Naturals

CONSTANTS
  Handlers,    \* requests that may be under way at once
  Interfaces,  \* interface ids a client may ask for
  TTL          \* how long a recorded scan may be served

VARIABLES
  now,      \* wall clock
  up,       \* is the server running
  run,      \* how many times it was started
  hidden,   \* interfaces this run excludes
  known,    \* scans that were recorded and are not forgotten
  stage,    \* how far a request is
  iface,    \* the interface it asked for
  asked,    \* when it asked, while it may be answered with what is known
  scan,     \* its own scan, {} before it has one
  reply     \* its answer, {} before it has one

Init ==
  /\ now = 0
  /\ up = TRUE
  /\ run = 1
  /\ hidden \in SUBSET Interfaces
  /\ known = {}
  /\ stage = [h \in Handlers |-> "free"]
  /\ iface \in [Handlers -> Interfaces]
  /\ asked = [h \in Handlers |-> 0]
  /\ scan = [h \in Handlers |-> {}]
  /\ reply = [h \in Handlers |-> {}]

Move(h, from, to) ==
  /\ up
  /\ stage[h] = from
  /\ stage' = [stage EXCEPT ![h] = to]
  /\ UNCHANGED <<now, up, run, hidden>>

Tell(h, kind, aps) == reply' = [reply EXCEPT ![h] = {[kind |-> kind, aps |-> aps]}]

\* What is known is forgotten at will, and only Record adds to it.
Keep == known' \subseteq known

Ask(h, i) ==
  /\ Move(h, "free", "asked")
  /\ iface' = [iface EXCEPT ![h] = i]
  /\ asked' = [asked EXCEPT ![h] = now]
  /\ scan' = [scan EXCEPT ![h] = {}]
  /\ reply' = [reply EXCEPT ![h] = {}]
  /\ Keep

TellKnown(h) ==
  /\ Move(h, "asked", "free")
  /\ \E e \in known : /\ e.iface = iface[h]
                      /\ asked[h] <= e.at + TTL
                      /\ Tell(h, "cached", {e.aps})
  /\ Keep
  /\ UNCHANGED <<iface, asked, scan>>

\* The request turns to the radio, and does not come back to what is known.
TurnToRadio(h) ==
  /\ Move(h, "asked", "scanning")
  /\ asked' = [asked EXCEPT ![h] = 0]
  /\ Keep
  /\ UNCHANGED <<iface, scan, reply>>

\* One scan of the radio, of the interface asked for, unless this run excludes it.
TakeScan(h) ==
  /\ Move(h, "scanning", "scanned")
  /\ iface[h] \notin hidden
  /\ scan' = [scan EXCEPT ![h] = {[of |-> iface[h], seen |-> now, run |-> run]}]
  /\ Keep
  /\ UNCHANGED <<iface, asked, reply>>

TellError(h) ==
  /\ Move(h, "scanning", "free")
  /\ Tell(h, "error", {})
  /\ Keep
  /\ UNCHANGED <<iface, asked, scan>>

\* The scan is recorded under an instant between its own and the present one.
Record(h) ==
  /\ Move(h, "scanned", "recorded")
  /\ \E a \in scan[h] : \E t \in a.seen..now :
       known' \subseteq known \cup {[iface |-> iface[h], at |-> t, aps |-> a]}
  /\ UNCHANGED <<iface, asked, scan, reply>>

TellScan(h) ==
  /\ Move(h, "recorded", "free")
  /\ Tell(h, "scanned", scan[h])
  /\ Keep
  /\ UNCHANGED <<iface, asked, scan>>

Tick ==
  /\ now' = now + 1
  /\ UNCHANGED <<up, run, hidden, known, stage, iface, asked, scan, reply>>

\* Requests that were under way are never answered.
Kill ==
  /\ up
  /\ up' = FALSE
  /\ stage' = [h \in Handlers |-> "free"]
  /\ asked' = [h \in Handlers |-> 0]
  /\ scan' = [h \in Handlers |-> {}]
  /\ reply' = [h \in Handlers |-> {}]
  /\ Keep
  /\ UNCHANGED <<now, run, hidden, iface>>

Start(H) ==
  /\ ~up
  /\ up' = TRUE
  /\ run' = run + 1
  /\ hidden' = H
  /\ Keep
  /\ UNCHANGED <<now, stage, iface, asked, scan, reply>>

Next ==
  \/ \E h \in Handlers, i \in Interfaces : Ask(h, i)
  \/ \E h \in Handlers :
       \/ TellKnown(h)
       \/ TurnToRadio(h)
       \/ TakeScan(h)
       \/ TellError(h)
       \/ Record(h)
       \/ TellScan(h)
  \/ Tick
  \/ Kill
  \/ \E H \in SUBSET Interfaces : Start(H)

vars == <<now, up, run, hidden, known, stage, iface, asked, scan, reply>>

Spec == Init /\ [][Next]_vars
=============================================================================
