----------------------------- MODULE StatusStream -----------------------------
(***************************************************************************)
(* What a watcher of a connection is promised (wnet.Backend.Watch in       *)
(* internal/wnet/backend.go): a stream of states in which no state is      *)
(* repeated, that says nothing after a terminal one, and that is closed    *)
(* when it has said a terminal one or when it was cut: its caller has gone *)
(* away, or the backend cannot read the connection any more.  The last     *)
(* reason is not in the comment on the interface (lines 206-208), which    *)
(* names a terminal state and the end of the context only: the backends    *)
(* close their streams for it all the same, and it is admitted here.       *)
(***************************************************************************)
CONSTANTS
  States,    \* what a stream may say
  Terminal,  \* the states that end it
  Silent     \* what `last` is before the stream has said anything

VARIABLES
  last,      \* the last state the watcher was told
  open,      \* the stream has not been closed
  cut        \* the stream may be closed without a terminal state

vars == <<last, open, cut>>

Init ==
  /\ last = Silent
  /\ open = TRUE
  /\ cut = FALSE

Say ==
  /\ open
  /\ last \notin Terminal
  /\ last' \in States \ {last}
  /\ UNCHANGED <<open, cut>>

Cut ==
  /\ cut' = TRUE
  /\ UNCHANGED <<last, open>>

Close ==
  /\ open
  /\ last \in Terminal \/ cut
  /\ open' = FALSE
  /\ UNCHANGED <<last, cut>>

Next == Say \/ Cut \/ Close

Spec == Init /\ [][Next]_vars

\* A stream that may be closed is closed.
FairSpec == Spec /\ WF_vars(Close)
=============================================================================
