--------------------------------- MODULE MCTui ---------------------------------
(***************************************************************************)
(* Tui for TLC: two interfaces, a list of up to three access points in a   *)
(* viewport of one or two rows, and a margin of one row.  Of the access    *)
(* points one has no id, and one has the id of another.                    *)
(***************************************************************************)
EXTENDS Tui

CONSTANTS wlan0, wlan1, home, twin, blank

TwoIfaces == <<wlan0, wlan1>>

Ids == [a \in APs |-> IF a = blank THEN NoId ELSE IF a = twin THEN home ELSE a]
=============================================================================
