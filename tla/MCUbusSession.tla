----------------------------- MODULE MCUbusSession -----------------------------
(***************************************************************************)
(* UbusSession for TLC: two goroutines share one client, and the router    *)
(* may forget each of the three sessions it hands out at any moment.       *)
(***************************************************************************)
EXTENDS UbusSession
=============================================================================
