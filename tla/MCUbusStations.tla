---------------------------- MODULE MCUbusStations ----------------------------
(***************************************************************************)
(* UbusStations for TLC: two requests, two profiles, two radios, and one   *)
(* section written by hand, which may hold a profile a second time.        *)
(***************************************************************************)
EXTENDS UbusStations, TLC

Symmetry == Permutations(Handlers) \cup Permutations(Profiles) \cup Permutations(Radios)
=============================================================================
