------------------------------ MODULE MCScanCache ------------------------------
(***************************************************************************)
(* ScanCache for TLC: two overlapping requests, two interfaces, an entry   *)
(* that outlives one tick, a clock that lets it expire and one restart.    *)
(***************************************************************************)
EXTENDS ScanCache, TLC

Symmetry == Permutations(Handlers) \cup Permutations(Interfaces)
=============================================================================
