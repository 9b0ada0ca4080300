-------------------------------- MODULE MCWatch --------------------------------
(***************************************************************************)
(* Watch for TLC: all four backends, each from every state of its link.    *)
(***************************************************************************)
EXTENDS Watch
=============================================================================
