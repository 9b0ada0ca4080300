---------------------------- MODULE MCNetworkManager ---------------------------
(***************************************************************************)
(* NetworkManager for TLC: both adapters, two requests at a time out of    *)
(* these, a visible device and one hidden by either kind of rule.          *)
(***************************************************************************)
EXTENDS NetworkManager, TLC

CONSTANTS wlan0, wlan1, wlan2, home, cafe, old, new, ap1

Ask(op, id, d, security, auto) ==
  [op |-> op, id |-> id, dev |-> d, pin |-> None, security |-> security, auto |-> auto]

MCAsked ==
  {Ask("activate", home, wlan0, Keep, Keep),
   [Ask("activate", cafe, wlan0, Keep, Keep) EXCEPT !.pin = ap1],
   Ask("activate", home, wlan1, Keep, Keep), Ask("activate", cafe, wlan2, Keep, Keep),
   Ask("deactivate", home, wlan0, Keep, Keep),
   Ask("patch", home, wlan0, Keep, "yes"), Ask("patch", home, wlan0, new, Keep),
   Ask("patch", home, wlan0, Open, "no"), Ask("patch", home, wlan0, None, Keep),
   Ask("add", cafe, wlan0, new, "yes"), Ask("delete", home, wlan0, Keep, Keep),
   Ask("scan", home, wlan0, Keep, Keep)}

Symmetry == Permutations(Procs)
=============================================================================
