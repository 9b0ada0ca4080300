----------------------------- MODULE MCIwdProfiles -----------------------------
(***************************************************************************)
(* IwdProfiles for TLC: two requests at a time out of these, on two        *)
(* networks and from three directories.                                    *)
(***************************************************************************)
EXTENDS IwdProfiles, TLC

CONSTANTS home, cafe, oldpass, newpass

Ask(op, id, changes) ==
  changes @@ [op |-> op, id |-> id, ssid |-> Keep, kind |-> Keep, pass |-> NoPass,
              auto |-> Keep, ip |-> Keep]

Profile(op, ssid, kind, pass) ==
  [op |-> op, id |-> <<ssid, kind>>, ssid |-> ssid, kind |-> kind, pass |-> pass,
   auto |-> "yes", ip |-> "none"]

Home == <<home, "psk">>
Cafe == <<cafe, "psk">>

MCAsked ==
  {Profile("add", cafe, "psk", newpass), Profile("connect", home, "psk", newpass),
   Ask("patch", Home, [ssid |-> cafe]),
   Ask("patch", Home, [kind |-> "psk", auto |-> "yes"]),
   Ask("patch", Home, [kind |-> "open", ip |-> "none"]),
   Ask("patch", Cafe, [kind |-> "8021x", ip |-> "address"]),
   Ask("patch", Cafe, [ssid |-> home, kind |-> "psk", pass |-> newpass]),
   Ask("delete", Home, [ssid |-> Keep]), Ask("delete", Cafe, [ssid |-> Keep])}

File(pass, key, auto, ip) ==
  [pass |-> pass, key |-> key, auto |-> auto, ip |-> ip, cut |-> FALSE]

MCStored ==
  {Home :> File(oldpass, FALSE, "no", "address"),
   Home :> File(NoPass, TRUE, "yes", "bare") @@ Cafe :> File(oldpass, TRUE, "no", "none"),
   <<cafe, "8021x">> :> File(NoPass, FALSE, "yes", "none")}
Symmetry == Permutations(Procs)
=============================================================================
