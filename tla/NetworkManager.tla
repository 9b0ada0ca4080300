---------------------------- MODULE NetworkManager ----------------------------
(***************************************************************************)
(* The two NetworkManager backends (internal/wnet/nmdbus over D-Bus and    *)
(* internal/wnet/nmcli through its command) behind the exclusion filter    *)
(* (internal/wnet/exclude.go): requests that activate, deactivate, patch,  *)
(* add and delete profiles and scan, without a lock, while NetworkManager  *)
(* and its other clients change the same devices and connections.          *)
(*                                                                         *)
(* A profile stands for its UUID, which is also that of the active         *)
(* connection made of it.  Of a device's states are kept those the code    *)
(* tells apart while it waits for an activation.                           *)
(***************************************************************************)
EXTENDS Naturals, FiniteSets, Functions

CONSTANTS
  Backends,     \* the adapters of this instance
  Devices,      \* wifi devices
  NameHidden,   \* those hidden by a rule on their name
  LookHidden,   \* those hidden by a rule on mac or pci: they are looked up
  Profiles,     \* UUIDs
  Passes,       \* passphrases
  Stations,     \* access points
  Procs,        \* requests that may be under way at once
  Asked,        \* bound: the requests that are made
  MaxAsked      \* bound: how many, those of other clients included

Hidden == NameHidden \cup LookHidden

None == "none"       \* no profile, no passphrase, no access point
Keep == "keep"       \* a patch does not mention the field
Open == "open"       \* a patch that takes the security away

\* psk: None is no passphrase, or an empty one; eap: the secrets of an enterprise
\* network, in a section of their own, are there.
Settings ==
  [kind : {"open", "psk", "enterprise"}, psk : Passes \cup {None}, eap : BOOLEAN,
   auto : BOOLEAN, pin : Stations \cup {None}]

Requests ==
  [op : {"activate", "deactivate", "patch", "add", "delete", "scan"},
   id : Profiles, dev : Devices, pin : Stations \cup {None},
   security : Passes \cup {None, Open, Keep}, auto : {"yes", "no", Keep}]

NoRequest == [op |-> "none"]

Blank == [kind |-> "open", psk |-> None, eap |-> FALSE, auto |-> FALSE, pin |-> None]

scanAttempts == 4

ASSUME BackendsAssumption == Backends \subseteq {"nmcli", "nmdbus"}
ASSUME HiddenAssumption == Hidden \subseteq Devices /\ None \notin Devices
ASSUME ProfilesAssumption == None \notin Profiles
ASSUME PassesAssumption == {None, Keep, Open} \cap Passes = {}
ASSUME StationsAssumption == None \notin Stations /\ IsFiniteSet(Stations)
ASSUME AskedAssumption == Asked \subseteq Requests /\ MaxAsked \in Nat

VARIABLES
  backend,   \* the adapter the server runs
  dev,       \* the state of a device
  con,       \* the profile it is connected, or connecting, with
  pend,      \* the profile whose activation NetworkManager has accepted for it
  saved,     \* the saved profiles: a function from those that exist
  asked,     \* how many requests were made
  req,       \* the request a goroutine serves
  pc,        \* where it is
  at,        \* Deactivate: the device the filter looked at, None when it had no name
  got,       \* PatchProfile, `nmcli connection modify`: the settings it has read
  tries,     \* Scan: attempts made
  best,      \* Scan: the longest list so far
  heard,     \* history: the length of the longest list a scan has read
  stale,     \* history: requests whose settings changed, or lack the secrets
  muddled,   \* history: waiting requests whose device or profile was in use,
             \* or was activated by another one
  up,        \* history: waiting requests whose profile got activated
  slipped    \* history: requests whose look-up failed in the filter, or found no
             \* mac or pci

nm == <<dev, con, pend>>
notes == <<stale, muddled, up, slipped>>
scan == <<tries, best, heard>>
vars == <<backend, nm, saved, asked, req, pc, at, got, scan, notes>>

-----------------------------------------------------------------------------
TypeOK ==
  /\ backend \in Backends
  /\ dev \in [Devices -> {"idle", "busy", "activated", "failed"}]
  /\ con \in [Devices -> Profiles \cup {None}]
  /\ pend \in [Devices -> Profiles \cup {None}]
  /\ DOMAIN saved \subseteq Profiles /\ saved \in [DOMAIN saved -> Settings]
  /\ asked \in 0 .. MaxAsked
  /\ req \in [Procs -> Requests \cup {NoRequest}]
  /\ pc \in [Procs -> {"done", "resolve", "check", "pin", "call", "wait", "lookup",
                       "get", "secrets", "update", "add", "delete", "scan", "answer"}]
  /\ \A p \in Procs : pc[p] # "done" => req[p] \in Requests
  /\ at \in [Procs -> Devices \cup {None}]
  /\ got \in [Procs -> Settings]
  /\ tries \in [Procs -> 0 .. scanAttempts]
  /\ best \in [Procs -> SUBSET Stations]
  /\ heard \in [Procs -> 0 .. Cardinality(Stations)]
  /\ stale \cup muddled \cup up \cup slipped \subseteq Procs

FirstSaved ==
  {[Blank EXCEPT !.kind = "psk", !.psk = s] : s \in Passes}
    \cup {[Blank EXCEPT !.kind = "enterprise", !.eap = TRUE]}

Init ==
  /\ backend \in Backends
  /\ dev = [d \in Devices |-> "idle"]
  /\ con = [d \in Devices |-> None]
  /\ pend = [d \in Devices |-> None]
  /\ saved \in UNION {[N -> FirstSaved] : N \in SUBSET Profiles}
  /\ asked = 0
  /\ req = [p \in Procs |-> NoRequest]
  /\ pc = [p \in Procs |-> "done"]
  /\ at = [p \in Procs |-> None]
  /\ got = [p \in Procs |-> Blank]
  /\ tries = [p \in Procs |-> 0]
  /\ best = [p \in Procs |-> {}]
  /\ heard = [p \in Procs |-> 0]
  /\ stale = {} /\ muddled = {} /\ up = {} /\ slipped = {}

-----------------------------------------------------------------------------
(* NetworkManager. *)

\* The devices a profile's active connection is on; at most one, and at once
\* when its activation is accepted.
ActiveOn(u) == {d \in Devices : con[d] = u \/ pend[d] = u}

\* A profile leaves the devices D; one that had accepted it was going down for it.
Leave(u, D) ==
  /\ dev' = [d \in Devices |-> IF d \in D \cap ActiveOn(u) THEN "idle" ELSE dev[d]]
  /\ con' = [d \in Devices |-> IF d \in D \cap ActiveOn(u) THEN None ELSE con[d]]

\* ActivateConnection: accepted for a device, taken from any other.
Launch(u, d) ==
  /\ Leave(u, Devices \ {d})
  /\ pend' = [e \in Devices |-> IF e = d THEN u ELSE IF pend[e] = u THEN None ELSE pend[e]]

\* DeactivateConnection, and what follows from the deletion of a profile.
TakeDown(u) ==
  /\ Leave(u, Devices)
  /\ pend' = [d \in Devices |-> IF pend[d] = u THEN None ELSE pend[d]]

Waiting(u) == {p \in Procs : pc[p] \in {"wait", "lookup"} /\ req[p].id = u}

Requesting == UNCHANGED <<backend, saved, asked, req, pc, at, got, scan, stale, slipped>>

\* The device starts on the profile that was accepted for it, whatever it did.
Start(d) ==
  /\ pend[d] # None
  /\ dev' = [dev EXCEPT ![d] = "busy"]
  /\ con' = [con EXCEPT ![d] = pend[d]]
  /\ pend' = [pend EXCEPT ![d] = None]
  /\ UNCHANGED <<muddled, up>> /\ Requesting

Succeed(d) ==
  /\ dev[d] = "busy"
  /\ dev' = [dev EXCEPT ![d] = "activated"]
  /\ up' = up \cup Waiting(con[d])
  /\ UNCHANGED <<con, pend, muddled>> /\ Requesting

\* A device that failed is soon idle again.
GoDown(d) ==
  /\ dev[d] # "idle"
  /\ \/ dev[d] = "busy" /\ dev' = [dev EXCEPT ![d] = "failed"]
     \/ dev' = [dev EXCEPT ![d] = "idle"]
  /\ con' = [con EXCEPT ![d] = None]
  /\ UNCHANGED <<pend, muddled, up>> /\ Requesting

\* Another client, or NetworkManager on its own, activates a profile anywhere.
OtherActivates(u, d) ==
  /\ asked < MaxAsked /\ asked' = asked + 1
  /\ u \in DOMAIN saved
  /\ Launch(u, d)
  /\ muddled' = muddled \cup Waiting(u)
  /\ UNCHANGED <<backend, saved, req, pc, at, got, scan, stale, up, slipped>>

-----------------------------------------------------------------------------
(* A request and its answer. *)

Goto(p, from, to) == pc[p] = from /\ pc' = [pc EXCEPT ![p] = to]

Finish(p) ==
  /\ pc' = [pc EXCEPT ![p] = "done"]
  /\ req' = [req EXCEPT ![p] = NoRequest]
  /\ at' = [at EXCEPT ![p] = None]
  /\ got' = [got EXCEPT ![p] = Blank]
  /\ tries' = [tries EXCEPT ![p] = 0]
  /\ best' = [best EXCEPT ![p] = {}]
  /\ heard' = [heard EXCEPT ![p] = 0]
  /\ stale' = stale \ {p} /\ muddled' = muddled \ {p}
  /\ up' = up \ {p} /\ slipped' = slipped \ {p}
  /\ UNCHANGED <<backend, asked>>

FirstStep(op) ==
  CASE op \in {"activate", "scan"} -> "check"
    [] op = "deactivate"           -> "resolve"
    [] op = "patch"                -> "get"
    [] OTHER                       -> op

Begin(p, q) ==
  /\ asked < MaxAsked /\ asked' = asked + 1
  /\ Goto(p, "done", FirstStep(q.op))
  /\ req' = [req EXCEPT ![p] = q]
  /\ UNCHANGED <<backend, nm, saved, at, got, scan, notes>>

\* What was asked for is not there, or a call fails, or ctx is done.
Fail(p) ==
  /\ pc[p] \in {"resolve", "pin", "call", "wait", "lookup", "get", "update", "add",
               "delete", "scan"}
  /\ Finish(p)
  /\ UNCHANGED <<nm, saved>>

-----------------------------------------------------------------------------
(* The exclusion filter. *)

\* visibleConnection: the device of the connection; its name is empty when it, or
\* the list of devices, could not be read.
Resolve(p) ==
  /\ Goto(p, "resolve", "check")
  /\ ActiveOn(req[p].id) # {}
  /\ \E d \in ActiveOn(req[p].id) \cup {None} : at' = [at EXCEPT ![p] = d]
  /\ UNCHANGED <<backend, nm, saved, asked, req, got, scan, notes>>

Looked(p) == IF req[p].op = "deactivate" THEN at[p] ELSE req[p].dev

AfterCheck(p) ==
  IF req[p].op = "scan" THEN "scan"
  ELSE IF req[p].op = "activate" /\ backend = "nmcli" THEN "get"
  ELSE "call"

\* Faulty variant: only the rules on names are asked.
VisibleByName(p) ==
  /\ Goto(p, "check", AfterCheck(p))
  /\ Looked(p) \notin NameHidden
  /\ UNCHANGED <<backend, nm, saved, asked, req, at, got, scan, notes>>

\* excludedName: a device without a name, or that cannot be looked up, is not
\* excluded.
Visible(p) ==
  /\ Goto(p, "check", AfterCheck(p))
  /\ Looked(p) \notin NameHidden
  /\ \/ Looked(p) \notin LookHidden /\ UNCHANGED slipped
     \/ Looked(p) \in LookHidden /\ slipped' = slipped \cup {p}
  /\ UNCHANGED <<backend, nm, saved, asked, req, at, got, scan, stale, muddled, up>>

Excluded(p) ==
  /\ pc[p] = "check"
  /\ Looked(p) \in Hidden
  /\ Finish(p)
  /\ UNCHANGED <<nm, saved>>

-----------------------------------------------------------------------------
(* Activate and Deactivate. *)

\* Those who have read the profile's settings have read what is not so any more.
Readers(p) ==
  {s \in Procs \ {p} : pc[s] \in {"secrets", "update", "pin"} /\ req[s].id = req[p].id}

\* nmcli stores the access point, or that there is none, in the profile it has read.
Pin(p) ==
  /\ Goto(p, "pin", "call")
  /\ req[p].id \in DOMAIN saved
  /\ saved' = [saved EXCEPT ![req[p].id] = [got[p] EXCEPT !.pin = req[p].pin]]
  /\ got' = [got EXCEPT ![p] = Blank]
  /\ stale' = (stale \ {p}) \cup Readers(p)
  /\ UNCHANGED <<backend, nm, asked, req, at, scan, muddled, up, slipped>>

\* ActivateConnection, or `nmcli connection up`.
CallUp(p) ==
  /\ Goto(p, "call", "wait")
  /\ req[p].op = "activate"
  /\ req[p].id \in DOMAIN saved
  /\ Launch(req[p].id, req[p].dev)
  /\ muddled' = muddled \cup Waiting(req[p].id)
                  \cup (IF con[req[p].dev] = None /\ Waiting(req[p].id) = {} THEN {} ELSE {p})
  /\ UNCHANGED <<backend, saved, asked, req, at, got, scan, stale, up, slipped>>

\* Faulty variant: a device on its way is as good as activated.
PollEarly(p) ==
  /\ Goto(p, "wait", "lookup")
  /\ dev[req[p].dev] \in {"busy", "activated"}
  /\ UNCHANGED <<backend, nm, saved, asked, req, at, got, scan, notes>>

\* waitActivated of nmdbus looks at the device, whatever it is activated with;
\* nmcli waits for the active connection.
Poll(p) ==
  /\ Goto(p, "wait", "lookup")
  /\ dev[req[p].dev] = "activated"
  /\ backend = "nmcli" => con[req[p].dev] = req[p].id /\ pend[req[p].dev] = None
  /\ UNCHANGED <<backend, nm, saved, asked, req, at, got, scan, notes>>

\* connectionByUUID: Activate returns the active connection ...
Activated(p) ==
  /\ pc[p] = "lookup"
  /\ ActiveOn(req[p].id) # {}
  /\ Finish(p)
  /\ UNCHANGED <<nm, saved>>

\* ... or an error when there is none any more.
NotActive(p) ==
  /\ pc[p] = "lookup"
  /\ ActiveOn(req[p].id) = {}
  /\ Finish(p)
  /\ UNCHANGED <<nm, saved>>

\* DeactivateConnection, or `nmcli connection down`, finds the connection again.
CallDown(p) ==
  /\ pc[p] = "call" /\ req[p].op = "deactivate"
  /\ ActiveOn(req[p].id) # {}
  /\ TakeDown(req[p].id)
  /\ Finish(p)
  /\ UNCHANGED saved

-----------------------------------------------------------------------------
(* Profiles. *)

\* What GetSettings of nmdbus gives: no secrets.
Plain(s) == [s EXCEPT !.psk = None, !.eap = FALSE]

\* Faulty variant: the secrets are not asked for.
AfterGetPlain(p) == IF req[p].op = "activate" THEN "pin" ELSE "update"

AfterGet(p) ==
  IF req[p].op = "activate" THEN "pin"
  ELSE IF backend = "nmdbus" /\ req[p].security = Keep /\ saved[req[p].id].kind # "open"
    THEN "secrets"
  ELSE "update"

\* PatchProfile of nmdbus, or the process `nmcli connection modify`, reads the profile.
\* To nmdbus the secrets matter unless the patch is about the security or there is none.
Get(p) ==
  /\ pc[p] = "get"
  /\ req[p].id \in DOMAIN saved
  /\ pc' = [pc EXCEPT ![p] = AfterGet(p)]
  /\ got' = [got EXCEPT ![p] = IF backend = "nmdbus" THEN Plain(saved[req[p].id])
                                                   ELSE saved[req[p].id]]
  /\ UNCHANGED <<backend, nm, saved, asked, req, at, scan, notes>>

\* Those of the section of the passphrase only; an error is of no matter.
Secrets(p) ==
  /\ Goto(p, "secrets", "update")
  /\ \/ /\ req[p].id \in DOMAIN saved
        /\ got' = [got EXCEPT ![p].psk = saved[req[p].id].psk]
        /\ UNCHANGED stale
     \/ stale' = stale \cup {p} /\ UNCHANGED got
  /\ UNCHANGED <<backend, nm, saved, asked, req, at, scan, muddled, up, slipped>>

Patched(q, s) ==
  [s EXCEPT !.auto = IF q.auto = Keep THEN @ ELSE q.auto = "yes",
            !.kind = IF q.security = Keep THEN @
                     ELSE IF q.security = Open THEN "open" ELSE "psk",
            !.psk  = IF q.security = Keep THEN @
                     ELSE IF q.security = Open THEN None ELSE q.security]

\* Update, of nmdbus or of nmcli's process, replaces all settings by those that
\* were read, changed.
Update(p) ==
  /\ pc[p] = "update"
  /\ req[p].id \in DOMAIN saved
  /\ saved' = [saved EXCEPT ![req[p].id] = Patched(req[p], got[p])]
  /\ pc' = [pc EXCEPT ![p] = "done"]
  /\ req' = [req EXCEPT ![p] = NoRequest]
  /\ got' = [got EXCEPT ![p] = Blank]
  /\ stale' = (stale \ {p}) \cup Readers(p)
  /\ UNCHANGED <<backend, nm, asked, at, scan, muddled, up, slipped>>

\* AddProfile: a new UUID, which no other request can know.
Add(p) ==
  /\ pc[p] = "add"
  /\ req[p].id \notin DOMAIN saved
  /\ \A s \in Procs \ {p} : pc[s] # "done" => req[s].id # req[p].id
  /\ saved' = [u \in DOMAIN saved \cup {req[p].id} |->
                 IF u = req[p].id THEN Patched(req[p], Blank) ELSE saved[u]]
  /\ Finish(p)
  /\ UNCHANGED nm

\* DeleteProfile: what is active goes with it.
Delete(p) ==
  /\ pc[p] = "delete"
  /\ req[p].id \in DOMAIN saved
  /\ saved' = Restrict(saved, DOMAIN saved \ {req[p].id})
  /\ TakeDown(req[p].id)
  /\ Finish(p)

-----------------------------------------------------------------------------
(* Scan. *)

\* Faulty variant: the last list is taken.
LongerLast(l, m) == l

Longer(l, m) == IF Cardinality(l) > Cardinality(m) THEN l ELSE m

\* Faulty variant: one attempt too many.
LastAttemptLate(n) == n = scanAttempts

LastAttempt(n) == n + 1 = scanAttempts

\* One attempt: a scan is requested, which may not run, and the list is read.
\* There is another attempt until the list has an access point beside the
\* associated one, or all are made; nmdbus gives up also when none ran.
Attempt(p) ==
  /\ pc[p] = "scan"
  /\ \E l \in SUBSET Stations, here \in Stations \cup {None}, advanced \in BOOLEAN :
       /\ tries' = [tries EXCEPT ![p] = @ + 1]
       /\ best' = [best EXCEPT ![p] = Longer(l, @)]
       /\ heard' = [heard EXCEPT ![p] = IF Cardinality(l) > @ THEN Cardinality(l) ELSE @]
       /\ pc' = [pc EXCEPT ![p] =
            IF \/ LastAttempt(tries[p])
               \/ l \ {here} # {}
               \/ backend = "nmdbus" /\ ~advanced
            THEN "answer" ELSE "scan"]
  /\ UNCHANGED <<backend, nm, saved, asked, req, at, got, notes>>

\* The list cannot be read: nmdbus returns the error, nmcli makes another attempt.
AttemptFails(p) ==
  /\ pc[p] = "scan"
  /\ \/ backend = "nmdbus" /\ Finish(p)
     \/ /\ backend = "nmcli"
        /\ tries' = [tries EXCEPT ![p] = @ + 1]
        /\ pc' = [pc EXCEPT ![p] = IF LastAttempt(tries[p]) THEN "answer" ELSE "scan"]
        /\ UNCHANGED <<backend, asked, req, at, got, best, heard, notes>>
  /\ UNCHANGED <<nm, saved>>

Answer(p) ==
  /\ pc[p] = "answer"
  /\ Finish(p)
  /\ UNCHANGED <<nm, saved>>

Step(p) ==
  \/ \E q \in Asked : Begin(p, q)
  \/ Resolve(p) \/ Visible(p) \/ Excluded(p) \/ Fail(p)
  \/ Pin(p) \/ CallUp(p) \/ Poll(p) \/ Activated(p) \/ NotActive(p) \/ CallDown(p)
  \/ Get(p) \/ Secrets(p) \/ Update(p) \/ Add(p) \/ Delete(p)
  \/ Attempt(p) \/ AttemptFails(p) \/ Answer(p)

Daemon ==
  \/ \E d \in Devices : Start(d) \/ Succeed(d) \/ GoDown(d)
  \/ \E u \in Profiles, d \in Devices : OtherActivates(u, d)

Next == (\E p \in Procs : Step(p)) \/ Daemon

Spec == Init /\ [][Next]_vars

-----------------------------------------------------------------------------
(* Properties. *)

\* Activate returns without an error only after the profile was activated: always
\* with nmcli; with nmdbus when the device was free and nobody else activated the
\* profile, for it may take the state of the connection it replaces for its own.
ActivateSettles ==
  [][\A p \in Procs :
       Activated(p) /\ (backend = "nmcli" \/ p \notin muddled) => p \in up]_vars

\* The filter looked at no device with a name, or the connection has moved since.
Astray(p) == at[p] \notin ActiveOn(req[p].id)

\* A request whose look-up in the filter did not fail starts nothing on a hidden device,
\* and what it takes down there is the connection of its own profile: which it deletes
\* or activates elsewhere, or is asked to take down and went astray.
HiddenUntouched ==
  [][\A p \in Procs, d \in Hidden :
       pc'[p] # pc[p] /\ p \notin slipped =>
         /\ con'[d] \in {con[d], None} /\ pend'[d] \in {pend[d], None}
         /\ con'[d] # con[d] \/ pend'[d] # pend[d] =>
              /\ d \in ActiveOn(req[p].id)
              /\ req[p].op \in {"activate", "delete"} \/ Astray(p)]_vars

\* A patch, and the pin of an activation, changes what it mentions and nothing else, the
\* enterprise secrets with nmdbus excepted: unless the profile changed after it was read,
\* or the secrets were not.
PatchMerges ==
  [][\A p \in Procs :
       (Update(p) \/ Pin(p)) /\ p \notin stale =>
         LET was == saved[req[p].id]
             is == saved'[req[p].id]
         IN  /\ Pin(p) \/ req[p].auto = Keep => is.auto = was.auto
             /\ Pin(p) \/ req[p].security = Keep => is.kind = was.kind /\ is.psk = was.psk
             /\ backend = "nmcli" => is.eap = was.eap
             /\ Update(p) => is.pin = was.pin]_vars

\* A scan answers with the longest of the lists its attempts have read, whichever came
\* last and however many could not be read.
ScanKeepsMost ==
  \A p \in Procs : pc[p] = "answer" => Cardinality(best[p]) = heard[p]

-----------------------------------------------------------------------------
\* What a patch has of the settings once it has read what it can.
Recovered(s) == IF backend = "nmdbus" THEN [s EXCEPT !.eap = FALSE] ELSE s

\* In the same cases a patch is one atomic change of the profile as it is saved,
\* however many reads and other requests come between its calls.
PatchAtomic ==
  [][\A p \in Procs :
       Update(p) /\ p \notin stale =>
         saved' = [saved EXCEPT ![req[p].id] = Patched(req[p], Recovered(@))]]_vars

\* The active connection that Activate returns is on the device that was asked for,
\* and there only, unless the device or the profile was in use by others.
ActivateAnswersDevice ==
  [][\A p \in Procs :
       Activated(p) /\ p \notin muddled => ActiveOn(req[p].id) = {req[p].dev}]_vars
=============================================================================
