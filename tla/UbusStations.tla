----------------------------- MODULE UbusStations -----------------------------
(***************************************************************************)
(* Saved profiles and connections of the ubus backend: station sections of *)
(* the router's wireless configuration (internal/wnet/ubus/profile.go and  *)
(* conn.go).  Every RPC goroutine reads and stages changes through the one *)
(* rpcd session the backend's client holds; `uci commit` saves whatever is *)
(* staged in that session, whoever staged it, and `network reload` has     *)
(* netifd bring up what is saved.  There is no lock: each ubus call is a   *)
(* step, and the calls of several goroutines interleave.                   *)
(*                                                                         *)
(* A configuration is a function from the names of its sections.  An id    *)
(* stands for an (ssid, security kind) pair, and sectionName of that pair  *)
(* is the id itself; sections written by other tools have other names.     *)
(***************************************************************************)
EXTENDS Naturals

CONSTANTS
  Handlers,   \* RPC goroutines; each serves one request
  Profiles,   \* profile ids
  Manual,     \* names of sections that wfm did not create
  Radios,     \* wifi-device sections
  Pickable    \* what pickRadio may return: the configured radio, or any radio

ASSUME NamesAssumption == Profiles \cap Manual = {}
ASSUME PickableAssumption == Pickable \subseteq Radios

Names == Profiles \cup Manual

Section == [id : Profiles, dev : Radios, on : BOOLEAN]
Found   == [name : Names, dev : Radios]

\* A section with a name of wfm's own holds the profile it is named for.
Configs == {c \in UNION {[N -> Section] : N \in SUBSET Names} :
              \A n \in DOMAIN c : n \in Profiles => c[n].id = n}

\* Only a patch may ask for another ssid or security kind.
Requests == {r \in [op : {"activate", "deactivate", "add", "patch", "delete"},
                    id : Profiles, to : Profiles] :
               r.op # "patch" => r.to = r.id}

VARIABLES
  view,     \* what `uci get` answers: the saved sections under the staged changes
  saved,    \* the committed configuration
  running,  \* what netifd read at the last reload
  req,      \* a handler's request
  pc,       \* where it is in Activate, Deactivate or a profile write
  cur,      \* the station section it works on (`cur`, `existing`); {} is nil
  todo,     \* peers Activate has still to disable
  mixed,    \* history: another handler ran meanwhile, or staged changes were
            \* left over when it began
  expired,  \* history: the session was replaced while it ran
  stray     \* history: a failed handler left staged changes behind

vars == <<view, saved, running, req, pc, cur, todo, mixed, expired, stray>>

TypeOK ==
  /\ view \in Configs
  /\ saved \in Configs
  /\ running \in Configs
  /\ req \in [Handlers -> Requests]
  /\ pc \in [Handlers -> {"new", "peers", "disable", "set", "add", "commit",
                          "delete", "commitDelete", "reload", "wait", "done"}]
  /\ cur \in [Handlers -> SUBSET Found]
  /\ \A h \in Handlers : \A c, d \in cur[h] : c = d
  /\ todo \in [Handlers -> SUBSET Names]
  /\ mixed \in [Handlers -> BOOLEAN]
  /\ expired \in [Handlers -> BOOLEAN]
  /\ stray \in BOOLEAN

Init ==
  /\ view \in Configs
  /\ saved = view
  /\ running = view
  /\ req \in [Handlers -> Requests]
  /\ pc = [h \in Handlers |-> "new"]
  /\ cur = [h \in Handlers |-> {}]
  /\ todo = [h \in Handlers |-> {}]
  /\ mixed = [h \in Handlers |-> FALSE]
  /\ expired = [h \in Handlers |-> FALSE]
  /\ stray = FALSE

-----------------------------------------------------------------------------
(* Configurations. *)

Having(c, i) == {n \in DOMAIN c : c[n].id = i}

Put(c, n, s) == [m \in DOMAIN c \cup {n} |-> IF m = n THEN s ELSE c[m]]

Drop(c, n) == [m \in DOMAIN c \ {n} |-> c[m]]

Switch(c, n, on) == [c EXCEPT ![n].on = on]

\* The enabled stations that compete with s for its radio.
Peers(c, s) == {n \in DOMAIN c : n # s.name /\ c[n].dev = s.dev /\ c[n].on}

-----------------------------------------------------------------------------
Busy(h) == pc[h] \notin {"new", "done"}

Goto(h, from, to) ==
  /\ pc[h] = from
  /\ pc' = [pc EXCEPT ![h] = to]

End(h, from) ==
  /\ Goto(h, from, "done")
  /\ cur' = [cur EXCEPT ![h] = {}]
  /\ todo' = [todo EXCEPT ![h] = {}]

\* A handler that begins overlaps those under way, and they overlap it.
Overlap(h) ==
  mixed' = [k \in Handlers |->
              \/ mixed[k]
              \/ k # h /\ Busy(k)
              \/ k = h /\ (view # saved \/ \E j \in Handlers : Busy(j))]

FirstStep(r) ==
  CASE r.op = "activate"               -> "peers"
    [] r.op = "patch" /\ r.to # r.id   -> "add"
    [] r.op = "delete"                 -> "delete"
    [] OTHER                           -> "set"

\* findByID: the first match of a map in random order.
Find(h) ==
  /\ \E n \in Having(view, req[h].id) :
       cur' = [cur EXCEPT ![h] = {[name |-> n, dev |-> view[n].dev]}]
  /\ Goto(h, "new", FirstStep(req[h]))
  /\ Overlap(h)
  /\ UNCHANGED <<view, saved, running, req, todo, expired, stray>>

\* Without a match AddProfile creates a section; the others return ErrNotFound.
FindNone(h) ==
  /\ Having(view, req[h].id) = {}
  /\ Goto(h, "new", IF req[h].op = "add" THEN "add" ELSE "done")
  /\ Overlap(h)
  /\ UNCHANGED <<view, saved, running, req, cur, todo, expired, stray>>

\* Faulty variant: stations on the other radios are taken for peers as well.
ListEverywhere(h) ==
  /\ Goto(h, "peers", "disable")
  /\ \E s \in cur[h] :
       todo' = [todo EXCEPT ![h] = {n \in DOMAIN view : n # s.name /\ view[n].on}]
  /\ UNCHANGED <<view, saved, running, req, cur, mixed, expired, stray>>

\* Activate reads the stations a second time.
ListPeers(h) ==
  /\ Goto(h, "peers", "disable")
  /\ \E s \in cur[h] : todo' = [todo EXCEPT ![h] = Peers(view, s)]
  /\ UNCHANGED <<view, saved, running, req, cur, mixed, expired, stray>>

Disable(h) ==
  /\ pc[h] = "disable"
  /\ \E n \in todo[h] \cap DOMAIN view :
       /\ view' = Switch(view, n, FALSE)
       /\ todo' = [todo EXCEPT ![h] = @ \ {n}]
  /\ UNCHANGED <<saved, running, req, pc, cur, mixed, expired, stray>>

Stage(h, from, to, c) ==
  /\ Goto(h, from, to)
  /\ view' = c
  /\ UNCHANGED <<saved, running, req, cur, todo, mixed, expired, stray>>

\* Faulty variant: the station is enabled before its peers are disabled.
EnableFirst(h) ==
  \E s \in cur[h] :
    /\ s.name \in DOMAIN view
    /\ Stage(h, "disable", "commit", Switch(view, s.name, TRUE))

Enable(h) ==
  /\ todo[h] = {}
  /\ \E s \in cur[h] :
       /\ s.name \in DOMAIN view
       /\ Stage(h, "disable", "commit", Switch(view, s.name, TRUE))

\* uci set on the section found.  A write of a profile sets `disabled` to what
\* was asked for or, in a patch that does not say, to what findByID read; ssid
\* and security kind are those the section has.
Set(h) ==
  \E s \in cur[h], on \in BOOLEAN :
    /\ s.name \in DOMAIN view
    /\ req[h].op = "deactivate" => ~on
    /\ Stage(h, "set", "commit", Switch(view, s.name, on))

\* Faulty variants: the new section is not committed; or takes the old name.
AddUncommitted(h) ==
  \E dev \in Pickable, on \in BOOLEAN :
    Stage(h, "add", IF req[h].op = "add" THEN "done" ELSE "delete",
          Put(view, req[h].to, [id |-> req[h].to, dev |-> dev, on |-> on]))

AddOldName(h) ==
  \E dev \in Pickable, on \in BOOLEAN :
    Stage(h, "add", "commit",
          Put(view, req[h].id, [id |-> req[h].to, dev |-> dev, on |-> on]))

\* uci add under the deterministic name; rpcd merges into a section that exists.
Add(h) ==
  \E dev \in Pickable, on \in BOOLEAN :
    Stage(h, "add", "commit",
          Put(view, req[h].to, [id |-> req[h].to, dev |-> dev, on |-> on]))

\* Faulty variant: the deletion is not committed.
DeleteUncommitted(h) ==
  \E s \in cur[h] :
    /\ s.name \in DOMAIN view
    /\ Stage(h, "delete", "done", Drop(view, s.name))

Delete(h) ==
  \E s \in cur[h] :
    /\ s.name \in DOMAIN view
    /\ Stage(h, "delete", "commitDelete", Drop(view, s.name))

Save == saved' = view /\ stray' = FALSE

\* The commit of setAndCommit and writeStation.  The profile is read back for
\* the answer, which changes nothing.
Commit(h) ==
  /\ Save
  /\ \/ /\ req[h].op \in {"activate", "deactivate"}
        /\ Goto(h, "commit", "reload")
        /\ UNCHANGED <<cur, todo>>
     \/ /\ req[h].op = "patch" /\ req[h].to # req[h].id
        /\ Goto(h, "commit", "delete")
        /\ UNCHANGED <<cur, todo>>
     \/ /\ req[h].op \in {"add", "patch"} /\ req[h].to = req[h].id
        /\ End(h, "commit")
  /\ UNCHANGED <<view, running, req, mixed, expired>>

CommitDelete(h) ==
  /\ Save
  /\ End(h, "commitDelete")
  /\ UNCHANGED <<view, running, req, mixed, expired>>

\* netifd reads the saved configuration; Deactivate ends here.
Reload(h) ==
  /\ running' = saved
  /\ \/ /\ req[h].op = "activate"
        /\ Goto(h, "reload", "wait")
        /\ UNCHANGED <<cur, todo>>
     \/ /\ req[h].op = "deactivate"
        /\ End(h, "reload")
  /\ UNCHANGED <<view, saved, req, mixed, expired, stray>>

\* waitAssociated sees an enabled station of the profile up; whether the link
\* is associated when it looks is the radio's doing.
Associated(h) ==
  /\ \E n \in Having(view, req[h].id) \cap DOMAIN running :
       view[n].on /\ running[n].on
  /\ End(h, "wait")
  /\ UNCHANGED <<view, saved, running, req, mixed, expired, stray>>

\* Any call may fail, be cancelled, or name a section that is gone; the wait
\* times out.  The handler returns the error and undoes nothing.
Fail(h) ==
  /\ Busy(h)
  /\ End(h, pc[h])
  /\ stray' = (stray \/ view # saved)
  /\ UNCHANGED <<view, saved, running, req, mixed, expired>>

\* The client logs in again after a refusal (UbusSession) and repeats the call:
\* what was staged belonged to the old session.
SessionReplaced ==
  /\ view # saved
  /\ view' = saved
  /\ stray' = FALSE
  /\ expired' = [h \in Handlers |-> expired[h] \/ Busy(h)]
  /\ UNCHANGED <<saved, running, req, pc, cur, todo, mixed>>

Step(h) ==
  \/ Find(h) \/ FindNone(h)
  \/ ListPeers(h) \/ Disable(h) \/ Enable(h)
  \/ Set(h) \/ Add(h) \/ Delete(h)
  \/ Commit(h) \/ CommitDelete(h) \/ Reload(h)
  \/ Associated(h) \/ Fail(h)

Next == SessionReplaced \/ \E h \in Handlers : Step(h)

Spec == Init /\ [][Next]_vars

-----------------------------------------------------------------------------
(* Properties. *)

\* While Activate waits for the link, netifd runs its station enabled and no
\* other enabled station on that radio (conn.go:127-129), unless another request
\* ran at the same time or the session was replaced.
ActivateExclusive ==
  \A h \in Handlers :
    pc[h] = "wait" /\ ~mixed[h] /\ ~expired[h] =>
      \E s \in cur[h] :
        /\ s.name \in DOMAIN running
        /\ running[s.name].on
        /\ Peers(running, s) = {}

Renaming(h) == req[h].op = "patch" /\ req[h].to # req[h].id

\* A patch that changes the ssid drops the old section only once the new one is
\* saved (profile.go:179-190): killed in between, the router keeps one of them.
RenameSavesFirst ==
  \A h \in Handlers :
    /\ pc[h] \in {"delete", "commitDelete"} /\ Renaming(h)
    /\ ~mixed[h] /\ ~expired[h]
    => Having(saved, req[h].to) # {}

\* The same without the exception for a replaced session, as client.go:231-232
\* has it: "Session expiry is retried once transparently".
RenameSurvivesExpiry ==
  \A h \in Handlers :
    pc[h] \in {"delete", "commitDelete"} /\ Renaming(h) /\ ~mixed[h]
    => Having(saved, req[h].to) # {}

\* With no request under way nothing is left staged but what a failed one left:
\* every path of a write that stages a change commits it.
QuietSaved ==
  (\A h \in Handlers : ~Busy(h)) /\ view # saved => stray

Changed(n) ==
  \/ (n \in DOMAIN saved) # (n \in DOMAIN saved')
  \/ n \in DOMAIN saved /\ saved[n] # saved'[n]

Own(h, n) ==
  \/ req[h].op \in {"add", "patch"} /\ n = req[h].to
  \/ \E s \in cur[h] :
       \/ n = s.name
       \/ /\ req[h].op = "activate"
          /\ n \in DOMAIN saved
          /\ saved[n].dev = s.dev /\ saved[n].on

\* A request that ran alone saves a change to its own section only or, when it
\* activates, to the enabled stations of that radio: never to another radio's.
CommitsOwn ==
  [][\A h \in Handlers :
       pc[h] \in {"commit", "commitDelete"} /\ pc'[h] # pc[h] /\ ~mixed[h]
       => \A n \in Names : Changed(n) => Own(h, n)]_vars

-----------------------------------------------------------------------------
\* c with the stations N off.
SwitchedOff(c, N) ==
  [n \in DOMAIN c |-> IF n \in N THEN [c[n] EXCEPT !.on = FALSE] ELSE c[n]]

\* The section a request is about, where it still holds the profile it was found by.
Target(h, c) ==
  {s \in cur[h] : /\ s.name \in DOMAIN c
                  /\ c[s.name].id = req[h].id
                  /\ c[s.name].dev = s.dev}

\* What the configuration c is to become with the commit of a request.
Activated(h, c) ==
  {Switch(SwitchedOff(c, Peers(c, s)), s.name, TRUE) : s \in Target(h, c)}
Updated(h, c) ==
  {Switch(c, s.name, on) : s \in Target(h, c), on \in BOOLEAN}
Created(h, c) ==
  {Put(c, req[h].to, [id |-> req[h].to, dev |-> dev, on |-> on]) :
     dev \in Pickable, on \in BOOLEAN}
Deleted(h, c) ==
  {Drop(c, s.name) : s \in Target(h, c)}

Intended(h, c) ==
  CASE req[h].op = "activate"   -> Activated(h, c)
    [] req[h].op = "deactivate" -> {Switch(c, s.name, FALSE) : s \in Target(h, c)}
    [] Renaming(h)              -> Created(h, c)
    [] OTHER                    -> IF cur[h] = {} THEN Created(h, c) ELSE Updated(h, c)

\* The commit of a request that ran alone, under one session, saves the whole of
\* what was asked for and nothing else: to the calls of one request, and to the
\* reader of the saved file, the uci transaction is atomic.
CommitsIntended ==
  [][\A h \in Handlers :
       ~mixed[h] /\ ~expired[h] =>
         /\ Commit(h) => saved' \in Intended(h, saved)
         /\ CommitDelete(h) => saved' \in Deleted(h, saved)]_vars
=============================================================================
