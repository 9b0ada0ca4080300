-------------------------- MODULE UbusStationsProofs --------------------------
(***************************************************************************)
(* Proofs about UbusStations, for any number of requests, profiles, radios *)
(* and sections written by hand.                                           *)
(***************************************************************************)
EXTENDS UbusStations, TLAPS

(* Configurations keep their type. *)

LEMMA ConfigIntro ==
  ASSUME NEW N \in SUBSET Names, NEW c \in [N -> Section],
         \A n \in N : n \in Profiles => c[n].id = n
  PROVE  c \in Configs
BY DEF Configs

LEMMA ConfigElim ==
  ASSUME NEW c \in Configs
  PROVE  /\ DOMAIN c \in SUBSET Names
         /\ c \in [DOMAIN c -> Section]
         /\ \A n \in DOMAIN c : n \in Profiles => c[n].id = n
<1>1. PICK N \in SUBSET Names : c \in [N -> Section]
  BY DEF Configs
<1>2. DOMAIN c = N
  BY <1>1
<1>. QED  BY <1>1, <1>2 DEF Configs

LEMMA PutType ==
  ASSUME NEW c \in Configs, NEW n \in Names, NEW s \in Section,
         n \in Profiles => s.id = n
  PROVE  /\ Put(c, n, s) \in Configs
         /\ DOMAIN Put(c, n, s) = DOMAIN c \cup {n}
         /\ Put(c, n, s)[n] = s
         /\ \A m \in DOMAIN c \ {n} : Put(c, n, s)[m] = c[m]
<1>. DEFINE p == Put(c, n, s)
<1>1. /\ DOMAIN c \in SUBSET Names
      /\ c \in [DOMAIN c -> Section]
      /\ \A m \in DOMAIN c : m \in Profiles => c[m].id = m
  BY ConfigElim
<1>2. /\ DOMAIN p = DOMAIN c \cup {n}
      /\ p[n] = s
      /\ \A m \in DOMAIN c \ {n} : p[m] = c[m]
  BY DEF Put
<1>3. p \in [DOMAIN c \cup {n} -> Section]
  BY <1>1 DEF Put
<1>4. \A m \in DOMAIN c \cup {n} : m \in Profiles => p[m].id = m
  BY <1>1, <1>2
<1>5. p \in Configs
  BY <1>1, <1>3, <1>4, ConfigIntro
<1>. QED  BY <1>2, <1>5

LEMMA DropType ==
  ASSUME NEW c \in Configs, NEW n
  PROVE  /\ Drop(c, n) \in Configs
         /\ DOMAIN Drop(c, n) = DOMAIN c \ {n}
         /\ \A m \in DOMAIN c \ {n} : Drop(c, n)[m] = c[m]
<1>. DEFINE p == Drop(c, n)
<1>1. /\ DOMAIN c \in SUBSET Names
      /\ c \in [DOMAIN c -> Section]
      /\ \A m \in DOMAIN c : m \in Profiles => c[m].id = m
  BY ConfigElim
<1>2. /\ DOMAIN p = DOMAIN c \ {n}
      /\ \A m \in DOMAIN c \ {n} : p[m] = c[m]
  BY DEF Drop
<1>3. p \in [DOMAIN c \ {n} -> Section]
  BY <1>1 DEF Drop
<1>4. p \in Configs
  BY <1>1, <1>2, <1>3, ConfigIntro
<1>. QED  BY <1>2, <1>4

LEMMA SwitchType ==
  ASSUME NEW c \in Configs, NEW n \in DOMAIN c, NEW on \in BOOLEAN
  PROVE  /\ Switch(c, n, on) \in Configs
         /\ DOMAIN Switch(c, n, on) = DOMAIN c
         /\ Switch(c, n, on)[n] = [id |-> c[n].id, dev |-> c[n].dev, on |-> on]
         /\ \A m \in DOMAIN c \ {n} : Switch(c, n, on)[m] = c[m]
<1>. DEFINE p == Switch(c, n, on)
<1>1. /\ DOMAIN c \in SUBSET Names
      /\ c \in [DOMAIN c -> Section]
      /\ \A m \in DOMAIN c : m \in Profiles => c[m].id = m
  BY ConfigElim
<1>2. c[n] \in Section
  BY <1>1
<1>3. [c[n] EXCEPT !.on = on] = [id |-> c[n].id, dev |-> c[n].dev, on |-> on]
  BY <1>2 DEF Section
<1>4. /\ DOMAIN p = DOMAIN c
      /\ p[n] = [id |-> c[n].id, dev |-> c[n].dev, on |-> on]
      /\ \A m \in DOMAIN c \ {n} : p[m] = c[m]
  BY <1>1, <1>3 DEF Switch
<1>5. p[n] \in Section /\ p[n].id = c[n].id
  BY <1>2, <1>4 DEF Section
<1>6. p \in [DOMAIN c -> Section]
  BY <1>1, <1>4, <1>5 DEF Switch
<1>7. \A m \in DOMAIN c : m \in Profiles => p[m].id = m
  BY <1>1, <1>4, <1>5
<1>8. p \in Configs
  BY <1>1, <1>6, <1>7, ConfigIntro
<1>. QED  BY <1>4, <1>8

-----------------------------------------------------------------------------
(* Type correctness. *)

\* What the locals of h become in a step of h leaves the other handlers alone.
LEMMA GotoType ==
  ASSUME TypeOK, NEW h \in Handlers, NEW from,
         NEW to \in {"new", "peers", "disable", "set", "add", "commit",
                     "delete", "commitDelete", "reload", "wait", "done"},
         Goto(h, from, to)
  PROVE  /\ pc' \in [Handlers -> {"new", "peers", "disable", "set", "add", "commit",
                          "delete", "commitDelete", "reload", "wait", "done"}]
         /\ pc'[h] = to
         /\ \A k \in Handlers \ {h} : pc'[k] = pc[k]
BY DEF TypeOK, Goto

LEMMA EndType ==
  ASSUME TypeOK, NEW h \in Handlers, NEW from, End(h, from)
  PROVE  /\ pc' \in [Handlers -> {"new", "peers", "disable", "set", "add", "commit",
                          "delete", "commitDelete", "reload", "wait", "done"}]
         /\ cur' \in [Handlers -> SUBSET Found]
         /\ \A k \in Handlers : \A c, d \in cur'[k] : c = d
         /\ todo' \in [Handlers -> SUBSET Names]
BY DEF TypeOK, End, Goto

LEMMA OverlapType ==
  ASSUME TypeOK, NEW h \in Handlers, Overlap(h)
  PROVE  mixed' \in [Handlers -> BOOLEAN]
<1>1. \A k \in Handlers :
        (\/ mixed[k]
         \/ k # h /\ Busy(k)
         \/ k = h /\ (view # saved \/ \E j \in Handlers : Busy(j))) \in BOOLEAN
  BY DEF TypeOK
<1>. QED  BY <1>1 DEF Overlap

LEMMA FindType ==
  ASSUME TypeOK, NEW h \in Handlers, Find(h)
  PROVE  TypeOK'
<1>1. PICK n \in Having(view, req[h].id) :
        cur' = [cur EXCEPT ![h] = {[name |-> n, dev |-> view[n].dev]}]
  BY DEF Find
<1>2. n \in Names /\ view[n] \in Section
  BY <1>1, ConfigElim DEF TypeOK, Having
<1>3. [name |-> n, dev |-> view[n].dev] \in Found
  BY <1>2 DEF Found, Section
<1>4. /\ cur' \in [Handlers -> SUBSET Found]
      /\ \A k \in Handlers : \A c, d \in cur'[k] : c = d
  BY <1>1, <1>3 DEF TypeOK
<1>5. FirstStep(req[h]) \in {"peers", "add", "delete", "set"}
  BY DEF FirstStep
<1>6. pc' \in [Handlers -> {"new", "peers", "disable", "set", "add", "commit",
                          "delete", "commitDelete", "reload", "wait", "done"}]
  BY <1>5, GotoType DEF Find
<1>7. mixed' \in [Handlers -> BOOLEAN]
  BY OverlapType DEF Find
<1>. QED  BY <1>4, <1>6, <1>7 DEF Find, TypeOK

LEMMA AddType ==
  ASSUME TypeOK, NEW h \in Handlers, Add(h)
  PROVE  TypeOK'
<1>1. PICK dev \in Pickable, on \in BOOLEAN :
        Stage(h, "add", "commit",
              Put(view, req[h].to, [id |-> req[h].to, dev |-> dev, on |-> on]))
  BY DEF Add
<1>2. /\ req[h].to \in Names
      /\ [id |-> req[h].to, dev |-> dev, on |-> on] \in Section
  BY PickableAssumption DEF TypeOK, Requests, Names, Section
<1>3. view' \in Configs
  BY <1>1, <1>2, PutType DEF Stage, TypeOK
<1>. QED  BY <1>1, <1>3, GotoType DEF Stage, TypeOK

LEMMA StepType ==
  ASSUME TypeOK, [Next]_vars
  PROVE  TypeOK'
<1>1. ASSUME NEW h \in Handlers, Find(h) PROVE TypeOK'
  BY <1>1, FindType
<1>2. ASSUME NEW h \in Handlers, FindNone(h) PROVE TypeOK'
  BY <1>2, GotoType, OverlapType DEF FindNone, TypeOK
<1>3. ASSUME NEW h \in Handlers, ListPeers(h) PROVE TypeOK'
  <2>1. \A s : Peers(view, s) \in SUBSET Names
    BY ConfigElim DEF Peers, TypeOK
  <2>2. todo' \in [Handlers -> SUBSET Names]
    BY <1>3, <2>1 DEF ListPeers, TypeOK
  <2>. QED  BY <1>3, <2>2, GotoType DEF ListPeers, TypeOK
<1>4. ASSUME NEW h \in Handlers, Disable(h) PROVE TypeOK'
  <2>1. PICK n \in todo[h] \cap DOMAIN view :
          /\ view' = Switch(view, n, FALSE)
          /\ todo' = [todo EXCEPT ![h] = @ \ {n}]
    BY <1>4 DEF Disable
  <2>2. view' \in Configs
    BY <2>1, SwitchType DEF TypeOK
  <2>3. todo' \in [Handlers -> SUBSET Names]
    BY <2>1 DEF TypeOK
  <2>. QED  BY <1>4, <2>2, <2>3 DEF Disable, TypeOK
<1>5. ASSUME NEW h \in Handlers, Enable(h) \/ Set(h) PROVE TypeOK'
  <2>1. PICK n \in DOMAIN view, on \in BOOLEAN, from \in {"disable", "set"} :
          Stage(h, from, "commit", Switch(view, n, on))
    BY <1>5 DEF Enable, Set
  <2>2. view' \in Configs
    BY <2>1, SwitchType DEF Stage, TypeOK
  <2>. QED  BY <2>1, <2>2, GotoType DEF Stage, TypeOK
<1>6. ASSUME NEW h \in Handlers, Add(h) PROVE TypeOK'
  BY <1>6, AddType
<1>7. ASSUME NEW h \in Handlers, Delete(h) PROVE TypeOK'
  <2>1. PICK n : Stage(h, "delete", "commitDelete", Drop(view, n))
    BY <1>7 DEF Delete
  <2>2. view' \in Configs
    BY <2>1, DropType DEF Stage, TypeOK
  <2>. QED  BY <2>1, <2>2, GotoType DEF Stage, TypeOK
<1>8. ASSUME NEW h \in Handlers, Commit(h) PROVE TypeOK'
  BY <1>8, GotoType, EndType DEF Commit, Save, TypeOK
<1>9. ASSUME NEW h \in Handlers, CommitDelete(h) PROVE TypeOK'
  BY <1>9, EndType DEF CommitDelete, Save, TypeOK
<1>10. ASSUME NEW h \in Handlers, Reload(h) PROVE TypeOK'
  BY <1>10, GotoType, EndType DEF Reload, TypeOK
<1>11. ASSUME NEW h \in Handlers, Associated(h) PROVE TypeOK'
  BY <1>11, EndType DEF Associated, TypeOK
<1>12. ASSUME NEW h \in Handlers, Fail(h) PROVE TypeOK'
  BY <1>12, EndType DEF Fail, TypeOK
<1>13. CASE SessionReplaced
  BY <1>13 DEF SessionReplaced, TypeOK
<1>14. CASE UNCHANGED vars
  BY <1>14 DEF vars, TypeOK
<1>. QED
  BY <1>1, <1>2, <1>3, <1>4, <1>5, <1>6, <1>7, <1>8, <1>9, <1>10, <1>11, <1>12,
     <1>13, <1>14 DEF Next, Step

\* TypeOK: every section keeps its name and its profile through every write.
THEOREM TypeCorrect == Spec => []TypeOK
<1>1. Init => TypeOK
  BY DEF Init, TypeOK
<1>. QED  BY <1>1, StepType, PTL DEF Spec

-----------------------------------------------------------------------------
(* The inductive invariant. *)

\* Two handlers under way have both noticed the other.
Solo ==
  \A h, k \in Handlers : h # k /\ Busy(h) /\ Busy(k) => mixed[h]

\* What the step a handler is at says of its request.
Shape(h) ==
  /\ pc[h] \in {"peers", "disable", "wait"} => req[h].op = "activate"
  /\ pc[h] = "add" => req[h].op \in {"add", "patch"}
  /\ pc[h] = "set" => req[h].op # "activate" /\ ~Renaming(h)
  /\ Busy(h) /\ req[h].op = "activate" => cur[h] # {}
  /\ pc[h] # "disable" => todo[h] = {}

Differs(n) ==
  \/ (n \in DOMAIN saved) # (n \in DOMAIN view)
  \/ n \in DOMAIN saved /\ saved[n] # view[n]

\* A handler that runs alone has staged nothing but changes of its own, and
\* nothing at all outside of the steps between a write and its commit.
Clean(h) ==
  Busy(h) /\ ~mixed[h] =>
    /\ pc[h] \notin {"disable", "commit", "commitDelete"} => view = saved
    /\ \A n \in Names : Differs(n) => Own(h, n)
    /\ \A n \in todo[h] : Own(h, n)

Alone(c, s) ==
  /\ s.name \in DOMAIN c
  /\ c[s.name].on
  /\ c[s.name].dev = s.dev
  /\ Peers(c, s) = {}

\* How far an activation has got: its peers are on the list, then disabled, then
\* saved as such, then running as such.
Exclusive(h) ==
  Busy(h) /\ ~mixed[h] /\ ~expired[h] /\ req[h].op = "activate" =>
    \A s \in cur[h] :
      /\ pc[h] \in {"peers", "disable"} =>
           s.name \in DOMAIN view /\ view[s.name].dev = s.dev
      /\ pc[h] = "disable" => Peers(view, s) \subseteq todo[h]
      /\ pc[h] = "commit" => Alone(view, s)
      /\ pc[h] = "reload" => Alone(saved, s)
      /\ pc[h] = "wait" => Alone(running, s)

\* How far a rename has got.
Renamed(h) ==
  Busy(h) /\ ~mixed[h] /\ ~expired[h] /\ Renaming(h) =>
    /\ pc[h] = "commit" => Having(view, req[h].to) # {}
    /\ pc[h] \in {"delete", "commitDelete"} => Having(saved, req[h].to) # {}

IInv ==
  /\ TypeOK
  /\ Solo
  /\ \A h \in Handlers : Shape(h) /\ Clean(h) /\ Exclusive(h) /\ Renamed(h)

LEMMA InitIInv == Init => IInv
BY DEF Init, IInv, TypeOK, Solo, Shape, Clean, Exclusive, Renamed, Busy

\* Whoever runs alone is not disturbed: a step of another handler either makes
\* it overlap, or is impossible.
LEMMA OthersOverlap ==
  ASSUME IInv, NEW h \in Handlers, Step(h), NEW g \in Handlers, g # h, Busy(g)
  PROVE  mixed'[g]
<1>1. CASE Find(h) \/ FindNone(h)
  BY <1>1 DEF Find, FindNone, Overlap
<1>2. CASE ~(Find(h) \/ FindNone(h))
  <2>1. Busy(h) /\ mixed' = mixed
    BY <1>2 DEF Step, ListPeers, Disable, Enable, Set, Add, Delete, Stage, Commit,
                CommitDelete, Reload, Associated, Fail, End, Goto, Busy
  <2>. QED  BY <2>1 DEF IInv, Solo
<1>. QED  BY <1>1, <1>2

LEMMA LocalsKept ==
  ASSUME TypeOK, NEW h \in Handlers, Step(h), NEW g \in Handlers, g # h
  PROVE  pc'[g] = pc[g] /\ cur'[g] = cur[g] /\ todo'[g] = todo[g] /\ req' = req
BY DEF TypeOK, Step, Find, FindNone, ListPeers, Disable, Enable, Set, Add, Delete, Stage,
       Commit, CommitDelete, Reload, Associated, Fail, End, Goto

LEMMA OthersKept ==
  ASSUME IInv, NEW h \in Handlers, Step(h), NEW g \in Handlers, g # h
  PROVE  Shape(g)' /\ Clean(g)' /\ Exclusive(g)' /\ Renamed(g)'
<1>1. pc'[g] = pc[g] /\ cur'[g] = cur[g] /\ todo'[g] = todo[g] /\ req' = req
  BY LocalsKept DEF IInv
<1>2. Busy(g)' = Busy(g)
  BY <1>1 DEF Busy
<1>3. Shape(g)'
  BY <1>1, <1>2 DEF IInv, Shape, Renaming
<1>4. Busy(g)' => mixed'[g]
  BY <1>2, OthersOverlap
<1>. QED  BY <1>3, <1>4 DEF Clean, Exclusive, Renamed

LEMMA SoloKept ==
  ASSUME IInv, NEW h \in Handlers, Step(h)
  PROVE  Solo'
<1>. SUFFICES ASSUME NEW g \in Handlers, NEW k \in Handlers, g # k, Busy(g)', Busy(k)'
              PROVE  mixed'[g]
  BY DEF Solo
<1>1. CASE g # h
  <2>1. Busy(g)
    BY <1>1, LocalsKept DEF IInv, Busy
  <2>. QED  BY <1>1, <2>1, OthersOverlap
<1>2. CASE g = h
  <2>1. Busy(k)
    BY <1>2, LocalsKept DEF IInv, Busy
  <2>2. CASE Find(h) \/ FindNone(h)
    BY <1>2, <2>1, <2>2 DEF Find, FindNone, Overlap
  <2>3. CASE ~(Find(h) \/ FindNone(h))
    <3>1. Busy(h) /\ mixed' = mixed
      BY <2>3 DEF Step, ListPeers, Disable, Enable, Set, Add, Delete, Stage, Commit,
                  CommitDelete, Reload, Associated, Fail, End, Goto, Busy
    <3>. QED  BY <1>2, <2>1, <3>1 DEF IInv, Solo
  <2>. QED  BY <2>2, <2>3
<1>. QED  BY <1>1, <1>2

-----------------------------------------------------------------------------
(* The steps of a handler keep its own part of the invariant. *)

LEMMA BeginKept ==
  ASSUME IInv, NEW h \in Handlers, Find(h) \/ FindNone(h)
  PROVE  Shape(h)' /\ Clean(h)' /\ Exclusive(h)' /\ Renamed(h)'
<1>0. /\ req[h] \in Requests /\ req' = req /\ view' = view /\ saved' = saved
      /\ todo' = todo /\ pc[h] = "new" /\ todo[h] = {}
      /\ pc'[h] \in {"peers", "add", "delete", "set", "done"}
  BY DEF IInv, TypeOK, Shape, Find, FindNone, Goto, FirstStep
<1>1. ~mixed'[h] => view = saved
  BY DEF Find, FindNone, Overlap
<1>2. CASE Find(h)
  <2>1. PICK n \in Having(view, req[h].id) :
          cur'[h] = {[name |-> n, dev |-> view[n].dev]}
    BY <1>2 DEF Find, IInv, TypeOK
  <2>2. pc'[h] = FirstStep(req[h])
    BY <1>2 DEF Find, Goto, IInv, TypeOK
  <2>3. n \in DOMAIN view
    BY <2>1 DEF Having
  <2>4. Shape(h)'
    BY <1>0, <2>1, <2>2 DEF Shape, FirstStep, Requests, Renaming
  <2>5. Clean(h)'
    BY <1>0, <1>1 DEF Clean, Differs
  <2>6. Exclusive(h)'
    BY <1>0, <2>1, <2>3 DEF Exclusive
  <2>7. Renamed(h)'
    BY <1>0, <2>2 DEF Renamed, FirstStep, Renaming
  <2>. QED  BY <2>4, <2>5, <2>6, <2>7
<1>3. CASE FindNone(h)
  <2>1. pc'[h] = IF req[h].op = "add" THEN "add" ELSE "done"
    BY <1>3 DEF FindNone, Goto, IInv, TypeOK
  <2>2. Shape(h)'
    BY <1>0, <2>1 DEF Shape, Busy
  <2>3. Clean(h)'
    BY <1>0, <1>1 DEF Clean, Differs
  <2>4. Exclusive(h)' /\ Renamed(h)'
    BY <1>0, <2>1 DEF Exclusive, Renamed, Renaming, Busy
  <2>. QED  BY <2>2, <2>3, <2>4
<1>. QED  BY <1>2, <1>3

LEMMA ListPeersKept ==
  ASSUME IInv, NEW h \in Handlers, ListPeers(h)
  PROVE  Shape(h)' /\ Clean(h)' /\ Exclusive(h)' /\ Renamed(h)'
<1>1. /\ pc[h] = "peers" /\ pc'[h] = "disable" /\ cur' = cur /\ req' = req
      /\ view' = view /\ saved' = saved /\ mixed' = mixed /\ expired' = expired
      /\ req[h].op = "activate" /\ Busy(h)
  BY DEF IInv, TypeOK, ListPeers, Goto, Shape, Busy
<1>2. PICK s \in cur[h] : todo'[h] = Peers(view, s)
  BY DEF ListPeers, IInv, TypeOK
<1>3. \A t \in cur[h] : t = s
  BY <1>2 DEF IInv, TypeOK
<1>4. Shape(h)'
  BY <1>1, <1>2 DEF Shape
<1>5. Clean(h)'
  BY <1>1, <1>2 DEF IInv, Clean, Differs, Own, Peers
<1>6. Exclusive(h)'
  BY <1>1, <1>2, <1>3 DEF IInv, Exclusive
<1>7. Renamed(h)'
  BY <1>1 DEF Renamed, Renaming
<1>. QED  BY <1>4, <1>5, <1>6, <1>7

LEMMA DisableKept ==
  ASSUME IInv, NEW h \in Handlers, Disable(h)
  PROVE  Shape(h)' /\ Clean(h)' /\ Exclusive(h)' /\ Renamed(h)'
<1>1. /\ pc[h] = "disable" /\ pc' = pc /\ cur' = cur /\ req' = req
      /\ saved' = saved /\ mixed' = mixed /\ expired' = expired
      /\ req[h].op = "activate" /\ Busy(h)
  BY DEF IInv, Disable, Shape, Busy
<1>2. PICK n \in todo[h] \cap DOMAIN view :
        /\ view' = Switch(view, n, FALSE)
        /\ todo'[h] = todo[h] \ {n}
  BY DEF Disable, IInv, TypeOK
<1>3. /\ DOMAIN view' = DOMAIN view
      /\ view'[n].dev = view[n].dev
      /\ ~view'[n].on
      /\ \A m \in DOMAIN view \ {n} : view'[m] = view[m]
  <2>1. view \in Configs /\ n \in DOMAIN view /\ FALSE \in BOOLEAN
    BY <1>2 DEF IInv, TypeOK
  <2>2. /\ DOMAIN view' = DOMAIN view
        /\ view'[n] = [id |-> view[n].id, dev |-> view[n].dev, on |-> FALSE]
        /\ \A m \in DOMAIN view \ {n} : view'[m] = view[m]
    BY <1>2, <2>1, SwitchType
  <2>. QED  BY <2>2
<1>4. Shape(h)'
  BY <1>1 DEF IInv, Shape, Renaming, Busy
<1>5. Clean(h)'
  <2>1. Clean(h)
    BY DEF IInv
  <2>2. \A m : Own(h, m)' = Own(h, m)
    BY <1>1 DEF Own
  <2>3. \A m : m # n => Differs(m)' = Differs(m)
    BY <1>1, <1>3 DEF Differs
  <2>. QED  BY <1>1, <1>2, <2>1, <2>2, <2>3 DEF Clean, Busy
<1>6. Exclusive(h)'
  <2>1. \A s : Peers(view', s) \subseteq Peers(view, s) \ {n}
    BY <1>3 DEF Peers
  <2>2. \A m \in DOMAIN view : view'[m].dev = view[m].dev
    BY <1>3
  <2>3. Exclusive(h)
    BY DEF IInv
  <2>. QED  BY <1>1, <1>2, <1>3, <2>1, <2>2, <2>3 DEF Exclusive, Busy
<1>7. Renamed(h)'
  BY <1>1 DEF Renamed, Renaming
<1>. QED  BY <1>4, <1>5, <1>6, <1>7

LEMMA EnableKept ==
  ASSUME IInv, NEW h \in Handlers, Enable(h)
  PROVE  Shape(h)' /\ Clean(h)' /\ Exclusive(h)' /\ Renamed(h)'
<1>1. /\ pc[h] = "disable" /\ pc'[h] = "commit" /\ cur' = cur /\ req' = req
      /\ saved' = saved /\ mixed' = mixed /\ expired' = expired
      /\ todo' = todo /\ todo[h] = {} /\ req[h].op = "activate" /\ Busy(h)
  BY DEF IInv, TypeOK, Enable, Stage, Goto, Shape, Busy
<1>2. PICK s \in cur[h] : s.name \in DOMAIN view /\ view' = Switch(view, s.name, TRUE)
  BY DEF Enable, Stage
<1>3. \A t \in cur[h] : t = s
  BY <1>2 DEF IInv, TypeOK
<1>4. /\ DOMAIN view' = DOMAIN view
      /\ view'[s.name] = [id |-> view[s.name].id, dev |-> view[s.name].dev, on |-> TRUE]
      /\ \A m \in DOMAIN view \ {s.name} : view'[m] = view[m]
  <2>1. view \in Configs /\ TRUE \in BOOLEAN
    BY DEF IInv, TypeOK
  <2>. QED  BY <1>2, <2>1, SwitchType
<1>5. Shape(h)'
  BY <1>1 DEF IInv, Shape, Renaming, Busy
<1>6. Clean(h)'
  <2>1. Clean(h)
    BY DEF IInv
  <2>2. \A m : Own(h, m)' = Own(h, m)
    BY <1>1 DEF Own
  <2>3. \A m : m # s.name => Differs(m)' = Differs(m)
    BY <1>1, <1>4 DEF Differs
  <2>4. Own(h, s.name)
    BY <1>2 DEF Own
  <2>. QED  BY <1>1, <2>1, <2>2, <2>3, <2>4 DEF Clean
<1>7. Exclusive(h)'
  <2>1. Peers(view', s) = Peers(view, s)
    BY <1>4 DEF Peers
  <2>2. Exclusive(h)
    BY DEF IInv
  <2>3. ~mixed[h] /\ ~expired[h] => view[s.name].dev = s.dev /\ Peers(view, s) = {}
    BY <1>1, <1>2, <2>2 DEF Exclusive
  <2>4. ~mixed[h] /\ ~expired[h] => Alone(view', s)
    <3>1. view'[s.name].on
      BY <1>4
    <3>2. view'[s.name].dev = view[s.name].dev
      BY <1>4
    <3>3. s.name \in DOMAIN view'
      BY <1>2, <1>4
    <3>. QED  BY <2>1, <2>3, <3>1, <3>2, <3>3 DEF Alone
  <2>5. ~mixed'[h] /\ ~expired'[h] => \A t \in cur'[h] : Alone(view', t)
    BY <1>1, <1>3, <2>4
  <2>. QED  BY <1>1, <2>5 DEF Exclusive
<1>8. Renamed(h)'
  BY <1>1 DEF Renamed, Renaming
<1>. QED  BY <1>5, <1>6, <1>7, <1>8

\* Set, Add and Delete change one section, and it is the handler's own.
LEMMA StagedClean ==
  ASSUME IInv, NEW h \in Handlers, NEW from, NEW to \in {"commit", "commitDelete"},
         NEW c, Stage(h, from, to, c), Busy(h), NEW n, Own(h, n),
         \A m \in Names \ {n} :
           /\ m \in DOMAIN c <=> m \in DOMAIN view
           /\ m \in DOMAIN view => c[m] = view[m]
  PROVE  Clean(h)'
<1>1. /\ pc'[h] = to /\ cur' = cur /\ req' = req /\ view' = c
      /\ saved' = saved /\ mixed' = mixed /\ todo' = todo
  BY DEF IInv, TypeOK, Stage, Goto
<1>2. Clean(h)
  BY DEF IInv
<1>3. \A m : Own(h, m)' = Own(h, m)
  BY <1>1 DEF Own
<1>4. DOMAIN saved \in SUBSET Names
  BY ConfigElim DEF IInv, TypeOK
<1>5. \A m \in Names \ {n} : Differs(m)' => Differs(m)
  BY <1>1 DEF Differs
<1>. QED  BY <1>1, <1>2, <1>3, <1>5 DEF Clean

LEMMA SetKept ==
  ASSUME IInv, NEW h \in Handlers, Set(h)
  PROVE  Shape(h)' /\ Clean(h)' /\ Exclusive(h)' /\ Renamed(h)'
<1>1. PICK s \in cur[h], on \in BOOLEAN :
        s.name \in DOMAIN view /\ Stage(h, "set", "commit", Switch(view, s.name, on))
  BY DEF Set
<1>2. /\ pc[h] = "set" /\ pc'[h] = "commit" /\ cur' = cur /\ req' = req
      /\ todo' = todo /\ req[h].op # "activate" /\ ~Renaming(h) /\ Busy(h)
  BY <1>1 DEF IInv, TypeOK, Stage, Goto, Shape, Busy
<1>3. Shape(h)'
  BY <1>2 DEF IInv, Shape, Renaming, Busy
<1>4. Clean(h)'
  <2>1. view \in Configs
    BY DEF IInv, TypeOK
  <2>2. Own(h, s.name)
    BY <1>1 DEF Own
  <2>3. \A m \in Names \ {s.name} :
          /\ m \in DOMAIN Switch(view, s.name, on) <=> m \in DOMAIN view
          /\ m \in DOMAIN view => Switch(view, s.name, on)[m] = view[m]
    <3>1. s.name \in DOMAIN view /\ on \in BOOLEAN
      BY <1>1
    <3>2. /\ DOMAIN Switch(view, s.name, on) = DOMAIN view
          /\ \A m \in DOMAIN view \ {s.name} : Switch(view, s.name, on)[m] = view[m]
      BY <2>1, <3>1, SwitchType
    <3>. QED  BY <3>2
  <2>. QED  BY <1>1, <1>2, <2>2, <2>3, StagedClean
<1>5. Exclusive(h)' /\ Renamed(h)'
  BY <1>2 DEF Exclusive, Renamed, Renaming
<1>. QED  BY <1>3, <1>4, <1>5

LEMMA AddKept ==
  ASSUME IInv, NEW h \in Handlers, Add(h)
  PROVE  Shape(h)' /\ Clean(h)' /\ Exclusive(h)' /\ Renamed(h)'
<1>1. PICK dev \in Pickable, on \in BOOLEAN :
        Stage(h, "add", "commit",
              Put(view, req[h].to, [id |-> req[h].to, dev |-> dev, on |-> on]))
  BY DEF Add
<1>. DEFINE to == req[h].to
<1>2. /\ pc[h] = "add" /\ pc'[h] = "commit" /\ cur' = cur /\ req' = req
      /\ todo' = todo /\ req[h].op \in {"add", "patch"} /\ Busy(h)
  BY <1>1 DEF IInv, TypeOK, Stage, Goto, Shape, Busy
<1>3. /\ DOMAIN view' = DOMAIN view \cup {to}
      /\ view'[to] = [id |-> to, dev |-> dev, on |-> on]
      /\ \A m \in DOMAIN view \ {to} : view'[m] = view[m]
  <2>1. /\ view \in Configs /\ to \in Names
        /\ [id |-> to, dev |-> dev, on |-> on] \in Section
    BY PickableAssumption DEF IInv, TypeOK, Requests, Names, Section
  <2>. QED  BY <1>1, <2>1, PutType DEF Stage
<1>4. Shape(h)'
  BY <1>2 DEF IInv, Shape, Renaming, Busy
<1>5. Clean(h)'
  <2>1. Own(h, to)
    BY <1>2 DEF Own
  <2>2. view' = Put(view, to, [id |-> to, dev |-> dev, on |-> on])
    BY <1>1 DEF Stage
  <2>. QED  BY <1>1, <1>2, <1>3, <2>1, <2>2, StagedClean
<1>6. Exclusive(h)'
  BY <1>2 DEF Exclusive
<1>7. Renamed(h)'
  <2>1. to \in Having(view', to)
    BY <1>3 DEF Having
  <2>. QED  BY <1>2, <2>1 DEF Renamed, Renaming
<1>. QED  BY <1>4, <1>5, <1>6, <1>7

LEMMA DeleteKept ==
  ASSUME IInv, NEW h \in Handlers, Delete(h)
  PROVE  Shape(h)' /\ Clean(h)' /\ Exclusive(h)' /\ Renamed(h)'
<1>1. PICK s \in cur[h] : Stage(h, "delete", "commitDelete", Drop(view, s.name))
  BY DEF Delete
<1>2. /\ pc[h] = "delete" /\ pc'[h] = "commitDelete" /\ cur' = cur /\ req' = req
      /\ todo' = todo /\ saved' = saved /\ mixed' = mixed /\ expired' = expired /\ Busy(h)
  BY <1>1 DEF IInv, TypeOK, Stage, Goto, Busy
<1>3. Shape(h)'
  BY <1>2 DEF IInv, Shape, Renaming, Busy
<1>4. Clean(h)'
  <2>1. view \in Configs
    BY DEF IInv, TypeOK
  <2>2. Own(h, s.name)
    BY <1>1 DEF Own
  <2>3. \A m \in Names \ {s.name} :
          /\ m \in DOMAIN Drop(view, s.name) <=> m \in DOMAIN view
          /\ m \in DOMAIN view => Drop(view, s.name)[m] = view[m]
    BY <2>1, DropType
  <2>. QED  BY <1>1, <1>2, <2>2, <2>3, StagedClean
<1>5. Exclusive(h)'
  BY <1>2 DEF Exclusive
<1>6. Renamed(h)'
  BY <1>2 DEF IInv, Renamed, Renaming, Busy
<1>. QED  BY <1>3, <1>4, <1>5, <1>6

LEMMA CommitKept ==
  ASSUME IInv, NEW h \in Handlers, Commit(h)
  PROVE  Shape(h)' /\ Clean(h)' /\ Exclusive(h)' /\ Renamed(h)'
<1>1. /\ pc[h] = "commit" /\ pc'[h] \in {"reload", "delete", "done"}
      /\ pc'[h] = "delete" => req[h].op = "patch"
      /\ pc'[h] = "reload" => req[h].op \in {"activate", "deactivate"}
      /\ pc'[h] # "done" => cur'[h] = cur[h]
      /\ pc'[h] # "done" => todo'[h] = todo[h]
      /\ pc'[h] = "done" => todo'[h] = {}
      /\ req' = req /\ saved' = view /\ view' = view /\ mixed' = mixed
      /\ expired' = expired /\ Busy(h)
  BY DEF IInv, TypeOK, Commit, Save, Goto, End, Busy
<1>2. Shape(h) /\ Clean(h) /\ Exclusive(h) /\ Renamed(h)
  BY DEF IInv
<1>3. Shape(h)'
  BY <1>1, <1>2 DEF Shape, Renaming, Busy
<1>4. Clean(h)'
  BY <1>1, <1>2 DEF Clean, Differs, Shape, Busy
<1>5. Exclusive(h)'
  BY <1>1, <1>2 DEF Exclusive, Busy
<1>6. Renamed(h)'
  BY <1>1, <1>2 DEF Renamed, Renaming, Busy
<1>. QED  BY <1>3, <1>4, <1>5, <1>6

LEMMA ReloadKept ==
  ASSUME IInv, NEW h \in Handlers, Reload(h)
  PROVE  Shape(h)' /\ Clean(h)' /\ Exclusive(h)' /\ Renamed(h)'
<1>1. /\ pc[h] = "reload" /\ pc'[h] \in {"wait", "done"}
      /\ pc'[h] = "wait" => req[h].op = "activate" /\ cur' = cur /\ todo' = todo
      /\ pc'[h] = "done" => todo'[h] = {}
      /\ req' = req /\ saved' = saved /\ view' = view /\ running' = saved
      /\ mixed' = mixed /\ expired' = expired /\ Busy(h)
  BY DEF IInv, TypeOK, Reload, Goto, End, Busy
<1>2. Shape(h) /\ Clean(h) /\ Exclusive(h) /\ Renamed(h)
  BY DEF IInv
<1>3. Shape(h)'
  BY <1>1, <1>2 DEF Shape, Renaming, Busy
<1>4. Clean(h)'
  BY <1>1, <1>2 DEF Clean, Differs, Shape, Busy
<1>5. Exclusive(h)'
  BY <1>1, <1>2 DEF Exclusive, Busy
<1>6. Renamed(h)'
  BY <1>1 DEF Renamed, Renaming, Busy
<1>. QED  BY <1>3, <1>4, <1>5, <1>6

LEMMA EndKept ==
  ASSUME IInv, NEW h \in Handlers, NEW from, End(h, from)
  PROVE  Shape(h)' /\ Clean(h)' /\ Exclusive(h)' /\ Renamed(h)'
<1>1. pc'[h] = "done" /\ todo'[h] = {} /\ ~Busy(h)'
  BY DEF IInv, TypeOK, End, Goto, Busy
<1>. QED  BY <1>1 DEF Shape, Clean, Exclusive, Renamed

LEMMA ReplacedKept ==
  ASSUME IInv, SessionReplaced, NEW h \in Handlers
  PROVE  Shape(h)' /\ Clean(h)' /\ Exclusive(h)' /\ Renamed(h)'
<1>1. /\ req' = req /\ pc' = pc /\ cur' = cur /\ todo' = todo /\ mixed' = mixed
      /\ view' = saved /\ saved' = saved
  BY DEF SessionReplaced
<1>2. Shape(h) /\ Clean(h)
  BY DEF IInv
<1>3. Shape(h)'
  BY <1>1, <1>2 DEF Shape, Renaming, Busy
<1>4. \A m : Own(h, m)' = Own(h, m)
  BY <1>1 DEF Own
<1>5. \A m : ~Differs(m)'
  BY <1>1 DEF Differs
<1>6. Clean(h)'
  BY <1>1, <1>2, <1>4, <1>5 DEF Clean, Busy
<1>7. Busy(h)' => expired'[h]
  BY DEF SessionReplaced, Busy
<1>. QED  BY <1>3, <1>6, <1>7 DEF Exclusive, Renamed

LEMMA StepIInv ==
  ASSUME IInv, [Next]_vars
  PROVE  IInv'
<1>0. TypeOK'
  BY StepType DEF IInv
<1>1. ASSUME NEW h \in Handlers, Step(h) PROVE IInv'
  <2>1. Solo'
    BY <1>1, SoloKept
  <2>2. Shape(h)' /\ Clean(h)' /\ Exclusive(h)' /\ Renamed(h)'
    <3>1. CASE Find(h) \/ FindNone(h)
      BY <3>1, BeginKept
    <3>2. CASE ListPeers(h)
      BY <3>2, ListPeersKept
    <3>3. CASE Disable(h)
      BY <3>3, DisableKept
    <3>4. CASE Enable(h)
      BY <3>4, EnableKept
    <3>5. CASE Set(h)
      BY <3>5, SetKept
    <3>6. CASE Add(h)
      BY <3>6, AddKept
    <3>7. CASE Delete(h)
      BY <3>7, DeleteKept
    <3>8. CASE Commit(h)
      BY <3>8, CommitKept
    <3>9. CASE Reload(h)
      BY <3>9, ReloadKept
    <3>10. CASE CommitDelete(h) \/ Associated(h) \/ Fail(h)
      BY <3>10, EndKept DEF CommitDelete, Associated, Fail
    <3>. QED
      BY <1>1, <3>1, <3>2, <3>3, <3>4, <3>5, <3>6, <3>7, <3>8, <3>9, <3>10 DEF Step
  <2>3. \A g \in Handlers : Shape(g)' /\ Clean(g)' /\ Exclusive(g)' /\ Renamed(g)'
    BY <1>1, <2>2, OthersKept
  <2>. QED  BY <1>0, <2>1, <2>3 DEF IInv
<1>2. CASE SessionReplaced
  <2>1. Solo'
    BY <1>2 DEF IInv, Solo, SessionReplaced, Busy
  <2>. QED  BY <1>0, <1>2, <2>1, ReplacedKept DEF IInv
<1>3. CASE UNCHANGED vars
  <2>1. Solo'
    BY <1>3 DEF IInv, Solo, vars, Busy
  <2>2. \A g \in Handlers : Shape(g)' /\ Clean(g)' /\ Exclusive(g)' /\ Renamed(g)'
    BY <1>3 DEF IInv, vars, Shape, Clean, Exclusive, Renamed, Busy, Renaming, Differs,
                Own, Alone
  <2>. QED  BY <1>0, <2>1, <2>2 DEF IInv
<1>. QED  BY <1>1, <1>2, <1>3 DEF Next

LEMMA IInvAlways == Spec => []IInv
BY InitIInv, StepIInv, PTL DEF Spec

-----------------------------------------------------------------------------
\* ActivateExclusive: an activation that ran alone under one session waits with
\* its station enabled and no enabled station beside it on the radio.
THEOREM ActivateExclusiveCorrect == Spec => []ActivateExclusive
<1>1. IInv => ActivateExclusive
  <2>. SUFFICES ASSUME IInv, NEW h \in Handlers, pc[h] = "wait", ~mixed[h], ~expired[h]
                PROVE  \E s \in cur[h] :
                         /\ s.name \in DOMAIN running
                         /\ running[s.name].on
                         /\ Peers(running, s) = {}
    BY DEF ActivateExclusive
  <2>1. Shape(h) /\ Exclusive(h) /\ Busy(h)
    BY DEF IInv, Busy
  <2>2. cur[h] # {} /\ \A s \in cur[h] : Alone(running, s)
    BY <2>1 DEF Shape, Exclusive
  <2>. QED  BY <2>2 DEF Alone
<1>. QED  BY <1>1, IInvAlways, PTL

\* RenameSavesFirst: a rename that ran alone under one session deletes the old
\* section only when the new one is saved.
THEOREM RenameSavesFirstCorrect == Spec => []RenameSavesFirst
<1>1. IInv => RenameSavesFirst
  BY DEF IInv, RenameSavesFirst, Renamed, Busy
<1>. QED  BY <1>1, IInvAlways, PTL

\* CommitsOwn: a commit of a handler that ran alone saves changes of its own only.
THEOREM CommitsOwnCorrect == Spec => CommitsOwn
<1>1. ASSUME IInv, [Next]_vars, NEW h \in Handlers,
             pc[h] \in {"commit", "commitDelete"}, pc'[h] # pc[h], ~mixed[h],
             NEW n \in Names, Changed(n)
      PROVE  Own(h, n)
  <2>1. Clean(h) /\ Busy(h)
    BY <1>1 DEF IInv, Busy
  <2>2. saved' = saved \/ saved' = view
    BY <1>1 DEF Next, Step, Find, FindNone, ListPeers, Disable, Enable, Set, Add, Delete,
                Stage, Commit, CommitDelete, Save, Reload, Associated, Fail,
                SessionReplaced, vars
  <2>3. Differs(n)
    BY <1>1, <2>2 DEF Changed, Differs
  <2>. QED  BY <1>1, <2>1, <2>3 DEF Clean
<1>2. IInv /\ [Next]_vars =>
        [\A h \in Handlers :
           pc[h] \in {"commit", "commitDelete"} /\ pc'[h] # pc[h] /\ ~mixed[h]
           => \A n \in Names : Changed(n) => Own(h, n)]_vars
  BY <1>1
<1>. QED  BY <1>2, IInvAlways, PTL DEF Spec, CommitsOwn

-----------------------------------------------------------------------------
\* What is staged is on its way to a commit, or was left behind.
Staged ==
  view # saved =>
    stray \/ \E h \in Handlers : pc[h] \in {"disable", "commit", "commitDelete"}

LEMMA StepStaged ==
  ASSUME TypeOK, Staged, [Next]_vars
  PROVE  Staged'
<1>1. ASSUME NEW h \in Handlers, Find(h) \/ FindNone(h) \/ ListPeers(h) \/ Associated(h)
      PROVE  Staged'
  <2>1. /\ view' = view /\ saved' = saved /\ stray' = stray
        /\ pc[h] \notin {"disable", "commit", "commitDelete"}
        /\ \A k \in Handlers \ {h} : pc'[k] = pc[k]
    BY <1>1 DEF Find, FindNone, ListPeers, Associated, End, Goto, TypeOK
  <2>. QED  BY <2>1 DEF Staged
<1>2. ASSUME NEW h \in Handlers, Disable(h)
      PROVE  Staged'
  BY <1>2 DEF Disable, Staged
<1>3. ASSUME NEW h \in Handlers, Enable(h) \/ Set(h) \/ Add(h) \/ Delete(h)
      PROVE  Staged'
  <2>1. pc'[h] \in {"commit", "commitDelete"}
    BY <1>3 DEF Enable, Set, Add, Delete, Stage, Goto, TypeOK
  <2>. QED  BY <2>1 DEF Staged
<1>4. ASSUME NEW h \in Handlers, Commit(h) \/ CommitDelete(h)
      PROVE  Staged'
  BY <1>4 DEF Commit, CommitDelete, Save, Staged
<1>5. ASSUME NEW h \in Handlers, Reload(h)
      PROVE  Staged'
  <2>1. /\ view' = view /\ saved' = saved /\ stray' = stray /\ pc[h] = "reload"
        /\ \A k \in Handlers \ {h} : pc'[k] = pc[k]
    BY <1>5 DEF Reload, End, Goto, TypeOK
  <2>. QED  BY <2>1 DEF Staged
<1>6. ASSUME NEW h \in Handlers, Fail(h)
      PROVE  Staged'
  BY <1>6 DEF Fail, Staged
<1>7. CASE SessionReplaced
  BY <1>7 DEF SessionReplaced, Staged
<1>8. CASE UNCHANGED vars
  BY <1>8 DEF vars, Staged
<1>. QED  BY <1>1, <1>2, <1>3, <1>4, <1>5, <1>6, <1>7, <1>8 DEF Next, Step

\* QuietSaved: with no request under way, only a failed one has left changes.
THEOREM QuietSavedCorrect == Spec => []QuietSaved
<1>1. Init => Staged
  BY DEF Init, Staged
<1>2. Staged => QuietSaved
  BY DEF Staged, QuietSaved, Busy
<1>. QED  BY <1>1, <1>2, StepStaged, TypeCorrect, PTL DEF Spec

-----------------------------------------------------------------------------
(* What a request that runs alone, under one session, saves is what it is for. *)

Undisturbed(h) == Busy(h) /\ ~mixed[h] /\ ~expired[h]

\* A request has a section at hand when it found one; an add then changes it.
Located(h) ==
  /\ pc[h] = "new" => cur[h] = {}
  /\ pc[h] = "add" => cur[h] = {} \/ Renaming(h)

\* The section found is still what it was found as, and so much of the change is
\* staged as the steps so far were to stage.
Planned(h) ==
  Undisturbed(h) =>
    /\ pc[h] \notin {"reload", "wait"} => cur[h] \subseteq Target(h, saved)
    /\ pc[h] = "disable" =>
         \A s \in cur[h] :
           /\ todo[h] \subseteq Peers(saved, s)
           /\ view = SwitchedOff(saved, Peers(saved, s) \ todo[h])
    /\ pc[h] = "commit" => view \in Intended(h, saved)
    /\ pc[h] = "commitDelete" => view \in Deleted(h, saved)

PlanInv == IInv /\ \A h \in Handlers : Located(h) /\ Planned(h)

LEMMA InitPlan == Init => PlanInv
BY InitIInv DEF Init, PlanInv, Located, Planned, Undisturbed, Busy

\* Switching off, one station at a time.
LEMMA SwitchedOffNone ==
  ASSUME NEW c \in Configs
  PROVE  SwitchedOff(c, {}) = c
BY ConfigElim DEF SwitchedOff

LEMMA SwitchedOffMore ==
  ASSUME NEW c \in Configs, NEW N, NEW n \in DOMAIN c \ N
  PROVE  Switch(SwitchedOff(c, N), n, FALSE) = SwitchedOff(c, N \cup {n})
<1>. DEFINE d == SwitchedOff(c, N)
            e == SwitchedOff(c, N \cup {n})
<1>1. /\ DOMAIN d = DOMAIN c /\ d[n] = c[n]
      /\ DOMAIN e = DOMAIN c /\ e[n] = [c[n] EXCEPT !.on = FALSE]
      /\ \A m \in DOMAIN c \ {n} : d[m] = e[m]
  BY DEF SwitchedOff
<1>2. Switch(d, n, FALSE) = [m \in DOMAIN c |-> IF m = n THEN [c[n] EXCEPT !.on = FALSE]
                                                       ELSE d[m]]
  BY <1>1 DEF Switch
<1>3. Switch(d, n, FALSE) = [m \in DOMAIN c |-> e[m]]
  BY <1>1, <1>2
<1>4. e = [m \in DOMAIN c |-> e[m]]
  BY DEF SwitchedOff
<1>. QED  BY <1>3, <1>4

\* A rename's new section is not the one it was found by.
LEMMA TargetRenamed ==
  ASSUME NEW h \in Handlers, req[h] \in Requests, Renaming(h),
         NEW c \in Configs, NEW s \in Target(h, c)
  PROVE  s.name # req[h].to
<1>1. s.name \in Profiles => s.name = req[h].id
  BY ConfigElim DEF Target
<1>. QED  BY <1>1 DEF Renaming, Requests

LEMMA OthersPlan ==
  ASSUME PlanInv, NEW h \in Handlers, Step(h), NEW g \in Handlers, g # h
  PROVE  Located(g)' /\ Planned(g)'
<1>1. pc'[g] = pc[g] /\ cur'[g] = cur[g] /\ todo'[g] = todo[g] /\ req' = req
  BY LocalsKept DEF PlanInv, IInv
<1>2. Busy(g)' => mixed'[g]
  BY <1>1, OthersOverlap DEF PlanInv, Busy
<1>. QED  BY <1>1, <1>2 DEF PlanInv, Located, Planned, Undisturbed, Renaming

LEMMA BeginPlan ==
  ASSUME PlanInv, NEW h \in Handlers, Find(h) \/ FindNone(h)
  PROVE  Located(h)' /\ Planned(h)'
<1>0. /\ req[h] \in Requests /\ req' = req /\ view' = view /\ saved' = saved
      /\ pc[h] = "new" /\ pc'[h] \in {"peers", "add", "delete", "set", "done"}
      /\ cur[h] = {} /\ TypeOK
  BY DEF PlanInv, IInv, TypeOK, Located, Find, FindNone, Goto, FirstStep
<1>1. ~mixed'[h] => view = saved
  BY DEF Find, FindNone, Overlap
<1>2. CASE Find(h)
  <2>1. PICK n \in Having(view, req[h].id) :
          cur'[h] = {[name |-> n, dev |-> view[n].dev]}
    BY <1>0, <1>2 DEF Find, TypeOK
  <2>2. pc'[h] = "add" => Renaming(h)'
    BY <1>0, <1>2 DEF Find, Goto, TypeOK, FirstStep, Renaming
  <2>3. ~mixed'[h] => cur'[h] \subseteq Target(h, saved)'
    BY <1>0, <1>1, <2>1 DEF Target, Having
  <2>. QED  BY <1>0, <2>2, <2>3 DEF Located, Planned, Undisturbed
<1>3. CASE FindNone(h)
  <2>1. cur'[h] = {}
    BY <1>0, <1>3 DEF FindNone
  <2>. QED  BY <1>0, <2>1 DEF Located, Planned
<1>. QED  BY <1>2, <1>3

LEMMA ListPeersPlan ==
  ASSUME PlanInv, NEW h \in Handlers, ListPeers(h)
  PROVE  Located(h)' /\ Planned(h)'
<1>1. /\ pc[h] = "peers" /\ pc'[h] = "disable" /\ cur' = cur /\ req' = req
      /\ view' = view /\ saved' = saved /\ mixed' = mixed /\ expired' = expired
      /\ Busy(h)
  BY DEF PlanInv, IInv, TypeOK, ListPeers, Goto, Busy
<1>2. PICK s \in cur[h] : todo'[h] = Peers(view, s)
  BY DEF ListPeers, PlanInv, IInv, TypeOK
<1>3. \A t \in cur[h] : t = s
  BY <1>2 DEF PlanInv, IInv, TypeOK
<1>4. ~mixed[h] => view = saved
  BY <1>1 DEF PlanInv, IInv, Clean
<1>5. SwitchedOff(saved, Peers(saved, s) \ Peers(saved, s)) = saved
  <2>1. Peers(saved, s) \ Peers(saved, s) = {}
    OBVIOUS
  <2>. QED  BY <2>1, SwitchedOffNone DEF PlanInv, IInv, TypeOK
<1>6. Undisturbed(h) => cur[h] \subseteq Target(h, saved)
  BY <1>1 DEF PlanInv, Planned
<1>7. Target(h, saved)' = Target(h, saved)
  BY <1>1 DEF Target
<1>8. Undisturbed(h)' =>
        \A t \in cur'[h] :
          /\ todo'[h] \subseteq Peers(saved', t)
          /\ view' = SwitchedOff(saved', Peers(saved', t) \ todo'[h])
  BY <1>1, <1>2, <1>3, <1>4, <1>5 DEF Undisturbed
<1>. QED  BY <1>1, <1>6, <1>7, <1>8 DEF Located, Planned, Undisturbed

LEMMA DisablePlan ==
  ASSUME PlanInv, NEW h \in Handlers, Disable(h)
  PROVE  Located(h)' /\ Planned(h)'
<1>1. /\ pc[h] = "disable" /\ pc' = pc /\ cur' = cur /\ req' = req
      /\ saved' = saved /\ mixed' = mixed /\ expired' = expired /\ Busy(h)
      /\ saved \in Configs
  BY DEF PlanInv, IInv, TypeOK, Disable, Busy
<1>2. PICK n \in todo[h] \cap DOMAIN view :
        /\ view' = Switch(view, n, FALSE)
        /\ todo'[h] = todo[h] \ {n}
  BY DEF Disable, PlanInv, IInv, TypeOK
<1>3. ASSUME Undisturbed(h), NEW s \in cur[h]
      PROVE  /\ todo'[h] \subseteq Peers(saved, s)
             /\ view' = SwitchedOff(saved, Peers(saved, s) \ todo'[h])
  <2>. DEFINE N == Peers(saved, s) \ todo[h]
  <2>1. todo[h] \subseteq Peers(saved, s) /\ view = SwitchedOff(saved, N)
    BY <1>1, <1>3 DEF PlanInv, Planned
  <2>2. n \in DOMAIN saved \ N
    BY <1>2, <2>1 DEF Peers
  <2>3. view' = SwitchedOff(saved, N \cup {n})
    BY <1>1, <1>2, <2>1, <2>2, SwitchedOffMore
  <2>4. N \cup {n} = Peers(saved, s) \ todo'[h]
    BY <1>2, <2>1
  <2>. QED  BY <1>2, <2>1, <2>3, <2>4
<1>4. Undisturbed(h)' = Undisturbed(h) /\ Target(h, saved)' = Target(h, saved)
  BY <1>1 DEF Undisturbed, Busy, Target
<1>5. Undisturbed(h) => cur[h] \subseteq Target(h, saved)
  BY <1>1 DEF PlanInv, Planned
<1>. QED  BY <1>1, <1>3, <1>4, <1>5 DEF Located, Planned

LEMMA EnablePlan ==
  ASSUME PlanInv, NEW h \in Handlers, Enable(h)
  PROVE  Located(h)' /\ Planned(h)'
<1>1. /\ pc[h] = "disable" /\ pc'[h] = "commit" /\ cur' = cur /\ req' = req
      /\ saved' = saved /\ mixed' = mixed /\ expired' = expired /\ Busy(h)
      /\ todo[h] = {} /\ req[h].op = "activate"
  BY DEF PlanInv, IInv, TypeOK, Shape, Enable, Stage, Goto, Busy
<1>2. PICK s \in cur[h] : view' = Switch(view, s.name, TRUE)
  BY DEF Enable, Stage
<1>3. Undisturbed(h)' = Undisturbed(h) /\ Target(h, saved)' = Target(h, saved)
  BY <1>1 DEF Undisturbed, Busy, Target
<1>4. Undisturbed(h) => cur[h] \subseteq Target(h, saved)
  BY <1>1 DEF PlanInv, Planned
<1>5. Undisturbed(h) => view' \in Activated(h, saved)
  <2>1. Undisturbed(h) => view = SwitchedOff(saved, Peers(saved, s) \ {})
    BY <1>1, <1>2 DEF PlanInv, Planned
  <2>2. Peers(saved, s) \ {} = Peers(saved, s)
    OBVIOUS
  <2>. QED  BY <1>2, <1>4, <2>1, <2>2 DEF Activated
<1>6. Intended(h, saved)' = Activated(h, saved)
  <2>1. Intended(h, saved)' = Activated(h, saved)'
    <3>1. req'[h].op = "activate" /\ ~Renaming(h)'
      BY <1>1 DEF Renaming
    <3>. QED  BY <3>1 DEF Intended
  <2>2. Activated(h, saved)' = Activated(h, saved)
    BY <1>1, <1>3 DEF Activated
  <2>. QED  BY <2>1, <2>2
<1>. QED  BY <1>1, <1>3, <1>4, <1>5, <1>6 DEF Located, Planned

LEMMA SetPlan ==
  ASSUME PlanInv, NEW h \in Handlers, Set(h)
  PROVE  Located(h)' /\ Planned(h)'
<1>1. PICK s \in cur[h], on \in BOOLEAN :
        /\ req[h].op = "deactivate" => ~on
        /\ Stage(h, "set", "commit", Switch(view, s.name, on))
  BY DEF Set
<1>2. /\ pc[h] = "set" /\ pc'[h] = "commit" /\ cur' = cur /\ req' = req
      /\ saved' = saved /\ mixed' = mixed /\ expired' = expired /\ Busy(h)
      /\ req[h].op # "activate" /\ ~Renaming(h) /\ view' = Switch(view, s.name, on)
  BY <1>1 DEF PlanInv, IInv, TypeOK, Shape, Stage, Goto, Busy
<1>3. Undisturbed(h)' = Undisturbed(h) /\ Target(h, saved)' = Target(h, saved)
  BY <1>2 DEF Undisturbed, Busy, Target
<1>4. Undisturbed(h) => cur[h] \subseteq Target(h, saved) /\ view = saved
  BY <1>2 DEF PlanInv, Planned, IInv, Clean, Undisturbed
<1>5. Undisturbed(h) => view' \in Updated(h, saved)
  BY <1>1, <1>2, <1>4 DEF Updated
<1>6. Undisturbed(h) /\ req[h].op = "deactivate" =>
        view' \in {Switch(saved, t.name, FALSE) : t \in Target(h, saved)}
  <2>1. req[h].op = "deactivate" => on = FALSE
    BY <1>1
  <2>. QED  BY <1>1, <1>2, <1>4, <2>1
<1>7. Intended(h, saved)' = IF req[h].op = "deactivate"
                             THEN {Switch(saved, t.name, FALSE) : t \in Target(h, saved)}
                             ELSE Updated(h, saved)
  BY <1>1, <1>2, <1>3 DEF Intended, Updated, Renaming
<1>. QED  BY <1>2, <1>3, <1>4, <1>5, <1>6, <1>7 DEF Located, Planned

LEMMA AddPlan ==
  ASSUME PlanInv, NEW h \in Handlers, Add(h)
  PROVE  Located(h)' /\ Planned(h)'
<1>1. PICK dev \in Pickable, on \in BOOLEAN :
        Stage(h, "add", "commit",
              Put(view, req[h].to, [id |-> req[h].to, dev |-> dev, on |-> on]))
  BY DEF Add
<1>2. /\ pc[h] = "add" /\ pc'[h] = "commit" /\ cur' = cur /\ req' = req
      /\ saved' = saved /\ mixed' = mixed /\ expired' = expired /\ Busy(h)
      /\ req[h].op \in {"add", "patch"} /\ (cur[h] = {} \/ Renaming(h))
      /\ view' = Put(view, req[h].to, [id |-> req[h].to, dev |-> dev, on |-> on])
  BY <1>1 DEF PlanInv, IInv, TypeOK, Shape, Located, Stage, Goto, Busy
<1>3. Undisturbed(h)' = Undisturbed(h) /\ Target(h, saved)' = Target(h, saved)
  BY <1>2 DEF Undisturbed, Busy, Target
<1>4. Undisturbed(h) => cur[h] \subseteq Target(h, saved) /\ view = saved
  BY <1>2 DEF PlanInv, Planned, IInv, Clean, Undisturbed
<1>5. Undisturbed(h) => view' \in Created(h, saved)
  BY <1>1, <1>2, <1>4 DEF Created
<1>6. Intended(h, saved)' = Created(h, saved)
  <2>1. Intended(h, saved)' = Created(h, saved)'
    <3>1. Renaming(h)' = Renaming(h) /\ req'[h].op \notin {"activate", "deactivate"}
      BY <1>2 DEF Renaming
    <3>2. cur'[h] = {} \/ Renaming(h)'
      BY <1>2, <3>1
    <3>. QED  BY <3>1, <3>2 DEF Intended
  <2>2. Created(h, saved)' = Created(h, saved)
    BY <1>2 DEF Created
  <2>. QED  BY <2>1, <2>2
<1>. QED  BY <1>2, <1>3, <1>4, <1>5, <1>6 DEF Located, Planned

LEMMA DeletePlan ==
  ASSUME PlanInv, NEW h \in Handlers, Delete(h)
  PROVE  Located(h)' /\ Planned(h)'
<1>1. PICK s \in cur[h] : Stage(h, "delete", "commitDelete", Drop(view, s.name))
  BY DEF Delete
<1>2. /\ pc[h] = "delete" /\ pc'[h] = "commitDelete" /\ cur' = cur /\ req' = req
      /\ saved' = saved /\ mixed' = mixed /\ expired' = expired /\ Busy(h)
      /\ view' = Drop(view, s.name)
  BY <1>1 DEF PlanInv, IInv, TypeOK, Stage, Goto, Busy
<1>3. Undisturbed(h)' = Undisturbed(h) /\ Target(h, saved)' = Target(h, saved)
  BY <1>2 DEF Undisturbed, Busy, Target
<1>4. Undisturbed(h) => cur[h] \subseteq Target(h, saved) /\ view = saved
  BY <1>2 DEF PlanInv, Planned, IInv, Clean, Undisturbed
<1>5. Undisturbed(h) => view' \in Deleted(h, saved)
  BY <1>1, <1>2, <1>4 DEF Deleted
<1>6. Deleted(h, saved)' = Deleted(h, saved)
  BY <1>2, <1>3 DEF Deleted
<1>. QED  BY <1>2, <1>3, <1>4, <1>5, <1>6 DEF Located, Planned

\* After the first commit of a rename the old section is what it was.
LEMMA CommitPlan ==
  ASSUME PlanInv, NEW h \in Handlers, Commit(h)
  PROVE  Located(h)' /\ Planned(h)'
<1>1. /\ pc[h] = "commit" /\ pc'[h] \in {"reload", "delete", "done"}
      /\ pc'[h] = "delete" => Renaming(h) /\ cur'[h] = cur[h]
      /\ req' = req /\ saved' = view /\ view' = view /\ mixed' = mixed
      /\ expired' = expired /\ Busy(h)
      /\ view \in Configs /\ saved \in Configs /\ req[h] \in Requests
  BY DEF PlanInv, IInv, TypeOK, Commit, Save, Goto, End, Busy, Renaming
<1>2. ASSUME Undisturbed(h), Renaming(h), NEW s \in cur[h]
      PROVE  s \in Target(h, view)
  <2>1. s \in Target(h, saved) /\ view \in Intended(h, saved)
    BY <1>1, <1>2 DEF PlanInv, Planned
  <2>2. s.name # req[h].to
    BY <1>1, <1>2, <2>1, TargetRenamed
  <2>3. view \in Created(h, saved)
    BY <1>2, <2>1 DEF Intended, Renaming
  <2>4. PICK dev \in Pickable, on \in BOOLEAN :
          view = Put(saved, req[h].to, [id |-> req[h].to, dev |-> dev, on |-> on])
    BY <2>3 DEF Created
  <2>5. s.name \in DOMAIN view /\ view[s.name] = saved[s.name]
    BY <2>1, <2>2, <2>4 DEF Put, Target
  <2>. QED  BY <1>2, <2>1, <2>5 DEF Target
<1>3. Undisturbed(h)' => Undisturbed(h)
  BY <1>1 DEF Undisturbed
<1>4. pc'[h] = "delete" => Target(h, saved)' = Target(h, view)
  BY <1>1 DEF Target
<1>. QED  BY <1>1, <1>2, <1>3, <1>4 DEF Located, Planned, Undisturbed, Busy

LEMMA StepPlan ==
  ASSUME PlanInv, [Next]_vars
  PROVE  PlanInv'
<1>0. IInv'
  BY StepIInv DEF PlanInv
<1>1. ASSUME NEW h \in Handlers, Step(h) PROVE PlanInv'
  <2>1. CASE Find(h) \/ FindNone(h)
    BY <2>1, <1>0, <1>1, BeginPlan, OthersPlan DEF PlanInv
  <2>2. CASE ListPeers(h) \/ Disable(h) \/ Enable(h)
    BY <2>2, <1>0, <1>1, ListPeersPlan, DisablePlan, EnablePlan, OthersPlan DEF PlanInv
  <2>3. CASE Set(h) \/ Add(h) \/ Delete(h) \/ Commit(h)
    BY <2>3, <1>0, <1>1, SetPlan, AddPlan, DeletePlan, CommitPlan, OthersPlan DEF PlanInv
  <2>4. CASE Reload(h) \/ CommitDelete(h) \/ Associated(h) \/ Fail(h)
    <3>1. pc'[h] \in {"wait", "done"}
      BY <2>4 DEF Reload, CommitDelete, Associated, Fail, End, Goto, PlanInv, IInv, TypeOK
    <3>2. Located(h)' /\ Planned(h)'
      BY <3>1 DEF Located, Planned, Undisturbed, Busy
    <3>. QED  BY <3>2, <1>0, <1>1, OthersPlan DEF PlanInv
  <2>. QED  BY <1>1, <2>1, <2>2, <2>3, <2>4 DEF Step
<1>2. CASE SessionReplaced
  <2>1. \A h \in Handlers : Located(h)' /\ ~Undisturbed(h)'
    BY <1>2 DEF SessionReplaced, PlanInv, Located, Renaming, Undisturbed, Busy
  <2>. QED  BY <1>0, <2>1 DEF PlanInv, Planned
<1>3. CASE UNCHANGED vars
  <2>1. \A h \in Handlers :
          /\ Intended(h, saved)' = Intended(h, saved)
          /\ Deleted(h, saved)' = Deleted(h, saved)
          /\ Target(h, saved)' = Target(h, saved)
    BY <1>3 DEF vars, Intended, Activated, Updated, Created, Deleted, Target, Renaming
  <2>2. \A h \in Handlers : Located(h)'
    BY <1>3 DEF vars, PlanInv, Located, Renaming
  <2>3. ASSUME NEW h \in Handlers PROVE Planned(h)'
    BY <1>3, <2>1 DEF vars, PlanInv, Planned, Undisturbed, Busy
  <2>. QED  BY <1>0, <2>2, <2>3 DEF PlanInv
<1>. QED  BY <1>1, <1>2, <1>3 DEF Next

LEMMA PlanInvariant == Spec => []PlanInv
BY InitPlan, StepPlan, PTL DEF Spec

\* CommitsIntended: an activation that runs alone under one session saves its
\* station on, the stations beside it on the radio off, and the rest as it was
\* (conn.go:123-148); a profile write its own section, a rename the new one and
\* then the removal of the old one (profile.go:179-190).
THEOREM CommitsIntendedCorrect == Spec => CommitsIntended
<1>1. ASSUME PlanInv, NEW h \in Handlers, ~mixed[h], ~expired[h]
      PROVE  /\ Commit(h) => saved' \in Intended(h, saved)
             /\ CommitDelete(h) => saved' \in Deleted(h, saved)
  BY <1>1 DEF Commit, CommitDelete, Save, End, Goto, PlanInv, Planned, Undisturbed, Busy
<1>2. PlanInv /\ [Next]_vars =>
        [\A h \in Handlers :
           ~mixed[h] /\ ~expired[h] =>
             /\ Commit(h) => saved' \in Intended(h, saved)
             /\ CommitDelete(h) => saved' \in Deleted(h, saved)]_vars
  BY <1>1
<1>. QED  BY <1>2, PlanInvariant, PTL DEF Spec, CommitsIntended
=============================================================================
