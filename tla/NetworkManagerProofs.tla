-------------------------- MODULE NetworkManagerProofs -------------------------
(***************************************************************************)
(* Proofs about NetworkManager, for any devices, profiles and requests.    *)
(***************************************************************************)
EXTENDS NetworkManager, FiniteSetTheorems, TLAPS

Places == {"done", "resolve", "check", "pin", "call", "wait", "lookup",
           "get", "secrets", "update", "add", "delete", "scan", "answer"}

(* The type invariant in parts, each about what the same actions change. *)

DevicesType ==
  /\ dev \in [Devices -> {"idle", "busy", "activated", "failed"}]
  /\ con \in [Devices -> Profiles \cup {None}]
  /\ pend \in [Devices -> Profiles \cup {None}]

SavedType == DOMAIN saved \subseteq Profiles /\ saved \in [DOMAIN saved -> Settings]

RequestType ==
  /\ req \in [Procs -> Requests \cup {NoRequest}]
  /\ pc \in [Procs -> Places]
  /\ \A p \in Procs : pc[p] # "done" => req[p] \in Requests

\* A scan under way has an attempt left, and its list is as long as any it read.
ScanType ==
  /\ tries \in [Procs -> 0 .. scanAttempts]
  /\ best \in [Procs -> SUBSET Stations]
  /\ heard \in [Procs -> 0 .. Cardinality(Stations)]
  /\ \A p \in Procs : pc[p] # "answer" => tries[p] < scanAttempts
  /\ \A p \in Procs : Cardinality(best[p]) = heard[p]

RestType ==
  /\ backend \in Backends
  /\ asked \in 0 .. MaxAsked
  /\ at \in [Procs -> Devices \cup {None}]
  /\ got \in [Procs -> Settings]
  /\ stale \cup muddled \cup up \cup slipped \subseteq Procs

TypeInv == DevicesType /\ SavedType /\ RequestType /\ ScanType /\ RestType

LEMMA TypeInvIs == TypeInv => TypeOK /\ ScanKeepsMost
  BY DEF TypeInv, DevicesType, SavedType, RequestType, ScanType, RestType, Places,
         TypeOK, ScanKeepsMost

-----------------------------------------------------------------------------
(* Values. *)

LEMMA BlankType == Blank \in Settings
  BY DEF Blank, Settings

LEMMA PatchedType ==
  ASSUME NEW q \in Requests, NEW s \in Settings
  PROVE  Patched(q, s) \in Settings
  BY DEF Patched, Requests, Settings

LEMMA Lists ==
  ASSUME NEW l \in SUBSET Stations
  PROVE  Cardinality(l) \in 0 .. Cardinality(Stations)
  <1>1. IsFiniteSet(l) /\ Cardinality(l) <= Cardinality(Stations)
    BY StationsAssumption, FS_Subset
  <1>2. Cardinality(l) \in Nat /\ Cardinality(Stations) \in Nat
    BY <1>1, StationsAssumption, FS_CardinalityType
  <1>. QED  BY <1>1, <1>2

LEMMA NoList == Cardinality({}) = 0 /\ {} \in SUBSET Stations
  BY FS_EmptySet

-----------------------------------------------------------------------------
(* Types. *)

LEMMA InitType == Init => TypeInv
  <1>. SUFFICES ASSUME Init PROVE TypeInv
    OBVIOUS
  <1>1. DevicesType
    BY DEF Init, DevicesType
  <1>2. SavedType
    <2>1. FirstSaved \subseteq Settings
      <3>1. \A s \in Passes : [Blank EXCEPT !.kind = "psk", !.psk = s] \in Settings
        BY DEF Blank, Settings
      <3>2. [Blank EXCEPT !.kind = "enterprise", !.eap = TRUE] \in Settings
        BY DEF Blank, Settings
      <3>. QED  BY <3>1, <3>2 DEF FirstSaved
    <2>2. saved \in UNION {[N -> FirstSaved] : N \in SUBSET Profiles}
      BY DEF Init
    <2>3. PICK N \in SUBSET Profiles : saved \in [N -> FirstSaved]
      BY <2>2
    <2>. QED  BY <2>1, <2>3 DEF SavedType
  <1>3. RequestType
    BY DEF Init, RequestType, Places
  <1>4. ScanType
    <2>1. 0 \in 0 .. Cardinality(Stations)
      BY NoList, Lists
    <2>2. /\ tries = [p \in Procs |-> 0] /\ best = [p \in Procs |-> {}]
          /\ heard = [p \in Procs |-> 0]
      BY DEF Init
    <2>. QED  BY NoList, <2>1, <2>2 DEF ScanType, scanAttempts
  <1>5. RestType
    <2>1. asked = 0 /\ 0 \in 0 .. MaxAsked
      <3>1. asked = 0
        BY DEF Init
      <3>. QED  BY <3>1, AskedAssumption
    <2>2. at \in [Procs -> Devices \cup {None}] /\ got \in [Procs -> Settings]
      BY BlankType DEF Init
    <2>3. backend \in Backends /\ stale = {} /\ muddled = {} /\ up = {} /\ slipped = {}
      BY DEF Init
    <2>. QED  BY <2>1, <2>2, <2>3 DEF RestType
  <1>. QED  BY <1>1, <1>2, <1>3, <1>4, <1>5 DEF TypeInv

LEMMA LaunchType ==
  ASSUME DevicesType, NEW u \in Profiles, NEW d \in Devices, Launch(u, d)
  PROVE  DevicesType'
  BY DEF DevicesType, Launch, Leave

LEMMA TakeDownType ==
  ASSUME DevicesType, NEW u \in Profiles, TakeDown(u)
  PROVE  DevicesType'
  BY DEF DevicesType, TakeDown, Leave

LEMMA FinishType ==
  ASSUME TypeInv, NEW p \in Procs, Finish(p)
  PROVE  RequestType' /\ ScanType' /\ RestType'
  <1>1. RequestType'
    BY DEF TypeInv, RequestType, Finish, Places
  <1>2. ScanType'
    BY NoList, Lists DEF TypeInv, ScanType, Finish, scanAttempts
  <1>3. RestType'
    BY BlankType DEF TypeInv, RestType, Finish
  <1>. QED  BY <1>1, <1>2, <1>3

\* A request goes on elsewhere.
LEMMA MoveType ==
  ASSUME TypeInv, NEW p \in Procs, NEW to \in Places, pc[p] \notin {"done", "answer"},
         pc' = [pc EXCEPT ![p] = to], UNCHANGED <<req, scan>>
  PROVE  RequestType' /\ ScanType'
  <1>1. RequestType'
    BY DEF TypeInv, RequestType
  <1>2. ScanType'
    BY DEF TypeInv, RequestType, ScanType, scan
  <1>. QED  BY <1>1, <1>2

LEMMA BeginType ==
  ASSUME TypeInv, NEW p \in Procs, NEW q \in Asked, Begin(p, q)
  PROVE  TypeInv'
  <1>1. q \in Requests
    BY AskedAssumption
  <1>2. FirstStep(q.op) \in Places
    BY <1>1 DEF FirstStep, Requests, Places
  <1>3. RequestType'
    BY <1>1, <1>2 DEF TypeInv, RequestType, Begin, Goto
  <1>4. ScanType'
    BY DEF TypeInv, RequestType, ScanType, Begin, Goto, scan
  <1>5. RestType'
    BY AskedAssumption DEF TypeInv, RestType, Begin, notes
  <1>6. DevicesType' /\ SavedType'
    BY DEF TypeInv, DevicesType, SavedType, Begin, nm
  <1>. QED  BY <1>3, <1>4, <1>5, <1>6 DEF TypeInv

\* The filter, and what waits.
LEMMA LookType ==
  ASSUME TypeInv, NEW p \in Procs, Resolve(p) \/ Visible(p) \/ Poll(p)
  PROVE  TypeInv'
  <1>1. \E to \in Places : pc' = [pc EXCEPT ![p] = to]
    BY DEF Resolve, Visible, Poll, Goto, AfterCheck, Places
  <1>2. pc[p] \notin {"done", "answer"} /\ UNCHANGED <<req, scan, nm, saved>>
    BY DEF Resolve, Visible, Poll, Goto
  <1>3. RequestType' /\ ScanType'
    BY <1>1, <1>2, MoveType
  <1>4. RestType'
    BY DEF TypeInv, RestType, Resolve, Visible, Poll, notes, ActiveOn
  <1>5. DevicesType' /\ SavedType'
    BY <1>2 DEF TypeInv, DevicesType, SavedType, nm
  <1>. QED  BY <1>3, <1>4, <1>5 DEF TypeInv

\* Requests that end and change nothing of NetworkManager's.
LEMMA EndType ==
  ASSUME TypeInv, NEW p \in Procs, Finish(p), UNCHANGED <<nm, saved>>
  PROVE  TypeInv'
  <1>1. DevicesType' /\ SavedType'
    BY DEF TypeInv, DevicesType, SavedType, nm
  <1>. QED  BY <1>1, FinishType DEF TypeInv

LEMMA PinType ==
  ASSUME TypeInv, NEW p \in Procs, Pin(p)
  PROVE  TypeInv'
  <1>1. pc[p] = "pin" /\ req[p] \in Requests /\ got[p] \in Settings
    BY DEF TypeInv, RequestType, RestType, Pin, Goto
  <1>2. SavedType'
    <2>1. [got[p] EXCEPT !.pin = req[p].pin] \in Settings
      BY <1>1 DEF Settings, Requests
    <2>. QED  BY <2>1 DEF TypeInv, SavedType, Pin
  <1>3. RequestType' /\ ScanType'
    <2>1. "call" \in Places /\ pc' = [pc EXCEPT ![p] = "call"] /\ UNCHANGED <<req, scan>>
      BY DEF Pin, Goto, Places
    <2>. QED  BY <1>1, <2>1, MoveType
  <1>4. RestType'
    BY BlankType DEF TypeInv, RestType, Pin, Readers
  <1>5. DevicesType'
    BY DEF TypeInv, DevicesType, Pin, nm
  <1>. QED  BY <1>2, <1>3, <1>4, <1>5 DEF TypeInv

LEMMA CallUpType ==
  ASSUME TypeInv, NEW p \in Procs, CallUp(p)
  PROVE  TypeInv'
  <1>1. pc[p] = "call" /\ req[p].id \in Profiles /\ req[p].dev \in Devices
    BY DEF TypeInv, RequestType, CallUp, Goto, Requests
  <1>2. DevicesType'
    BY <1>1, LaunchType DEF TypeInv, CallUp
  <1>3. RequestType' /\ ScanType'
    <2>1. "wait" \in Places /\ pc' = [pc EXCEPT ![p] = "wait"] /\ UNCHANGED <<req, scan>>
      BY DEF CallUp, Goto, Places
    <2>. QED  BY <1>1, <2>1, MoveType
  <1>4. RestType'
    BY DEF TypeInv, RestType, CallUp, Waiting
  <1>5. SavedType'
    BY DEF TypeInv, SavedType, CallUp
  <1>. QED  BY <1>2, <1>3, <1>4, <1>5 DEF TypeInv

LEMMA CallDownType ==
  ASSUME TypeInv, NEW p \in Procs, CallDown(p)
  PROVE  TypeInv'
  <1>1. req[p].id \in Profiles
    BY DEF TypeInv, RequestType, CallDown, Requests
  <1>2. DevicesType'
    BY <1>1, TakeDownType DEF TypeInv, CallDown
  <1>3. SavedType'
    BY DEF TypeInv, SavedType, CallDown
  <1>. QED  BY <1>2, <1>3, FinishType DEF TypeInv, CallDown

LEMMA GetType ==
  ASSUME TypeInv, NEW p \in Procs, Get(p)
  PROVE  TypeInv'
  <1>1. saved[req[p].id] \in Settings
    BY DEF TypeInv, SavedType, Get
  <1>2. Plain(saved[req[p].id]) \in Settings
    BY <1>1 DEF Plain, Settings
  <1>3. RequestType' /\ ScanType'
    <2>1. \E to \in Places : pc' = [pc EXCEPT ![p] = to]
      BY DEF Get, AfterGet, Places
    <2>. QED  BY <2>1, MoveType DEF Get
  <1>4. RestType'
    BY <1>1, <1>2 DEF TypeInv, RestType, Get, notes
  <1>5. DevicesType' /\ SavedType'
    BY DEF TypeInv, DevicesType, SavedType, Get, nm
  <1>. QED  BY <1>3, <1>4, <1>5 DEF TypeInv

LEMMA SecretsType ==
  ASSUME TypeInv, NEW p \in Procs, Secrets(p)
  PROVE  TypeInv'
  <1>1. RequestType' /\ ScanType'
    <2>1. "update" \in Places /\ pc' = [pc EXCEPT ![p] = "update"] /\ UNCHANGED <<req, scan>>
      BY DEF Secrets, Goto, Places
    <2>. QED  BY <2>1, MoveType DEF Secrets, Goto
  <1>2. got' \in [Procs -> Settings]
    <2>1. CASE /\ req[p].id \in DOMAIN saved
               /\ got' = [got EXCEPT ![p].psk = saved[req[p].id].psk]
      <3>1. saved[req[p].id].psk \in Passes \cup {None} /\ got[p] \in Settings
        BY <2>1 DEF TypeInv, SavedType, RestType, Settings
      <3>2. [got[p] EXCEPT !.psk = saved[req[p].id].psk] \in Settings
        BY <3>1 DEF Settings
      <3>. QED  BY <2>1, <3>2 DEF TypeInv, RestType
    <2>2. CASE UNCHANGED got
      BY <2>2 DEF TypeInv, RestType
    <2>. QED  BY <2>1, <2>2 DEF Secrets
  <1>3. RestType'
    BY <1>2 DEF TypeInv, RestType, Secrets
  <1>4. DevicesType' /\ SavedType'
    BY DEF TypeInv, DevicesType, SavedType, Secrets, nm
  <1>. QED  BY <1>1, <1>3, <1>4 DEF TypeInv

LEMMA UpdateType ==
  ASSUME TypeInv, NEW p \in Procs, Update(p)
  PROVE  TypeInv'
  <1>1. req[p] \in Requests /\ got[p] \in Settings
    BY DEF TypeInv, RequestType, RestType, Update
  <1>2. Patched(req[p], got[p]) \in Settings
    BY <1>1, PatchedType
  <1>3. SavedType'
    BY <1>2 DEF TypeInv, SavedType, Update
  <1>4. RequestType'
    BY DEF TypeInv, RequestType, Update, Places
  <1>5. ScanType'
    BY DEF TypeInv, RequestType, ScanType, Update, scan
  <1>6. RestType'
    BY BlankType DEF TypeInv, RestType, Update, Readers
  <1>7. DevicesType'
    BY DEF TypeInv, DevicesType, Update, nm
  <1>. QED  BY <1>3, <1>4, <1>5, <1>6, <1>7 DEF TypeInv

LEMMA AddType ==
  ASSUME TypeInv, NEW p \in Procs, Add(p)
  PROVE  TypeInv'
  <1>1. req[p] \in Requests /\ req[p].id \in Profiles
    BY DEF TypeInv, RequestType, Add, Requests
  <1>2. Patched(req[p], Blank) \in Settings
    BY <1>1, BlankType, PatchedType
  <1>3. SavedType'
    BY <1>1, <1>2 DEF TypeInv, SavedType, Add
  <1>4. DevicesType'
    BY DEF TypeInv, DevicesType, Add, nm
  <1>. QED  BY <1>3, <1>4, FinishType DEF TypeInv, Add

LEMMA DeleteType ==
  ASSUME TypeInv, NEW p \in Procs, Delete(p)
  PROVE  TypeInv'
  <1>1. req[p].id \in Profiles
    BY DEF TypeInv, SavedType, Delete
  <1>2. DevicesType'
    BY <1>1, TakeDownType DEF TypeInv, Delete
  <1>3. SavedType'
    BY DEF TypeInv, SavedType, Delete, Restrict
  <1>. QED  BY <1>2, <1>3, FinishType DEF TypeInv, Delete

LEMMA AttemptType ==
  ASSUME TypeInv, NEW p \in Procs, Attempt(p)
  PROVE  TypeInv'
  <1>1. PICK l \in SUBSET Stations, here \in Stations \cup {None}, advanced \in BOOLEAN :
          /\ tries' = [tries EXCEPT ![p] = @ + 1]
          /\ best' = [best EXCEPT ![p] = Longer(l, @)]
          /\ heard' = [heard EXCEPT ![p] = IF Cardinality(l) > @ THEN Cardinality(l) ELSE @]
          /\ pc' = [pc EXCEPT ![p] =
               IF \/ LastAttempt(tries[p])
                  \/ l \ {here} # {}
                  \/ backend = "nmdbus" /\ ~advanced
               THEN "answer" ELSE "scan"]
    BY DEF Attempt
  <1>2. pc[p] = "scan" /\ tries[p] \in 0 .. 3
    BY DEF TypeInv, RequestType, ScanType, scanAttempts, Attempt
  <1>3. /\ tries' \in [Procs -> 0 .. scanAttempts]
        /\ \A s \in Procs : pc'[s] # "answer" => tries'[s] < scanAttempts
    BY <1>1, <1>2 DEF TypeInv, RequestType, ScanType, scanAttempts, LastAttempt
  <1>4. /\ Longer(l, best[p]) \in SUBSET Stations
        /\ Cardinality(Longer(l, best[p])) = IF Cardinality(l) > heard[p] THEN Cardinality(l)
                                             ELSE heard[p]
    BY DEF TypeInv, ScanType, Longer
  <1>5. /\ best' \in [Procs -> SUBSET Stations]
        /\ heard' \in [Procs -> 0 .. Cardinality(Stations)]
        /\ \A s \in Procs : Cardinality(best'[s]) = heard'[s]
    BY <1>1, <1>4, Lists DEF TypeInv, ScanType
  <1>6. RequestType'
    BY <1>1, <1>2 DEF TypeInv, RequestType, Places, Attempt
  <1>7. DevicesType' /\ SavedType' /\ RestType'
    BY DEF TypeInv, DevicesType, SavedType, RestType, Attempt, nm, notes
  <1>. QED  BY <1>3, <1>5, <1>6, <1>7 DEF TypeInv, ScanType

LEMMA AttemptFailsType ==
  ASSUME TypeInv, NEW p \in Procs, AttemptFails(p)
  PROVE  TypeInv'
  <1>1. CASE Finish(p)
    BY <1>1, EndType DEF AttemptFails
  <1>2. CASE /\ tries' = [tries EXCEPT ![p] = @ + 1]
             /\ pc' = [pc EXCEPT ![p] = IF LastAttempt(tries[p]) THEN "answer" ELSE "scan"]
             /\ UNCHANGED <<backend, asked, req, at, got, best, heard, notes>>
    <2>1. pc[p] = "scan" /\ tries[p] \in 0 .. 3
      BY DEF TypeInv, RequestType, ScanType, scanAttempts, AttemptFails
    <2>2. ScanType'
      BY <1>2, <2>1 DEF TypeInv, RequestType, ScanType, scanAttempts, LastAttempt
    <2>3. RequestType'
      BY <1>2, <2>1 DEF TypeInv, RequestType, Places
    <2>4. DevicesType' /\ SavedType' /\ RestType'
      BY <1>2 DEF TypeInv, DevicesType, SavedType, RestType, AttemptFails, nm, notes
    <2>. QED  BY <2>2, <2>3, <2>4 DEF TypeInv
  <1>. QED  BY <1>1, <1>2 DEF AttemptFails

LEMMA DaemonType ==
  ASSUME TypeInv, Daemon
  PROVE  TypeInv'
  <1>1. CASE \E d \in Devices : Start(d) \/ Succeed(d) \/ GoDown(d)
    <2>. PICK d \in Devices : Start(d) \/ Succeed(d) \/ GoDown(d)
      BY <1>1
    <2>1. DevicesType'
      BY DEF TypeInv, DevicesType, Start, Succeed, GoDown
    <2>2. Requesting /\ UNCHANGED muddled
      BY DEF Start, Succeed, GoDown
    <2>3. up' \subseteq Procs
      BY DEF TypeInv, RestType, Start, Succeed, GoDown, Waiting
    <2>4. SavedType' /\ RequestType' /\ ScanType' /\ RestType'
      BY <2>2, <2>3 DEF TypeInv, SavedType, RequestType, ScanType, RestType, Requesting, scan
    <2>. QED  BY <2>1, <2>4 DEF TypeInv
  <1>2. CASE \E u \in Profiles, d \in Devices : OtherActivates(u, d)
    <2>. PICK u \in Profiles, d \in Devices : OtherActivates(u, d)
      BY <1>2
    <2>1. DevicesType'
      BY LaunchType DEF TypeInv, OtherActivates
    <2>2. SavedType' /\ RequestType' /\ ScanType'
      BY DEF TypeInv, SavedType, RequestType, ScanType, OtherActivates, scan
    <2>3. RestType'
      BY AskedAssumption DEF TypeInv, RestType, OtherActivates, Waiting
    <2>. QED  BY <2>1, <2>2, <2>3 DEF TypeInv
  <1>. QED  BY <1>1, <1>2 DEF Daemon

LEMMA StepType == TypeInv /\ [Next]_vars => TypeInv'
  <1>1. ASSUME TypeInv, NEW p \in Procs, Step(p) PROVE TypeInv'
    <2>1. CASE \E q \in Asked : Begin(p, q)
      BY <1>1, <2>1, BeginType
    <2>2. CASE Excluded(p) \/ Fail(p) \/ Activated(p) \/ NotActive(p) \/ Answer(p)
      BY <1>1, <2>2, EndType DEF Excluded, Fail, Activated, NotActive, Answer
    <2>. QED  BY <1>1, <2>1, <2>2, LookType, PinType, CallUpType, CallDownType, GetType,
                 SecretsType, UpdateType, AddType, DeleteType, AttemptType,
                 AttemptFailsType DEF Step
  <1>2. TypeInv /\ UNCHANGED vars => TypeInv'
    BY DEF TypeInv, DevicesType, SavedType, RequestType, ScanType, RestType,
           vars, nm, scan, notes
  <1>. QED  BY <1>1, <1>2, DaemonType DEF Next

LEMMA TypeInvariant == Spec => []TypeInv
  BY InitType, StepType, PTL DEF Spec

\* Every variable keeps its type, whatever the backends and NetworkManager do
\* (internal/wnet/nmdbus, nmcli); a scan makes at most scanAttempts attempts.
THEOREM TypeCorrect == Spec => []TypeOK
  BY TypeInvariant, TypeInvIs, PTL

\* Scan of nmcli and of nmdbus answer with the longest list that was read.
THEOREM ScanKeepsMostCorrect == Spec => []ScanKeepsMost
  BY TypeInvariant, TypeInvIs, PTL
-----------------------------------------------------------------------------
(* What a step of one request leaves of the others. *)

LEMMA FinishFrame ==
  ASSUME TypeInv, NEW p \in Procs, Finish(p)
  PROVE  /\ UNCHANGED backend /\ pc'[p] = "done" /\ got'[p] = Blank
         /\ \A s \in Procs \ {p} :
              /\ pc'[s] = pc[s] /\ req'[s] = req[s] /\ at'[s] = at[s] /\ got'[s] = got[s]
              /\ s \in slipped' <=> s \in slipped
              /\ s \in stale' <=> s \in stale
              /\ s \in muddled' <=> s \in muddled
              /\ s \in up' <=> s \in up
  BY DEF TypeInv, RequestType, RestType, Finish

LEMMA StepFrame ==
  ASSUME TypeInv, NEW p \in Procs, Step(p)
  PROVE  /\ UNCHANGED backend
         /\ \A s \in Procs \ {p} :
              /\ pc'[s] = pc[s] /\ req'[s] = req[s] /\ at'[s] = at[s] /\ got'[s] = got[s]
              /\ s \in slipped' <=> s \in slipped
              /\ s \in stale => s \in stale'
              /\ s \in muddled => s \in muddled'
              /\ s \in up <=> s \in up'
  <1>. USE DEF TypeInv, RequestType, RestType, Goto, notes
  <1>1. CASE \E q \in Asked : Begin(p, q)
    BY <1>1 DEF Begin
  <1>2. CASE Resolve(p) \/ Visible(p)
    BY <1>2 DEF Resolve, Visible
  <1>3. CASE Finish(p)
    BY <1>3, FinishFrame
  <1>4. CASE Pin(p)
    BY <1>4 DEF Pin
  <1>5. CASE CallUp(p) \/ Poll(p)
    BY <1>5 DEF CallUp, Poll
  <1>6. CASE Get(p)
    BY <1>6 DEF Get
  <1>7. CASE Secrets(p)
    BY <1>7 DEF Secrets
  <1>8. CASE Update(p)
    BY <1>8 DEF Update
  <1>9. CASE Attempt(p)
    BY <1>9 DEF Attempt
  <1>10. CASE AttemptFails(p) /\ ~Finish(p)
    BY <1>10 DEF AttemptFails
  <1>. QED  BY <1>1, <1>2, <1>3, <1>4, <1>5, <1>6, <1>7, <1>8, <1>9, <1>10
            DEF Step, Excluded, Fail, Activated, NotActive, CallDown, Add, Delete, Answer

LEMMA DaemonFrame ==
  ASSUME Daemon
  PROVE  /\ UNCHANGED <<backend, saved, req, pc, at, got, stale, slipped>>
         /\ muddled \subseteq muddled' /\ up \subseteq up'
  BY DEF Daemon, Start, Succeed, GoDown, OtherActivates, Requesting

-----------------------------------------------------------------------------
(* Patches. *)

Sound(c) == c.kind = "open" => c.psk = None

Reading == {"secrets", "update", "pin"}

\* What has been read is what is saved, but for what GetSettings and GetSecrets of nmdbus
\* leave out.
Read(p, c) ==
  /\ got[p].kind = c.kind /\ got[p].auto = c.auto /\ got[p].pin = c.pin
  /\ got[p].eap = IF backend = "nmdbus" THEN FALSE ELSE c.eap
  /\ (backend = "nmdbus" => pc[p] = "update" /\ req[p].security = Keep) =>
       got[p].psk = c.psk

Fresh(p) ==
  pc[p] \in Reading /\ p \notin stale /\ req[p].id \in DOMAIN saved =>
    Read(p, saved[req[p].id])

\* A pin is nmcli's; secrets are asked for when there are some.
Pinning(p) ==
  /\ pc[p] = "pin" => backend # "nmdbus"
  /\ pc[p] = "get" /\ req[p].op = "activate" => backend # "nmdbus"
  /\ pc[p] = "secrets" => backend = "nmdbus" /\ got[p].kind # "open"

ReadInv ==
  /\ \A u \in DOMAIN saved : Sound(saved[u])
  /\ \A p \in Procs : Sound(got[p]) /\ Pinning(p)
  /\ \A p \in Procs : Fresh(p)

LEMMA InitRead == Init => ReadInv
  <1>. SUFFICES ASSUME Init PROVE ReadInv
    OBVIOUS
  <1>1. \A u \in DOMAIN saved : Sound(saved[u])
    <2>1. \A c \in FirstSaved : Sound(c)
      BY DEF FirstSaved, Sound, Blank
    <2>2. saved \in UNION {[N -> FirstSaved] : N \in SUBSET Profiles}
      BY DEF Init
    <2>. QED  BY <2>1, <2>2
  <1>2. \A p \in Procs : pc[p] = "done" /\ got[p] = Blank
    BY DEF Init
  <1>. QED  BY <1>1, <1>2 DEF ReadInv, Fresh, Pinning, Reading, Sound, Blank

LEMMA PatchedSound ==
  ASSUME NEW q \in Requests, NEW c \in Settings, Sound(c)
  PROVE  Sound(Patched(q, c))
  BY DEF Sound, Patched, Settings, Requests

LEMMA ReadGet ==
  ASSUME TypeInv, ReadInv, NEW p \in Procs, Get(p)
  PROVE  (Sound(got[p]) /\ Pinning(p) /\ Fresh(p))'
  <1>. DEFINE c == saved[req[p].id]
  <1>1. c \in Settings /\ Sound(c)
    BY DEF TypeInv, SavedType, ReadInv, Get
  <1>2. /\ pc[p] = "get" /\ UNCHANGED <<saved, req, backend>> /\ pc'[p] = AfterGet(p)
        /\ got'[p] = IF backend = "nmdbus" THEN Plain(c) ELSE c
    BY DEF TypeInv, RequestType, RestType, Get
  <1>3. /\ pc'[p] = "pin" <=> req[p].op = "activate"
        /\ pc'[p] = "secrets" => backend = "nmdbus" /\ c.kind # "open"
        /\ backend = "nmdbus" /\ pc'[p] = "update" /\ req[p].security = Keep => c.kind = "open"
        /\ pc'[p] # "get"
    BY <1>2 DEF AfterGet
  <1>4. c' = c
    BY <1>2
  <1>. HIDE DEF c
  <1>5. /\ got'[p].kind = c.kind /\ got'[p].auto = c.auto /\ got'[p].pin = c.pin
        /\ got'[p].eap = (IF backend = "nmdbus" THEN FALSE ELSE c.eap)
        /\ got'[p].psk = (IF backend = "nmdbus" THEN None ELSE c.psk)
    BY <1>1, <1>2 DEF Settings, Plain
  <1>6. Sound(got[p])'
    BY <1>1, <1>5 DEF Sound
  <1>7. Pinning(p)'
    BY <1>2, <1>3, <1>5 DEF Pinning, ReadInv
  <1>8. Fresh(p)'
    <2>1. (backend = "nmdbus" => pc'[p] = "update" /\ req[p].security = Keep) =>
            got'[p].psk = c.psk
      BY <1>1, <1>3, <1>5 DEF Sound
    <2>2. Read(p, c)'
      BY <1>2, <1>4, <1>5, <2>1 DEF Read
    <2>. QED  BY <2>2 DEF Fresh, c
  <1>. QED  BY <1>6, <1>7, <1>8

LEMMA ReadSecrets ==
  ASSUME TypeInv, ReadInv, NEW p \in Procs, Secrets(p)
  PROVE  (Sound(got[p]) /\ Pinning(p) /\ Fresh(p))'
  <1>1. /\ pc[p] = "secrets" /\ pc'[p] = "update" /\ UNCHANGED <<saved, req, backend>>
        /\ got[p] \in Settings /\ got[p].kind # "open"
    BY DEF TypeInv, RequestType, RestType, ReadInv, Pinning, Secrets, Goto
  <1>2. CASE /\ req[p].id \in DOMAIN saved /\ UNCHANGED stale
             /\ got' = [got EXCEPT ![p].psk = saved[req[p].id].psk]
    <2>. DEFINE c == saved[req[p].id]
    <2>1. got'[p] = [got[p] EXCEPT !.psk = c.psk]
      BY <1>2 DEF TypeInv, RestType
    <2>2. /\ got'[p].psk = c.psk /\ got'[p].kind = got[p].kind /\ got'[p].eap = got[p].eap
          /\ got'[p].auto = got[p].auto /\ got'[p].pin = got[p].pin
      BY <1>1, <2>1 DEF Settings
    <2>3. p \notin stale => Read(p, c)
      BY <1>1, <1>2 DEF ReadInv, Fresh, Reading
    <2>4. p \notin stale => Read(p, c)'
      BY <1>1, <2>2, <2>3 DEF Read
    <2>5. Fresh(p)'
      BY <1>2, <2>4 DEF Fresh
    <2>. QED  BY <1>1, <2>2, <2>5 DEF Sound, Pinning
  <1>3. CASE stale' = stale \cup {p} /\ UNCHANGED got
    BY <1>1, <1>3 DEF ReadInv, Fresh, Sound, Pinning
  <1>. QED  BY <1>2, <1>3 DEF Secrets

\* What a request reads is saved as it was, or the request is stale from now on.
LEMMA ReaderFrame ==
  ASSUME TypeInv, NEW p \in Procs, Step(p), NEW s \in Procs \ {p},
         pc[s] \in Reading, s \notin stale', req[s].id \in DOMAIN saved'
  PROVE  req[s].id \in DOMAIN saved /\ saved'[req[s].id] = saved[req[s].id]
  <1>1. CASE Pin(p) \/ Update(p)
    <2>1. req[s].id # req[p].id
      BY <1>1 DEF Pin, Update, Readers, Reading
    <2>. QED  BY <1>1, <2>1 DEF Pin, Update, TypeInv, SavedType
  <1>2. CASE Add(p)
    <2>1. req[s].id # req[p].id
      BY <1>2 DEF Add, Reading
    <2>. QED  BY <1>2, <2>1 DEF Add
  <1>3. CASE Delete(p)
    BY <1>3 DEF Delete, Restrict
  <1>4. CASE ~(Pin(p) \/ Update(p) \/ Add(p) \/ Delete(p))
    <2>1. UNCHANGED saved
      BY <1>4 DEF Step, Begin, Resolve, Visible, Excluded, Fail, CallUp, Poll, Activated,
                  NotActive, CallDown, Get, Secrets, Attempt, AttemptFails, Answer
    <2>. QED  BY <2>1
  <1>. QED  BY <1>1, <1>2, <1>3, <1>4

\* What is saved stays sound.
LEMMA SavedSound ==
  ASSUME TypeInv, ReadInv, NEW p \in Procs, Step(p)
  PROVE  \A u \in DOMAIN saved' : Sound(saved'[u])
  <1>1. CASE Pin(p)
    <2>1. got[p] \in Settings /\ Sound(got[p])
      BY <1>1 DEF TypeInv, RestType, ReadInv
    <2>2. Sound([got[p] EXCEPT !.pin = req[p].pin])
      BY <2>1 DEF Sound, Settings
    <2>. QED  BY <1>1, <2>2 DEF Pin, TypeInv, SavedType, ReadInv
  <1>2. CASE Update(p)
    <2>1. got[p] \in Settings /\ Sound(got[p]) /\ req[p] \in Requests
      BY <1>2 DEF Update, TypeInv, RequestType, RestType, ReadInv
    <2>2. Sound(Patched(req[p], got[p]))
      BY <2>1, PatchedSound
    <2>. QED  BY <1>2, <2>2 DEF Update, TypeInv, SavedType, ReadInv
  <1>3. CASE Add(p)
    <2>1. Sound(Blank) /\ req[p] \in Requests
      BY <1>3 DEF Sound, Blank, Add, TypeInv, RequestType
    <2>2. Sound(Patched(req[p], Blank))
      BY <2>1, BlankType, PatchedSound
    <2>. QED  BY <1>3, <2>2 DEF Add, ReadInv
  <1>4. CASE Delete(p)
    BY <1>4 DEF Delete, Restrict, ReadInv
  <1>5. CASE ~(Pin(p) \/ Update(p) \/ Add(p) \/ Delete(p))
    <2>1. UNCHANGED saved
      BY <1>5 DEF Step, Begin, Resolve, Visible, Excluded, Fail, CallUp, Poll, Activated,
                  NotActive, CallDown, Get, Secrets, Attempt, AttemptFails, Answer
    <2>. QED  BY <2>1 DEF ReadInv
  <1>. QED  BY <1>1, <1>2, <1>3, <1>4, <1>5

\* The other steps leave a request with what it has read, or away from it.
LEMMA ReadElse ==
  ASSUME TypeInv, ReadInv, NEW p \in Procs, Step(p), ~Get(p), ~Secrets(p)
  PROVE  (Sound(got[p]) /\ Pinning(p))' /\ pc'[p] \notin Reading
  <1>. USE DEF TypeInv, RequestType, RestType, Goto, Reading, Pinning
  <1>0. Sound(Blank) /\ backend' = backend
    BY StepFrame DEF Sound, Blank
  <1>1. CASE \E q \in Asked : Begin(p, q)
    <2>1. PICK q \in Asked : Begin(p, q)
      BY <1>1
    <2>2. q \in Requests
      BY AskedAssumption
    <2>3. FirstStep(q.op) \notin Reading /\ (FirstStep(q.op) = "get" => q.op = "patch")
      BY <2>2 DEF FirstStep, Requests
    <2>. QED  BY <1>0, <2>1, <2>3 DEF Begin, ReadInv
  <1>2. CASE Finish(p)
    BY <1>0, <1>2, FinishFrame
  <1>3. CASE Update(p)
    BY <1>0, <1>3 DEF Update
  <1>4. CASE Resolve(p) \/ Visible(p) \/ Pin(p) \/ CallUp(p) \/ Poll(p)
    BY <1>0, <1>4 DEF Resolve, Visible, AfterCheck, Pin, CallUp, Poll, ReadInv
  <1>5. CASE Attempt(p) \/ (AttemptFails(p) /\ ~Finish(p))
    BY <1>0, <1>5 DEF Attempt, AttemptFails, ReadInv
  <1>. QED  BY <1>1, <1>2, <1>3, <1>4, <1>5
            DEF Step, Excluded, Fail, Activated, NotActive, CallDown, Add, Delete, Answer,
                AttemptFails

LEMMA ReadStep ==
  ASSUME TypeInv, ReadInv, [Next]_vars
  PROVE  ReadInv'
  <1>1. ASSUME NEW p \in Procs, Step(p) PROVE ReadInv'
    <2>1. \A u \in DOMAIN saved' : Sound(saved'[u])
      BY <1>1, SavedSound
    <2>2. (Sound(got[p]) /\ Pinning(p) /\ Fresh(p))'
      <3>1. CASE Get(p)
        BY <3>1, ReadGet
      <3>2. CASE Secrets(p)
        BY <3>2, ReadSecrets
      <3>3. CASE ~Get(p) /\ ~Secrets(p)
        BY <1>1, <3>3, ReadElse DEF Fresh
      <3>. QED  BY <3>1, <3>2, <3>3
    <2>3. ASSUME NEW s \in Procs \ {p}
          PROVE  (Sound(got[s]) /\ Pinning(s) /\ Fresh(s))'
      <3>1. /\ UNCHANGED backend /\ pc'[s] = pc[s] /\ req'[s] = req[s] /\ got'[s] = got[s]
            /\ s \in stale => s \in stale'
        BY <1>1, StepFrame
      <3>2. Sound(got[s]) /\ Pinning(s) /\ Fresh(s)
        BY DEF ReadInv
      <3>3. pc[s] \in Reading /\ s \notin stale' /\ req[s].id \in DOMAIN saved' =>
              req[s].id \in DOMAIN saved /\ saved'[req[s].id] = saved[req[s].id]
        BY <1>1, ReaderFrame
      <3>. QED  BY <3>1, <3>2, <3>3 DEF Fresh, Read, Pinning
    <2>. QED  BY <2>1, <2>2, <2>3 DEF ReadInv
  <1>2. Daemon => ReadInv'
    BY DaemonFrame DEF ReadInv, Fresh, Read, Pinning
  <1>3. UNCHANGED vars => ReadInv'
    BY DEF ReadInv, Fresh, Read, Pinning, vars, notes
  <1>. QED  BY <1>1, <1>2, <1>3 DEF Next

\* PatchProfile of either backend, and the pin of Activate of nmcli, writes all settings
\* (nmdbus.go:449, nmcli/nm.go:416-420) and changes none that it does not mention, unless
\* what it read was old, and but for the enterprise secrets, which nmdbus does not read.
THEOREM PatchMergesCorrect == Spec => PatchMerges
  <1>. DEFINE Merges(p) ==
         LET was == saved[req[p].id]
             is == saved'[req[p].id]
         IN  /\ Pin(p) \/ req[p].auto = Keep => is.auto = was.auto
             /\ Pin(p) \/ req[p].security = Keep => is.kind = was.kind /\ is.psk = was.psk
             /\ backend = "nmcli" => is.eap = was.eap
             /\ Update(p) => is.pin = was.pin
  <1>1. ASSUME TypeInv, ReadInv, NEW p \in Procs, Update(p), p \notin stale PROVE Merges(p)
    <2>. DEFINE was == saved[req[p].id]
                is == saved'[req[p].id]
    <2>1. got[p] \in Settings /\ req[p] \in Requests /\ pc[p] = "update" /\ ~Pin(p)
      BY <1>1 DEF Update, Pin, Goto, TypeInv, RequestType, RestType
    <2>2. Read(p, was)
      BY <1>1, <2>1 DEF Update, ReadInv, Fresh, Reading
    <2>3. is = Patched(req[p], got[p])
      BY <1>1 DEF Update, TypeInv, SavedType
    <2>. HIDE DEF was, is
    <2>4. /\ req[p].auto = Keep => is.auto = got[p].auto
          /\ req[p].security = Keep => is.kind = got[p].kind /\ is.psk = got[p].psk
          /\ is.eap = got[p].eap /\ is.pin = got[p].pin
      BY <2>1, <2>3 DEF Patched, Settings
    <2>5. /\ req[p].auto = Keep => is.auto = was.auto
          /\ req[p].security = Keep => is.kind = was.kind /\ is.psk = was.psk
          /\ backend = "nmcli" => is.eap = was.eap
          /\ is.pin = was.pin
      BY <2>1, <2>2, <2>4 DEF Read
    <2>. QED  BY <2>1, <2>5 DEF was, is
  <1>2. ASSUME TypeInv, ReadInv, NEW p \in Procs, Pin(p), p \notin stale PROVE Merges(p)
    <2>. DEFINE was == saved[req[p].id]
                is == saved'[req[p].id]
    <2>1. got[p] \in Settings /\ pc[p] = "pin" /\ backend # "nmdbus" /\ ~Update(p)
      <3>1. pc[p] = "pin"
        BY <1>2 DEF Pin, Goto
      <3>2. got[p] \in Settings /\ Pinning(p)
        BY <1>2 DEF TypeInv, RestType, ReadInv
      <3>. QED  BY <3>1, <3>2 DEF Pinning, Update
    <2>2. Read(p, was)
      BY <1>2, <2>1 DEF Pin, ReadInv, Fresh, Reading
    <2>3. is = [got[p] EXCEPT !.pin = req[p].pin]
      BY <1>2 DEF Pin, TypeInv, SavedType
    <2>. HIDE DEF was, is
    <2>4. /\ is.auto = got[p].auto /\ is.kind = got[p].kind
          /\ is.psk = got[p].psk /\ is.eap = got[p].eap
      BY <2>1, <2>3 DEF Settings
    <2>5. /\ is.auto = was.auto /\ is.kind = was.kind
          /\ is.psk = was.psk /\ is.eap = was.eap
      BY <2>1, <2>2, <2>4 DEF Read
    <2>. QED  BY <2>1, <2>5 DEF was, is
  <1>3. TypeInv /\ ReadInv /\ [Next]_vars =>
          [\A p \in Procs : (Update(p) \/ Pin(p)) /\ p \notin stale => Merges(p)]_vars
    <2>. HIDE DEF Merges
    <2>. QED  BY <1>1, <1>2
  <1>. QED  BY <1>3, InitType, InitRead, StepType, ReadStep, PTL DEF Spec, PatchMerges
-----------------------------------------------------------------------------
(* Activations. *)

\* A device on its way has a profile.
Occupied == \A d \in Devices : dev[d] \in {"busy", "activated"} => con[d] # None

Away(u) == ActiveOn(u) = {}

\* The profile u is nowhere but on d, and not yet activated there.
Alone(u, d) ==
  \A e \in ActiveOn(u) :
    /\ e = d
    /\ \/ pend[e] = u /\ con[e] = None
       \/ con[e] = u /\ dev[e] = "busy" /\ pend[e] # u

\* If u is activated on d, then something else has been accepted for d.
Passing(u, d) == dev[d] = "activated" /\ con[d] = u => pend[d] # None

\* A request that waits for an activation that was not seen to succeed.
Settling(p) ==
  p \notin up =>
    /\ pc[p] = "wait" /\ p \notin muddled => Alone(req[p].id, req[p].dev)
    /\ pc[p] = "lookup" /\ p \notin muddled => Away(req[p].id)
    /\ backend = "nmcli" /\ pc[p] = "wait" => Passing(req[p].id, req[p].dev)
    /\ pc[p] = "lookup" => backend # "nmcli"

SettleInv == Occupied /\ \A p \in Procs : Settling(p)

LEMMA InitSettle == Init => SettleInv
  BY DEF Init, SettleInv, Settling, Occupied

\* Another profile that is activated leaves u as far from its end as it was; and
\* u itself, when it is activated on a free device, is at its beginning.
LEMMA LaunchKeeps ==
  ASSUME DevicesType, Occupied, NEW v \in Profiles, NEW e \in Devices, Launch(v, e)
  PROVE  /\ Occupied'
         /\ \A u \in Profiles, d \in Devices :
              /\ u # v /\ Alone(u, d) => Alone(u, d)'
              /\ u # v /\ Away(u) => Away(u)'
              /\ Passing(u, d) => Passing(u, d)'
         /\ con[e] = None => Alone(v, e)'
         /\ Passing(v, e)'
  <1>. USE DEF DevicesType, Launch, Leave, ActiveOn
  <1>1. Occupied'
    BY DEF Occupied
  <1>2. ASSUME NEW u \in Profiles, NEW d \in Devices, u # v, Alone(u, d) PROVE Alone(u, d)'
    BY <1>2, ProfilesAssumption DEF Alone
  <1>3. ASSUME NEW u \in Profiles, u # v, Away(u) PROVE Away(u)'
    BY <1>3, ProfilesAssumption DEF Away
  <1>4. ASSUME NEW u \in Profiles, NEW d \in Devices, Passing(u, d) PROVE Passing(u, d)'
    BY <1>4, ProfilesAssumption DEF Passing
  <1>5. con[e] = None => Alone(v, e)'
    BY ProfilesAssumption DEF Alone
  <1>6. Passing(v, e)'
    BY ProfilesAssumption DEF Passing
  <1>. QED  BY <1>1, <1>2, <1>3, <1>4, <1>5, <1>6

LEMMA TakeDownKeeps ==
  ASSUME DevicesType, Occupied, NEW v \in Profiles, TakeDown(v)
  PROVE  /\ Occupied'
         /\ \A u \in Profiles, d \in Devices :
              /\ Alone(u, d) => Alone(u, d)'
              /\ Away(u) => Away(u)'
              /\ Passing(u, d) => Passing(u, d)'
  <1>. USE DEF DevicesType, TakeDown, Leave, ActiveOn
  <1>1. Occupied'
    BY DEF Occupied
  <1>2. ASSUME NEW u \in Profiles, NEW d \in Devices, Alone(u, d) PROVE Alone(u, d)'
    BY <1>2, ProfilesAssumption DEF Alone
  <1>3. ASSUME NEW u \in Profiles, Away(u) PROVE Away(u)'
    BY <1>3, ProfilesAssumption DEF Away
  <1>4. ASSUME NEW u \in Profiles, NEW d \in Devices, Passing(u, d) PROVE Passing(u, d)'
    BY <1>4, ProfilesAssumption DEF Passing
  <1>. QED  BY <1>1, <1>2, <1>3, <1>4

LEMMA StartKeeps ==
  ASSUME DevicesType, Occupied, NEW e \in Devices, Start(e) \/ GoDown(e)
  PROVE  /\ Occupied'
         /\ \A u \in Profiles, d \in Devices :
              /\ Alone(u, d) => Alone(u, d)'
              /\ Away(u) => Away(u)'
              /\ Passing(u, d) => Passing(u, d)'
  <1>. USE DEF DevicesType, Start, GoDown, ActiveOn
  <1>1. Occupied'
    BY DEF Occupied
  <1>2. ASSUME NEW u \in Profiles, NEW d \in Devices, Alone(u, d) PROVE Alone(u, d)'
    BY <1>2, ProfilesAssumption DEF Alone
  <1>3. ASSUME NEW u \in Profiles, Away(u) PROVE Away(u)'
    BY <1>3, ProfilesAssumption DEF Away
  <1>4. ASSUME NEW u \in Profiles, NEW d \in Devices, Passing(u, d) PROVE Passing(u, d)'
    BY <1>4, ProfilesAssumption DEF Passing
  <1>. QED  BY <1>1, <1>2, <1>3, <1>4

LEMMA SucceedKeeps ==
  ASSUME DevicesType, Occupied, NEW e \in Devices, Succeed(e)
  PROVE  /\ Occupied'
         /\ \A u \in Profiles, d \in Devices :
              /\ u # con[e] /\ Alone(u, d) => Alone(u, d)'
              /\ Away(u) => Away(u)'
              /\ u # con[e] /\ Passing(u, d) => Passing(u, d)'
  <1>. USE DEF DevicesType, Succeed, ActiveOn
  <1>1. Occupied'
    BY DEF Occupied
  <1>2. ASSUME NEW u \in Profiles, NEW d \in Devices, u # con[e], Alone(u, d)
        PROVE  Alone(u, d)'
    BY <1>2, ProfilesAssumption DEF Alone
  <1>3. ASSUME NEW u \in Profiles, Away(u) PROVE Away(u)'
    BY <1>3 DEF Away
  <1>4. ASSUME NEW u \in Profiles, NEW d \in Devices, u # con[e], Passing(u, d)
        PROVE  Passing(u, d)'
    BY <1>4 DEF Passing
  <1>. QED  BY <1>1, <1>2, <1>3, <1>4

LEMMA SameKeeps ==
  ASSUME Occupied, UNCHANGED nm
  PROVE  /\ Occupied'
         /\ \A u, d : /\ Alone(u, d) => Alone(u, d)'
                      /\ Away(u) => Away(u)'
                      /\ Passing(u, d) => Passing(u, d)'
  BY DEF Occupied, Alone, Away, Passing, ActiveOn, nm

LEMMA WaitingType ==
  ASSUME TypeInv, NEW s \in Procs, pc[s] # "done"
  PROVE  req[s] \in Requests /\ req[s].id \in Profiles /\ req[s].dev \in Devices
  BY DEF TypeInv, RequestType, Requests

\* The other steps of a request change nothing of NetworkManager's devices.
LEMMA ElseSame ==
  ASSUME NEW p \in Procs, Step(p), ~CallUp(p), ~CallDown(p), ~Delete(p)
  PROVE  UNCHANGED nm
  BY DEF Step, Begin, Resolve, Visible, Excluded, Fail, Pin, Poll, Activated, NotActive,
         Get, Secrets, Update, Add, Attempt, AttemptFails, Answer

\* What a request does to the devices leaves those who wait where they are.
LEMMA OthersSettle ==
  ASSUME TypeInv, SettleInv, NEW p \in Procs, Step(p)
  PROVE  Occupied' /\ \A s \in Procs \ {p} : Settling(s)'
  <1>. USE DEF SettleInv
  <1>1. /\ UNCHANGED backend
        /\ \A s \in Procs \ {p} :
             /\ pc'[s] = pc[s] /\ req'[s] = req[s]
             /\ s \in muddled => s \in muddled'
             /\ s \in up <=> s \in up'
    BY StepFrame
  <1>2. CASE CallUp(p)
    <2>1. pc[p] = "call" /\ req[p].id \in Profiles /\ req[p].dev \in Devices
      BY <1>2, WaitingType DEF CallUp, Goto
    <2>2. Launch(req[p].id, req[p].dev) /\ Waiting(req[p].id) \subseteq muddled'
      BY <1>2 DEF CallUp
    <2>3. /\ Occupied'
          /\ \A u \in Profiles, d \in Devices :
               /\ u # req[p].id /\ Alone(u, d) => Alone(u, d)'
               /\ u # req[p].id /\ Away(u) => Away(u)'
               /\ Passing(u, d) => Passing(u, d)'
      BY <2>1, <2>2, LaunchKeeps DEF TypeInv
    <2>4. ASSUME NEW s \in Procs \ {p}, pc[s] \in {"wait", "lookup"} PROVE Settling(s)'
      <3>1. req[s].id \in Profiles /\ req[s].dev \in Devices
        BY <2>4, WaitingType
      <3>2. s \notin muddled' => req[s].id # req[p].id
        BY <2>2, <2>4 DEF Waiting
      <3>3. Settling(s)
        OBVIOUS
      <3>. QED  BY <1>1, <2>3, <3>1, <3>2, <3>3 DEF Settling
    <2>5. ASSUME NEW s \in Procs \ {p}, pc[s] \notin {"wait", "lookup"} PROVE Settling(s)'
      BY <1>1, <2>5 DEF Settling
    <2>. QED  BY <2>3, <2>4, <2>5
  <1>3. CASE CallDown(p) \/ Delete(p)
    <2>1. req[p].id \in Profiles /\ TakeDown(req[p].id)
      BY <1>3, WaitingType DEF CallDown, Delete
    <2>2. /\ Occupied'
          /\ \A u \in Profiles, d \in Devices : /\ Alone(u, d) => Alone(u, d)'
                                                /\ Away(u) => Away(u)'
                                                /\ Passing(u, d) => Passing(u, d)'
      BY <2>1, TakeDownKeeps DEF TypeInv
    <2>3. ASSUME NEW s \in Procs \ {p} PROVE Settling(s)'
      <3>1. pc[s] \in {"wait", "lookup"} => req[s].id \in Profiles /\ req[s].dev \in Devices
        BY WaitingType
      <3>2. Settling(s)
        OBVIOUS
      <3>. QED  BY <1>1, <2>2, <3>1, <3>2 DEF Settling
    <2>. QED  BY <2>2, <2>3
  <1>4. CASE ~(CallUp(p) \/ CallDown(p) \/ Delete(p))
    <2>1. UNCHANGED nm
      BY <1>4, ElseSame
    <2>2. /\ Occupied'
          /\ \A u, d : /\ Alone(u, d) => Alone(u, d)'
                       /\ Away(u) => Away(u)'
                       /\ Passing(u, d) => Passing(u, d)'
      BY <2>1, SameKeeps
    <2>3. ASSUME NEW s \in Procs \ {p} PROVE Settling(s)'
      <3>1. Settling(s)
        OBVIOUS
      <3>. QED  BY <1>1, <2>2, <3>1 DEF Settling
    <2>. QED  BY <2>2, <2>3
  <1>. QED  BY <1>2, <1>3, <1>4

LEMMA CallUpSettles ==
  ASSUME TypeInv, SettleInv, NEW p \in Procs, CallUp(p)
  PROVE  Settling(p)'
  <1>1. /\ pc[p] = "call" /\ req[p].id \in Profiles /\ req[p].dev \in Devices
        /\ Launch(req[p].id, req[p].dev) /\ UNCHANGED req
    BY WaitingType DEF CallUp, Goto
  <1>2. pc'[p] = "wait"
    BY DEF CallUp, Goto, TypeInv, RequestType
  <1>3. p \notin muddled' => con[req[p].dev] = None
    BY DEF CallUp
  <1>4. /\ con[req[p].dev] = None => Alone(req[p].id, req[p].dev)'
        /\ Passing(req[p].id, req[p].dev)'
    BY <1>1, LaunchKeeps DEF TypeInv, SettleInv
  <1>. QED  BY <1>1, <1>2, <1>3, <1>4 DEF Settling

LEMMA PollSettles ==
  ASSUME TypeInv, SettleInv, NEW p \in Procs, Poll(p)
  PROVE  Settling(p)'
  <1>. DEFINE u == req[p].id
              d == req[p].dev
  <1>1. /\ pc[p] = "wait" /\ pc'[p] = "lookup"
        /\ UNCHANGED <<backend, dev, con, pend, req, muddled, up>>
    BY DEF Poll, Goto, TypeInv, RequestType, nm, notes
  <1>2. d \in Devices /\ dev[d] = "activated" /\ con[d] # None
    BY <1>1, WaitingType DEF Poll, SettleInv, Occupied
  <1>3. Alone(u, d) => Away(u)
    BY <1>2 DEF Alone, Away
  <1>4. backend = "nmcli" => ~Passing(u, d)
    BY <1>2 DEF Poll, Passing
  <1>5. Settling(p)
    BY DEF SettleInv
  <1>6. Away(u)' <=> Away(u)
    BY <1>1 DEF Away, ActiveOn
  <1>. QED  BY <1>1, <1>3, <1>4, <1>5, <1>6 DEF Settling

\* All other steps leave a request that does not wait.
LEMMA ElseSettles ==
  ASSUME TypeInv, NEW p \in Procs, Step(p), ~CallUp(p), ~Poll(p)
  PROVE  pc'[p] \notin {"wait", "lookup"}
  <1>. USE DEF TypeInv, RequestType, Goto
  <1>1. CASE \E q \in Asked : Begin(p, q)
    <2>1. PICK q \in Asked : Begin(p, q)
      BY <1>1
    <2>2. q \in Requests
      BY AskedAssumption
    <2>3. FirstStep(q.op) \notin {"wait", "lookup"}
      BY <2>2 DEF FirstStep, Requests
    <2>. QED  BY <2>1, <2>3 DEF Begin
  <1>2. CASE Finish(p)
    BY <1>2, FinishFrame
  <1>3. CASE Resolve(p) \/ Visible(p) \/ Pin(p)
    BY <1>3 DEF Resolve, Visible, AfterCheck, Pin
  <1>4. CASE Get(p) \/ Secrets(p) \/ Update(p)
    BY <1>4 DEF Get, AfterGet, Secrets, Update
  <1>5. CASE Attempt(p) \/ (AttemptFails(p) /\ ~Finish(p))
    BY <1>5 DEF Attempt, AttemptFails
  <1>. QED  BY <1>1, <1>2, <1>3, <1>4, <1>5
            DEF Step, Excluded, Fail, Activated, NotActive, CallDown, Add, Delete, Answer,
                AttemptFails

\* NetworkManager: who waits for what has succeeded knows.
LEMMA DaemonSettles ==
  ASSUME TypeInv, SettleInv, Daemon
  PROVE  SettleInv'
  <1>. USE DEF SettleInv
  <1>1. UNCHANGED <<backend, req, pc>> /\ muddled \subseteq muddled' /\ up \subseteq up'
    BY DaemonFrame
  <1>2. \A s \in Procs : pc[s] \in {"wait", "lookup"} =>
          req[s].id \in Profiles /\ req[s].dev \in Devices
    BY WaitingType
  <1>3. ASSUME NEW d \in Devices, Start(d) \/ GoDown(d) PROVE SettleInv'
    <2>1. /\ Occupied'
          /\ \A u \in Profiles, e \in Devices : /\ Alone(u, e) => Alone(u, e)'
                                                /\ Away(u) => Away(u)'
                                                /\ Passing(u, e) => Passing(u, e)'
      BY <1>3, StartKeeps DEF TypeInv
    <2>2. ASSUME NEW s \in Procs PROVE Settling(s)'
      <3>1. Settling(s)
        OBVIOUS
      <3>. QED  BY <1>1, <1>2, <2>1, <3>1 DEF Settling
    <2>. QED  BY <2>1, <2>2
  <1>4. ASSUME NEW d \in Devices, Succeed(d) PROVE SettleInv'
    <2>1. /\ Occupied'
          /\ \A u \in Profiles, e \in Devices :
               /\ u # con[d] /\ Alone(u, e) => Alone(u, e)'
               /\ Away(u) => Away(u)'
               /\ u # con[d] /\ Passing(u, e) => Passing(u, e)'
      BY <1>4, SucceedKeeps DEF TypeInv
    <2>2. Waiting(con[d]) \subseteq up'
      BY <1>4 DEF Succeed
    <2>3. ASSUME NEW s \in Procs PROVE Settling(s)'
      <3>1. Settling(s)
        OBVIOUS
      <3>2. pc[s] \in {"wait", "lookup"} /\ s \notin up' => req[s].id # con[d]
        BY <2>2 DEF Waiting
      <3>. QED  BY <1>1, <1>2, <2>1, <3>1, <3>2 DEF Settling
    <2>. QED  BY <2>1, <2>3
  <1>5. ASSUME NEW v \in Profiles, NEW d \in Devices, OtherActivates(v, d) PROVE SettleInv'
    <2>1. Launch(v, d) /\ Waiting(v) \subseteq muddled'
      BY <1>5 DEF OtherActivates
    <2>2. /\ Occupied'
          /\ \A u \in Profiles, e \in Devices :
               /\ u # v /\ Alone(u, e) => Alone(u, e)'
               /\ u # v /\ Away(u) => Away(u)'
               /\ Passing(u, e) => Passing(u, e)'
      BY <2>1, LaunchKeeps DEF TypeInv
    <2>3. ASSUME NEW s \in Procs PROVE Settling(s)'
      <3>1. Settling(s)
        OBVIOUS
      <3>2. pc[s] \in {"wait", "lookup"} /\ s \notin muddled' => req[s].id # v
        BY <2>1 DEF Waiting
      <3>. QED  BY <1>1, <1>2, <2>2, <3>1, <3>2 DEF Settling
    <2>. QED  BY <2>2, <2>3
  <1>. QED  BY <1>3, <1>4, <1>5 DEF Daemon

LEMMA SettleStep ==
  ASSUME TypeInv, SettleInv, [Next]_vars
  PROVE  SettleInv'
  <1>1. ASSUME NEW p \in Procs, Step(p) PROVE SettleInv'
    <2>1. Occupied' /\ \A s \in Procs \ {p} : Settling(s)'
      BY <1>1, OthersSettle
    <2>2. Settling(p)'
      <3>1. CASE CallUp(p)
        BY <3>1, CallUpSettles
      <3>2. CASE Poll(p)
        BY <3>2, PollSettles
      <3>3. CASE ~CallUp(p) /\ ~Poll(p)
        BY <1>1, <3>3, ElseSettles DEF Settling
      <3>. QED  BY <3>1, <3>2, <3>3
    <2>. QED  BY <2>1, <2>2 DEF SettleInv
  <1>2. UNCHANGED vars => SettleInv'
    <2>. SUFFICES ASSUME UNCHANGED vars PROVE SettleInv'
      OBVIOUS
    <2>1. UNCHANGED <<backend, dev, con, pend, req, pc, muddled, up>>
      BY DEF vars, nm, notes
    <2>. QED  BY <2>1 DEF SettleInv, Settling, Occupied, Alone, Away, Passing, ActiveOn
  <1>. QED  BY <1>1, <1>2, DaemonSettles DEF Next

\* Activate of nmcli, which waits for its own active connection, and of nmdbus,
\* which polls the device (waitActivated), answer only when the profile was up.
THEOREM ActivateSettlesCorrect == Spec => ActivateSettles
  <1>1. ASSUME SettleInv, NEW p \in Procs, Activated(p), backend = "nmcli" \/ p \notin muddled
        PROVE  p \in up
    <2>1. pc[p] = "lookup" /\ ~Away(req[p].id)
      BY <1>1 DEF Activated, Away
    <2>. QED  BY <1>1, <2>1 DEF SettleInv, Settling
  <1>2. TypeInv /\ SettleInv /\ [Next]_vars =>
          [\A p \in Procs :
             Activated(p) /\ (backend = "nmcli" \/ p \notin muddled) => p \in up]_vars
    BY <1>1
  <1>. QED  BY <1>2, InitType, InitSettle, StepType, SettleStep, PTL DEF Spec, ActivateSettles

-----------------------------------------------------------------------------
(* Patches as atomic changes. *)

LEMMA SameSettings ==
  ASSUME NEW a \in Settings, NEW b \in Settings,
         a.kind = b.kind, a.psk = b.psk, a.eap = b.eap, a.auto = b.auto, a.pin = b.pin
  PROVE  a = b
  BY DEF Settings

\* What a patch makes of settings that agree on all it does not replace.
LEMMA PatchedSame ==
  ASSUME NEW q \in Requests, NEW c \in Settings, NEW d \in Settings,
         c.kind = d.kind, c.eap = d.eap, c.auto = d.auto, c.pin = d.pin,
         q.security = Keep => c.psk = d.psk
  PROVE  Patched(q, c) = Patched(q, d)
  <1>1. CASE q.security = Keep
    BY <1>1, SameSettings
  <1>2. CASE q.security # Keep
    <2>1. Patched(q, c) \in Settings /\ Patched(q, d) \in Settings
      BY PatchedType
    <2>2. /\ Patched(q, c).kind = Patched(q, d).kind
          /\ Patched(q, c).psk = Patched(q, d).psk
          /\ Patched(q, c).eap = Patched(q, d).eap
          /\ Patched(q, c).auto = Patched(q, d).auto
          /\ Patched(q, c).pin = Patched(q, d).pin
      BY <1>2 DEF Patched, Settings
    <2>. QED  BY <2>1, <2>2, SameSettings
  <1>. QED  BY <1>1, <1>2

\* PatchAtomic: PatchProfile reads, asks for the secrets with nmdbus, and writes in two
\* or three calls (nmdbus.go:392-456), and saves what one call would.
THEOREM PatchAtomicCorrect == Spec => PatchAtomic
  <1>1. ASSUME TypeInv, ReadInv, NEW p \in Procs, Update(p), p \notin stale
        PROVE  saved' = [saved EXCEPT ![req[p].id] = Patched(req[p], Recovered(@))]
    <2>. DEFINE old == saved[req[p].id]
    <2>1. /\ got[p] \in Settings /\ old \in Settings /\ req[p] \in Requests
          /\ pc[p] = "update"
      BY <1>1 DEF Update, TypeInv, SavedType, RequestType, RestType
    <2>2. Read(p, old)
      BY <1>1, <2>1 DEF Update, ReadInv, Fresh, Reading
    <2>3. saved' = [saved EXCEPT ![req[p].id] = Patched(req[p], got[p])]
      BY <1>1 DEF Update
    <2>. HIDE DEF old
    <2>4. /\ Recovered(old) \in Settings
          /\ Recovered(old).kind = old.kind /\ Recovered(old).auto = old.auto
          /\ Recovered(old).pin = old.pin /\ Recovered(old).psk = old.psk
          /\ Recovered(old).eap = (IF backend = "nmdbus" THEN FALSE ELSE old.eap)
      BY <2>1 DEF Recovered, Settings
    <2>5. Patched(req[p], got[p]) = Patched(req[p], Recovered(old))
      BY <2>1, <2>2, <2>4, PatchedSame DEF Read
    <2>. QED  BY <2>3, <2>5 DEF old
  <1>2. TypeInv /\ ReadInv /\ [Next]_vars =>
          [\A p \in Procs :
             Update(p) /\ p \notin stale =>
               saved' = [saved EXCEPT ![req[p].id] = Patched(req[p], Recovered(@))]]_vars
    BY <1>1
  <1>. QED  BY <1>2, InitType, InitRead, StepType, ReadStep, PTL DEF Spec, PatchAtomic

-----------------------------------------------------------------------------
(* Where an activation is answered. *)

\* The profile a request waits for is on the device it asked for, if anywhere.
Placed(p) ==
  pc[p] \in {"wait", "lookup"} /\ p \notin muddled =>
    ActiveOn(req[p].id) \subseteq {req[p].dev}

PlaceInv == \A p \in Procs : Placed(p)

LEMMA LaunchPlaces ==
  ASSUME DevicesType, NEW v \in Profiles, NEW e \in Devices, Launch(v, e)
  PROVE  /\ ActiveOn(v)' \subseteq {e}
         /\ \A u \in Profiles \ {v} : ActiveOn(u)' \subseteq ActiveOn(u)
  <1>. USE ProfilesAssumption DEF DevicesType, Launch, Leave, ActiveOn
  <1>1. ActiveOn(v)' \subseteq {e}
    OBVIOUS
  <1>2. \A u \in Profiles \ {v} : ActiveOn(u)' \subseteq ActiveOn(u)
    OBVIOUS
  <1>. QED  BY <1>1, <1>2

\* No other step brings a profile to a device.
LEMMA NothingPlaced ==
  ASSUME DevicesType,
         \/ \E v \in Profiles : TakeDown(v)
         \/ \E e \in Devices : Start(e) \/ Succeed(e) \/ GoDown(e)
         \/ UNCHANGED nm,
         NEW u \in Profiles
  PROVE  ActiveOn(u)' \subseteq ActiveOn(u)
  <1>. USE ProfilesAssumption DEF DevicesType, ActiveOn
  <1>1. CASE \E v \in Profiles : TakeDown(v)
    BY <1>1 DEF TakeDown, Leave
  <1>2. CASE \E e \in Devices : Start(e) \/ Succeed(e) \/ GoDown(e)
    BY <1>2 DEF Start, Succeed, GoDown
  <1>3. CASE UNCHANGED nm
    BY <1>3 DEF nm
  <1>. QED  BY <1>1, <1>2, <1>3

LEMMA PlaceStep ==
  ASSUME TypeInv, PlaceInv, [Next]_vars
  PROVE  PlaceInv'
  <1>. USE DEF PlaceInv
  <1>0. \A s \in Procs : pc[s] \in {"wait", "lookup"} =>
          req[s].id \in Profiles /\ req[s].dev \in Devices
    BY WaitingType
  <1>1. ASSUME NEW p \in Procs, CallUp(p), NEW s \in Procs PROVE Placed(s)'
    <2>1. /\ req[p].id \in Profiles /\ req[p].dev \in Devices /\ req' = req
          /\ Launch(req[p].id, req[p].dev) /\ Waiting(req[p].id) \subseteq muddled'
      BY <1>1, WaitingType DEF CallUp, Goto
    <2>2. /\ ActiveOn(req[p].id)' \subseteq {req[p].dev}
          /\ \A u \in Profiles \ {req[p].id} : ActiveOn(u)' \subseteq ActiveOn(u)
      BY <2>1, LaunchPlaces DEF TypeInv
    <2>3. CASE s = p
      BY <2>1, <2>2, <2>3 DEF Placed
    <2>4. CASE s # p
      <3>1. pc'[s] = pc[s] /\ (s \in muddled => s \in muddled')
        BY <1>1, <2>4, StepFrame DEF Step
      <3>2. pc[s] \in {"wait", "lookup"} /\ s \notin muddled' => req[s].id # req[p].id
        BY <2>1 DEF Waiting
      <3>3. Placed(s)
        OBVIOUS
      <3>. QED  BY <1>0, <2>1, <2>2, <3>1, <3>2, <3>3 DEF Placed
    <2>. QED  BY <2>3, <2>4
  <1>2. ASSUME NEW p \in Procs, Step(p), ~CallUp(p), NEW s \in Procs PROVE Placed(s)'
    <2>1. \A u \in Profiles : ActiveOn(u)' \subseteq ActiveOn(u)
      <3>1. CASE CallDown(p) \/ Delete(p)
        <4>1. req[p].id \in Profiles /\ TakeDown(req[p].id)
          BY <3>1, WaitingType DEF CallDown, Delete
        <4>. QED  BY <4>1, NothingPlaced DEF TypeInv
      <3>2. CASE ~(CallDown(p) \/ Delete(p))
        <4>1. UNCHANGED nm
          BY <1>2, <3>2, ElseSame
        <4>. QED  BY <4>1, NothingPlaced DEF TypeInv
      <3>. QED  BY <3>1, <3>2
    <2>2. CASE s # p
      <3>1. pc'[s] = pc[s] /\ req'[s] = req[s] /\ (s \in muddled => s \in muddled')
        BY <1>2, <2>2, StepFrame
      <3>2. Placed(s)
        OBVIOUS
      <3>. QED  BY <1>0, <2>1, <3>1, <3>2 DEF Placed
    <2>3. CASE s = p /\ Poll(p)
      <3>1. pc[p] = "wait" /\ req' = req /\ muddled' = muddled
        BY <2>3 DEF Poll, Goto, notes
      <3>2. Placed(p)
        OBVIOUS
      <3>. QED  BY <1>0, <2>1, <2>3, <3>1, <3>2 DEF Placed
    <2>4. CASE s = p /\ ~Poll(p)
      BY <1>2, <2>4, ElseSettles DEF Placed
    <2>. QED  BY <2>2, <2>3, <2>4
  <1>3. ASSUME Daemon, NEW s \in Procs PROVE Placed(s)'
    <2>1. UNCHANGED <<req, pc>> /\ muddled \subseteq muddled' /\ Placed(s)
      BY <1>3, DaemonFrame
    <2>2. CASE \E d \in Devices : Start(d) \/ Succeed(d) \/ GoDown(d)
      <3>1. \A u \in Profiles : ActiveOn(u)' \subseteq ActiveOn(u)
        BY <2>2, NothingPlaced DEF TypeInv
      <3>. QED  BY <1>0, <2>1, <3>1 DEF Placed
    <2>3. ASSUME NEW v \in Profiles, NEW d \in Devices, OtherActivates(v, d)
          PROVE  Placed(s)'
      <3>1. Launch(v, d) /\ Waiting(v) \subseteq muddled'
        BY <2>3 DEF OtherActivates
      <3>2. \A u \in Profiles \ {v} : ActiveOn(u)' \subseteq ActiveOn(u)
        BY <3>1, LaunchPlaces DEF TypeInv
      <3>3. pc[s] \in {"wait", "lookup"} /\ s \notin muddled' => req[s].id # v
        BY <3>1 DEF Waiting
      <3>. QED  BY <1>0, <2>1, <3>2, <3>3 DEF Placed
    <2>. QED  BY <1>3, <2>2, <2>3 DEF Daemon
  <1>4. CASE UNCHANGED vars
    <2>1. UNCHANGED <<con, pend, req, pc, muddled>>
      BY <1>4 DEF vars, nm, notes
    <2>. QED  BY <2>1 DEF Placed, ActiveOn
  <1>. QED  BY <1>1, <1>2, <1>3, <1>4 DEF Next

\* ActivateAnswersDevice: connectionByUUID (nmdbus.go:517-522) looks the connection up
\* by its UUID alone, and finds it on the device of the request.
THEOREM ActivateAnswersDeviceCorrect == Spec => ActivateAnswersDevice
  <1>1. Init => PlaceInv
    BY DEF Init, PlaceInv, Placed
  <1>2. TypeInv /\ PlaceInv /\ [Next]_vars =>
          [\A p \in Procs :
             Activated(p) /\ p \notin muddled => ActiveOn(req[p].id) = {req[p].dev}]_vars
    BY DEF PlaceInv, Placed, Activated
  <1>. QED
    BY <1>1, <1>2, InitType, StepType, PlaceStep, PTL DEF Spec, ActivateAnswersDevice
-----------------------------------------------------------------------------
(* Hidden devices. *)

\* An active connection is on one device.
OnePlace == \A u \in Profiles : \A d, e \in ActiveOn(u) : d = e

\* What is about to be acted on was found visible, or could not be looked up.
Seen ==
  \A p \in Procs :
    /\ pc[p] \in {"get", "pin", "call"} /\ req[p].op # "patch" /\ p \notin slipped =>
         Looked(p) \notin Hidden
    /\ pc[p] = "delete" => req[p].op = "delete"

HiddenInv == OnePlace /\ Seen

LEMMA InitHidden == Init => HiddenInv
  <1>1. Init => OnePlace
    BY ProfilesAssumption DEF Init, OnePlace, ActiveOn
  <1>2. Init => Seen
    BY DEF Init, Seen
  <1>. QED  BY <1>1, <1>2 DEF HiddenInv

LEMMA OnePlaceStep ==
  ASSUME TypeInv, OnePlace, [Next]_vars
  PROVE  OnePlace'
  <1>. USE DEF TypeInv, OnePlace
  <1>1. ASSUME NEW v \in Profiles, NEW e \in Devices, Launch(v, e) PROVE OnePlace'
    <2>1. /\ ActiveOn(v)' \subseteq {e}
          /\ \A u \in Profiles \ {v} : ActiveOn(u)' \subseteq ActiveOn(u)
      BY <1>1, LaunchPlaces
    <2>. QED  BY <2>1
  <1>2. ASSUME \/ \E v \in Profiles : TakeDown(v)
               \/ \E e \in Devices : Start(e) \/ Succeed(e) \/ GoDown(e)
               \/ UNCHANGED nm
        PROVE  OnePlace'
    <2>1. \A u \in Profiles : ActiveOn(u)' \subseteq ActiveOn(u)
      BY <1>2, NothingPlaced
    <2>. QED  BY <2>1
  <1>3. ASSUME NEW p \in Procs, Step(p) PROVE OnePlace'
    <2>1. CASE CallUp(p)
      <3>1. req[p].id \in Profiles /\ req[p].dev \in Devices /\ Launch(req[p].id, req[p].dev)
        BY <2>1, WaitingType DEF CallUp, Goto
      <3>. QED  BY <3>1, <1>1
    <2>2. CASE CallDown(p) \/ Delete(p)
      <3>1. req[p].id \in Profiles /\ TakeDown(req[p].id)
        BY <2>2, WaitingType DEF CallDown, Delete
      <3>. QED  BY <3>1, <1>2
    <2>3. CASE ~CallUp(p) /\ ~CallDown(p) /\ ~Delete(p)
      <3>1. UNCHANGED nm
        BY <1>3, <2>3, ElseSame
      <3>. QED  BY <3>1, <1>2
    <2>. QED  BY <2>1, <2>2, <2>3
  <1>4. Daemon => OnePlace'
    BY <1>1, <1>2 DEF Daemon, OtherActivates
  <1>5. UNCHANGED vars => OnePlace'
    BY <1>2 DEF vars
  <1>. QED  BY <1>3, <1>4, <1>5 DEF Next

LEMMA SeenStep ==
  ASSUME TypeInv, Seen, [Next]_vars
  PROVE  Seen'
  <1>1. ASSUME NEW p \in Procs, Step(p) PROVE Seen'
    <2>1. \A s \in Procs \ {p} : /\ pc'[s] = pc[s] /\ req'[s] = req[s] /\ at'[s] = at[s]
                                 /\ s \in slipped' <=> s \in slipped
      BY <1>1, StepFrame
    <2>2. /\ pc'[p] \in {"get", "pin", "call"} /\ req'[p].op # "patch" /\ p \notin slipped' =>
               Looked(p)' \notin Hidden
          /\ pc'[p] = "delete" => req'[p].op = "delete"
      <3>. USE DEF TypeInv, RequestType
      <3>1. CASE Visible(p)
        <4>1. UNCHANGED <<req, at>> /\ (p \notin slipped' => Looked(p) \notin Hidden)
          BY <3>1 DEF Visible, Hidden
        <4>2. pc'[p] # "delete"
          BY <3>1 DEF Visible, Goto, AfterCheck
        <4>. QED  BY <4>1, <4>2 DEF Looked
      <3>2. CASE Pin(p) \/ Get(p)
        <4>1. UNCHANGED <<req, at, slipped>> /\ pc[p] \in {"pin", "get"} /\ pc'[p] # "delete"
          BY <3>2 DEF Pin, Get, AfterGet, Goto, notes
        <4>. QED  BY <4>1 DEF Looked, Seen
      <3>3. CASE \E q \in Asked : Begin(p, q)
        <4>1. PICK q \in Asked : Begin(p, q)
          BY <3>3
        <4>2. q \in Requests
          BY AskedAssumption
        <4>3. pc'[p] = FirstStep(q.op) /\ req'[p] = q
          BY <4>1 DEF Begin, Goto
        <4>4. /\ FirstStep(q.op) \notin {"pin", "call"}
              /\ FirstStep(q.op) = "get" => q.op = "patch"
              /\ FirstStep(q.op) = "delete" => q.op = "delete"
          BY <4>2 DEF FirstStep, Requests
        <4>. QED  BY <4>3, <4>4
      <3>4. CASE Resolve(p) \/ CallUp(p) \/ Poll(p) \/ Secrets(p) \/ Update(p)
        BY <3>4 DEF Resolve, CallUp, Poll, Secrets, Update, Goto
      <3>5. CASE Finish(p)
        BY <3>5, FinishFrame
      <3>6. CASE Attempt(p) \/ (AttemptFails(p) /\ ~Finish(p))
        BY <3>6 DEF Attempt, AttemptFails
      <3>. QED  BY <1>1, <3>1, <3>2, <3>3, <3>4, <3>5, <3>6
                DEF Step, Excluded, Fail, Activated, NotActive, CallDown, Add, Delete, Answer,
                    AttemptFails
    <2>. QED  BY <2>1, <2>2 DEF Seen, Looked
  <1>2. Daemon => Seen'
    BY DaemonFrame DEF Seen, Looked
  <1>3. UNCHANGED vars => Seen'
    BY DEF Seen, Looked, vars, notes
  <1>. QED  BY <1>1, <1>2, <1>3 DEF Next

\* What a request changes of a hidden device.
LEMMA HiddenStep ==
  ASSUME TypeInv, HiddenInv, NEW p \in Procs, Step(p), p \notin slipped, NEW d \in Hidden
  PROVE  /\ con'[d] \in {con[d], None} /\ pend'[d] \in {pend[d], None}
         /\ con'[d] # con[d] \/ pend'[d] # pend[d] =>
              /\ d \in ActiveOn(req[p].id)
              /\ req[p].op \in {"activate", "delete"} \/ Astray(p)
  <1>. DEFINE u == req[p].id
  <1>0. d \in Devices /\ Seen /\ OnePlace
    BY HiddenAssumption DEF HiddenInv
  <1>1. CASE CallUp(p)
    <2>1. /\ pc[p] = "call" /\ req[p].op = "activate" /\ Launch(u, req[p].dev)
          /\ req[p].dev \in Devices
      BY <1>1, WaitingType DEF CallUp, Goto
    <2>2. d # req[p].dev
      BY <1>0, <2>1 DEF Seen, Looked
    <2>3. /\ con'[d] = IF d \in ActiveOn(u) THEN None ELSE con[d]
          /\ pend'[d] = IF pend[d] = u THEN None ELSE pend[d]
      BY <1>0, <2>1, <2>2 DEF Launch, Leave
    <2>. QED  BY <1>0, <2>1, <2>3 DEF ActiveOn
  <1>2. ASSUME CallDown(p) \/ Delete(p)
        PROVE  /\ con'[d] \in {con[d], None} /\ pend'[d] \in {pend[d], None}
               /\ con'[d] # con[d] \/ pend'[d] # pend[d] => d \in ActiveOn(u)
    <2>1. TakeDown(u)
      BY <1>2 DEF CallDown, Delete
    <2>2. /\ con'[d] = IF d \in ActiveOn(u) THEN None ELSE con[d]
          /\ pend'[d] = IF pend[d] = u THEN None ELSE pend[d]
      BY <1>0, <2>1 DEF TakeDown, Leave
    <2>. QED  BY <1>0, <2>2 DEF ActiveOn
  <1>3. CASE Delete(p)
    BY <1>0, <1>2, <1>3 DEF Delete, Seen
  <1>4. CASE CallDown(p)
    <2>1. pc[p] = "call" /\ req[p].op = "deactivate" /\ u \in Profiles
      BY <1>4, WaitingType DEF CallDown
    <2>2. at[p] # d
      BY <1>0, <2>1 DEF Seen, Looked
    <2>3. d \in ActiveOn(u) => Astray(p)
      BY <1>0, <2>1, <2>2 DEF OnePlace, Astray
    <2>. QED  BY <1>2, <1>4, <2>3
  <1>5. CASE ~CallUp(p) /\ ~CallDown(p) /\ ~Delete(p)
    <2>1. UNCHANGED <<con, pend>>
      BY <1>5, ElseSame DEF nm
    <2>. QED  BY <2>1
  <1>. QED  BY <1>1, <1>3, <1>4, <1>5

\* Behind the exclusion filter (internal/wnet/exclude.go) nothing is started on a hidden
\* device, and what is taken down there is the connection of the request's own profile:
\* one that it deletes, or activates elsewhere, or that has moved, or whose device had
\* no name, when Deactivate looked at it (exclude.go:273-289).
THEOREM HiddenUntouchedCorrect == Spec => HiddenUntouched
  <1>1. TypeInv /\ HiddenInv /\ [Next]_vars => HiddenInv'
    BY OnePlaceStep, SeenStep DEF HiddenInv
  <1>2. ASSUME TypeInv, [Next]_vars, NEW p \in Procs, pc'[p] # pc[p] PROVE Step(p)
    <2>1. ASSUME NEW s \in Procs, Step(s) PROVE s = p
      BY <1>2, <2>1, StepFrame
    <2>2. ~Daemon /\ ~UNCHANGED vars
      BY <1>2, DaemonFrame DEF vars
    <2>. QED  BY <1>2, <2>1, <2>2 DEF Next
  <1>3. TypeInv /\ HiddenInv /\ [Next]_vars =>
          [\A p \in Procs, d \in Hidden :
             pc'[p] # pc[p] /\ p \notin slipped =>
               /\ con'[d] \in {con[d], None} /\ pend'[d] \in {pend[d], None}
               /\ con'[d] # con[d] \/ pend'[d] # pend[d] =>
                    /\ d \in ActiveOn(req[p].id)
                    /\ req[p].op \in {"activate", "delete"} \/ Astray(p)]_vars
    BY <1>2, HiddenStep
  <1>. QED
    BY <1>1, <1>3, InitType, InitHidden, StepType, PTL DEF Spec, HiddenUntouched
=============================================================================
