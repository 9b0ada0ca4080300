--------------------------- MODULE IwdProfilesProofs ---------------------------
(***************************************************************************)
(* Proofs about IwdProfiles, for any requests, networks and passphrases.   *)
(***************************************************************************)
EXTENDS IwdProfiles, TLAPS

\* A file that is being written is in the directory.
Opened ==
  \A p \in Procs : pc[p] = "write" => NewName(req[p]) \in DOMAIN files

TypeInv == TypeOK /\ Opened

-----------------------------------------------------------------------------
(* Names, contents and directories. *)

LEMMA NameType ==
  ASSUME NEW q \in Requests
  PROVE  q.id \in Names /\ NewName(q) \in Names
  BY DEF Requests, NewName, Names, Or, Kinds

LEMMA TruncatedType == Truncated \in Content
  BY DEF Truncated, Content

LEMMA RenderType ==
  ASSUME NEW kind, NEW pass \in Passes \cup {NoPass}, NEW auto \in {"yes", "no"}, NEW ip
  PROVE  Render(kind, pass, auto, ip) \in Content /\ ~Render(kind, pass, auto, ip).cut
  BY DEF Render, Content

LEMMA PatchedType ==
  ASSUME NEW q \in Requests, NEW c \in Content
  PROVE  Patched(q, c) \in Content /\ ~Patched(q, c).cut
  <1>1. Or(q.auto, c.auto) \in {"yes", "no"}
    BY DEF Or, Requests, Content
  <1>2. q.pass \in Passes \cup {NoPass} /\ c.pass \in Passes \cup {NoPass}
    BY DEF Requests, Content
  <1>. QED  BY <1>1, <1>2, RenderType DEF Patched

LEMMA OverlayType ==
  ASSUME NEW new \in Content, NEW old \in Content, NEW c \in Overlay(new, old)
  PROVE  c \in Content /\ c.cut = new.cut /\ (old.cut => c = new)
  <1>1. CASE old.cut
    BY <1>1 DEF Overlay
  <1>2. CASE ~old.cut
    <2>1. PICK a \in {new.auto, old.auto}, i \in {new.ip, old.ip} :
            c = [new EXCEPT !.auto = a, !.ip = i]
      BY <1>2 DEF Overlay
    <2>. QED  BY <1>2, <2>1 DEF Content
  <1>. QED  BY <1>1, <1>2

LEMMA WithIs ==
  ASSUME NEW n, NEW c
  PROVE  /\ DOMAIN With(n, c) = DOMAIN files \cup {n}
         /\ With(n, c)[n] = c
         /\ \A m \in DOMAIN files \ {n} : With(n, c)[m] = files[m]
  BY DEF With

LEMMA FilesWith ==
  ASSUME NEW n, NEW c, files' = With(n, c)
  PROVE  /\ DOMAIN files' = DOMAIN files \cup {n}
         /\ files'[n] = c
         /\ \A m \in DOMAIN files \ {n} : files'[m] = files[m]
  BY DEF With

LEMMA WithType ==
  ASSUME IsDirectory(files), NEW n \in Names, NEW c \in Content
  PROVE  IsDirectory(With(n, c))
  BY DEF With, IsDirectory

LEMMA WithoutIs ==
  ASSUME NEW n
  PROVE  /\ DOMAIN Without(n) = DOMAIN files \ {n}
         /\ \A m \in DOMAIN files \ {n} : Without(n)[m] = files[m]
  BY DEF Without, Restrict

LEMMA WithoutType ==
  ASSUME IsDirectory(files), NEW n
  PROVE  IsDirectory(Without(n))
  BY DEF Without, Restrict, IsDirectory

LEMMA PartType ==
  ASSUME IsDirectory(files), NEW X
  PROVE  IsDirectory(Restrict(files, DOMAIN files \cap X))
  BY DEF Restrict, IsDirectory

LEMMA NoneIsDirectory == IsDirectory(<<>>)
  <1>1. DOMAIN <<>> = {}
    OBVIOUS
  <1>. QED  BY <1>1 DEF IsDirectory

-----------------------------------------------------------------------------
(* Types. *)

LEMMA InitType == Init => TypeInv
  <1>. SUFFICES ASSUME Init PROVE TypeInv
    OBVIOUS
  <1>1. IsDirectory(files)
    BY StoredAssumption DEF Init
  <1>2. asked \in 0 .. MaxAsked
    BY MaxAskedAssumption DEF Init
  <1>. QED  BY <1>1, <1>2, TruncatedType, NoneIsDirectory DEF Init, TypeInv, TypeOK, Opened

\* Finish and Stay keep the types of what a request has.
LEMMA FinishType ==
  ASSUME TypeOK, NEW p \in Procs, Finish(p), IsDirectory(files'), spoiled' \subseteq Names
  PROVE  TypeOK'
  <1>. USE DEF TypeOK, Finish
  <1>1. DOMAIN before' = Procs /\ \A s \in Procs : IsDirectory(before'[s])
    BY NoneIsDirectory
  <1>2. text' \in [Procs -> Content]
    BY TruncatedType
  <1>3. \A s \in Procs : pc'[s] # "done" => req'[s] \in Requests
    OBVIOUS
  <1>. QED  BY <1>1, <1>2, <1>3

LEMMA StayType ==
  ASSUME TypeOK, NEW p \in Procs, pc[p] # "done", Stay,
         pc' \in [Procs -> {"done", "find", "read", "remove", "open", "write",
                            "unlinked", "activate"}],
         \A s \in Procs \ {p} : pc[s] = "done" => pc'[s] = "done",
         IsDirectory(files'), spoiled' \subseteq Names
  PROVE  TypeOK'
  BY DEF TypeOK, Stay

LEMMA UnlinkIs ==
  ASSUME TypeOK, NEW p \in Procs, NEW to, Unlink(p, to)
  PROVE  \A s \in Procs : pc'[s] = IF s = p THEN to
                                  ELSE IF pc[s] = "write" /\ NewName(req[s]) = req[p].id
                                       THEN "unlinked" ELSE pc[s]
  BY DEF Unlink

LEMMA BeginType ==
  ASSUME TypeInv, NEW p \in Procs, NEW q \in Asked, Begin(p, q)
  PROVE  TypeInv'
  <1>. USE DEF TypeInv
  <1>0. q \in Requests /\ Touched(q) \subseteq Names
    BY AskedAssumption, NameType DEF Touched
  <1>1. pc' \in [Procs -> {"done", "find", "read", "remove", "open", "write",
                           "unlinked", "activate"}]
        /\ pc'[p] \in {"open", "find"} /\ \A s \in Procs \ {p} : pc'[s] = pc[s]
    BY DEF TypeOK, Begin, Goto
  <1>2. req' \in [Procs -> Requests \cup {NoRequest}]
        /\ req'[p] = q /\ \A s \in Procs \ {p} : req'[s] = req[s]
    BY <1>0 DEF TypeOK, Begin
  <1>3. text' \in [Procs -> Content]
    <2>1. CASE q.op \in {"add", "connect"}
      <3>1. q.auto \in {"yes", "no"} /\ q.pass \in Passes \cup {NoPass}
        BY <1>0, <2>1, AskedAssumption DEF Requests
      <3>2. Render(q.kind, q.pass, q.auto, q.ip) \in Content
        BY <3>1, RenderType
      <3>. QED  BY <2>1, <3>2 DEF TypeOK, Begin
    <2>2. CASE ~(q.op \in {"add", "connect"})
      BY <2>2 DEF TypeOK, Begin
    <2>. QED  BY <2>1, <2>2
  <1>4. DOMAIN before' = Procs /\ \A s \in Procs : IsDirectory(before'[s])
    <2>1. IsDirectory(Restrict(files, DOMAIN files \cap Touched(q)))
      BY PartType DEF TypeOK
    <2>2. before' = [before EXCEPT ![p] = Restrict(files, DOMAIN files \cap Touched(q))]
      BY DEF Begin
    <2>. QED  BY <2>1, <2>2 DEF TypeOK
  <1>5. disturbed' \subseteq Procs
    BY DEF TypeOK, Begin
  <1>6. asked' \in 0 .. MaxAsked
    BY MaxAskedAssumption DEF TypeOK, Begin
  <1>7. UNCHANGED <<files, spoiled>>
    BY DEF Begin
  <1>8. \A s \in Procs : pc'[s] # "done" => req'[s] \in Requests
    BY <1>0, <1>1, <1>2 DEF TypeOK
  <1>9. Opened'
    BY <1>1, <1>2, <1>7 DEF Opened
  <1>. QED  BY <1>1, <1>2, <1>3, <1>4, <1>5, <1>6, <1>7, <1>8, <1>9 DEF TypeOK

\* Find, RollBack: only the place of the request changes.
LEMMA MoveType ==
  ASSUME TypeInv, NEW p \in Procs, NEW from, NEW to, Goto(p, from, to),
         from \notin {"done"}, to \in {"find", "read", "remove", "activate", "open"},
         Stay, UNCHANGED <<files, spoiled>>
  PROVE  TypeInv'
  <1>1. TypeOK'
    BY StayType DEF TypeInv, TypeOK, Goto
  <1>2. Opened'
    BY DEF TypeInv, TypeOK, Opened, Goto, Stay
  <1>. QED  BY <1>1, <1>2 DEF TypeInv

\* A request that ends, and leaves the files as they are.
LEMMA EndType ==
  ASSUME TypeInv, NEW p \in Procs, Finish(p), UNCHANGED files, spoiled' \subseteq Names
  PROVE  TypeInv'
  <1>1. TypeOK'
    BY FinishType DEF TypeInv, TypeOK
  <1>2. Opened'
    BY DEF TypeInv, TypeOK, Opened, Finish
  <1>. QED  BY <1>1, <1>2 DEF TypeInv

LEMMA ReadType ==
  ASSUME TypeInv, NEW p \in Procs, Read(p)
  PROVE  TypeInv'
  <1>1. req[p] \in Requests /\ files[req[p].id] \in Content
    BY DEF TypeInv, TypeOK, IsDirectory, Read, Goto
  <1>2. text' \in [Procs -> Content]
    BY <1>1, PatchedType DEF TypeInv, TypeOK, Read
  <1>3. pc' \in [Procs -> {"done", "find", "read", "remove", "open", "write",
                           "unlinked", "activate"}]
        /\ pc'[p] \in {"open", "remove"} /\ \A s \in Procs \ {p} : pc'[s] = pc[s]
    BY DEF TypeInv, TypeOK, Read, Goto
  <1>4. UNCHANGED <<files, req, asked, before, disturbed, spoiled>>
    BY DEF Read
  <1>5. \A s \in Procs : pc'[s] # "done" => req'[s] \in Requests
    BY <1>1, <1>3, <1>4 DEF TypeInv, TypeOK
  <1>6. Opened'
    BY <1>3, <1>4 DEF TypeInv, Opened
  <1>. QED  BY <1>2, <1>3, <1>4, <1>5, <1>6 DEF TypeInv, TypeOK

LEMMA DeleteType ==
  ASSUME TypeInv, NEW p \in Procs, Delete(p)
  PROVE  TypeInv'
  <1>1. \A s \in Procs : pc'[s] = IF s = p THEN "done"
                                 ELSE IF pc[s] = "write" /\ NewName(req[s]) = req[p].id
                                      THEN "unlinked" ELSE pc[s]
    BY UnlinkIs DEF TypeInv, Delete
  <1>2. pc' \in [Procs -> {"done", "find", "read", "remove", "open", "write",
                           "unlinked", "activate"}]
    BY <1>1 DEF TypeInv, TypeOK, Delete, Unlink
  <1>3. IsDirectory(files') /\ DOMAIN files' = DOMAIN files \ {req[p].id}
    BY WithoutType, WithoutIs DEF TypeInv, TypeOK, Delete
  <1>4. req' \in [Procs -> Requests \cup {NoRequest}]
        /\ \A s \in Procs \ {p} : req'[s] = req[s]
    BY DEF TypeInv, TypeOK, Delete
  <1>5. text' \in [Procs -> Content]
    BY TruncatedType DEF TypeInv, TypeOK, Delete
  <1>6. DOMAIN before' = Procs /\ \A s \in Procs : IsDirectory(before'[s])
    BY NoneIsDirectory DEF TypeInv, TypeOK, Delete
  <1>7. disturbed' \subseteq Procs /\ spoiled' \subseteq Names /\ asked' \in 0 .. MaxAsked
    BY DEF TypeInv, TypeOK, Delete
  <1>8. \A s \in Procs : pc'[s] # "done" => req'[s] \in Requests
    BY <1>1, <1>4 DEF TypeInv, TypeOK
  <1>9. Opened'
    BY <1>1, <1>3, <1>4 DEF TypeInv, Opened
  <1>. QED  BY <1>2, <1>3, <1>4, <1>5, <1>6, <1>7, <1>8, <1>9 DEF TypeInv, TypeOK

\* What RemoveOld does to the places of the requests.
LEMMA RemoveOldIs ==
  ASSUME TypeInv, NEW p \in Procs, RemoveOld(p)
  PROVE  \A s \in Procs : pc'[s] = IF s = p THEN "open"
                                  ELSE IF pc[s] = "write" /\ NewName(req[s]) = req[p].id
                                       THEN "unlinked" ELSE pc[s]
  <1>1. CASE req[p].id \in DOMAIN files
    BY <1>1, UnlinkIs DEF TypeInv, RemoveOld
  <1>2. CASE req[p].id \notin DOMAIN files
    BY <1>2 DEF TypeInv, TypeOK, Opened, RemoveOld
  <1>. QED  BY <1>1, <1>2

LEMMA RemoveOldType ==
  ASSUME TypeInv, NEW p \in Procs, RemoveOld(p)
  PROVE  TypeInv'
  <1>1. \A s \in Procs : pc'[s] = IF s = p THEN "open"
                                 ELSE IF pc[s] = "write" /\ NewName(req[s]) = req[p].id
                                      THEN "unlinked" ELSE pc[s]
    BY RemoveOldIs
  <1>2. pc' \in [Procs -> {"done", "find", "read", "remove", "open", "write",
                           "unlinked", "activate"}]
    <2>1. CASE req[p].id \in DOMAIN files
      BY <2>1 DEF TypeInv, TypeOK, RemoveOld, Unlink
    <2>2. CASE req[p].id \notin DOMAIN files
      BY <2>2 DEF TypeInv, TypeOK, RemoveOld
    <2>. QED  BY <2>1, <2>2
  <1>3. IsDirectory(files') /\ DOMAIN files' = DOMAIN files \ {req[p].id}
    BY WithoutType, WithoutIs DEF TypeInv, TypeOK, RemoveOld
  <1>4. spoiled' \subseteq Names /\ Stay /\ pc[p] # "done"
    BY DEF TypeInv, TypeOK, RemoveOld
  <1>5. TypeOK'
    BY <1>1, <1>2, <1>3, <1>4, StayType DEF TypeInv
  <1>6. Opened'
    BY <1>1, <1>3, <1>4 DEF TypeInv, Opened, Stay
  <1>. QED  BY <1>5, <1>6 DEF TypeInv

LEMMA OpenType ==
  ASSUME TypeInv, NEW p \in Procs, Open(p)
  PROVE  TypeInv'
  <1>1. req[p] \in Requests /\ pc[p] # "done"
    BY DEF TypeInv, TypeOK, Open, Goto
  <1>2. IsDirectory(files')
    BY <1>1, NameType, TruncatedType, WithType DEF TypeInv, TypeOK, Open
  <1>3. DOMAIN files' = DOMAIN files \cup {NewName(req[p])}
    BY WithIs DEF Open
  <1>4. TypeOK'
    BY <1>1, <1>2, StayType DEF TypeInv, TypeOK, Open, Goto
  <1>5. Opened'
    BY <1>3 DEF TypeInv, TypeOK, Opened, Open, Goto, Stay
  <1>. QED  BY <1>4, <1>5 DEF TypeInv

\* After Write and WriteUnlinked the request activates the profile or ends.
LEMMA WrittenType ==
  ASSUME TypeInv, NEW p \in Procs, pc[p] # "done", Written(p),
         IsDirectory(files'), DOMAIN files' = DOMAIN files, spoiled' \subseteq Names
  PROVE  TypeInv'
  <1>1. CASE req[p].op = "connect"
    <2>1. TypeOK'
      BY <1>1, StayType DEF TypeInv, TypeOK, Written
    <2>2. Opened'
      BY <1>1 DEF TypeInv, TypeOK, Opened, Written, Stay
    <2>. QED  BY <2>1, <2>2 DEF TypeInv
  <1>2. CASE req[p].op # "connect"
    <2>1. Finish(p)
      BY <1>2 DEF Written
    <2>2. TypeOK'
      BY <2>1, FinishType DEF TypeInv
    <2>3. Opened'
      BY <2>1 DEF TypeInv, TypeOK, Opened, Finish
    <2>. QED  BY <2>2, <2>3 DEF TypeInv
  <1>. QED  BY <1>1, <1>2

\* What a write leaves in its file.
LEMMA WriteIs ==
  ASSUME TypeInv, NEW p \in Procs, Write(p)
  PROVE  \E c \in Overlay(text[p], files[NewName(req[p])]) :
           /\ files' = With(NewName(req[p]), c)
           /\ c \in Content /\ c.cut = text[p].cut
           /\ files[NewName(req[p])].cut => c = text[p]
           /\ NewName(req[p]) \in DOMAIN files
  <1>1. PICK c \in Overlay(text[p], files[NewName(req[p])]) :
          files' = With(NewName(req[p]), c)
    BY DEF Write
  <1>2. NewName(req[p]) \in DOMAIN files /\ files[NewName(req[p])] \in Content
          /\ text[p] \in Content
    BY DEF TypeInv, TypeOK, IsDirectory, Opened, Write
  <1>. QED  BY <1>1, <1>2, OverlayType

LEMMA WriteType ==
  ASSUME TypeInv, NEW p \in Procs, Write(p)
  PROVE  TypeInv'
  <1>1. PICK c \in Content : files' = With(NewName(req[p]), c)
                               /\ NewName(req[p]) \in DOMAIN files
    BY WriteIs
  <1>2. IsDirectory(files')
    <2>1. NewName(req[p]) \in Names
      BY <1>1 DEF TypeInv, TypeOK, IsDirectory
    <2>. QED  BY <1>1, <2>1, WithType DEF TypeInv, TypeOK
  <1>3. DOMAIN files' = DOMAIN files
    <2>1. DOMAIN files' = DOMAIN files \cup {NewName(req[p])}
      BY <1>1, WithIs
    <2>. QED  BY <1>1, <2>1
  <1>4. spoiled' \subseteq Names
    BY DEF TypeInv, TypeOK, Write
  <1>. QED  BY <1>2, <1>3, <1>4, WrittenType DEF Write

LEMMA ActivatedType ==
  ASSUME TypeInv, NEW p \in Procs, Activated(p)
  PROVE  TypeInv'
  <1>1. req[p].id \in DOMAIN files /\ req[p].id \in Names /\ files[req[p].id] \in Content
    BY DEF TypeInv, TypeOK, IsDirectory, Activated
  <1>2. [files[req[p].id] EXCEPT !.key = req[p].kind = "psk"] \in Content
    BY <1>1 DEF Content
  <1>3. IsDirectory(files')
    BY <1>1, <1>2, WithType DEF TypeInv, TypeOK, Activated
  <1>4. DOMAIN files' = DOMAIN files
    <2>1. DOMAIN files' = DOMAIN files \cup {req[p].id}
      BY WithIs DEF Activated
    <2>. QED  BY <1>1, <2>1
  <1>5. TypeOK'
    BY <1>3, FinishType DEF TypeInv, TypeOK, Activated
  <1>6. Opened'
    BY <1>4 DEF TypeInv, TypeOK, Opened, Activated, Finish
  <1>. QED  BY <1>5, <1>6 DEF TypeInv

LEMMA KillType == TypeInv /\ Kill => TypeInv'
  <1>. SUFFICES ASSUME TypeInv, Kill PROVE TypeInv'
    OBVIOUS
  <1>1. spoiled' \subseteq Names
    BY NameType DEF TypeInv, TypeOK, Kill
  <1>2. DOMAIN before' = Procs /\ \A s \in Procs : IsDirectory(before'[s])
    BY NoneIsDirectory DEF Kill
  <1>3. Opened'
    BY DEF Opened, Kill
  <1>. QED  BY <1>1, <1>2, <1>3, TruncatedType DEF TypeInv, TypeOK, Kill

LEMMA StepType == TypeInv /\ [Next]_vars => TypeInv'
  <1>1. ASSUME TypeInv, NEW p \in Procs, Step(p) PROVE TypeInv'
    <2>1. CASE \E q \in Asked : Begin(p, q)
      BY <1>1, <2>1, BeginType
    <2>2. CASE Find(p) \/ RollBack(p)
      BY <1>1, <2>2, MoveType DEF Find, RollBack
    <2>3. CASE Refuse(p) \/ Abandon(p)
      BY <1>1, <2>3, EndType DEF Refuse, Abandon, TypeInv, TypeOK
    <2>4. CASE FailWrite(p)
      <3>1. req[p] \in Requests
        BY <1>1, <2>4 DEF FailWrite, TypeInv, TypeOK
      <3>2. spoiled' \subseteq Names
        BY <1>1, <2>4, <3>1, NameType DEF FailWrite, TypeInv, TypeOK
      <3>. QED  BY <1>1, <2>4, <3>2, EndType DEF FailWrite
    <2>5. CASE WriteUnlinked(p)
      BY <1>1, <2>5, WrittenType DEF WriteUnlinked, TypeInv, TypeOK
    <2>. QED  BY <1>1, <2>1, <2>2, <2>3, <2>4, <2>5, ReadType, DeleteType,
                 RemoveOldType, OpenType, WriteType, ActivatedType DEF Step
  <1>2. TypeInv /\ UNCHANGED vars => TypeInv'
    BY DEF TypeInv, TypeOK, Opened, vars
  <1>. QED  BY <1>1, <1>2, KillType DEF Next

LEMMA TypeInvariant == Spec => []TypeInv
  BY InitType, StepType, PTL DEF Spec

\* Every variable keeps its type: whatever is written, the directory holds whole
\* profiles under names that are theirs (internal/wnet/iwd/profile.go).
THEOREM TypeCorrect == Spec => []TypeOK
  BY TypeInvariant, PTL DEF TypeInv
-----------------------------------------------------------------------------
(* Which files may be cut. *)

\* What a request is going to write is whole.
Whole ==
  \A p \in Procs :
    pc[p] \in {"open", "write", "unlinked"} \/ (pc[p] = "remove" /\ req[p].op = "patch")
      => ~text[p].cut

CutInv == TypeInv /\ Whole /\ CutOnlyByFailure

LEMMA InitCut == Init => Whole /\ CutOnlyByFailure
  BY StoredAssumption DEF Init, Whole, CutOnlyByFailure

LEMMA BeginCut ==
  ASSUME CutInv, NEW p \in Procs, NEW q \in Asked, Begin(p, q)
  PROVE  Whole' /\ CutOnlyByFailure'
  <1>1. /\ pc[p] = "done" /\ \A s \in Procs \ {p} : pc'[s] = pc[s]
        /\ pc'[p] = IF q.op \in {"add", "connect"} THEN "open" ELSE "find"
    BY DEF CutInv, TypeInv, TypeOK, Begin, Goto
  <1>2. \A s \in Procs \ {p} : req'[s] = req[s] /\ text'[s] = text[s]
    BY DEF CutInv, TypeInv, TypeOK, Begin
  <1>3. q.op \in {"add", "connect"} => ~text'[p].cut
    BY DEF CutInv, TypeInv, TypeOK, Begin, Render
  <1>4. UNCHANGED <<files, spoiled>>
    BY DEF Begin
  <1>5. Whole'
    BY <1>1, <1>2, <1>3 DEF CutInv, Whole
  <1>6. CutOnlyByFailure'
    BY <1>1, <1>2, <1>4 DEF CutInv, CutOnlyByFailure
  <1>. QED  BY <1>5, <1>6

\* Find, RollBack.
LEMMA MoveCut ==
  ASSUME CutInv, NEW p \in Procs, Find(p) \/ RollBack(p)
  PROVE  Whole' /\ CutOnlyByFailure'
  <1>1. /\ \A s \in Procs \ {p} : pc'[s] = pc[s]
        /\ pc[p] # "write" /\ pc'[p] \in {"find", "read", "remove"}
        /\ pc'[p] = "remove" => req[p].op # "patch"
    BY DEF CutInv, TypeInv, TypeOK, Find, RollBack, Goto
  <1>2. UNCHANGED <<files, spoiled, req, text>>
    BY DEF Find, RollBack, Stay
  <1>. QED  BY <1>1, <1>2 DEF CutInv, Whole, CutOnlyByFailure

\* Refuse, Abandon, FailWrite.
LEMMA EndCut ==
  ASSUME CutInv, NEW p \in Procs, Finish(p), UNCHANGED files, spoiled \subseteq spoiled',
         pc[p] = "write" => NewName(req[p]) \in spoiled'
  PROVE  Whole' /\ CutOnlyByFailure'
  <1>1. /\ pc'[p] = "done"
        /\ \A s \in Procs \ {p} : pc'[s] = pc[s] /\ req'[s] = req[s] /\ text'[s] = text[s]
    BY DEF CutInv, TypeInv, TypeOK, Finish
  <1>. QED  BY <1>1 DEF CutInv, Whole, CutOnlyByFailure

LEMMA ReadCut ==
  ASSUME CutInv, NEW p \in Procs, Read(p)
  PROVE  Whole' /\ CutOnlyByFailure'
  <1>1. req[p] \in Requests /\ files[req[p].id] \in Content
    BY DEF CutInv, TypeInv, TypeOK, IsDirectory, Read, Goto
  <1>2. ~text'[p].cut /\ \A s \in Procs \ {p} : text'[s] = text[s]
    BY <1>1, PatchedType DEF CutInv, TypeInv, TypeOK, Read
  <1>3. pc[p] = "read" /\ pc'[p] # "write" /\ \A s \in Procs \ {p} : pc'[s] = pc[s]
    BY DEF CutInv, TypeInv, TypeOK, Read, Goto
  <1>4. UNCHANGED <<files, spoiled, req>>
    BY DEF Read
  <1>. QED  BY <1>2, <1>3, <1>4 DEF CutInv, Whole, CutOnlyByFailure

\* Delete, RemoveOld: whoever writes the removed file has none to cut any more.
LEMMA RemoveCut ==
  ASSUME CutInv, NEW p \in Procs, pc[p] = "remove",
         files' = Without(req[p].id), spoiled' = spoiled \ {req[p].id},
         \A s \in Procs \ {p} :
           /\ req'[s] = req[s] /\ text'[s] = text[s]
           /\ pc'[s] = IF pc[s] = "write" /\ NewName(req[s]) = req[p].id
                       THEN "unlinked" ELSE pc[s],
         pc'[p] = "done" \/ (pc'[p] = "open" /\ ~text'[p].cut)
  PROVE  Whole' /\ CutOnlyByFailure'
  <1>1. /\ DOMAIN files' = DOMAIN files \ {req[p].id}
        /\ \A m \in DOMAIN files \ {req[p].id} : files'[m] = files[m]
    BY WithoutIs
  <1>2. Whole'
    BY DEF CutInv, Whole
  <1>3. CutOnlyByFailure'
    <2>. SUFFICES ASSUME NEW n \in DOMAIN files', files'[n].cut, n \notin spoiled'
                  PROVE  \E s \in Procs : pc'[s] = "write" /\ NewName(req'[s]) = n
      BY DEF CutOnlyByFailure, NewName
    <2>1. n \in DOMAIN files /\ n # req[p].id /\ files[n].cut /\ n \notin spoiled
      BY <1>1
    <2>2. PICK s \in Procs : pc[s] = "write" /\ NewName(req[s]) = n
      BY <2>1 DEF CutInv, CutOnlyByFailure
    <2>3. s # p
      BY <2>2
    <2>. QED  BY <2>1, <2>2, <2>3
  <1>. QED  BY <1>2, <1>3

LEMMA OpenCut ==
  ASSUME CutInv, NEW p \in Procs, Open(p)
  PROVE  Whole' /\ CutOnlyByFailure'
  <1>1. pc[p] = "open" /\ pc'[p] = "write" /\ \A s \in Procs \ {p} : pc'[s] = pc[s]
    BY DEF CutInv, TypeInv, TypeOK, Open, Goto
  <1>2. /\ DOMAIN files' = DOMAIN files \cup {NewName(req[p])}
        /\ \A m \in DOMAIN files \ {NewName(req[p])} : files'[m] = files[m]
    BY FilesWith DEF Open
  <1>3. UNCHANGED <<spoiled, req, text>>
    BY DEF Open, Stay
  <1>. QED  BY <1>1, <1>2, <1>3 DEF CutInv, Whole, CutOnlyByFailure

\* Written: the request activates the profile or ends.
LEMMA WrittenIs ==
  ASSUME TypeInv, NEW p \in Procs, Written(p)
  PROVE  /\ pc'[p] \in {"done", "activate"} /\ (req[p].op # "connect" => pc'[p] = "done")
         /\ \A s \in Procs \ {p} : /\ pc'[s] = pc[s] /\ req'[s] = req[s]
                                   /\ text'[s] = text[s] /\ before'[s] = before[s]
         /\ disturbed \subseteq disturbed' \cup {p}
  BY DEF TypeInv, TypeOK, Written, Finish, Stay

LEMMA WriteCut ==
  ASSUME CutInv, NEW p \in Procs, Write(p)
  PROVE  Whole' /\ CutOnlyByFailure'
  <1>0. TypeInv /\ pc[p] = "write" /\ ~text[p].cut /\ Written(p)
    BY DEF CutInv, Whole, Write
  <1>1. \E c \in Overlay(text[p], files[NewName(req[p])]) :
          files' = With(NewName(req[p]), c) /\ c.cut = text[p].cut
    BY <1>0, WriteIs
  <1>2. /\ DOMAIN files' = DOMAIN files \cup {NewName(req[p])}
        /\ ~files'[NewName(req[p])].cut
        /\ \A m \in DOMAIN files \ {NewName(req[p])} : files'[m] = files[m]
    <2>1. PICK c \in Overlay(text[p], files[NewName(req[p])]) :
            files' = With(NewName(req[p]), c) /\ ~c.cut
      BY <1>0, <1>1
    <2>. QED  BY <2>1, FilesWith
  <1>3. /\ pc'[p] \in {"done", "activate"}
        /\ \A s \in Procs \ {p} : pc'[s] = pc[s] /\ req'[s] = req[s] /\ text'[s] = text[s]
    BY <1>0, WrittenIs
  <1>4. spoiled' = spoiled \ {NewName(req[p])}
    BY DEF Write
  <1>5. Whole'
    BY <1>3 DEF CutInv, Whole
  <1>6. CutOnlyByFailure'
    <2>. SUFFICES ASSUME NEW n \in DOMAIN files', files'[n].cut, n \notin spoiled'
                  PROVE  \E s \in Procs : pc'[s] = "write" /\ NewName(req'[s]) = n
      BY DEF CutOnlyByFailure, NewName
    <2>1. n \in DOMAIN files /\ n # NewName(req[p]) /\ files[n].cut /\ n \notin spoiled
      BY <1>2, <1>4
    <2>2. PICK s \in Procs : pc[s] = "write" /\ NewName(req[s]) = n
      BY <2>1 DEF CutInv, CutOnlyByFailure
    <2>. QED  BY <2>1, <2>2, <1>3
  <1>. QED  BY <1>5, <1>6

LEMMA ActivatedCut ==
  ASSUME CutInv, NEW p \in Procs, Activated(p)
  PROVE  Whole' /\ CutOnlyByFailure'
  <1>1. /\ pc[p] = "activate" /\ pc'[p] = "done"
        /\ \A s \in Procs \ {p} : pc'[s] = pc[s] /\ req'[s] = req[s] /\ text'[s] = text[s]
    BY DEF CutInv, TypeInv, TypeOK, Activated, Finish
  <1>2. files[req[p].id] \in Content /\ ~files[req[p].id].cut
    BY DEF CutInv, TypeInv, TypeOK, IsDirectory, Activated
  <1>3. \E c : files' = With(req[p].id, c) /\ ~c.cut
    <2>1. ~[files[req[p].id] EXCEPT !.key = req[p].kind = "psk"].cut
      BY <1>2 DEF Content
    <2>. QED  BY <2>1 DEF Activated
  <1>4. /\ DOMAIN files' = DOMAIN files \cup {req[p].id}
        /\ ~files'[req[p].id].cut
        /\ \A m \in DOMAIN files \ {req[p].id} : files'[m] = files[m]
    <2>1. PICK c : files' = With(req[p].id, c) /\ ~c.cut
      BY <1>3
    <2>. QED  BY <2>1, FilesWith
  <1>5. UNCHANGED spoiled
    BY DEF Activated
  <1>. QED  BY <1>1, <1>4, <1>5 DEF CutInv, Whole, CutOnlyByFailure

LEMMA KillCut == CutInv /\ Kill => Whole' /\ CutOnlyByFailure'
  BY DEF CutInv, Whole, CutOnlyByFailure, Kill

LEMMA StepCut == CutInv /\ [Next]_vars => CutInv'
  <1>. SUFFICES ASSUME CutInv, [Next]_vars PROVE Whole' /\ CutOnlyByFailure'
    BY StepType DEF CutInv
  <1>1. ASSUME NEW p \in Procs, Step(p) PROVE Whole' /\ CutOnlyByFailure'
    <2>1. CASE \E q \in Asked : Begin(p, q)
      BY <2>1, BeginCut
    <2>2. CASE Find(p) \/ RollBack(p)
      BY <2>2, MoveCut
    <2>3. CASE Refuse(p) \/ Abandon(p) \/ FailWrite(p)
      BY <2>3, EndCut DEF Refuse, Abandon, FailWrite
    <2>4. CASE Delete(p)
      <3>1. /\ pc'[p] = "done"
            /\ \A s \in Procs \ {p} :
                 pc'[s] = IF pc[s] = "write" /\ NewName(req[s]) = req[p].id
                          THEN "unlinked" ELSE pc[s]
        BY <2>4, UnlinkIs DEF Delete, CutInv, TypeInv
      <3>2. \A s \in Procs \ {p} : req'[s] = req[s] /\ text'[s] = text[s]
        BY <2>4 DEF Delete, CutInv, TypeInv, TypeOK
      <3>. QED  BY <2>4, <3>1, <3>2, RemoveCut DEF Delete
    <2>5. CASE RemoveOld(p)
      <3>1. /\ pc'[p] = "open"
            /\ \A s \in Procs \ {p} :
                 pc'[s] = IF pc[s] = "write" /\ NewName(req[s]) = req[p].id
                          THEN "unlinked" ELSE pc[s]
        BY <2>5, RemoveOldIs DEF CutInv
      <3>2. UNCHANGED <<req, text>> /\ ~text[p].cut
        BY <2>5 DEF RemoveOld, Stay, CutInv, Whole
      <3>. QED  BY <2>5, <3>1, <3>2, RemoveCut DEF RemoveOld
    <2>6. CASE WriteUnlinked(p)
      <3>1. /\ pc[p] = "unlinked" /\ pc'[p] \in {"done", "activate"}
            /\ \A s \in Procs \ {p} : pc'[s] = pc[s] /\ req'[s] = req[s] /\ text'[s] = text[s]
            /\ UNCHANGED <<files, spoiled>>
        BY <2>6, WrittenIs DEF WriteUnlinked, CutInv
      <3>. QED  BY <3>1 DEF CutInv, Whole, CutOnlyByFailure
    <2>. QED  BY <1>1, <2>1, <2>2, <2>3, <2>4, <2>5, <2>6,
                 ReadCut, OpenCut, WriteCut, ActivatedCut DEF Step
  <1>2. UNCHANGED vars => Whole' /\ CutOnlyByFailure'
    BY DEF CutInv, Whole, CutOnlyByFailure, vars
  <1>. QED  BY <1>1, <1>2, KillCut DEF Next

\* However requests interleave, a file of zero bytes is one a request is writing,
\* or one whose last write failed or was killed (writeProfileFile, profile.go).
THEOREM CutOnlyByFailureCorrect == Spec => []CutOnlyByFailure
  <1>1. Init => CutInv
    BY InitType, InitCut DEF CutInv
  <1>. QED  BY <1>1, StepCut, PTL DEF Spec, CutInv
-----------------------------------------------------------------------------
(* What a patch finds and leaves behind. *)

\* Requests about the same files know that they are disturbed.
Rivals ==
  \A p, s \in Procs :
    p # s /\ pc[p] # "done" /\ pc[s] # "done" /\ Touched(req[p]) \cap Touched(req[s]) # {}
      => p \in disturbed

\* The files of a request, as they are.
Own(p) == Restrict(files, DOMAIN files \cap Touched(req[p]))

\* Where an undisturbed patch is, and what it has done by then.
Patching(p) ==
  /\ pc[p] \notin {"unlinked", "activate"}
  /\ pc[p] \in {"find", "read"} => Own(p) = before[p]
  /\ pc[p] \in {"remove", "open", "write"} =>
       req[p].id \in DOMAIN before[p] /\ text[p] = Patched(req[p], before[p][req[p].id])
  /\ pc[p] = "remove" => NewName(req[p]) # req[p].id
  /\ pc[p] \in {"open", "write"} /\ NewName(req[p]) # req[p].id => req[p].id \notin DOMAIN files
  /\ pc[p] = "write" => files[NewName(req[p])].cut

Undisturbed(p) == pc[p] # "done" /\ req[p].op = "patch" /\ p \notin disturbed

PatchInv ==
  /\ TypeInv
  /\ Rivals
  /\ \A p \in Procs : Undisturbed(p) => Patching(p)

LEMMA InitPatch == Init => PatchInv
  BY InitType DEF Init, PatchInv, Rivals, Undisturbed

LEMMA OwnSame ==
  ASSUME NEW X, \A n \in X : /\ n \in DOMAIN files' <=> n \in DOMAIN files
                             /\ n \in DOMAIN files => files'[n] = files[n]
  PROVE  Restrict(files', DOMAIN files' \cap X) = Restrict(files, DOMAIN files \cap X)
  <1>1. DOMAIN files' \cap X = DOMAIN files \cap X
    OBVIOUS
  <1>. QED  BY <1>1 DEF Restrict

\* A step of one request in the state of another: the others keep what they hold,
\* and only the files of the one that moves change.
OthersStay(p) ==
  /\ \A s \in Procs \ {p} :
       /\ req'[s] = req[s] /\ text'[s] = text[s] /\ before'[s] = before[s]
       /\ \/ pc'[s] = pc[s]
          \/ pc[s] = "write" /\ pc[p] # "done" /\ NewName(req[s]) \in Touched(req[p])
  /\ disturbed \subseteq disturbed' \cup {p}
  /\ \/ UNCHANGED files
     \/ /\ pc[p] # "done"
        /\ \A n \in Names \ Touched(req[p]) :
             /\ n \in DOMAIN files' <=> n \in DOMAIN files
             /\ n \in DOMAIN files => files'[n] = files[n]

LEMMA OthersPatch ==
  ASSUME PatchInv, NEW p \in Procs, OthersStay(p), NEW s \in Procs \ {p}, Undisturbed(s)'
  PROVE  Patching(s)'
  <1>1. pc[s] # "done" /\ req[s].op = "patch" /\ s \notin disturbed /\ req'[s] = req[s]
    BY DEF Undisturbed, OthersStay
  <1>2. Patching(s)
    BY <1>1 DEF PatchInv, Undisturbed
  <1>3. req[s] \in Requests /\ Touched(req[s]) \subseteq Names
    BY <1>1, NameType DEF PatchInv, TypeInv, TypeOK, Touched
  <1>4. pc[p] # "done" => Touched(req[p]) \cap Touched(req[s]) = {}
    BY <1>1 DEF PatchInv, Rivals
  <1>5. pc'[s] = pc[s] /\ text'[s] = text[s] /\ before'[s] = before[s]
    BY <1>4 DEF OthersStay, Touched
  <1>6. \A n \in Touched(req[s]) : /\ n \in DOMAIN files' <=> n \in DOMAIN files
                                   /\ n \in DOMAIN files => files'[n] = files[n]
    BY <1>3, <1>4 DEF OthersStay
  <1>7. Restrict(files', DOMAIN files' \cap Touched(req[s])) = Own(s)
    BY <1>6, OwnSame DEF Own
  <1>8. /\ req[s].id \in DOMAIN files' <=> req[s].id \in DOMAIN files
        /\ pc[s] = "write" => files'[NewName(req[s])] = files[NewName(req[s])]
    BY <1>6 DEF Touched, PatchInv, TypeInv, Opened
  <1>9. Touched(req[s])' = Touched(req[s]) /\ NewName(req[s])' = NewName(req[s])
    BY <1>1 DEF Touched, NewName
  <1>. QED  BY <1>1, <1>2, <1>5, <1>7, <1>8, <1>9 DEF Patching, Own

\* Whatever a request does but begin, the rivals stay those that they are.
LEMMA SameRivals ==
  ASSUME PatchInv, NEW p \in Procs, pc[p] # "done",
         \A s \in Procs \ {p} :
           req'[s] = req[s] /\ (pc'[s] = pc[s] \/ pc[s] = "write"),
         \/ pc'[p] = "done" /\ disturbed' = disturbed \ {p}
         \/ req'[p] = req[p] /\ disturbed' = disturbed
  PROVE  Rivals'
  <1>. SUFFICES ASSUME NEW u \in Procs, NEW v \in Procs, u # v, pc'[u] # "done", pc'[v] # "done",
                       Touched(req'[u]) \cap Touched(req'[v]) # {}
                PROVE  u \in disturbed'
    BY DEF Rivals, Touched, NewName
  <1>1. pc[u] # "done" /\ pc[v] # "done" /\ req'[u] = req[u] /\ req'[v] = req[v]
    OBVIOUS
  <1>2. u \in disturbed
    BY <1>1 DEF PatchInv, Rivals
  <1>. QED  BY <1>2

LEMMA BeginPatch ==
  ASSUME PatchInv, NEW p \in Procs, NEW q \in Asked, Begin(p, q)
  PROVE  OthersStay(p) /\ Rivals' /\ (Undisturbed(p)' => Patching(p)')
  <1>. DEFINE rivals == {s \in Procs \ {p} :
                           pc[s] # "done" /\ Touched(req[s]) \cap Touched(q) # {}}
  <1>1. /\ pc[p] = "done" /\ \A s \in Procs \ {p} : pc'[s] = pc[s]
        /\ pc'[p] = IF q.op \in {"add", "connect"} THEN "open" ELSE "find"
    BY DEF PatchInv, TypeInv, TypeOK, Begin, Goto
  <1>2. /\ req'[p] = q
        /\ \A s \in Procs \ {p} : req'[s] = req[s] /\ text'[s] = text[s] /\ before'[s] = before[s]
        /\ before'[p] = Restrict(files, DOMAIN files \cap Touched(q))
    BY DEF PatchInv, TypeInv, TypeOK, Begin
  <1>3. UNCHANGED files /\ disturbed' = disturbed \cup rivals \cup (IF rivals = {} THEN {} ELSE {p})
    BY DEF Begin
  <1>4. OthersStay(p)
    BY <1>1, <1>2, <1>3 DEF OthersStay
  <1>5. Rivals'
    <2>. SUFFICES ASSUME NEW u \in Procs, NEW v \in Procs, u # v,
                         pc'[u] # "done", pc'[v] # "done",
                         Touched(req'[u]) \cap Touched(req'[v]) # {}
                  PROVE  u \in disturbed'
      BY DEF Rivals, Touched, NewName
    <2>. HIDE DEF rivals
    <2>1. CASE u = p
      <3>1. v \in rivals
        BY <2>1, <1>1, <1>2 DEF rivals
      <3>. QED  BY <2>1, <3>1, <1>3
    <2>2. CASE v = p
      <3>1. u \in rivals
        BY <2>2, <1>1, <1>2 DEF rivals
      <3>. QED  BY <3>1, <1>3
    <2>3. CASE u # p /\ v # p
      BY <2>3, <1>1, <1>2, <1>3 DEF PatchInv, Rivals
    <2>. QED  BY <2>1, <2>2, <2>3
  <1>6. Undisturbed(p)' => Patching(p)'
    <2>. SUFFICES ASSUME q.op = "patch" PROVE Patching(p)'
      BY <1>2 DEF Undisturbed
    <2>1. pc'[p] = "find"
      BY <1>1
    <2>2. Own(p)' = before'[p]
      BY <1>2, <1>3 DEF Own
    <2>. QED  BY <2>1, <2>2 DEF Patching
  <1>. QED  BY <1>4, <1>5, <1>6

\* Find, RollBack.
LEMMA MovePatch ==
  ASSUME PatchInv, NEW p \in Procs, Find(p) \/ RollBack(p)
  PROVE  OthersStay(p) /\ Rivals' /\ (Undisturbed(p)' => Patching(p)')
  <1>1. /\ pc[p] # "done" /\ \A s \in Procs \ {p} : pc'[s] = pc[s]
        /\ UNCHANGED <<files, req, text, before, disturbed>>
    BY DEF PatchInv, TypeInv, TypeOK, Find, RollBack, Goto, Stay
  <1>2. OthersStay(p)
    BY <1>1 DEF OthersStay
  <1>3. Rivals'
    BY <1>1, SameRivals
  <1>4. Undisturbed(p)' => Patching(p)'
    <2>. SUFFICES ASSUME req[p].op = "patch", p \notin disturbed PROVE Patching(p)'
      BY <1>1 DEF Undisturbed
    <2>1. Patching(p)
      BY <1>1 DEF PatchInv, Undisturbed
    <2>2. pc[p] = "find" /\ pc'[p] = "read"
      BY <2>1 DEF Patching, Find, RollBack, Goto, PatchInv, TypeInv, TypeOK
    <2>. QED  BY <1>1, <2>1, <2>2 DEF Patching, Own
  <1>. QED  BY <1>2, <1>3, <1>4

\* A request that ends: Refuse, Abandon, FailWrite, WriteUnlinked, Write, Activated.
LEMMA EndPatch ==
  ASSUME PatchInv, NEW p \in Procs, pc[p] # "done", Finish(p),
         \A n \in Names \ Touched(req[p]) : /\ n \in DOMAIN files' <=> n \in DOMAIN files
                                            /\ n \in DOMAIN files => files'[n] = files[n]
  PROVE  OthersStay(p) /\ Rivals' /\ ~Undisturbed(p)'
  <1>1. /\ pc'[p] = "done" /\ disturbed' = disturbed \ {p}
        /\ \A s \in Procs \ {p} : /\ pc'[s] = pc[s] /\ req'[s] = req[s]
                                  /\ text'[s] = text[s] /\ before'[s] = before[s]
    BY DEF PatchInv, TypeInv, TypeOK, Finish
  <1>. QED  BY <1>1, SameRivals DEF OthersStay, Undisturbed

LEMMA ReadPatch ==
  ASSUME PatchInv, NEW p \in Procs, Read(p)
  PROVE  OthersStay(p) /\ Rivals' /\ (Undisturbed(p)' => Patching(p)')
  <1>1. /\ pc[p] = "read" /\ \A s \in Procs \ {p} : pc'[s] = pc[s] /\ text'[s] = text[s]
        /\ pc'[p] = IF NewName(req[p]) = req[p].id THEN "open" ELSE "remove"
        /\ text'[p] = Patched(req[p], files[req[p].id])
        /\ UNCHANGED <<files, req, before, disturbed>>
    BY DEF PatchInv, TypeInv, TypeOK, Read, Goto
  <1>2. OthersStay(p)
    BY <1>1 DEF OthersStay
  <1>3. Rivals'
    BY <1>1, SameRivals
  <1>4. Undisturbed(p)' => Patching(p)'
    <2>. SUFFICES ASSUME req[p].op = "patch", p \notin disturbed PROVE Patching(p)'
      BY <1>1 DEF Undisturbed
    <2>1. Own(p) = before[p]
      BY <1>1 DEF PatchInv, Undisturbed, Patching
    <2>2. req[p].id \in DOMAIN files /\ req[p].id \in Touched(req[p])
      BY DEF Read, Touched
    <2>3. req[p].id \in DOMAIN before[p] /\ before[p][req[p].id] = files[req[p].id]
      BY <2>1, <2>2 DEF Own, Restrict
    <2>4. NewName(req[p])' = NewName(req[p])
      BY <1>1 DEF NewName
    <2>. QED  BY <1>1, <2>3, <2>4 DEF Patching
  <1>. QED  BY <1>2, <1>3, <1>4

LEMMA DeletePatch ==
  ASSUME PatchInv, NEW p \in Procs, Delete(p)
  PROVE  OthersStay(p) /\ Rivals' /\ (Undisturbed(p)' => Patching(p)')
  <1>1. \A s \in Procs : pc'[s] = IF s = p THEN "done"
                                 ELSE IF pc[s] = "write" /\ NewName(req[s]) = req[p].id
                                      THEN "unlinked" ELSE pc[s]
    BY UnlinkIs DEF PatchInv, TypeInv, Delete
  <1>2. /\ pc[p] # "done" /\ disturbed' = disturbed \ {p}
        /\ \A s \in Procs \ {p} : /\ req'[s] = req[s] /\ text'[s] = text[s]
                                  /\ before'[s] = before[s]
    BY DEF PatchInv, TypeInv, TypeOK, Delete
  <1>3. /\ DOMAIN files' = DOMAIN files \ {req[p].id}
        /\ \A m \in DOMAIN files \ {req[p].id} : files'[m] = files[m]
    BY WithoutIs DEF Delete
  <1>4. OthersStay(p)
    BY <1>1, <1>2, <1>3 DEF OthersStay, Touched
  <1>5. Rivals'
    BY <1>1, <1>2, SameRivals
  <1>. QED  BY <1>1, <1>4, <1>5 DEF Undisturbed

LEMMA RemoveOldPatch ==
  ASSUME PatchInv, NEW p \in Procs, RemoveOld(p)
  PROVE  OthersStay(p) /\ Rivals' /\ (Undisturbed(p)' => Patching(p)')
  <1>1. \A s \in Procs : pc'[s] = IF s = p THEN "open"
                                 ELSE IF pc[s] = "write" /\ NewName(req[s]) = req[p].id
                                      THEN "unlinked" ELSE pc[s]
    BY RemoveOldIs DEF PatchInv
  <1>2. pc[p] = "remove" /\ UNCHANGED <<req, text, before, disturbed>>
    BY DEF RemoveOld, Stay
  <1>3. /\ DOMAIN files' = DOMAIN files \ {req[p].id}
        /\ \A m \in DOMAIN files \ {req[p].id} : files'[m] = files[m]
    BY WithoutIs DEF RemoveOld
  <1>4. OthersStay(p)
    BY <1>1, <1>2, <1>3 DEF OthersStay, Touched
  <1>5. Rivals'
    BY <1>1, <1>2, SameRivals
  <1>6. Undisturbed(p)' => Patching(p)'
    <2>. SUFFICES ASSUME req[p].op = "patch", p \notin disturbed PROVE Patching(p)'
      BY <1>2 DEF Undisturbed
    <2>1. Patching(p) /\ pc'[p] = "open"
      BY <1>1, <1>2 DEF PatchInv, Undisturbed
    <2>. QED  BY <1>2, <1>3, <2>1 DEF Patching
  <1>. QED  BY <1>4, <1>5, <1>6

LEMMA OpenPatch ==
  ASSUME PatchInv, NEW p \in Procs, Open(p)
  PROVE  OthersStay(p) /\ Rivals' /\ (Undisturbed(p)' => Patching(p)')
  <1>1. /\ pc[p] = "open" /\ pc'[p] = "write" /\ \A s \in Procs \ {p} : pc'[s] = pc[s]
        /\ UNCHANGED <<req, text, before, disturbed>>
    BY DEF PatchInv, TypeInv, TypeOK, Open, Goto, Stay
  <1>2. /\ DOMAIN files' = DOMAIN files \cup {NewName(req[p])}
        /\ files'[NewName(req[p])] = Truncated
        /\ \A m \in DOMAIN files \ {NewName(req[p])} : files'[m] = files[m]
    BY FilesWith DEF Open
  <1>3. OthersStay(p)
    BY <1>1, <1>2 DEF OthersStay, Touched
  <1>4. Rivals'
    BY <1>1, SameRivals
  <1>5. Undisturbed(p)' => Patching(p)'
    <2>. SUFFICES ASSUME req[p].op = "patch", p \notin disturbed PROVE Patching(p)'
      BY <1>1 DEF Undisturbed
    <2>1. Patching(p)
      BY <1>1 DEF PatchInv, Undisturbed
    <2>2. files'[NewName(req[p])].cut
      BY <1>2 DEF Truncated
    <2>3. NewName(req[p])' = NewName(req[p])
      BY <1>1 DEF NewName
    <2>. QED  BY <1>1, <1>2, <2>1, <2>2, <2>3 DEF Patching
  <1>. QED  BY <1>3, <1>4, <1>5

\* Write, WriteUnlinked.
LEMMA WrittenPatch ==
  ASSUME PatchInv, NEW p \in Procs, pc[p] \in {"write", "unlinked"}, Written(p),
         \A n \in Names \ Touched(req[p]) : /\ n \in DOMAIN files' <=> n \in DOMAIN files
                                            /\ n \in DOMAIN files => files'[n] = files[n]
  PROVE  OthersStay(p) /\ Rivals' /\ (Undisturbed(p)' => Patching(p)')
  <1>1. CASE req[p].op # "connect"
    BY <1>1, EndPatch DEF Written
  <1>2. CASE req[p].op = "connect"
    <2>1. /\ \A s \in Procs \ {p} : pc'[s] = pc[s]
          /\ UNCHANGED <<req, text, before, disturbed>>
      BY <1>2 DEF PatchInv, TypeInv, TypeOK, Written, Stay
    <2>2. OthersStay(p)
      BY <2>1 DEF OthersStay
    <2>3. Rivals'
      BY <2>1, SameRivals
    <2>. QED  BY <1>2, <2>1, <2>2, <2>3 DEF Undisturbed
  <1>. QED  BY <1>1, <1>2

LEMMA WritePatch ==
  ASSUME PatchInv, NEW p \in Procs, Write(p)
  PROVE  OthersStay(p) /\ Rivals' /\ (Undisturbed(p)' => Patching(p)')
  <1>1. PICK c \in Overlay(text[p], files[NewName(req[p])]) :
          files' = With(NewName(req[p]), c)
    BY DEF Write
  <1>2. /\ DOMAIN files' = DOMAIN files \cup {NewName(req[p])}
        /\ \A m \in DOMAIN files \ {NewName(req[p])} : files'[m] = files[m]
    BY <1>1, FilesWith
  <1>. QED  BY <1>2, WrittenPatch DEF Write, Touched

LEMMA ActivatedPatch ==
  ASSUME PatchInv, NEW p \in Procs, Activated(p)
  PROVE  OthersStay(p) /\ Rivals' /\ (Undisturbed(p)' => Patching(p)')
  <1>1. /\ DOMAIN files' = DOMAIN files \cup {req[p].id}
        /\ \A m \in DOMAIN files \ {req[p].id} : files'[m] = files[m]
    BY FilesWith DEF Activated
  <1>2. req[p].id \in DOMAIN files /\ pc[p] # "done" /\ Finish(p)
    BY DEF Activated
  <1>. QED  BY <1>1, <1>2, EndPatch DEF Touched

LEMMA KillPatch == PatchInv /\ Kill => PatchInv'
  <1>. SUFFICES ASSUME PatchInv, Kill PROVE PatchInv'
    OBVIOUS
  <1>1. \A p \in Procs : pc'[p] = "done"
    BY DEF Kill
  <1>2. TypeInv'
    BY KillType DEF PatchInv
  <1>. QED  BY <1>1, <1>2 DEF PatchInv, Rivals, Undisturbed

LEMMA StepPatch == PatchInv /\ [Next]_vars => PatchInv'
  <1>. SUFFICES ASSUME PatchInv, [Next]_vars PROVE PatchInv'
    OBVIOUS
  <1>0. TypeInv'
    BY StepType DEF PatchInv
  <1>1. ASSUME NEW p \in Procs, Step(p) PROVE PatchInv'
    <2>1. OthersStay(p) /\ Rivals' /\ (Undisturbed(p)' => Patching(p)')
      <3>1. CASE \E q \in Asked : Begin(p, q)
        BY <3>1, BeginPatch
      <3>2. CASE Find(p) \/ RollBack(p)
        BY <3>2, MovePatch
      <3>3. CASE Refuse(p) \/ Abandon(p) \/ FailWrite(p)
        BY <3>3, EndPatch DEF Refuse, Abandon, FailWrite
      <3>4. CASE WriteUnlinked(p)
        BY <3>4, WrittenPatch DEF WriteUnlinked
      <3>. QED  BY <1>1, <3>1, <3>2, <3>3, <3>4, ReadPatch, DeletePatch, RemoveOldPatch,
                   OpenPatch, WritePatch, ActivatedPatch DEF Step
    <2>2. ASSUME NEW s \in Procs, Undisturbed(s)' PROVE Patching(s)'
      BY <2>1, <2>2, OthersPatch
    <2>. QED  BY <1>0, <2>1, <2>2 DEF PatchInv
  <1>2. UNCHANGED vars => PatchInv'
    BY <1>0 DEF PatchInv, Rivals, Undisturbed, Patching, Own, Touched, NewName, vars
  <1>. QED  BY <1>1, <1>2, KillPatch DEF Next

\* What an undisturbed patch writes is what it made of the file it was asked about.
LEMMA WritesPatched ==
  ASSUME PatchInv, NEW p \in Procs, Write(p), req[p].op = "patch", p \notin disturbed
  PROVE  /\ req[p] \in Requests /\ before[p][req[p].id] \in Content
         /\ files'[NewName(req[p])] = Patched(req[p], before[p][req[p].id])
         /\ DOMAIN files' = DOMAIN files /\ NewName(req[p]) \in DOMAIN files
         /\ NewName(req[p]) # req[p].id => req[p].id \notin DOMAIN files
  <1>1. pc[p] = "write"
    BY DEF Write
  <1>2. Patching(p) /\ TypeInv
    BY <1>1 DEF PatchInv, Undisturbed
  <1>3. req[p] \in Requests /\ before[p][req[p].id] \in Content
    BY <1>1, <1>2 DEF Patching, TypeInv, TypeOK, IsDirectory
  <1>4. PICK c \in Overlay(text[p], files[NewName(req[p])]) :
          /\ files' = With(NewName(req[p]), c) /\ NewName(req[p]) \in DOMAIN files
          /\ files[NewName(req[p])].cut => c = text[p]
    BY <1>2, WriteIs
  <1>5. c = Patched(req[p], before[p][req[p].id])
    BY <1>1, <1>2, <1>4 DEF Patching
  <1>6. DOMAIN files' = DOMAIN files \cup {NewName(req[p])} /\ files'[NewName(req[p])] = c
    BY <1>4, FilesWith
  <1>7. DOMAIN files' = DOMAIN files
    BY <1>4, <1>6
  <1>. QED  BY <1>1, <1>2, <1>3, <1>4, <1>5, <1>6, <1>7 DEF Patching

\* PatchProfile (profile.go) keeps what the patch does not mention: the passphrase
\* unless the kind of security changes, AutoConnect, and the address.
THEOREM PatchKeepsCorrect == Spec => PatchKeeps
  <1>1. Init => PatchInv
    BY InitPatch
  <1>2. ASSUME PatchInv, [Next]_vars,
               NEW p \in Procs, Write(p), req[p].op = "patch", p \notin disturbed
        PROVE  LET q   == req[p]
                   old == before[p][q.id]
                   new == files'[NewName(q)]
               IN  /\ NewName(q)[2] = "psk" /\ q.id[2] = "psk" /\ q.pass = NoPass
                        => new.pass = old.pass
                   /\ q.auto = Keep => new.auto = old.auto
                   /\ q.ip = Keep /\ old.ip # "bare" => new.ip = old.ip
    <2>. DEFINE q == req[p]
                old == before[p][q.id]
                new == files'[NewName(q)]
    <2>1. q \in Requests /\ old \in Content /\ new = Patched(q, old)
      BY <1>2, WritesPatched
    <2>. HIDE DEF q, old, new
    <2>2. ASSUME NewName(q)[2] = "psk", q.id[2] = "psk", q.pass = NoPass
          PROVE  new.pass = old.pass
      BY <2>1, <2>2 DEF Patched, Render, NewName, Or
    <2>3. q.auto = Keep => new.auto = old.auto
      BY <2>1 DEF Patched, Render, Or
    <2>4. ASSUME q.ip = Keep, old.ip # "bare" PROVE new.ip = old.ip
      BY <2>1, <2>4 DEF Patched, Render, Or, Content
    <2>. QED  BY <2>2, <2>3, <2>4 DEF q, old, new
  <1>3. PatchInv /\ [Next]_vars =>
          [\A p \in Procs :
             Write(p) /\ req[p].op = "patch" /\ p \notin disturbed =>
               LET q   == req[p]
                   old == before[p][q.id]
                   new == files'[NewName(q)]
               IN  /\ NewName(q)[2] = "psk" /\ q.id[2] = "psk" /\ q.pass = NoPass
                        => new.pass = old.pass
                   /\ q.auto = Keep => new.auto = old.auto
                   /\ q.ip = Keep /\ old.ip # "bare" => new.ip = old.ip]_vars
    BY <1>2
  <1>. QED  BY <1>1, <1>3, StepPatch, PTL DEF Spec, PatchKeeps

\* A rename in PatchProfile removes the one file before it writes the other, and
\* an undisturbed one ends with exactly the new file, or, refused, with the old.
THEOREM PatchMovesCorrect == Spec => PatchMoves
  <1>1. Init => PatchInv
    BY InitPatch
  <1>2. ASSUME PatchInv, [Next]_vars,
               NEW p \in Procs, Write(p), req[p].op = "patch", p \notin disturbed
        PROVE  DOMAIN files' \cap Touched(req[p]) = {NewName(req[p])}
    BY <1>2, WritesPatched DEF Touched
  <1>3. ASSUME PatchInv, [Next]_vars,
               NEW p \in Procs, Refuse(p), req[p].op = "patch", p \notin disturbed
        PROVE  Restrict(files', DOMAIN files' \cap Touched(req[p])) = before[p]
    <2>1. pc[p] \in {"find", "read"} /\ UNCHANGED files
      BY <1>3 DEF Refuse
    <2>2. Own(p) = before[p]
      BY <1>3, <2>1 DEF PatchInv, Undisturbed, Patching
    <2>. QED  BY <2>1, <2>2 DEF Own
  <1>4. PatchInv /\ [Next]_vars =>
          [\A p \in Procs :
             req[p].op = "patch" /\ p \notin disturbed =>
               /\ Write(p) => DOMAIN files' \cap Touched(req[p]) = {NewName(req[p])}
               /\ Refuse(p) =>
                    Restrict(files', DOMAIN files' \cap Touched(req[p])) = before[p]]_vars
    BY <1>2, <1>3
  <1>. QED  BY <1>1, <1>4, StepPatch, PTL DEF Spec, PatchMoves
-----------------------------------------------------------------------------
(* What an add, or a `wfm connect`, leaves behind. *)

\* The request is one that is made.
AskedInv == \A p \in Procs : pc[p] # "done" => req[p] \in Asked

\* Where an undisturbed one is, and what it has done by then.
Making(p) ==
  /\ pc[p] \in {"open", "write", "activate", "find", "remove"}
  /\ pc[p] \in {"open", "write"} => text[p] = Given(req[p])
  /\ pc[p] = "write" => files[req[p].id].cut
  /\ pc[p] \in {"activate", "find", "remove"} =>
       req[p].id \in DOMAIN files /\ files[req[p].id] = Given(req[p])

Alone(p) == pc[p] # "done" /\ req[p].op \in {"add", "connect"} /\ p \notin disturbed

MakeInv ==
  /\ PatchInv
  /\ AskedInv
  /\ \A p \in Procs : Alone(p) => Making(p)

LEMMA InitMake == Init => MakeInv
  BY InitPatch DEF Init, MakeInv, AskedInv, Alone

\* It is about one file.
LEMMA OneFile ==
  ASSUME NEW q \in Asked, q.op \in {"add", "connect"}
  PROVE  NewName(q) = q.id /\ Touched(q) = {q.id}
  <1>1. q.id = <<q.ssid, q.kind>>
    BY AskedAssumption
  <1>2. q.id[1] = q.ssid /\ q.id[2] = q.kind
    BY <1>1
  <1>3. NewName(q) = q.id
    BY <1>1, <1>2 DEF NewName, Or
  <1>. QED  BY <1>3 DEF Touched

\* Every step of a request leaves the others what they hold.
LEMMA StepOthers ==
  ASSUME PatchInv, NEW p \in Procs, Step(p)
  PROVE  OthersStay(p)
  <1>1. CASE \E q \in Asked : Begin(p, q)
    BY <1>1, BeginPatch
  <1>2. CASE Find(p) \/ RollBack(p)
    BY <1>2, MovePatch
  <1>3. CASE Refuse(p) \/ Abandon(p) \/ FailWrite(p)
    BY <1>3, EndPatch DEF Refuse, Abandon, FailWrite
  <1>4. CASE WriteUnlinked(p)
    BY <1>4, WrittenPatch DEF WriteUnlinked
  <1>. QED  BY <1>1, <1>2, <1>3, <1>4, ReadPatch, DeletePatch, RemoveOldPatch,
               OpenPatch, WritePatch, ActivatedPatch DEF Step

LEMMA OthersMake ==
  ASSUME MakeInv, NEW p \in Procs, OthersStay(p), NEW s \in Procs \ {p}, Alone(s)'
  PROVE  Making(s)'
  <1>1. /\ pc[s] # "done" /\ s \notin disturbed
        /\ req'[s] = req[s] /\ req[s].op \in {"add", "connect"}
    BY DEF Alone, OthersStay
  <1>2. Making(s) /\ req[s] \in Asked
    BY <1>1 DEF MakeInv, AskedInv, Alone
  <1>3. /\ NewName(req[s]) = req[s].id /\ Touched(req[s]) = {req[s].id}
        /\ req[s].id \in Names
    BY <1>1, <1>2, OneFile, AskedAssumption, NameType
  <1>4. pc[p] # "done" => req[s].id \notin Touched(req[p])
    BY <1>1, <1>3 DEF MakeInv, PatchInv, Rivals
  <1>5. pc'[s] = pc[s] /\ text'[s] = text[s]
    BY <1>3, <1>4 DEF OthersStay
  <1>6. /\ req[s].id \in DOMAIN files' <=> req[s].id \in DOMAIN files
        /\ req[s].id \in DOMAIN files => files'[req[s].id] = files[req[s].id]
    BY <1>3, <1>4 DEF OthersStay
  <1>7. pc[s] = "write" => req[s].id \in DOMAIN files
    BY <1>3 DEF MakeInv, PatchInv, TypeInv, Opened
  <1>. QED  BY <1>1, <1>2, <1>5, <1>6, <1>7 DEF Making

\* The steps of the request itself.
LEMMA OwnMake ==
  ASSUME MakeInv, NEW p \in Procs, Step(p), Alone(p)'
  PROVE  Making(p)'
  <1>0. TypeInv /\ TypeOK
    BY DEF MakeInv, PatchInv, TypeInv
  <1>1. CASE \E q \in Asked : Begin(p, q)
    <2>1. PICK q \in Asked : Begin(p, q)
      BY <1>1
    <2>2. req'[p] = q
      BY <1>0, <2>1 DEF TypeOK, Begin
    <2>3. pc'[p] = "open" /\ text'[p] = Given(q)
      BY <1>0, <2>1, <2>2 DEF TypeOK, Begin, Goto, Alone, Given
    <2>. QED  BY <2>2, <2>3 DEF Making
  <1>2. CASE Find(p) \/ RollBack(p)
    <2>1. pc[p] # "done" /\ UNCHANGED <<files, req, text, disturbed>>
      BY <1>2 DEF Find, RollBack, Goto, Stay
    <2>2. Making(p) /\ req[p].op \in {"add", "connect"}
      BY <2>1 DEF MakeInv, Alone
    <2>3. pc[p] \in {"find", "activate"} /\ pc'[p] \in {"remove", "find"}
      BY <1>0, <1>2, <2>2 DEF TypeOK, Find, RollBack, Goto
    <2>. QED  BY <2>1, <2>2, <2>3 DEF Making
  <1>3. CASE Open(p)
    <2>1. /\ pc[p] = "open" /\ pc'[p] = "write" /\ UNCHANGED <<req, text, disturbed>>
          /\ files' = With(NewName(req[p]), Truncated)
      BY <1>0, <1>3 DEF TypeOK, Open, Goto, Stay
    <2>2. Making(p) /\ req[p].op \in {"add", "connect"} /\ req[p] \in Asked
      BY <2>1 DEF MakeInv, AskedInv, Alone
    <2>3. files' = With(req[p].id, Truncated)
      BY <2>1, <2>2, OneFile
    <2>4. files'[req[p].id] = Truncated
      BY <2>3, FilesWith
    <2>5. Truncated.cut
      BY DEF Truncated
    <2>. QED  BY <2>1, <2>2, <2>4, <2>5 DEF Making
  <1>4. CASE Write(p)
    <2>1. pc[p] = "write" /\ UNCHANGED <<req, disturbed>> /\ pc'[p] = "activate"
      BY <1>0, <1>4 DEF TypeOK, Write, Written, Finish, Alone, Stay
    <2>2. Making(p) /\ req[p].op \in {"add", "connect"} /\ req[p] \in Asked
      BY <2>1 DEF MakeInv, AskedInv, Alone
    <2>3. PICK c : files' = With(req[p].id, c) /\ c = Given(req[p])
      BY <1>0, <1>4, <2>1, <2>2, OneFile, WriteIs DEF Making
    <2>4. req[p].id \in DOMAIN files' /\ files'[req[p].id] = Given(req[p])
      BY <2>3, FilesWith
    <2>. QED  BY <2>1, <2>4 DEF Making
  <1>5. CASE WriteUnlinked(p)
    <2>1. pc[p] = "unlinked" /\ UNCHANGED <<req, disturbed>>
      BY <1>0, <1>5 DEF TypeOK, WriteUnlinked, Written, Finish, Alone, Stay
    <2>. QED  BY <2>1 DEF MakeInv, Alone, Making
  <1>6. CASE Read(p) \/ RemoveOld(p)
    <2>1. pc[p] # "done" /\ UNCHANGED <<req, disturbed>>
      BY <1>6 DEF Read, RemoveOld, Goto, Stay
    <2>2. Making(p) /\ req[p].op # "patch"
      BY <2>1 DEF MakeInv, Alone
    <2>. QED  BY <1>6, <2>2 DEF Read, RemoveOld, Goto, Making
  <1>7. CASE Refuse(p) \/ Delete(p) \/ FailWrite(p) \/ Activated(p) \/ Abandon(p)
    <2>1. pc'[p] = "done"
      BY <1>0, <1>7, UnlinkIs DEF TypeOK, Refuse, Delete, FailWrite, Activated, Abandon, Finish
    <2>. QED  BY <2>1 DEF Alone
  <1>. QED  BY <1>1, <1>2, <1>3, <1>4, <1>5, <1>6, <1>7 DEF Step

LEMMA StepAsked == TypeInv /\ AskedInv /\ [Next]_vars => AskedInv'
  <1>1. ASSUME TypeInv, AskedInv, NEW p \in Procs, Step(p) PROVE AskedInv'
    <2>1. CASE \E q \in Asked : Begin(p, q)
      BY <1>1, <2>1 DEF TypeInv, TypeOK, AskedInv, Begin, Goto
    <2>2. CASE Find(p) \/ Read(p) \/ Open(p) \/ RollBack(p)
      BY <1>1, <2>2 DEF TypeInv, TypeOK, AskedInv, Find, Read, Open, RollBack, Goto, Stay
    <2>3. CASE Refuse(p) \/ FailWrite(p) \/ Activated(p) \/ Abandon(p)
      BY <1>1, <2>3
      DEF TypeInv, TypeOK, AskedInv, Refuse, FailWrite, Activated, Abandon, Finish
    <2>4. CASE Delete(p)
      BY <1>1, <2>4 DEF TypeInv, TypeOK, AskedInv, Delete, Unlink
    <2>5. CASE RemoveOld(p)
      BY <1>1, <2>5 DEF TypeInv, TypeOK, AskedInv, RemoveOld, Unlink, Stay
    <2>6. CASE Write(p) \/ WriteUnlinked(p)
      BY <1>1, <2>6
      DEF TypeInv, TypeOK, AskedInv, Write, WriteUnlinked, Written, Finish, Stay
    <2>. QED  BY <1>1, <2>1, <2>2, <2>3, <2>4, <2>5, <2>6 DEF Step
  <1>2. AskedInv /\ (Kill \/ UNCHANGED vars) => AskedInv'
    BY DEF AskedInv, Kill, vars
  <1>. QED  BY <1>1, <1>2 DEF Next

LEMMA StepMake == MakeInv /\ [Next]_vars => MakeInv'
  <1>. SUFFICES ASSUME MakeInv, [Next]_vars PROVE MakeInv'
    OBVIOUS
  <1>1. PatchInv' /\ AskedInv'
    BY StepPatch, StepAsked DEF MakeInv, PatchInv
  <1>2. ASSUME NEW p \in Procs, Step(p), NEW s \in Procs, Alone(s)' PROVE Making(s)'
    BY <1>2, StepOthers, OthersMake, OwnMake DEF MakeInv
  <1>3. ASSUME NEW s \in Procs, Kill, Alone(s)' PROVE FALSE
    BY <1>3 DEF Kill, Alone
  <1>4. ASSUME NEW s \in Procs, UNCHANGED vars, Alone(s)' PROVE Making(s)'
    BY <1>4 DEF vars, MakeInv, Alone, Making
  <1>. QED  BY <1>1, <1>2, <1>3, <1>4 DEF MakeInv, Next

LEMMA MakeInvariant == Spec => []MakeInv
  BY InitMake, StepMake, PTL DEF Spec

\* AddProfile (profile.go) writes over whatever file has the name: with no rival
\* the file ends up as the profile that was given, with nothing of the old one; the
\* activation of `wfm connect` finds that, and its roll-back the file to erase.
THEOREM GivenIsWrittenCorrect == Spec => GivenIsWritten
  <1>1. ASSUME MakeInv, NEW p \in Procs, req[p].op \in {"add", "connect"},
               p \notin disturbed
        PROVE  /\ Write(p) => files'[req[p].id] = Given(req[p])
               /\ Activated(p) => files[req[p].id] = Given(req[p])
               /\ ~WriteUnlinked(p) /\ ~Refuse(p)
    <2>1. pc[p] # "done" => Making(p) /\ req[p] \in Asked
      BY <1>1 DEF MakeInv, AskedInv, Alone
    <2>2. ASSUME Write(p) PROVE files'[req[p].id] = Given(req[p])
      <3>1. pc[p] = "write" /\ Making(p) /\ NewName(req[p]) = req[p].id
        BY <1>1, <2>1, <2>2, OneFile DEF Write
      <3>2. PICK c : files' = With(req[p].id, c) /\ c = Given(req[p])
        BY <1>1, <2>2, <3>1, WriteIs DEF MakeInv, PatchInv, Making
      <3>. QED  BY <3>2, FilesWith
    <2>3. Activated(p) => files[req[p].id] = Given(req[p])
      BY <2>1 DEF Activated, Making
    <2>4. ~WriteUnlinked(p) /\ ~Refuse(p)
      BY <2>1 DEF WriteUnlinked, Refuse, Making
    <2>. QED  BY <2>2, <2>3, <2>4
  <1>2. MakeInv /\ [Next]_vars =>
          [\A p \in Procs :
             req[p].op \in {"add", "connect"} /\ p \notin disturbed =>
               /\ Write(p) => files'[req[p].id] = Given(req[p])
               /\ Activated(p) => files[req[p].id] = Given(req[p])
               /\ ~WriteUnlinked(p) /\ ~Refuse(p)]_vars
    BY <1>1
  <1>. QED  BY <1>2, MakeInvariant, PTL DEF Spec, GivenIsWritten

\* The roll-back of `wfm connect` (connect.go:77-80) leaves the directory as it was
\* just when the network had no profile before: the one that was there is lost.
THEOREM RollbackRestoresNewCorrect == Spec => RollbackRestoresNew
  <1>1. ASSUME MakeInv, NEW p \in Procs, Delete(p), req[p].op = "connect"
        PROVE  Restrict(files', DOMAIN files' \cap Touched(req[p])) = before[p]
                 <=> DOMAIN before[p] = {}
    <2>1. req[p] \in Asked
      BY <1>1 DEF Delete, MakeInv, AskedInv
    <2>2. DOMAIN files' \cap Touched(req[p]) = {}
      BY <1>1, <2>1, OneFile, WithoutIs DEF Delete
    <2>3. before[p] \in [DOMAIN before[p] -> Content]
      BY <1>1 DEF MakeInv, PatchInv, TypeInv, TypeOK, IsDirectory
    <2>4. DOMAIN Restrict(files', {}) = {}
      BY DEF Restrict
    <2>5. DOMAIN before[p] = {} => before[p] = [x \in {} |-> files'[x]]
      BY <2>3
    <2>. QED  BY <2>2, <2>4, <2>5 DEF Restrict
  <1>2. MakeInv /\ [Next]_vars =>
          [\A p \in Procs :
             Delete(p) /\ req[p].op = "connect" =>
               (Restrict(files', DOMAIN files' \cap Touched(req[p])) = before[p]
                  <=> DOMAIN before[p] = {})]_vars
    BY <1>1
  <1>. QED  BY <1>2, MakeInvariant, PTL DEF Spec, RollbackRestoresNew
=============================================================================
