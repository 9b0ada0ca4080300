----------------------------- MODULE IwdProfiles ------------------------------
(***************************************************************************)
(* The saved profiles of the iwd backend (internal/wnet/iwd): one          *)
(* provisioning file per network and type of security, which requests of   *)
(* the server find, read, remove and write in place without a lock, and    *)
(* `wfm connect` (cmd/connect.go), which adds a profile, activates it and  *)
(* erases it again when the activation fails.                              *)
(*                                                                         *)
(* A file is named for its network and type, so the derived id of a        *)
(* profile stands for its name.  Of its content are kept the passphrase,   *)
(* whether there is a PreSharedKey beside it, AutoConnect and the [IPv4]   *)
(* section.  A write of so few bytes happens as a whole or not at all; the *)
(* truncation that comes before it is a step of its own.                   *)
(***************************************************************************)
EXTENDS Naturals, Functions

CONSTANTS
  Ssids,    \* networks
  Passes,   \* passphrases
  Procs,    \* requests that may be under way at once
  Asked,    \* bound: the requests that are made
  MaxAsked, \* bound: how many
  Stored    \* what may be in the directory at first

Kinds == {"open", "psk", "8021x"}

Names == Ssids \X Kinds

Keep == "keep"       \* a patch does not mention the field
NoPass == "nopass"   \* no passphrase, or a blank one

Content ==
  [pass : Passes \cup {NoPass}, key : BOOLEAN, auto : {"yes", "no"},
   ip : {"none", "bare", "address"},  \* bare: a section without an Address
   cut : BOOLEAN]                     \* truncated, and not written since

Requests ==
  [op : {"add", "patch", "delete", "connect"}, id : Names,
   ssid : Ssids \cup {Keep}, kind : Kinds \cup {Keep},
   pass : Passes \cup {NoPass}, auto : {"yes", "no", Keep},
   ip : {"none", "address", Keep}]

NoRequest == [op |-> "none"]

IsDirectory(d) ==
  /\ d \in [DOMAIN d -> Content]
  /\ DOMAIN d \subseteq Names

ASSUME PassesAssumption == NoPass \notin Passes
ASSUME KeepAssumption == Keep \notin Ssids
\* A profile that is added is given whole.
ASSUME AskedAssumption ==
  /\ Asked \subseteq Requests
  /\ \A q \in Asked : q.op \in {"add", "connect"} =>
       q.id = <<q.ssid, q.kind>> /\ q.auto # Keep /\ q.ip # Keep
ASSUME MaxAskedAssumption == MaxAsked \in Nat
ASSUME StoredAssumption ==
  \A d \in Stored : IsDirectory(d) /\ \A n \in DOMAIN d : ~d[n].cut

VARIABLES
  files,      \* the directory: a function from the names that are there
  req,        \* the request a goroutine serves
  pc,         \* where it is
  text,       \* what it is about to write
  asked,      \* how many requests were made
  before,     \* history: what its files were when the request began
  disturbed,  \* history: the requests that ran beside one about the same files
  spoiled     \* history: the files whose last write did not get to its end

vars == <<files, req, pc, text, asked, before, disturbed, spoiled>>

-----------------------------------------------------------------------------
(* Rendering and parsing. *)

\* What parseProfile makes of a file of zero bytes.
Truncated ==
  [pass |-> NoPass, key |-> FALSE, auto |-> "yes", ip |-> "none", cut |-> TRUE]

\* renderProfile: only a psk profile has a passphrase, nothing has a
\* PreSharedKey, and an [IPv4] section needs an address.
Render(kind, pass, auto, ip) ==
  [pass |-> IF kind = "psk" THEN pass ELSE NoPass,
   key  |-> FALSE,
   auto |-> auto,
   ip   |-> IF ip = "address" THEN "address" ELSE "none",
   cut  |-> FALSE]

Or(field, current) == IF field = Keep THEN current ELSE field

\* The profile a request writes: its own, or that which the patch makes of it.
NewName(q) == <<Or(q.ssid, q.id[1]), Or(q.kind, q.id[2])>>

\* Faulty variant: a blank passphrase is taken for a new one.
PatchedBlank(q, c) ==
  Render(NewName(q)[2], IF q.kind = Keep THEN c.pass ELSE q.pass,
         Or(q.auto, c.auto), Or(q.ip, c.ip))

\* Faulty variant: AutoConnect is taken from the patch, mentioned or not.
PatchedRaw(q, c) ==
  LET kept == q.kind = Keep \/ (q.pass = NoPass /\ q.kind = q.id[2])
  IN  Render(NewName(q)[2], IF kept THEN c.pass ELSE q.pass, q.auto, Or(q.ip, c.ip))

\* PatchProfile: the passphrase is kept unless the patch changes the kind of
\* security or gives one.
Patched(q, c) ==
  LET kept == q.kind = Keep \/ (q.pass = NoPass /\ q.kind = q.id[2])
  IN  Render(NewName(q)[2], IF kept THEN c.pass ELSE q.pass,
             Or(q.auto, c.auto), Or(q.ip, c.ip))

\* A write at the start of a file another one has filled meanwhile: the tail of
\* what was there may stay behind it.
Overlay(new, old) ==
  IF old.cut THEN {new}
  ELSE {[new EXCEPT !.auto = a, !.ip = i] :
          a \in {new.auto, old.auto}, i \in {new.ip, old.ip}}

-----------------------------------------------------------------------------
Without(n) == Restrict(files, DOMAIN files \ {n})

With(n, c) == [m \in DOMAIN files \cup {n} |-> IF m = n THEN c ELSE files[m]]

\* The files a request is about.
Touched(q) == {q.id, NewName(q)}

TypeOK ==
  /\ IsDirectory(files)
  /\ req \in [Procs -> Requests \cup {NoRequest}]
  /\ pc \in [Procs -> {"done", "find", "read", "remove", "open", "write",
                       "unlinked", "activate"}]
  /\ \A p \in Procs : pc[p] # "done" => req[p] \in Requests
  /\ text \in [Procs -> Content]
  /\ DOMAIN before = Procs /\ \A p \in Procs : IsDirectory(before[p])
  /\ disturbed \subseteq Procs
  /\ spoiled \subseteq Names
  /\ asked \in 0 .. MaxAsked

Init ==
  /\ files \in Stored
  /\ req = [p \in Procs |-> NoRequest]
  /\ pc = [p \in Procs |-> "done"]
  /\ text = [p \in Procs |-> Truncated]
  /\ before = [p \in Procs |-> <<>>]
  /\ disturbed = {}
  /\ spoiled = {}
  /\ asked = 0

Goto(p, from, to) == pc[p] = from /\ pc' = [pc EXCEPT ![p] = to]

\* The answer, or the error, is on its way; the goroutine holds nothing.
Finish(p) ==
  /\ pc' = [pc EXCEPT ![p] = "done"]
  /\ req' = [req EXCEPT ![p] = NoRequest]
  /\ text' = [text EXCEPT ![p] = Truncated]
  /\ before' = [before EXCEPT ![p] = <<>>]
  /\ disturbed' = disturbed \ {p}
  /\ UNCHANGED asked

Stay == UNCHANGED <<req, text, asked, before, disturbed>>

-----------------------------------------------------------------------------
(* The requests. *)

\* AddProfile, PatchProfile and DeleteProfile are called.  An enterprise profile
\* is refused before anything is done.
Begin(p, q) ==
  LET rivals == {s \in Procs \ {p} :
                   pc[s] # "done" /\ Touched(req[s]) \cap Touched(q) # {}}
      writes == q.op \in {"add", "connect"}
  IN  /\ asked < MaxAsked /\ asked' = asked + 1
      /\ writes => q.kind # "8021x"
      /\ Goto(p, "done", IF writes THEN "open" ELSE "find")
      /\ req' = [req EXCEPT ![p] = q]
      /\ text' = [text EXCEPT ![p] =
           IF writes THEN Render(q.kind, q.pass, q.auto, q.ip) ELSE @]
      /\ before' = [before EXCEPT ![p] = Restrict(files, DOMAIN files \cap Touched(q))]
      /\ disturbed' = disturbed \cup rivals \cup (IF rivals = {} THEN {} ELSE {p})
      /\ UNCHANGED <<files, spoiled>>

\* findProfileFile.
Find(p) ==
  /\ Goto(p, "find", IF req[p].op = "patch" THEN "read" ELSE "remove")
  /\ req[p].id \in DOMAIN files
  /\ UNCHANGED <<files, spoiled>> /\ Stay

\* The file is not there, or no longer there when it is read or removed, or the
\* patch would make an enterprise profile of it.
Refuse(p) ==
  /\ \/ pc[p] \in {"find", "read"} /\ req[p].id \notin DOMAIN files
     \/ pc[p] = "remove" /\ req[p].op # "patch" /\ req[p].id \notin DOMAIN files
     \/ pc[p] = "read" /\ NewName(req[p])[2] = "8021x"
  /\ Finish(p)
  /\ UNCHANGED <<files, spoiled>>

\* Faulty variant: a rename forgets the file it comes from.
ReadNoMove(p) ==
  /\ Goto(p, "read", "open")
  /\ req[p].id \in DOMAIN files
  /\ NewName(req[p])[2] # "8021x"
  /\ text' = [text EXCEPT ![p] = Patched(req[p], files[req[p].id])]
  /\ UNCHANGED <<files, req, asked, before, disturbed, spoiled>>

\* PatchProfile reads the file and knows what to write, and where.
Read(p) ==
  /\ Goto(p, "read", IF NewName(req[p]) = req[p].id THEN "open" ELSE "remove")
  /\ req[p].id \in DOMAIN files
  /\ NewName(req[p])[2] # "8021x"
  /\ text' = [text EXCEPT ![p] = Patched(req[p], files[req[p].id])]
  /\ UNCHANGED <<files, req, asked, before, disturbed, spoiled>>

\* Those who are writing the file go on writing one that has no name any more.
Unlink(p, to) ==
  pc' = [s \in Procs |->
           IF s = p THEN to
           ELSE IF pc[s] = "write" /\ NewName(req[s]) = req[p].id THEN "unlinked"
           ELSE pc[s]]

\* os.Remove of DeleteProfile.
Delete(p) ==
  /\ pc[p] = "remove" /\ req[p].op # "patch"
  /\ req[p].id \in DOMAIN files
  /\ files' = Without(req[p].id)
  /\ Unlink(p, "done")
  /\ req' = [req EXCEPT ![p] = NoRequest]
  /\ text' = [text EXCEPT ![p] = Truncated]
  /\ before' = [before EXCEPT ![p] = <<>>]
  /\ disturbed' = disturbed \ {p}
  /\ spoiled' = spoiled \ {req[p].id}
  /\ UNCHANGED asked

\* os.Remove of a rename, whose error is of no matter.
RemoveOld(p) ==
  /\ pc[p] = "remove" /\ req[p].op = "patch"
  /\ files' = Without(req[p].id)
  /\ IF req[p].id \in DOMAIN files THEN Unlink(p, "open")
                                   ELSE pc' = [pc EXCEPT ![p] = "open"]
  /\ spoiled' = spoiled \ {req[p].id}
  /\ Stay

\* os.WriteFile: the file is opened, which creates or truncates it.
Open(p) ==
  /\ Goto(p, "open", "write")
  /\ files' = With(NewName(req[p]), Truncated)
  /\ UNCHANGED spoiled
  /\ Stay

\* What comes after AddProfile: `wfm connect` activates the profile.
Written(p) ==
  IF req[p].op = "connect" THEN pc' = [pc EXCEPT ![p] = "activate"] /\ Stay
  ELSE Finish(p)

\* Faulty variant: a patch that changes nothing is not written.
WriteChanged(p) ==
  /\ pc[p] = "write"
  /\ LET n == NewName(req[p])
     IN  IF n \in DOMAIN before[p] /\ before[p][n] = text[p] THEN UNCHANGED files
         ELSE \E c \in Overlay(text[p], files[n]) : files' = With(n, c)
  /\ spoiled' = spoiled \ {NewName(req[p])}
  /\ Written(p)

\* ... and written.
Write(p) ==
  /\ pc[p] = "write"
  /\ \E c \in Overlay(text[p], files[NewName(req[p])]) :
       files' = With(NewName(req[p]), c)
  /\ spoiled' = spoiled \ {NewName(req[p])}
  /\ Written(p)

WriteUnlinked(p) ==
  /\ pc[p] = "unlinked"
  /\ Written(p)
  /\ UNCHANGED <<files, spoiled>>

\* The disk is full: the file cannot be opened, or stays as short as it is.
FailWrite(p) ==
  /\ pc[p] \in {"open", "write", "unlinked"}
  /\ spoiled' = spoiled \cup (IF pc[p] = "write" THEN {NewName(req[p])} ELSE {})
  /\ Finish(p)
  /\ UNCHANGED files

\* Activate of iwd finds and reads the profile again; iwd, which derives the
\* PreSharedKey, stores it with the profile once it is connected.
Activated(p) ==
  /\ pc[p] = "activate"
  /\ req[p].id \in DOMAIN files /\ ~files[req[p].id].cut
  /\ files' = With(req[p].id, [files[req[p].id] EXCEPT !.key = req[p].kind = "psk"])
  /\ Finish(p)
  /\ UNCHANGED spoiled

\* `wfm connect` was told that it failed, and erases the profile.
RollBack(p) ==
  /\ Goto(p, "activate", "find")
  /\ UNCHANGED <<files, spoiled>> /\ Stay

\* The process of `wfm connect` is killed, or cannot reach the server any more.
Abandon(p) ==
  /\ pc[p] = "activate"
  /\ Finish(p)
  /\ UNCHANGED <<files, spoiled>>

\* The server is killed.
Kill ==
  /\ \E p \in Procs : pc[p] # "done"
  /\ pc' = [p \in Procs |-> "done"]
  /\ req' = [p \in Procs |-> NoRequest]
  /\ text' = [p \in Procs |-> Truncated]
  /\ before' = [p \in Procs |-> <<>>]
  /\ disturbed' = {}
  /\ spoiled' = spoiled \cup {NewName(req[p]) : p \in {s \in Procs : pc[s] = "write"}}
  /\ UNCHANGED <<files, asked>>

Step(p) ==
  \/ \E q \in Asked : Begin(p, q)
  \/ Find(p) \/ Refuse(p) \/ Read(p) \/ Delete(p) \/ RemoveOld(p) \/ Open(p)
  \/ Write(p) \/ WriteUnlinked(p) \/ FailWrite(p)
  \/ Activated(p) \/ RollBack(p) \/ Abandon(p)

Next == (\E p \in Procs : Step(p)) \/ Kill

Spec == Init /\ [][Next]_vars

-----------------------------------------------------------------------------
(* Properties. *)

\* A file is cut only while a request writes it, or when the last to write it
\* failed or was killed: removals and other writers leave no cut file behind.
CutOnlyByFailure ==
  \A n \in DOMAIN files :
    files[n].cut =>
      n \in spoiled \/ \E p \in Procs : pc[p] = "write" /\ NewName(req[p]) = n

\* A patch that no other request about the same files disturbed, and that was
\* written, keeps what it does not mention: the passphrase unless it changes the
\* kind of security, AutoConnect, and an [IPv4] section with an address.
PatchKeeps ==
  [][\A p \in Procs :
       Write(p) /\ req[p].op = "patch" /\ p \notin disturbed =>
         LET q   == req[p]
             old == before[p][q.id]
             new == files'[NewName(q)]
         IN  /\ NewName(q)[2] = "psk" /\ q.id[2] = "psk" /\ q.pass = NoPass
                  => new.pass = old.pass
             /\ q.auto = Keep => new.auto = old.auto
             /\ q.ip = Keep /\ old.ip # "bare" => new.ip = old.ip]_vars

\* Whatever else it does, an undisturbed patch ends with one of its two files in
\* the place of the old one: the new one when it was written, the old one as it
\* was when it was refused.  Only a failing write leaves neither.
PatchMoves ==
  [][\A p \in Procs :
       req[p].op = "patch" /\ p \notin disturbed =>
         /\ Write(p) => DOMAIN files' \cap Touched(req[p]) = {NewName(req[p])}
         /\ Refuse(p) => Restrict(files', DOMAIN files' \cap Touched(req[p])) = before[p]]_vars

\* "drop the profile we just made" (cmd/connect.go:77): after a `wfm connect` that
\* nothing disturbed and that was rolled back, the profiles are what they were.
RollbackRestores ==
  [][\A p \in Procs :
       Delete(p) /\ req[p].op = "connect" /\ p \notin disturbed =>
         Restrict(files', DOMAIN files' \cap Touched(req[p])) = before[p]]_vars

\* That holds just when there was no profile of the network before.
RollbackRestoresNew ==
  [][\A p \in Procs :
       Delete(p) /\ req[p].op = "connect" =>
         (Restrict(files', DOMAIN files' \cap Touched(req[p])) = before[p]
            <=> DOMAIN before[p] = {})]_vars

\* The profile an add, or a `wfm connect`, was given.
Given(q) == Render(q.kind, q.pass, q.auto, q.ip)

\* Undisturbed, it is written as it was given, with nothing of what the file held
\* before (AddProfile); iwd finds it so when it is activated; and a roll-back finds
\* the file it is to erase.
GivenIsWritten ==
  [][\A p \in Procs :
       req[p].op \in {"add", "connect"} /\ p \notin disturbed =>
         /\ Write(p) => files'[req[p].id] = Given(req[p])
         /\ Activated(p) => files[req[p].id] = Given(req[p])
         /\ ~WriteUnlinked(p) /\ ~Refuse(p)]_vars
=============================================================================
