------------------------------- MODULE ScanCache -------------------------------
(***************************************************************************)
(* The scan path of one `wfm serve` process: AccessPointServer.Scan in     *)
(* front of the wifi backend, the ScanCache all of its RPCs share, and the *)
(* cache file a restarted server reads.                                    *)
(*                                                                         *)
(* The cache mutex is held for the body of Get and Put only.  The radio    *)
(* scan, the reading of the clock that stamps its result and the writing   *)
(* of the cache file happen outside of it, so each is a step of its own.   *)
(* The server may be killed between any two steps and started again with   *)
(* another exclusion list.  Caches are sets of entries; what a scan saw is *)
(* abstracted to the interface and the instant it was taken of, and the    *)
(* run of the server that took it.                                         *)
(***************************************************************************)
EXTENDS Naturals, FiniteSets

CONSTANTS
  Handlers,    \* RPC goroutines serving Scan
  Interfaces,  \* interface ids a client may ask for
  TTL,         \* ScanCache.ttl, in ticks; 0 or less means no cache (cmd/serve.go)
  MaxTime,     \* bound on the clock
  MaxRuns      \* bound on the number of times the server is started

ASSUME TTLAssumption == TTL \in Nat
ASSUME BoundAssumption == MaxTime \in Nat /\ MaxRuns \in Nat \ {0}

VARIABLES
  now,      \* wall clock, in ticks
  up,       \* is the server process running
  run,      \* how many times it was started
  hidden,   \* interfaces the exclusion list of this run hides
  mem,      \* ScanCache.data
  disk,     \* content of the cache file; {} stands for a missing file too
  last,     \* history: the handler whose Put was the last of this run
  behind,   \* history: the file may lack that Put: its write failed, or an older
            \* image was renamed over it
  pc,       \* where a handler is in Scan
  iface,    \* req.interface.id
  asked,    \* the time.Now() passed to Get
  got,      \* what Backend.Scan returned, {} before
  at,       \* the time.Now() passed to Put
  blob,     \* the cache as Put marshalled it
  reply     \* the last response of the handler, {} while it has none

vars == <<now, up, run, hidden, mem, disk, last, behind,
          pc, iface, asked, got, at, blob, reply>>

callVars   == <<iface, asked, got, at, blob, reply>>
serverVars == <<now, up, run, hidden>>

Time == 0..MaxTime
Runs == 0..MaxRuns

Result == [of : Interfaces, seen : Time, run : Runs]
Entry  == [iface : Interfaces, at : Time, aps : Result]
Reply  == [kind : {"cached", "scanned", "error"}, aps : SUBSET Result, at : Time]

TypeOK ==
  /\ now \in Time
  /\ up \in BOOLEAN
  /\ run \in Runs
  /\ up \/ run < MaxRuns
  /\ hidden \in SUBSET Interfaces
  /\ mem \in SUBSET Entry
  /\ disk \in SUBSET Entry
  /\ last \in SUBSET Handlers
  /\ behind \in BOOLEAN
  /\ pc \in [Handlers -> {"idle", "get", "scan", "stamp", "put", "persist"}]
  /\ iface \in [Handlers -> Interfaces]
  /\ asked \in [Handlers -> Time]
  /\ got \in [Handlers -> SUBSET Result]
  /\ at \in [Handlers -> Time]
  /\ blob \in [Handlers -> SUBSET Entry]
  /\ reply \in [Handlers -> SUBSET Reply]

-----------------------------------------------------------------------------
(* The cache itself. *)

\* Faulty variants: an entry outlives its TTL by a tick; no entry is replaced.
StaleServed(e, t) == t <= e.at + TTL + 1
AppendScan(c, e) == c \cup {e}

Fresh(e, t) == t <= e.at + TTL

FindScan(c, i) == {e \in c : e.iface = i}

PutScan(c, e) == {x \in c : x.iface # e.iface} \cup {e}

-----------------------------------------------------------------------------
Init ==
  /\ now = 0
  /\ up = TRUE
  /\ run = 1
  /\ hidden \in SUBSET Interfaces
  /\ mem = {}
  /\ disk = {}
  /\ last = {}
  /\ behind = FALSE
  /\ pc = [h \in Handlers |-> "idle"]
  /\ iface \in [Handlers -> Interfaces]
  /\ asked = [h \in Handlers |-> 0]
  /\ got = [h \in Handlers |-> {}]
  /\ at = [h \in Handlers |-> 0]
  /\ blob = [h \in Handlers |-> {}]
  /\ reply = [h \in Handlers |-> {}]

Goto(h, from, to) ==
  /\ up
  /\ pc[h] = from
  /\ pc' = [pc EXCEPT ![h] = to]

Answer(h, kind, aps, t) ==
  reply' = [reply EXCEPT ![h] = {[kind |-> kind, aps |-> aps, at |-> t]}]

\* The locals of Put end with it.
Forget(h) ==
  /\ at' = [at EXCEPT ![h] = 0]
  /\ blob' = [blob EXCEPT ![h] = {}]

\* Faulty variant: the time the TTL ends is taken for the time of the request.
ReceiveDeadline(h, i) ==
  /\ Goto(h, "idle", "get")
  /\ iface' = [iface EXCEPT ![h] = i]
  /\ asked' = [asked EXCEPT ![h] = now + TTL]
  /\ got' = [got EXCEPT ![h] = {}]
  /\ reply' = [reply EXCEPT ![h] = {}]
  /\ UNCHANGED <<serverVars, mem, disk, last, behind, at, blob>>

\* A request that names an interface arrives (one that names none is refused before
\* anything is read); time.Now() is evaluated before Get takes the lock.
Receive(h, i) ==
  /\ Goto(h, "idle", "get")
  /\ iface' = [iface EXCEPT ![h] = i]
  /\ asked' = [asked EXCEPT ![h] = now]
  /\ got' = [got EXCEPT ![h] = {}]
  /\ reply' = [reply EXCEPT ![h] = {}]
  /\ UNCHANGED <<serverVars, mem, disk, last, behind, at, blob>>

\* Get finds a fresh entry: the response is the cached one, the backend (and the
\* exclusion filter around it) is not consulted.
Hit(h) ==
  /\ Goto(h, "get", "idle")
  /\ \E e \in FindScan(mem, iface[h]) :
       /\ Fresh(e, asked[h])
       /\ Answer(h, "cached", {e.aps}, e.at)
  /\ UNCHANGED <<serverVars, mem, disk, last, behind, iface, asked, got, at, blob>>

\* (the now of Get ends with it)
Miss(h) ==
  /\ Goto(h, "get", "scan")
  /\ ~ \E e \in FindScan(mem, iface[h]) : Fresh(e, asked[h])
  /\ asked' = [asked EXCEPT ![h] = 0]
  /\ UNCHANGED <<serverVars, mem, disk, last, behind, iface, got, at, blob, reply>>

\* Faulty variant: a backend that is not wrapped by the exclusion filter.
ScanUnfiltered(h) ==
  /\ Goto(h, "scan", "stamp")
  /\ got' = [got EXCEPT ![h] = {[of |-> iface[h], seen |-> now, run |-> run]}]
  /\ UNCHANGED <<serverVars, mem, disk, last, behind, iface, asked, at, blob, reply>>

\* Backend.Scan returns what the radio sees now.  hidden holds the interfaces that
\* a rule hides by name, which filteredBackend.Scan decides without asking anyone.
ScanReturns(h) ==
  /\ Goto(h, "scan", "stamp")
  /\ iface[h] \notin hidden
  /\ got' = [got EXCEPT ![h] = {[of |-> iface[h], seen |-> now, run |-> run]}]
  /\ UNCHANGED <<serverVars, mem, disk, last, behind, iface, asked, at, blob, reply>>

\* Backend.Scan fails: the radio is busy or gone, or the interface is excluded.
ScanFails(h) ==
  /\ Goto(h, "scan", "idle")
  /\ Answer(h, "error", {}, 0)
  /\ UNCHANGED <<serverVars, mem, disk, last, behind, iface, asked, got, at, blob>>

\* time.Now() is evaluated before Put takes the lock.
Stamp(h) ==
  /\ Goto(h, "stamp", "put")
  /\ at' = [at EXCEPT ![h] = now]
  /\ UNCHANGED <<serverVars, mem, disk, last, behind, iface, asked, got, blob, reply>>

\* Faulty variant: the cache is marshalled before the entry is in it.
PutStaleBlob(h) ==
  /\ Goto(h, "put", "persist")
  /\ \E aps \in got[h] :
       mem' = PutScan(mem, [iface |-> iface[h], at |-> at[h], aps |-> aps])
  /\ blob' = [blob EXCEPT ![h] = mem]
  /\ last' = {h}
  /\ UNCHANGED <<serverVars, disk, behind, iface, asked, got, at, reply>>

\* The locked part of Put: upsert and marshal.
Put(h) ==
  /\ Goto(h, "put", "persist")
  /\ \E aps \in got[h] :
       mem' = PutScan(mem, [iface |-> iface[h], at |-> at[h], aps |-> aps])
  /\ blob' = [blob EXCEPT ![h] = mem']
  /\ last' = {h}
  /\ UNCHANGED <<serverVars, disk, behind, iface, asked, got, at, reply>>

\* The unlocked part of Put: writeFileAtomic renames the new file into place.
Persist(h) ==
  /\ Goto(h, "persist", "idle")
  /\ disk' = blob[h]
  /\ behind' = (h \notin last)
  /\ Answer(h, "scanned", got[h], at[h])
  /\ Forget(h)
  /\ UNCHANGED <<serverVars, mem, last, iface, asked, got>>

\* Faulty variant: the handler reports the write error.
ReportWriteError(h) ==
  /\ Goto(h, "persist", "idle")
  /\ behind' = (behind \/ h \in last)
  /\ Answer(h, "error", {}, at[h])
  /\ Forget(h)
  /\ UNCHANGED <<serverVars, mem, disk, last, iface, asked, got>>

\* ... or one of its steps fails: the temporary file is removed and the error of
\* Put dropped.
PersistFails(h) ==
  /\ Goto(h, "persist", "idle")
  /\ behind' = (behind \/ h \in last)
  /\ Answer(h, "scanned", got[h], at[h])
  /\ Forget(h)
  /\ UNCHANGED <<serverVars, mem, disk, last, iface, asked, got>>

Tick ==
  /\ now < MaxTime
  /\ now' = now + 1
  /\ UNCHANGED <<up, run, hidden, mem, disk, last, behind, pc, callVars>>

\* The process is killed, with whatever its goroutines were doing.
Crash ==
  /\ up
  /\ run < MaxRuns
  /\ up' = FALSE
  /\ mem' = {}
  /\ last' = {}
  /\ behind' = FALSE
  /\ pc' = [h \in Handlers |-> "idle"]
  /\ asked' = [h \in Handlers |-> 0]
  /\ got' = [h \in Handlers |-> {}]
  /\ at' = [h \in Handlers |-> 0]
  /\ blob' = [h \in Handlers |-> {}]
  /\ reply' = [h \in Handlers |-> {}]
  /\ UNCHANGED <<now, run, hidden, disk, iface>>

\* What Load puts into memory, or nothing when the file cannot be read.
Load(file, t) == {{}, {e \in file : Fresh(e, t)}}

\* `wfm serve` again, possibly with another exclusion list in its config.
Start(H) ==
  /\ ~up
  /\ up' = TRUE
  /\ run' = run + 1
  /\ hidden' = H
  /\ mem' \in Load(disk, now)
  /\ UNCHANGED <<now, disk, last, behind, pc, callVars>>

Handle(h) ==
  \/ Hit(h)
  \/ Miss(h)
  \/ ScanReturns(h)
  \/ ScanFails(h)
  \/ Stamp(h)
  \/ Put(h)
  \/ Persist(h)
  \/ PersistFails(h)

Next ==
  \/ \E h \in Handlers, i \in Interfaces : Receive(h, i)
  \/ \E h \in Handlers : Handle(h)
  \/ Tick
  \/ Crash
  \/ \E H \in SUBSET Interfaces : Start(H)

Spec == Init /\ [][Next]_vars

-----------------------------------------------------------------------------
(* Properties *)

\* At most one entry per interface in memory, in every file image and on disk
\* (putScan, "at most one entry per interface"): Get takes the first it meets, so
\* a second one would be served by accident.
OneEntry(c) == \A d, e \in c : d.iface = e.iface => d = e
OneEntryPerInterface ==
  /\ OneEntry(mem)
  /\ OneEntry(disk)
  /\ \A h \in Handlers : OneEntry(blob[h])

\* Whatever a client is shown for an interface is a scan of that interface, taken
\* no later than it was recorded and, when it comes out of the cache, recorded
\* within the TTL of the request; across restarts, failed and overtaken writes.
ServedFresh ==
  \A h \in Handlers : \A r \in reply[h] : \A a \in r.aps :
    /\ a.of = iface[h]
    /\ a.seen <= r.at
    /\ r.kind = "cached" => asked[h] <= r.at + TTL

\* An excluded interface is never scanned by the run that excludes it: access
\* points of one are served only when an earlier run left them in the cache file
\* (exclude.go's filteredBackend.Scan sits behind the cache).
HiddenNotScanned ==
  \A h \in Handlers : iface[h] \in hidden =>
    \A r \in reply[h] : \A a \in r.aps : r.kind = "cached" /\ a.run < run

\* A failure to write the cache file is not shown to a client whose scan worked
\* ("a cache write failure must not fail an otherwise good scan").
WriteFailureHidden ==
  \A h \in Handlers : \A r \in reply[h] : r.kind = "error" => got[h] = {}

\* Once no request is in flight, the file holds all of what memory holds, so a
\* restarted server keeps warm results, unless the image of the last Put was not
\* written or another Put, overtaken between its unlock and its rename, put an
\* older image over it: nothing else leaves the file behind.
Quiet == up /\ \A h \in Handlers : pc[h] = "idle"
PersistedWhenQuiet == Quiet /\ ~behind => mem \subseteq disk

\* What the service knows is what the server holds in memory, in the file and in
\* images on their way to it; how far a request is, is where its handler is.
Known == mem \cup disk \cup UNION {blob[h] : h \in Handlers}

Stage(p) ==
  CASE p = "idle" -> "free"
    [] p = "get" -> "asked"
    [] p = "scan" -> "scanning"
    [] p \in {"stamp", "put"} -> "scanned"
    [] p = "persist" -> "recorded"

Shown(h) == {[kind |-> r.kind, aps |-> r.aps] : r \in reply[h]}

Service ==
  INSTANCE ScanService
  WITH known <- Known, stage <- [h \in Handlers |-> Stage(pc[h])], scan <- got,
       reply <- [h \in Handlers |-> Shown(h)]

\* Whatever overlaps, overtakes, fails or is restarted, the server is a ScanService:
\* each request is answered once, with the one scan it took or with one that a
\* request recorded, never with an error once it has a scan ("a cache write failure
\* must not fail an otherwise good scan"), and no entry comes from nowhere.
IsScanService == Service!Spec

-----------------------------------------------------------------------------
(* What the documentation promises and a restart breaks. *)

\* README.md:55 "there is no way to reach an excluded interface through wfm".
HiddenNeverServed ==
  \A h \in Handlers : iface[h] \in hidden => \A r \in reply[h] : r.kind = "error"
=============================================================================
