# wfm, modelled and proved

`wfm` manages Wi-Fi from one binary: `wfm serve` offers interfaces, scans, saved
profiles and connections over gRPC, on top of one of four backends
(NetworkManager over D-Bus, nmcli, iwd over D-Bus, OpenWrt over ubus); the other
commands and a terminal UI are its clients.  This directory holds TLA+ modules
of its stateful parts, the TLC runs that check them on small instances, and
proofs, checked by TLAPS, of what holds on every instance.

Paths are relative to `src/`.  `ubus/`, `iwd/`, `nmdbus/`, `nmcli/` and
`exclude.go` are under `internal/wnet/`.

## 1. Inventory

| component | state | operations | interacts with |
|---|---|---|---|
| scan service, scan cache (`internal/server/access_point.go`, `scan_cache.go`) | cache in memory, cache file | `Scan`, `Get`, `Put`, `Load`, atomic write | gRPC handlers run it concurrently; the backend scans; a restart reads the file |
| ubus session (`ubus/client.go`) | session id, its lock | `Call`, `sessionID`, `relogin`, `login` | every call of the ubus backend, from every handler; rpcd expires sessions |
| ubus stations (`ubus/profile.go`, `conn.go`, `ubus.go`) | none of its own: the router's uci configuration, staged and committed, and what netifd runs | `AddProfile`, `PatchProfile`, `DeleteProfile`, `Activate`, `Deactivate`, `Watch` | goes through the session; no lock |
| exclusion filter (`exclude.go`) | its rules | every backend operation, filtered | in front of any backend, behind the scan cache |
| NetworkManager backend (`nmdbus/`) | none: NetworkManager's | scan with retries, profiles (read, change, write back), `Activate`, `Watch` on signals | D-Bus |
| nmcli backend (`nmcli/`) | none | the same by running `nmcli`; `Watch` polls | processes |
| iwd backend (`iwd/`) | provisioning files | profiles as files, connections and `Watch` on D-Bus | D-Bus, file system |
| RPC services (`internal/server/`) | none | one backend call and a conversion each; `Watch` forwards a channel | handlers, backend |
| server process (`cmd/serve.go`) | listening socket, cache file | listen, serve, stop | signals, other servers |
| CLI (`cmd/`) | none; `connect` keeps a profile it may roll back | dial or serve in process; one RPC each | server |
| TUI (`internal/tui/`) | interfaces, list, cursor, viewport, scan and status commands under way | messages of the keyboard, timers and RPCs | RPC services |
| conversions (`*/convert.go`, `internal/wnet/id.go`) | none | pure | all |

What is hard about each, and what makes it correct:

- **Scan cache.** Requests overlap; only the map is updated under the lock, so
  the clock is read before it and the file written after it; the server is
  killed and restarted with another exclusion list.  Correct when what is served
  is a scan of that interface within its TTL, there is one entry per interface,
  and the file is behind memory only for a reason that is known.
- **ubus session.** Several goroutines have the same session refused.  Correct
  when one of them logs in, the others use its session, and nobody is stuck on
  the lock.
- **ubus stations.** Writes are sequences of calls, each of which may fail or
  lose the session with what was staged in it; several requests share the
  staging area.  Correct when an activated station does not compete with another
  on its radio, a rename never leaves neither profile saved, and a request saves
  only what is its own.
- **TUI.** Answers arrive late and in any order while the user moves on; View and
  Update each compute the layout of the window.  Correct when the cursor is
  rendered and stays on its access point, what is shown is of the selected
  interface, one scan runs at a time, and every scan shown as running ends.
- **Watch** (all backends).  A change between the reading of the state and the
  subscription; signals that are coalesced or overtake each other; a connection
  that vanishes; a client that leaves while the goroutine is blocked.  Correct when
  the client sees no state twice in a row and nothing after a terminal one, the
  stream ends when the link has settled, and the goroutine ends when the client is
  gone.
- **iwd profile files.** A file is truncated before it is written, a rename removes
  the old file before it writes the new one, and requests share the directory
  without a lock.  Correct when a patch keeps what it does not mention and a profile
  is lost by nothing but a failed write or a kill.
- **Exclusion filter.** The interface is checked before it is used; one whose name is
  empty or whose look-up fails counts as visible.  Correct when no request touches a
  hidden interface.
- **NetworkManager profiles and activation.** Read-modify-write without a version;
  the state of the previous connection may be taken for that of the new one; scans
  are tried again.  Correct when a patch merges, `Activate` returns after the profile
  was activated, and the best scan is the answer.
- **CLI connect.** The roll-back erases a profile it may not have created.

`PROJECT.json` lists every component with its status and each hazard at its
line with the properties that would catch it, or with the reason why none does: the
code runs into some of them, and the properties then name the case as an exception.

## 2. Modules

Each component has a module, `MC<module>.tla` with its configurations for TLC,
and `<module>Proofs.tla`.  Two modules are abstract specifications that another one
is shown to implement: `StatusStream` (by `Watch`) and `ScanService` (by
`ScanCache`).  Definitions named "Faulty variant" in a comment are
not part of a specification: each is an action or operator changed the way a
plausible bug would change it, kept to show that a property notices.

### ScanCache and ScanService

`Handlers` are the gRPC goroutines in `AccessPointServer.Scan`.  One request is
`Receive` (reads the clock), `Hit` or `Miss` (the locked `Get`), `ScanReturns`
or `ScanFails`, `Stamp` (reads the clock again), `Put` (the locked upsert and
marshal) and `Persist` or `PersistFails` (the unlocked file write).  Between any
two of them other handlers run, `Tick` advances the clock, or `Crash` and
`Start` restart the server, with another exclusion list and with `Load`, which
drops expired entries or finds the file unreadable.  Caches are sets of entries;
an access point list is abstracted to the interface it is of, when it was taken
and by which run of the server.  `last` and `behind` are history: whose `Put`
was last, and whether its image reached the file.

Exclusion is modelled for rules by interface name, which the filter decides
without a lookup.

`ScanService` is what the clients of the RPC may rely on, without a mutex, a cache
file or a write that may fail: a request is answered once, with its own scan of the
radio or with one some request recorded no longer than the TTL ago; with an error
only when it has no scan; and what is known may be forgotten but is never invented,
across restarts.  `ScanCache` implements it under `known <- Known` (entries in
memory, in the file and in images on their way to it), `stage <- Stage(pc)`,
`scan <- got`, `reply <- Shown` (replies without the instant kept for `ServedFresh`):
`Put` is `Record`, `Persist` and `PersistFails` are both `TellScan`, so a failed write
is not seen, and `Load` and an overtaken write only forget.

### UbusSession

`Callers` are goroutines in `Client.Call`.  `mu` is the mutex, held from
`SessionIDLogin` or `Relogin` until the login's answer (`LoginOk`, `LoginFails`,
or `LoginLost`: the router issued a session and its answer did not arrive or could not
be decoded), and taken and released within `SessionID` and `Refreshed`.
Sessions are numbered in the order the router issues them, 0 is the empty one.
The router may forget a session at any time (`Expire`) and refuses calls its ACL
forbids (`acl`).  `first`, `refused` and `lost` are history; `lost` holds the sessions
the client never learnt of.

### UbusStations

`Handlers` are requests, one goroutine each.  A configuration maps section
names to `[id, dev, on]`.  `view` is what `uci get` answers, `saved` is what is
committed, `running` what netifd read at the last reload.  `Find` is `findByID`;
`ListPeers`, `Disable`, `Enable`, `Commit`, `Reload` and `Associated` are the
calls of `Activate`; `Set`, `Add`, `Delete`, `Commit` and `CommitDelete` those
of the profile writes; a patch with another id is a rename.  `Fail` ends a
request at any call with whatever it has staged; `SessionReplaced` is what a
re-login (UbusSession) means here: the staged changes are gone and the retried
call goes on.  rpcd and netifd (`Put`, `Drop`, `Switch`, `SessionReplaced`) are
external and modelled from how the backend uses them.

Passphrases, the BSSID pin and the network of a section are abstracted, as is
the association itself: a running station may be seen associated or not.
Requests that ran while another did (`mixed`) or across a session (`expired`)
are excepted from the properties by name, since the code has no lock that would
protect them.

### Tui

The variables are the fields of `model` plus the commands under way (`scans`,
`statuses`, `ticks`, `loading`).  Each action is one message through `Update`, with
everything it does: `Tab` switches, triggers a scan and a status lookup, and so on.
`Scroll` is the arithmetic of `scroll`, `VisibleRows` that of `visibleRows`;
`ListRows`, `ShownFrom` and `Shown` are what `View` renders, computed the way
`view.go` does, from the window height: the properties of the cursor speak of the
rendered rows.  Scan results are sequences of distinct access points in any order;
`IdOf` gives the id of each, which several may share and which is empty for all that
iwd scans (docs/backends.md:81-82), and the cursor follows the first row with the id
it was on (`NewIndex`).  `connOf` and `addrOf` stand for `connAP` and `ifAddr`: which
interface the connected mark and the address are of.  Profiles and texts are left out.

### Watch and StatusStream

`Watch` runs one stream from the look-up of the connection to the end of the RPC.
The goroutine of the backend is `Lookup`, `Subscribe`, `Read`, `Send`, `Tick` (the
polling backends), `Receive` (those with signals) and `Stop`; the handler that
ranges over the channel is `Forward` and `Return`; the daemon changes the link
(`Change`), time passes (`Deadline`, ubus), the client leaves (`Cancel`).  `Links`
and `StateOf` hold what each daemon reports and what each adapter makes of it;
the order of the reading and the subscription, what a signal carries, and
which states end the goroutine are as each of the four has them.  Signals beyond the
buffer are delivered by goroutines of the D-Bus library in any order (`Rest`); one that
comes later and gets in ahead of them is, to iwd's goroutine, which does not look at the
link, the same as one that came before its last step.

`StatusStream` is the promise of `Backend.Watch` as seen by the client: `Say` a
state that differs from the last, nothing after a terminal one, `Close` when a
terminal one was said or the stream was cut.  The comment on the interface
(backend.go:206-208) names two reasons for the end of a stream, a terminal state and a
done context; a connection that is gone, a failed poll and a lost bus (`Break`) are a
third that all backends have, and `StatusStream` admits it.  The refinement is
`Stream == INSTANCE StatusStream WITH last <- client, open <- ~ended,
cut <- cancelled \/ broken`.

The history variable `missed` names the changes that cannot be seen: iwd reads the
state before it subscribes; signals overtake each other; a read fails.

### IwdProfiles

The directory of provisioning files, each named for its network and type
(`Names`), and the requests on it: `Find` (`findProfileFile`), `Refuse`, `Read`,
`RemoveOld` and `Delete` (`os.Remove`), `Open` and `Write` (the two halves of
`os.WriteFile`), `FailWrite` (a full disk).  A file removed while it is
written goes on to be written without a name (`WriteUnlinked`), and a file another
request filled meanwhile keeps its tail (`Overlay`).  `wfm connect` is a request of
its own: it adds, then `Activated`, or `RollBack` and `Delete`, or `Abandon`.
`Kill` ends the server at any step.  `Render`, `Patched` and `Truncated` say what
rendering and parsing keep of a profile.  `before`, `disturbed` and `spoiled` are
history: what the files were when the request began, whether another request ran
beside it about the same files, and whose last write failed.

Abstracted: file names are one to one with ids (a hexadecimal name that this code
would not write itself is left out); the small write that follows the truncation is
all or nothing; `Hidden` and `[IPv6]` are treated by the code as `AutoConnect` and
`[IPv4]` are.  A patch drops iwd's `PreSharedKey` and an `[IPv4]` section without an
address although backend.go:124 says that only the fields given change;
`PatchKeeps` speaks of the fields of a profile and leaves these two out by name.

### NetworkManager

The two NetworkManager adapters behind the exclusion filter.  `Resolve`, `Visible`
and `Excluded` are the filter; `Pin`, `CallUp`, `Poll`, `Activated` and `NotActive`
are `Activate`, `CallDown` is `Deactivate`; `Get`, `Secrets` and `Update` are a patch.
With nmdbus those are three calls; with nmcli they are what the process `nmcli
connection modify` does (`Get`, `Update`, and for the pin of an activation `Get`, `Pin`),
which reads the profile and writes it back like any client of NetworkManager.  `Add`,
`Delete`; `Attempt`, `AttemptFails` and `Answer` are the scan.  `Fail` ends a request at
any call.
NetworkManager itself (`Launch`, `Start`, `Succeed`, `GoDown`, `TakeDown`) and its
other clients (`OtherActivates`) are external, modelled from how the adapters use
them: an activation is accepted first (`pend`) and begun later, whatever the device
did; a profile is active on one device at a time; to withdraw an activation that
was accepted takes the device down.

History variables name what the code cannot exclude: `muddled` (the device or the
profile was in use, and nmdbus may take the connection it replaces for the new
one, although backend.go:200-201 says that `Activate` blocks until the link settles),
`stale` (the settings changed after they were read, or the secrets could not be
read), `slipped` (the look-up in the filter failed, or found no mac or pci).  `up` is
which waiting requests saw their profile activated.

A profile is open, has a passphrase (which may be empty), or is one of an enterprise
network, with secrets of its own (`eap`) that `GetSettings` leaves out and `PatchProfile`
of nmdbus does not ask for: a patch loses them, if `Update` replaces the whole
connection as nmdbus.go:431 says.  `PatchMerges` and `PatchAtomic` except them by name.

`HiddenUntouched` speaks of every step of every request.  Nothing is started on a hidden
device.  What a request can take down there is the connection of its own profile, in
four ways: it deletes the profile, activates it on a visible device, or it asked to take
it down and went `Astray`, for the connection had moved since the filter looked at its
device, or the device had no name then: nmdbus takes a read that fails for an empty
name (nmdbus.go:474-477), which is never excluded (exclude.go:175).

## 3. Runs

| run | instance | checks |
|---|---|---|
| `scan_cache` | 2 handlers, 2 interfaces, TTL 1, clock 0..2, 2 runs of the server; symmetric | `TypeOK`, `OneEntryPerInterface`, `ServedFresh`, `HiddenNotScanned`, `PersistedWhenQuiet`, `IsScanService` (the refinement of `ScanService`) |
| `scan_cache_hidden` | 1 handler, 1 interface | violation of `HiddenNeverServed` |
| `ubus_session` | 2 callers, 3 logins, fair | `TypeOK`, `OneLoginPerRefusal`, `RetryUsesAnotherSession`, `FreshSessionKept`, `CallReturns` |
| `ubus_session_empty` | 2 callers, 1 login | violation of `NoEmptySession` |
| `ubus_stations` | 2 requests, 2 profiles, 1 section written by hand, 2 radios; symmetric | `TypeOK`, `ActivateExclusive`, `RenameSavesFirst`, `QuietSaved`, `CommitsOwn` |
| `ubus_stations_expiry` | 1 request, 2 profiles, 1 radio | violation of `RenameSurvivesExpiry` |
| `tui` | 2 interfaces, 3 access points, two of one id and one without, windows of 4 and 6 lines (1 and 2 rows), margin 1, fair | `TypeOK`, `CursorVisible`, `OneScanAtATime`, `ListOfSelected`, `StatusOfSelected`, `SpinnerRuns`, `MarginKept`, `SelectionFollowed`, `ScanNotClobbered`, `ScanSettlesStaying` |
| `tui_stuck` | 2 interfaces, 1 access point, fair | violation of `ScanSettles` |
| `watch` | 4 backends, signal buffer 1, 3 signals under way, fair | `TypeOK`, `NoLostChange`, `Contract` (the refinement of `StatusStream`), `SettledEnds`, `CancelReleases` |
| `iwd_profiles` | 2 requests at once out of 4, 2 networks, 3 directories; symmetric | `TypeOK`, `CutOnlyByFailure`, `PatchKeeps`, `PatchMoves` |
| `iwd_connect_rollback` | as above, out of 3 | violation of `RollbackRestores` |
| `networkmanager` | both adapters, 2 requests at once out of 3, 2 profiles, 3 devices: visible, hidden by name, hidden by a look-up; symmetric | `TypeOK`, `ScanKeepsMost`, `ActivateSettles`, `HiddenUntouched`, `PatchMerges` |

Why the bounds are enough.  Two handlers give every overlap of two requests, and no
step of the code looks at more than one other request.  With a TTL of one tick and a
clock of two, an entry can be fresh, at its last instant, and expired; two runs give
one restart at every point of every request (`MaxTime`, `MaxRuns`).  Three logins
(`MaxLogins`) let each caller re-login once after the first one expired, and the last
one expire too.  Two radios tell apart peers from stations that must be left alone,
and the section written by hand gives a profile two sections; a request serves once,
so two requests include one that finds what another left behind.  Three access points
in one or two rows put the cursor at the ends and in the middle of a list longer than
the viewport, with a margin of one row cut off by the list's ends and by a viewport of
one row; `MaxTicks` and `MaxStatus` bound timers and lookups under way, two of each,
so that a lookup of an interface can be overtaken by a later one.  Two of the access
points share an id and the third has none, so the cursor may find its id on another
row, or have none to follow.

A stream has one goroutine, so `watch` is bounded by signals only: with a buffer of
one (`SigBuffer`, 16 in the code) and three under way (`MaxPending`), two wait
outside the buffer and can overtake each other; buffers are larger in the code
but nothing depends on their size.  Of the provisioning files, requests
interact through those they share: two at once give every interleaving of two
sequences of file operations, and a third and a fourth (`MaxAsked`) find what the
first two, or a kill, left behind; the nine requests and three directories of
`MCIwdProfiles` have a rename onto an existing file, a change of type, a blank
and a new passphrase, and a profile that iwd has connected before.  In
`networkmanager` two requests and one of another client (`MaxAsked` counts both)
give each race the history variables name, with devices for each answer of the
filter; two access points tell a list with a neighbour from one without.  Profiles are
at first absent, with either passphrase, or of an enterprise network, and the requests
have patches to a passphrase, to an empty one, to an open network and of something else.

Deadlock is checked except in the runs of UbusStations, Watch, IwdProfiles and
NetworkManager, where all requests may have been served or the stream be closed.

### What the violations show

- `scan_cache_hidden`: the cache is asked before the exclusion filter, and a
  restart loads the file: an interface excluded by the new configuration is
  served from the file for up to the TTL, where README.md:55 says there is no way
  to reach it.
- `ubus_session_empty`: `relogin` clears the session before it logs in.  When the
  login fails, a second caller takes the empty session for a refreshed one and
  retries with it (client.go:191-204).
- `ubus_stations_expiry`: staged changes belong to a session.  If it is replaced
  between `uci add` and `uci commit`, the retried commit saves nothing, and the
  rename goes on to delete the old section (profile.go:185-190), although
  client.go:231-232 calls the retry transparent.
- `tui_stuck`: after `tab` during a scan the result of the old interface is
  ignored without clearing `scanning`, and no further scan is started
  (model.go:271), although model.go:23-24 promises one.
- `iwd_connect_rollback`: the id of an iwd profile is derived from the network and
  its type, and `AddProfile` overwrites a profile that has it.  `wfm connect` to a
  saved network replaces its settings and, when the activation fails, deletes the
  profile that was there before (connect.go:80), although connect.go:77 says that it
  drops "the profile we just made".  The ubus backend derives its ids the same way.

### Fairness

- UbusSession: weak fairness of `Respond`, because `http.Client.Timeout`
  (client.go:92) ends every round trip; strong fairness of `Lock`, because
  `sync.Mutex` hands the lock to a goroutine that has waited a millisecond
  (starvation mode).  Without either a caller may wait for ever.
- Tui: weak fairness of the answers of RPCs and of the timers' messages; none of
  the keyboard.
- Watch: weak fairness of the goroutine, of the handler's `Forward` and `Return`
  (the client reads what it is sent, and gRPC ends the call of one that is gone), and
  of `Deadline`, a timer; strong fairness of `Stop`, because a `select` that finds
  `ctx.Done()` ready again and again beside other cases takes it eventually: Go
  chooses among the ready cases at random.  None of the daemon's changes and none of
  the client's leaving: `SettledEnds` assumes that the link settles, `CancelReleases`
  that the client has gone.
- ScanCache, UbusStations, IwdProfiles and NetworkManager: only safety is checked,
  without fairness.

## 4. Proofs

All proofs are for arbitrary sets and bounds, under the `ASSUME`s of each
module, which only type the constants (a bound is a natural number, `Profiles`
and `Manual` are disjoint, `Nobody` is not a caller, `Backends` are those there are,
`Stations` is finite) or say what a request and a directory are (a profile is added
whole; no stored file is truncated at first).

- **ScanCacheProofs.** `TypeCorrect`; `OneEntryCorrect`; `ServedFreshCorrect` and
  `HiddenNotScannedCorrect` from `IInv`; `PersistedWhenQuietCorrect` from `CaughtUp`;
  `WriteFailureHiddenCorrect` from `AnswerInv` (a request under way has no answer yet,
  and before its scan no result).  `ServedFresh` speaks of replies; what makes it
  inductive is that every entry, wherever it is (memory, file, an image in flight), is
  *genuine*, of its interface and recorded no earlier than it was seen, and that each
  handler's locals are what its program counter says.  `CaughtUp` follows the last
  `Put`: until its handler writes, that handler's image contains memory; afterwards
  the file does, or `behind` says why not. `IsScanServiceCorrect` is the refinement
  (`Spec => Service!Spec`): every step of the server is one step of `ScanService` or
  none, one lemma per action that maps to a step of its own (`ReceiveIsAsk`,
  `PutIsRecord`, `PersistIsTellScan`, `CrashIsKill`).  It needs `IInv`, for a scan is
  recorded no earlier than it was seen, and `Stamped`, for it is recorded no later
  than now; `Kept` and `Moved` are the facts about `Known` and `Stage` that every
  action uses.
- **UbusSessionProofs.** `TypeCorrect`, `OneLoginPerRefusalCorrect`,
  `RetryUsesAnotherSessionCorrect`, `FreshSessionKeptCorrect`, `LoginLockedCorrect`.
  The invariant says that the client holds the last session issued or, once that was
  refused or its answer lost, none; that every earlier one was refused or lost (so
  each login has its own refusal or its own lost answer to account for it); that the
  lock is held exactly across a login; and that a caller about to re-login has had its
  session refused.  `LoginLocked` is the safety half of `CallReturns`: whatever way a
  login ends, nobody is left holding the lock. `DeniedForCauseCorrect` adds
  `RefusedInv`, which follows the first refusal to the end of the call: permission
  denied means two refusals under two sessions and, for a caller that the ACL allows,
  two sessions that have ended (the second may be the empty one of
  `ubus_session_empty`).
- **UbusStationsProofs.** `TypeCorrect`; `QuietSavedCorrect` from `Staged` (what
  is staged is on its way to a commit or was left by a failure); and
  `ActivateExclusiveCorrect`, `RenameSavesFirstCorrect`, `CommitsOwnCorrect` from
  `IInv`.  `OthersOverlap` is the argument's hinge: a step of another request
  either makes this one `mixed` or is impossible, so what `Clean`, `Exclusive`
  and `Renamed` say of a request that runs alone has to be checked for its own
  steps only.  `Exclusive` follows an activation: peers on the list, then
  disabled in `view`, then in `saved`, then in `running`.
  `CommitsIntendedCorrect` says all of what a commit does where `CommitsOwn` says what it
  leaves alone: a request that ran alone under one session saves exactly what it is
  for, as if its calls were one (`Intended`, `Deleted`).  It needs `PlanInv`: the
  section found is still what it was found as (`Target`), and the staged
  configuration is the saved one with the peers off that are not on the list any more
  (`SwitchedOffMore`), then with the station on.
- **TuiProofs.** All of the run's safety properties: `TypeCorrect`,
  `CursorVisibleCorrect`, `OneScanCorrect`, `MarginKeptCorrect`,
  `SelectionFollowedCorrect`, `ListOfSelectedCorrect`, `StatusOfSelectedCorrect`,
  `SpinnerRunsCorrect`, `ScanNotClobberedCorrect`.  The arithmetic is in lemmas
  about `Scroll` (`ScrollInView`, `ScrollDownMargin`, `ScrollUpMargin`) and about the
  layout: `RowsAgree` says that `visibleRows` and `View` count the same rows in every
  window, and `NothingToCorrect` that the corrections `apTable` makes of `top` are
  never needed.  `OneScan` needs that a Scan RPC is under way only while `scanning`
  is set, `SelectionFollowed` that `NewIndex` finds the first row of an id wherever there
  is one (`Least`), and `ShownInv` that the interfaces are loaded once.
  `StuckForGoodCorrect` and `StuckByLeavingCorrect` give the extent of the finding of
  `tui_stuck`: once a scan is shown that is not under way, no message of any kind
  starts another or clears the flag; and it comes about by `ScanIgnored` alone, the
  dropped result of an interface that was left.
- **WatchProofs.** `TypeCorrect`, `NoLostChangeCorrect`, and `StreamImplemented`: the
  initial states of `Watch` map to initial states of `StatusStream`, and every step to
  a step of it or a stutter (`Spec => Stream!Spec`), for any set of backends and any
  buffer.  `Informed` says what the goroutine knows of the link (with no signal under
  way it has offered its state, or `missed` says why not), and `Closing` follows a
  status to the client: while the goroutine runs, the newest one said is not terminal,
  and once it has ended that one is terminal or the stream was cut.
- **IwdProfilesProofs.** `TypeCorrect`; `CutOnlyByFailureCorrect` from `CutInv` (what a
  request is about to write is `Whole`); `PatchKeepsCorrect` and `PatchMovesCorrect`
  from `PatchInv`: `Rivals` says that requests about the same files know that they are
  disturbed, so an undisturbed patch finds its files as it left them
  (`OthersStay`), and `Patching` says how far it has come.  `GivenIsWrittenCorrect`
  and `RollbackRestoresNewCorrect` follow from `MakeInv`, the same for an add and for
  `wfm connect`: an undisturbed one writes what it was given over whatever file was
  there, and its roll-back leaves the directory as it was exactly when there was none,
  which is the extent of the finding of `iwd_connect_rollback`.
- **NetworkManagerProofs.** `TypeCorrect` and `ScanKeepsMostCorrect` (from facts about
  the cardinality of lists); `HiddenUntouchedCorrect` from `Seen` (what is about to be
  acted on was found visible, had no name, or slipped) and `OnePlace` (a profile is on
  one device, so a connection that is taken down on a hidden one is not on the device
  that was found visible); `PatchMergesCorrect` from `ReadInv` (`Fresh`:
  what was read is what is saved, but for what nmdbus cannot read, unless the request is
  `stale`);
  `ActivateSettlesCorrect` from `SettleInv`: a request whose profile has not been seen
  activated and that is not muddled is `Alone` on its device while it waits and
  finds its profile `Away` when it asks for it; with nmcli the connection it waits
  for is still `Passing`.  `PatchAtomicCorrect` is stronger than `PatchMerges`: with the
  exceptions that names, a patch of several calls saves what one atomic change would,
  what it mentions included (`PatchedSame`).  `ActivateAnswersDeviceCorrect` from
  `PlaceInv`: a profile comes to a device by an activation only, so the connection
  found by its UUID is on the device of the request.

Only model-checked, because liveness under fairness is outside what TLAPS
proves here: `CallReturns`, `ScanSettlesStaying`, `SettledEnds`, `CancelReleases`, and
that `Watch` has the fairness of `StatusStream` (the liveness half of `Contract`).
Every safety property of a passing run is a theorem.

Ten theorems state more than the runs check: `WriteFailureHidden` (the refinement of
`ScanService` implies it), `LoginLocked`, `DeniedForCause`, `CommitsIntended`,
`StuckForGood` and `StuckByLeaving`, `GivenIsWritten` and `RollbackRestoresNew`,
`PatchAtomic` and `ActivateAnswersDevice`.  Each was checked by TLC on the instance of
its component's run before it was proved.

## 5. Not modelled

- The generated gRPC messages and stubs (`internal/wifi/*.pb.go`), which are more than
  half of the repository's Go lines and have no logic of this program.
- Text processing, conversions and most of the view: pure functions of one message
  (`convert.go`, the parsing of `nmcli` output, the tables of the CLI, colours and
  columns of `view.go`).
- Reads without state: lists of interfaces, profiles and connections, `Status`, the
  addresses of an interface, `SetPower` (one call behind the same check as `Scan`).
- The RPC services beyond `Scan` and `Watch`: each is a conversion, one backend call
  and a conversion.
- Sockets, signals and graceful stop of the server, and the server inside a CLI
  process: calls of the operating system and of the gRPC library in one thread.
- Configuration files and telemetry: read once at start-up, or a library's.
- A wall clock that is set back while entries are in the cache file: the clock
  of ScanCache only advances.
- Two servers that share a cache file.
- Requests that are refused before anything is read, such as a `Scan` that names no
  interface (access_point.go:57-60).
- Patches of fields that both adapters treat as they do `autoconnect` (name, SSID, hidden,
  IPv4, IPv6).
- A call of the ubus backend that is under way under a session which an ACL refusal of
  another caller has replaced while it was still valid: `UbusStations` knows one session
  at a time.

## 6. Plan

1. Composition of UbusStations with UbusSession, where `SessionReplaced` becomes a
   consequence of `Relogin`.  It takes a staging area for each session: a session that
   was replaced may still be valid, and a commit under it saves what is staged there.
2. Two servers over one cache file, and a clock that is set back.
3. Saved profiles in Tui, and which of two lookups of one interface is the younger.

Runs are kept to one per question: a component has one run for all its
properties and, where the code and its documentation disagree, one that shows it.
