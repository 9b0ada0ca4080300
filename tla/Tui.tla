---------------------------------- MODULE Tui ----------------------------------
(***************************************************************************)
(* The state of the terminal UI (internal/tui/model.go) between two calls  *)
(* of Update.  Update runs alone, one message after another; the RPCs and  *)
(* timers it starts run beside it and their messages come back in any      *)
(* order, long after the user has moved on to another interface.           *)
(*                                                                         *)
(* A scan result is a sequence of access points in the order the sort by   *)
(* signal leaves them in, which is any order as signals change from scan   *)
(* to scan.  An access point has the id its backend reports: none at all   *)
(* with iwd, and possibly the id of another one.  An address and the       *)
(* connected mark are abstracted to the interface they are of.  Saved      *)
(* profiles and the texts of errors are left out: nothing else depends on  *)
(* them.                                                                   *)
(***************************************************************************)
EXTENDS Integers, Sequences

CONSTANTS
  IfaceList,  \* interfaces as the server lists them
  APs,        \* access points, as backends report them
  IdOf,       \* AccessPoint.id of each
  Heights,    \* heights the window may be resized to
  MaxAPs,     \* bound on the length of a scan result
  ScrollOff,  \* scrollOff: rows of context kept ahead of the cursor
  MaxTicks,   \* bound on the spinner timers under way
  MaxStatus   \* bound on the status lookups under way for one interface

Ifaces == {IfaceList[k] : k \in DOMAIN IfaceList}

NoId == ""    \* the id of an access point whose backend knows no BSSID

ASSUME IdAssumption == DOMAIN IdOf = APs
ASSUME IfaceAssumption == IfaceList \in Seq(Ifaces)
ASSUME HeightsAssumption == Heights \subseteq Nat
ASSUME ScrollOffAssumption == ScrollOff \in Nat
ASSUME BoundAssumption ==
  MaxAPs \in Nat /\ MaxTicks \in Nat /\ MaxStatus \in Nat

VARIABLES
  ifaces,    \* model.ifaces: <<>> until the interfaces are loaded
  ifIndex,   \* model.ifIndex
  aps,       \* model.aps
  apIndex,   \* model.apIndex
  top,       \* model.top: the first access point shown
  height,    \* model.height: 0 until the terminal has told its size
  scanning,  \* model.scanning
  loading,   \* the ListInterfaces RPC of Init is under way
  scans,     \* Scan RPCs under way, per interface
  statuses,  \* status lookups under way, per interface
  ticks,     \* spinner timers under way
  connOf,    \* the interface model.connAP is of, none while there is no connAP
  addrOf,    \* the interface model.ifAddr is of, none while it is ""
  apsOf      \* history: the interface aps was reported for

vars == <<ifaces, ifIndex, aps, apIndex, top, height, scanning, loading, scans,
          statuses, ticks, connOf, addrOf, apsOf>>
listVars == <<aps, apIndex, top, apsOf>>

\* Scan results: no access point comes twice, though an id may.
Results == {s \in UNION {[1..n -> APs] : n \in 0..MaxAPs} :
              \A j, k \in DOMAIN s : s[j] = s[k] => j = k}

TypeOK ==
  /\ ifaces \in {<<>>, IfaceList}
  /\ ifIndex \in Nat
  /\ aps \in Seq(APs)
  /\ apIndex \in Nat
  /\ top \in Nat
  /\ height \in Heights \cup {0}
  /\ scanning \in BOOLEAN
  /\ loading \in BOOLEAN
  /\ scans \in [Ifaces -> Nat]
  /\ statuses \in [Ifaces -> 0..MaxStatus]
  /\ ticks \in 0..MaxTicks
  /\ connOf \in SUBSET Ifaces
  /\ addrOf \in SUBSET Ifaces
  /\ apsOf \in SUBSET Ifaces

Init ==
  /\ ifaces = <<>>
  /\ ifIndex = 0
  /\ aps = <<>>
  /\ apIndex = 0
  /\ top = 0
  /\ height = 0
  /\ scanning = FALSE
  /\ loading = TRUE
  /\ scans = [i \in Ifaces |-> 0]
  /\ statuses = [i \in Ifaces |-> 0]
  /\ ticks = 0
  /\ connOf = {}
  /\ addrOf = {}
  /\ apsOf = {}

-----------------------------------------------------------------------------
(* scroll, and the window of the list that View renders *)

Min2(a, b) == IF a <= b THEN a ELSE b
Max2(a, b) == IF a >= b THEN a ELSE b
Clamp(x, lo, hi) == Max2(lo, Min2(x, hi))

\* Faulty variant: the column header is not counted.
NoHeader(h) == Max2(1, Max2(3, h - 1) - 2)

\* visibleRows of a window of height h: what is left of it under the status bar,
\* the interface's header, a divider and the column header.
VisibleRows(h) == Max2(1, Max2(3, h - 1) - 3)

\* The margin never exceeds the viewport.
Margin(rows) == Min2(ScrollOff, rows - 1)

\* Faulty variant: no rows are revealed ahead of the cursor.
NoMargin(n, rows, dir, ap, t) == t

\* Reveal up to Margin rows beyond the cursor in the direction it moves.
Reveal(n, rows, dir, ap, t) ==
  CASE dir > 0 -> Max2(t, Min2(ap + Margin(rows), n - 1) - rows + 1)
    [] dir < 0 -> Min2(t, Max2(ap - Margin(rows), 0))
    [] OTHER   -> t

\* Faulty variant: a short list has no first row.
NoFloor(n, rows, dir, ap, t) ==
  Min2(Clamp(Reveal(n, rows, dir, ap, t), ap - rows + 1, ap), n - rows)

\* model.top after scroll(rows, dir) with the cursor on row ap of n.
Scroll(n, rows, dir, ap, t) ==
  IF n = 0 THEN 0
  ELSE LET seen == Clamp(Reveal(n, rows, dir, ap, t), ap - rows + 1, ap)
       IN  Max2(0, Min2(seen, n - rows))

\* The rows apTable has for access points: leftContent leaves it bodyH - 2 rows,
\* and one is the column header.
ListRows(h) == LET bodyH == Max2(3, h - 1) IN Max2(1, Max2(1, bodyH - 2) - 1)

\* The first row apTable renders, and all of them.
ShownFrom ==
  LET start == Min2(top, apIndex)
  IN  Max2(0, IF apIndex >= start + ListRows(height)
              THEN apIndex - ListRows(height) + 1 ELSE start)
Shown == ShownFrom .. (Min2(ShownFrom + ListRows(height), Len(aps)) - 1)

-----------------------------------------------------------------------------
(* Update *)

Selected(list, index) == IF index < Len(list) THEN {list[index + 1]} ELSE {}
SelectedIface == Selected(ifaces, ifIndex)
SelectedAP == Selected(aps, apIndex)

\* Faulty variant: a scan under way does not hold back another one.
TriggerAlways(i, clear) ==
  /\ scanning' = TRUE
  /\ ticks < MaxTicks /\ ticks' = ticks + 1
  /\ scans' = [scans EXCEPT ![i] = @ + 1]
  /\ IF clear
     THEN aps' = <<>> /\ apIndex' = 0 /\ top' = 0 /\ apsOf' = {} /\ connOf' = {}
     ELSE UNCHANGED <<listVars, connOf>>

\* triggerScan(i, clear): a scan already in flight is left to finish.
TriggerScan(i, clear) ==
  \/ /\ scanning
     /\ UNCHANGED <<scanning, ticks, scans, listVars, connOf>>
  \/ /\ ~scanning
     /\ scanning' = TRUE
     /\ ticks < MaxTicks /\ ticks' = ticks + 1
     /\ scans' = [scans EXCEPT ![i] = @ + 1]
     /\ \/ /\ clear
           /\ aps' = <<>> /\ apIndex' = 0 /\ top' = 0 /\ apsOf' = {} /\ connOf' = {}
        \/ ~clear /\ UNCHANGED <<listVars, connOf>>

\* ifaceStatusCmd(i)
LookUpStatus(i) ==
  /\ statuses[i] < MaxStatus
  /\ statuses' = [statuses EXCEPT ![i] = @ + 1]

\* interfacesLoadedMsg; the list is empty when the RPC failed.
InterfacesLoaded(list) ==
  /\ loading
  /\ loading' = FALSE
  /\ ifaces' = list
  /\ ifIndex' = IF ifIndex >= Len(list) THEN 0 ELSE ifIndex
  /\ \/ /\ list = <<>>
        /\ UNCHANGED <<listVars, scanning, scans, statuses, ticks, connOf, addrOf>>
     \/ /\ list # <<>>
        /\ TriggerScan(list[ifIndex' + 1], TRUE)
        /\ LookUpStatus(list[ifIndex' + 1])
        /\ addrOf' = {}
  /\ UNCHANGED height

\* tea.WindowSizeMsg
Resize(h) ==
  /\ height' = h
  /\ top' = Scroll(Len(aps), VisibleRows(h), 0, apIndex, top)
  /\ UNCHANGED <<ifaces, ifIndex, aps, apIndex, scanning, loading, scans, statuses,
                 ticks, connOf, addrOf, apsOf>>

\* Key "tab": the next interface.
Tab ==
  /\ ifaces # <<>>
  /\ ifIndex' = (ifIndex + 1) % Len(ifaces)
  /\ TriggerScan(ifaces[ifIndex' + 1], TRUE)
  /\ LookUpStatus(ifaces[ifIndex' + 1])
  /\ addrOf' = {}
  /\ UNCHANGED <<ifaces, height, loading>>

\* Key "r".
Rescan ==
  /\ \E i \in SelectedIface : TriggerScan(i, FALSE)
  /\ UNCHANGED <<ifaces, ifIndex, height, loading, statuses, addrOf>>

\* scanTickMsg, with an interface to refresh.  Its timer is always set again.
ScanTick ==
  /\ \E i \in SelectedIface : TriggerScan(i, FALSE) /\ LookUpStatus(i)
  /\ UNCHANGED <<ifaces, ifIndex, height, loading, addrOf>>

\* Keys "up" and "down".
Up ==
  /\ apIndex > 0
  /\ apIndex' = apIndex - 1
  /\ top' = Scroll(Len(aps), VisibleRows(height), -1, apIndex', top)
  /\ UNCHANGED <<ifaces, ifIndex, aps, height, scanning, loading, scans, statuses,
                 ticks, connOf, addrOf, apsOf>>

Down ==
  /\ apIndex < Len(aps) - 1
  /\ apIndex' = apIndex + 1
  /\ top' = Scroll(Len(aps), VisibleRows(height), 1, apIndex', top)
  /\ UNCHANGED <<ifaces, ifIndex, aps, height, scanning, loading, scans, statuses,
                 ticks, connOf, addrOf, apsOf>>

\* Faulty variant: the tick is never set again.
TickOnce ==
  /\ ticks > 0
  /\ ticks' = ticks - 1
  /\ UNCHANGED <<ifaces, ifIndex, height, scanning, loading, scans, statuses, listVars,
                 connOf, addrOf>>

\* spinnerTickMsg: set again while a scan is shown as running.
SpinnerTick ==
  /\ ticks > 0
  /\ ticks' = IF scanning THEN ticks ELSE ticks - 1
  /\ UNCHANGED <<ifaces, ifIndex, height, scanning, loading, scans, statuses, listVars,
                 connOf, addrOf>>

\* Faulty variant: the cursor stays on its row whatever is there now.
SameRow(items) == Max2(0, Min2(apIndex, Len(items) - 1))

\* The rows of a new result with the id of the access point the cursor is on.
SameId(items) ==
  {k \in DOMAIN items :
     \E a \in SelectedAP : IdOf[a] # NoId /\ IdOf[items[k]] = IdOf[a]}

\* The row of the cursor in a new result: the first with that id; its own row, or
\* the last, when there is none or the access point has no id.
NewIndex(items) ==
  IF SameId(items) # {}
  THEN (CHOOSE k \in SameId(items) : \A j \in SameId(items) : k <= j) - 1
  ELSE Max2(0, Min2(apIndex, Len(items) - 1))

\* Faulty variant: a failed scan leaves the scanning flag set.
ScanKept(i, items) ==
  /\ scans[i] > 0
  /\ scans' = [scans EXCEPT ![i] = @ - 1]
  /\ i \in SelectedIface
  /\ scanning' = (scanning /\ items = <<>>)
  /\ aps' = items
  /\ apIndex' = NewIndex(items)
  /\ top' = Scroll(Len(items), VisibleRows(height), 0, apIndex', top)
  /\ apsOf' = {i}
  /\ UNCHANGED <<ifaces, ifIndex, height, loading, statuses, ticks, connOf, addrOf>>

\* scanResultMsg of the selected interface; no items when the RPC failed.
ScanResult(i, items) ==
  /\ scans[i] > 0
  /\ scans' = [scans EXCEPT ![i] = @ - 1]
  /\ i \in SelectedIface
  /\ scanning' = FALSE
  /\ aps' = items
  /\ apIndex' = NewIndex(items)
  /\ top' = Scroll(Len(items), VisibleRows(height), 0, apIndex', top)
  /\ apsOf' = {i}
  /\ UNCHANGED <<ifaces, ifIndex, height, loading, statuses, ticks, connOf, addrOf>>

\* Faulty variant: a result that is ignored still counts as the end of the scan.
IgnoredSettles(i) ==
  /\ scans[i] > 0
  /\ scans' = [scans EXCEPT ![i] = @ - 1]
  /\ i \notin SelectedIface
  /\ scanning' = FALSE
  /\ UNCHANGED <<ifaces, ifIndex, height, loading, statuses, ticks, listVars,
                 connOf, addrOf>>

\* scanResultMsg of an interface the user has left: ignored.
ScanIgnored(i) ==
  /\ scans[i] > 0
  /\ scans' = [scans EXCEPT ![i] = @ - 1]
  /\ i \notin SelectedIface
  /\ UNCHANGED <<ifaces, ifIndex, height, scanning, loading, statuses, ticks, listVars,
                 connOf, addrOf>>

\* Faulty variant: the connected access point replaces a scan result.
StatusClobbers(i, conn, addressed) ==
  /\ statuses[i] > 0
  /\ statuses' = [statuses EXCEPT ![i] = @ - 1]
  /\ connOf' = IF i \notin SelectedIface THEN connOf ELSE IF conn # {} THEN {i} ELSE {}
  /\ addrOf' = IF i \notin SelectedIface THEN addrOf ELSE IF addressed THEN {i} ELSE {}
  /\ \/ /\ i \in SelectedIface /\ conn # {} /\ scanning
        /\ aps' \in {<<a>> : a \in conn} /\ apIndex' = 0 /\ top' = 0 /\ apsOf' = {i}
     \/ /\ ~(i \in SelectedIface /\ conn # {} /\ scanning)
        /\ UNCHANGED listVars
  /\ UNCHANGED <<ifaces, ifIndex, height, scanning, loading, scans, ticks>>

\* Faulty variant: the answer is shown whatever interface it is about.
StatusOfAny(i, conn, addressed) ==
  /\ statuses[i] > 0
  /\ statuses' = [statuses EXCEPT ![i] = @ - 1]
  /\ connOf' = (IF conn # {} THEN {i} ELSE {})
  /\ addrOf' = (IF addressed THEN {i} ELSE {})
  /\ UNCHANGED <<ifaces, ifIndex, height, scanning, loading, scans, ticks, listVars>>

\* ifaceStatusMsg of the selected interface: no conn and no address when nothing is
\* connected or the RPC failed.  The connected access point stands in for a scan
\* still running.
StatusShown(i, conn, addressed) ==
  /\ i \in SelectedIface
  /\ connOf' = (IF conn # {} THEN {i} ELSE {})
  /\ addrOf' = (IF addressed THEN {i} ELSE {})
  /\ LET show == conn # {} /\ scanning /\ aps = <<>>
     IN  \/ /\ show
            /\ aps' \in {<<a>> : a \in conn} /\ apIndex' = 0 /\ top' = 0 /\ apsOf' = {i}
         \/ /\ ~show
            /\ UNCHANGED listVars

\* ifaceStatusMsg: dropped when another interface is selected by now.
Status(i, conn, addressed) ==
  /\ statuses[i] > 0
  /\ statuses' = [statuses EXCEPT ![i] = @ - 1]
  /\ \/ StatusShown(i, conn, addressed)
     \/ i \notin SelectedIface /\ UNCHANGED <<listVars, connOf, addrOf>>
  /\ UNCHANGED <<ifaces, ifIndex, height, scanning, loading, scans, ticks>>

\* What a lookup may find: nothing, or a connection with or without an access
\* point to show, with or without an address.
Conns == {{}} \cup {{a} : a \in APs}

Deliver ==
  \/ \E list \in {<<>>, IfaceList} : InterfacesLoaded(list)
  \/ SpinnerTick
  \/ \E i \in Ifaces : \/ \E items \in Results : ScanResult(i, items)
                       \/ ScanIgnored(i)
                       \/ \E conn \in Conns, addressed \in BOOLEAN :
                            Status(i, conn, addressed)

Next ==
  \/ \E h \in Heights : Resize(h)
  \/ Tab
  \/ Rescan
  \/ ScanTick
  \/ Up
  \/ Down
  \/ Deliver

Spec == Init /\ [][Next]_vars

\* RPCs end (their contexts have a deadline, or the server answers), timers fire,
\* and bubbletea delivers each message it is sent.
FairSpec ==
  /\ Spec
  /\ WF_vars(\E list \in {<<>>, IfaceList} : InterfacesLoaded(list))
  /\ WF_vars(SpinnerTick) /\ WF_vars(ScanTick)
  /\ \A i \in Ifaces :
       /\ WF_vars(ScanIgnored(i) \/ \E items \in Results : ScanResult(i, items))
       /\ WF_vars(\E conn \in Conns, addressed \in BOOLEAN : Status(i, conn, addressed))

-----------------------------------------------------------------------------
(* Properties *)

\* The cursor is on a row of the list that View renders; View renders from where
\* scroll left the viewport (visibleRows counts the same rows as apTable); and the
\* viewport does not run past the end while there is something to show above.
CursorVisible ==
  \/ aps = <<>> /\ apIndex = 0 /\ top = 0
  \/ /\ apIndex \in Shown
     /\ ShownFrom = top
     /\ top = 0 \/ top + ListRows(height) <= Len(aps)

\* Moving the cursor keeps a margin of rows rendered ahead of it, as far as there
\* are rows and the viewport has room for them (scrollOff).
MarginKept ==
  [][/\ UNCHANGED <<aps, scans, height>>
     /\ apIndex' # apIndex
     => LET rows == ListRows(height)
        IN  IF apIndex' > apIndex
            THEN top' + rows - 1 - apIndex' >= Min2(Margin(rows), Len(aps) - 1 - apIndex')
            ELSE apIndex' - top' >= Min2(Margin(rows), apIndex')]_vars

\* A refresh does not move the cursor off the access point it is on, and neither
\* does a status lookup that comes in late (applyScan, ifaceStatusMsg): wherever the
\* list puts it, the cursor is on an access point with the id it was on.  Excepted are
\* access points without an id (all that iwd scans): there the cursor stays on its row
\* and the list is re-sorted under it, in spite of model.go:283-285 "with the prior
\* selection followed by BSSID so a periodic refresh does not move the cursor out".
SelectionFollowed ==
  [][\A a \in SelectedAP :
       /\ <<aps, scans>>' # <<aps, scans>>
       /\ IdOf[a] # NoId
       /\ \E k \in DOMAIN aps' : IdOf[aps'[k]] = IdOf[a]
       => \E b \in SelectedAP' : IdOf[b] = IdOf[a]]_vars

\* A scan result stays until the next one, or until the user moves on: what the
\* status lookup knows of the connection never replaces it.
ScanNotClobbered ==
  [][aps' # aps /\ aps # <<>> => scans' # scans]_vars

\* The UI keeps at most one Scan RPC under way, whatever keys are pressed.
OneScanAtATime ==
  \A i, j \in Ifaces : scans[i] > 0 /\ scans[j] > 0 => i = j /\ scans[i] = 1

\* The list shows access points of another interface than the selected one only
\* while a scan is shown as running (triggerScan keeps the list when it starts
\* nothing): once nothing is running, what is listed is the selected interface's.
ListOfSelected == apsOf \subseteq SelectedIface \/ scanning

\* The address beside the selected interface's name is that interface's, and so is
\* the connection marked in the list, once the lookup that switching to the
\* interface started has been answered: no late answer about another interface
\* brings back what was shown for that one.
StatusOfSelected ==
  /\ addrOf \subseteq SelectedIface
  /\ connOf \subseteq SelectedIface \/ \E i \in SelectedIface : statuses[i] > 0

\* The spinner moves for as long as a scan is shown as running.
SpinnerRuns == scanning => ticks > 0

\* A scan shown as running comes to an end, and so the next can start, as long as
\* the user stays with the interface it is of.
ScanSettlesStaying ==
  \A i \in Ifaces : (scans[i] > 0 /\ [](i \in SelectedIface)) ~> ~scanning

-----------------------------------------------------------------------------
(* What the comments promise and moving between interfaces breaks. *)

\* model.go:24 "The selected interface is also re-scanned periodically": a scan
\* shown as running comes to an end, so that the next one can start.
ScanSettles == scanning ~> ~scanning

\* A scan is shown as running, and none is under way that could end it.
Stuck == scanning /\ \A i \in Ifaces : scans[i] = 0

\* Once that is so, no key, timer or message starts a scan again or clears the flag.
StuckForGood == [][Stuck => Stuck']_vars

\* It comes about in one way only: the result of an interface the user has left is
\* dropped while it is the one scan under way.
StuckByLeaving == [][~Stuck /\ Stuck' => \E i \in Ifaces : ScanIgnored(i)]_vars
=============================================================================
