------------------------------- MODULE TuiProofs -------------------------------
(***************************************************************************)
(* Proofs about Tui, for any list of interfaces, any access points, any    *)
(* window heights and any margin.                                          *)
(***************************************************************************)
EXTENDS Tui, WellFoundedInduction, TLAPS

\* The viewport of so many rows that starts at row t shows row ap of n rows, and
\* does not run past the end unless it starts at the first row.
InView(n, rows, ap, t) ==
  /\ t <= ap /\ ap < t + rows
  /\ t = 0 \/ t + rows <= n

-----------------------------------------------------------------------------
(* scroll *)

\* Whatever the viewport was, scroll leaves the cursor in view.
LEMMA ScrollInView ==
  ASSUME NEW n \in Nat \ {0}, NEW rows \in Nat \ {0}, NEW dir \in Int,
         NEW ap \in 0..(n - 1), NEW t \in Nat
  PROVE  /\ Scroll(n, rows, dir, ap, t) \in Nat
         /\ InView(n, rows, ap, Scroll(n, rows, dir, ap, t))
  <1>. DEFINE r == Reveal(n, rows, dir, ap, t)
  <1>1. r \in Int
    BY ScrollOffAssumption DEF Reveal, Margin, Min2, Max2
  <1>. HIDE DEF r
  <1>. QED  BY <1>1 DEF Scroll, InView, Clamp, Min2, Max2, r

\* Moving down, the margin ahead of the cursor is visible below it.
LEMMA ScrollDownMargin ==
  ASSUME NEW n \in Nat \ {0}, NEW rows \in Nat \ {0},
         NEW ap \in 0..(n - 1), NEW t \in Nat
  PROVE  Scroll(n, rows, 1, ap, t) + rows - 1 - ap
           >= Min2(Margin(rows), n - 1 - ap)
  BY ScrollOffAssumption DEF Scroll, Reveal, Margin, Clamp, Min2, Max2

\* Moving up, it is visible above it.
LEMMA ScrollUpMargin ==
  ASSUME NEW n \in Nat \ {0}, NEW rows \in Nat \ {0},
         NEW ap \in 0..(n - 1), NEW t \in Nat
  PROVE  ap - Scroll(n, rows, -1, ap, t) >= Min2(Margin(rows), ap)
  BY ScrollOffAssumption DEF Scroll, Reveal, Margin, Clamp, Min2, Max2

\* View renders as many rows as visibleRows counts, at least one: with the cursor in
\* that viewport it renders it from top on.
LEMMA RowsAgree ==
  ASSUME NEW h \in Nat
  PROVE  VisibleRows(h) \in Nat \ {0} /\ ListRows(h) = VisibleRows(h)
  BY DEF VisibleRows, ListRows, Max2

-----------------------------------------------------------------------------
(* The invariant *)

\* The list and its viewport.
ListTypes ==
  /\ aps \in Seq(APs)
  /\ apIndex \in Nat
  /\ top \in Nat
  /\ height \in Heights \cup {0}
  /\ apsOf \in SUBSET Ifaces
  /\ aps # <<>> => apIndex < Len(aps)
  /\ aps = <<>> => apIndex = 0

ListInv ==
  /\ ListTypes
  /\ CursorVisible

\* The scanning flag covers the one scan under way.
ScanInv ==
  /\ scanning \in BOOLEAN
  /\ ticks \in 0..MaxTicks
  /\ scans \in [Ifaces -> Nat]
  /\ \A i \in Ifaces : scans[i] > 0 => scanning
  /\ OneScanAtATime

\* The interfaces and the lookups about them.
IfaceInv ==
  /\ ifaces \in {<<>>, IfaceList}
  /\ ifIndex \in Nat
  /\ loading \in BOOLEAN
  /\ statuses \in [Ifaces -> 0..MaxStatus]

\* Whose list, address and connection are shown.  The interfaces are loaded once.
ShownInv ==
  /\ loading => ifaces = <<>>
  /\ connOf \in SUBSET Ifaces
  /\ addrOf \in SUBSET Ifaces
  /\ ListOfSelected
  /\ StatusOfSelected
  /\ SpinnerRuns

IInv == ListInv /\ ScanInv /\ IfaceInv /\ ShownInv

LEMMA HeightType == \A h \in Heights \cup {0} : h \in Nat
  BY HeightsAssumption

\* What View corrects of a viewport that shows the cursor: nothing.
LEMMA NothingToCorrect ==
  ASSUME NEW n \in Nat, NEW rows \in Nat \ {0}, NEW ap \in Nat, ap < n, NEW t \in Nat,
         InView(n, rows, ap, t)
  PROVE  /\ Max2(0, IF ap >= Min2(t, ap) + rows THEN ap - rows + 1 ELSE Min2(t, ap)) = t
         /\ ap \in t .. (Min2(t + rows, n) - 1)
  BY DEF InView, Min2, Max2

\* A viewport of the rows visibleRows counts that shows the cursor is what View
\* renders.
LEMMA CursorShown ==
  ASSUME aps' # <<>>, Len(aps') \in Nat, apIndex' \in Nat, apIndex' < Len(aps'),
         top' \in Nat, height' \in Nat,
         InView(Len(aps'), VisibleRows(height'), apIndex', top')
  PROVE  CursorVisible'
  <1>. DEFINE rows == VisibleRows(height')
  <1>1. rows \in Nat \ {0} /\ ListRows(height') = rows
    BY RowsAgree
  <1>2. top' = 0 \/ top' + rows <= Len(aps')
    BY DEF InView
  <1>. HIDE DEF rows
  <1>3. InView(Len(aps'), rows, apIndex', top')
    BY DEF rows
  <1>4. ShownFrom' = top'
    BY <1>1, <1>3, NothingToCorrect DEF ShownFrom
  <1>5. apIndex' \in Shown'
    BY <1>1, <1>3, <1>4, NothingToCorrect DEF Shown
  <1>. QED  BY <1>1, <1>2, <1>4, <1>5 DEF CursorVisible

LEMMA InitIInv == Init => IInv
  <1>. SUFFICES ASSUME Init PROVE IInv
    OBVIOUS
  <1>1. ListInv
    BY DEF Init, ListInv, ListTypes, CursorVisible
  <1>2. ScanInv
    <2>1. scans \in [Ifaces -> Nat] /\ \A i \in Ifaces : ~(scans[i] > 0)
      BY DEF Init
    <2>2. ticks \in 0..MaxTicks
      BY BoundAssumption DEF Init
    <2>. QED  BY <2>1, <2>2 DEF Init, ScanInv, OneScanAtATime
  <1>3. IfaceInv
    BY BoundAssumption DEF Init, IfaceInv
  <1>4. ShownInv
    BY DEF Init, ShownInv, ListOfSelected, StatusOfSelected, SpinnerRuns
  <1>. QED  BY <1>1, <1>2, <1>3, <1>4 DEF IInv

\* Every interface the code picks out of its list is one of Ifaces.
LEMMA PickedIface ==
  ASSUME IfaceInv
  PROVE  /\ \A k \in 1..Len(IfaceList) : IfaceList[k] \in Ifaces
         /\ SelectedIface \subseteq Ifaces
  <1>1. \A k \in 1..Len(IfaceList) : IfaceList[k] \in Ifaces
    <2>1. DOMAIN IfaceList = 1..Len(IfaceList)
      BY IfaceAssumption
    <2>. QED  BY <2>1 DEF Ifaces
  <1>2. SelectedIface \subseteq Ifaces
    BY <1>1, IfaceAssumption DEF SelectedIface, Selected, IfaceInv
  <1>. QED  BY <1>1, <1>2

LEMMA ResultType ==
  ASSUME NEW items \in Results
  PROVE  /\ items \in Seq(APs)
         /\ Len(items) \in Nat /\ DOMAIN items = 1..Len(items)
  BY BoundAssumption DEF Results

\* A set of naturals that is not empty has a least element.
LEMMA Least ==
  ASSUME NEW S \in SUBSET Nat, S # {}
  PROVE  \E k \in S : \A j \in S : k <= j
  <1>. DEFINE R == OpToRel(<, Nat)
  <1>1. IsWellFoundedOn(R, Nat)
    BY NatLessThanWellFounded
  <1>2. ASSUME NEW x \in Nat, NEW y \in Nat, x < y PROVE <<x, y>> \in R
    BY <1>2 DEF OpToRel
  <1>. HIDE DEF R
  <1>3. PICK k \in S : \A j \in S : ~(<<j, k>> \in R)
    BY <1>1, WFMin
  <1>4. ASSUME NEW j \in S PROVE k <= j
    <2>1. j \in Nat /\ k \in Nat
      OBVIOUS
    <2>2. ~(j < k)
      BY <1>2, <1>3, <2>1
    <2>. QED  BY <2>1, <2>2
  <1>. QED  BY <1>4

\* The row applyScan picks exists, and it is one with the id of the access point the
\* cursor was on when the result still has that id.
LEMMA NewIndexInRange ==
  ASSUME ListInv, NEW items \in Results
  PROVE  /\ NewIndex(items) \in Nat
         /\ items # <<>> => NewIndex(items) \in 0..(Len(items) - 1)
         /\ items = <<>> => NewIndex(items) = 0
         /\ SameId(items) # {} => NewIndex(items) + 1 \in SameId(items)
  <1>1. /\ Len(items) \in Nat /\ DOMAIN items = 1..Len(items)
        /\ apIndex \in Nat /\ (items = <<>> <=> Len(items) = 0)
    BY ResultType DEF ListInv, ListTypes
  <1>. DEFINE same == SameId(items)
  <1>2. same \in SUBSET (1..Len(items))
    BY <1>1 DEF SameId
  <1>3. CASE same = {}
    <2>1. NewIndex(items) = Max2(0, Min2(apIndex, Len(items) - 1))
      BY <1>3 DEF NewIndex
    <2>. QED  BY <1>1, <1>3, <2>1 DEF Max2, Min2
  <1>4. CASE same # {}
    <2>. DEFINE pick == CHOOSE k \in same : \A j \in same : k <= j
    <2>1. NewIndex(items) = pick - 1
      BY <1>4 DEF NewIndex
    <2>. HIDE DEF same
    <2>2. \E k \in same : \A j \in same : k <= j
      <3>1. same \in SUBSET Nat
        BY <1>1, <1>2
      <3>. QED  BY <1>4, <3>1, Least
    <2>3. pick \in same
      BY <2>2
    <2>. HIDE DEF pick
    <2>4. pick \in 1..Len(items)
      BY <1>2, <2>3
    <2>5. NewIndex(items) + 1 = pick /\ items # <<>>
      BY <1>1, <2>1, <2>4
    <2>6. NewIndex(items) \in 0..(Len(items) - 1)
      BY <1>1, <2>1, <2>4
    <2>. QED  BY <1>1, <2>3, <2>5, <2>6 DEF same
  <1>. QED  BY <1>3, <1>4

-----------------------------------------------------------------------------
(* The steps that change the list *)

LEMMA ClearedList ==
  ASSUME ListInv, UNCHANGED height,
         aps' = <<>>, apIndex' = 0, top' = 0, apsOf' = {}
  PROVE  ListInv'
  BY DEF ListInv, ListTypes, CursorVisible

LEMMA SameList ==
  ASSUME ListInv, UNCHANGED height, UNCHANGED listVars
  PROVE  ListInv'
  BY DEF ListInv, ListTypes, CursorVisible, Shown, ShownFrom, listVars

\* A new viewport on the same list: Resize, Up and Down.
LEMMA ScrolledList ==
  ASSUME ListInv, NEW dir \in Int, NEW h \in Heights \cup {0},
         UNCHANGED <<aps, apsOf>>, height' = h,
         apIndex' \in Nat,
         aps # <<>> => apIndex' < Len(aps),
         aps = <<>> => apIndex' = 0,
         top' = Scroll(Len(aps), VisibleRows(h), dir, apIndex', top)
  PROVE  ListInv'
  <1>0. h \in Nat
    BY HeightType
  <1>1. /\ Len(aps) \in Nat /\ (aps = <<>> <=> Len(aps) = 0)
        /\ h \in Nat /\ VisibleRows(h) \in Nat \ {0}
    BY <1>0, RowsAgree DEF ListInv, ListTypes
  <1>2. CASE aps = <<>>
    BY <1>1, <1>2 DEF ListInv, ListTypes, CursorVisible, Scroll
  <1>3. CASE aps # <<>>
    <2>1. apIndex' \in 0..(Len(aps) - 1) /\ Len(aps) \in Nat \ {0} /\ top \in Nat
      BY <1>1, <1>3 DEF ListInv, ListTypes
    <2>2. top' \in Nat /\ InView(Len(aps), VisibleRows(h), apIndex', top')
      BY <1>1, <2>1, ScrollInView
    <2>3. CursorVisible'
      BY <1>1, <1>3, <2>1, <2>2, CursorShown
    <2>. QED  BY <1>3, <2>1, <2>2, <2>3 DEF ListInv, ListTypes
  <1>. QED  BY <1>2, <1>3

LEMMA AppliedScan ==
  ASSUME ListInv, NEW items \in Results, NEW i \in Ifaces, UNCHANGED height,
         aps' = items, apIndex' = NewIndex(items), apsOf' = {i},
         top' = Scroll(Len(items), VisibleRows(height), 0, apIndex', top)
  PROVE  ListInv'
  <1>0. top \in Nat /\ height \in Nat /\ height' \in Heights \cup {0}
    BY HeightType DEF ListInv, ListTypes
  <1>1. /\ Len(items) \in Nat /\ (items = <<>> <=> Len(items) = 0)
        /\ items \in Seq(APs) /\ VisibleRows(height) \in Nat \ {0}
    BY <1>0, ResultType, RowsAgree
  <1>3. CASE items = <<>>
    BY <1>0, <1>1, <1>3, NewIndexInRange DEF ListInv, ListTypes, CursorVisible, Scroll
  <1>4. CASE items # <<>>
    <2>1. apIndex' \in 0..(Len(items) - 1)
      BY <1>4, NewIndexInRange
    <2>2. top' \in Nat /\ InView(Len(items), VisibleRows(height), apIndex', top')
      <3>1. Len(items) \in Nat \ {0} /\ 0 \in Int
        BY <1>1, <1>4
      <3>. QED  BY <1>0, <1>1, <2>1, <3>1, ScrollInView
    <2>3. aps' # <<>> /\ Len(aps') \in Nat /\ apIndex' \in Nat /\ apIndex' < Len(aps')
      BY <1>1, <1>4, <2>1
    <2>4. CursorVisible'
      BY <1>0, <2>2, <2>3, CursorShown
    <2>. QED  BY <1>0, <1>1, <1>4, <2>1, <2>2, <2>4 DEF ListInv, ListTypes
  <1>. QED  BY <1>3, <1>4

LEMMA ShownStatus ==
  ASSUME ListInv, UNCHANGED height, NEW a \in APs, NEW i \in Ifaces,
         aps' = <<a>>, apIndex' = 0, top' = 0, apsOf' = {i}
  PROVE  ListInv'
  <1>1. /\ height \in Nat /\ VisibleRows(height) \in Nat \ {0}
        /\ height' \in Heights \cup {0}
    <2>1. height \in Nat /\ height' \in Heights \cup {0}
      BY HeightType DEF ListInv, ListTypes
    <2>. QED  BY <2>1, RowsAgree
  <1>2. Len(aps') = 1 /\ aps' # <<>> /\ InView(1, VisibleRows(height), 0, 0)
    BY <1>1 DEF InView
  <1>3. CursorVisible'
    BY <1>1, <1>2, CursorShown
  <1>. QED  BY <1>1, <1>2, <1>3 DEF ListInv, ListTypes

LEMMA TriggerScanInv ==
  ASSUME ListInv, ScanInv, UNCHANGED height,
         NEW i \in Ifaces, NEW clear \in BOOLEAN, TriggerScan(i, clear)
  PROVE  ListInv' /\ ScanInv'
  <1>1. ListInv'
    BY ClearedList, SameList DEF TriggerScan
  <1>2. CASE scanning
    <2>1. UNCHANGED <<scanning, ticks, scans>>
      BY <1>2 DEF TriggerScan
    <2>. QED  BY <1>1, <2>1 DEF ScanInv, OneScanAtATime
  <1>3. CASE ~scanning
    <2>1. \A j \in Ifaces : scans[j] = 0
      BY <1>3 DEF ScanInv
    <2>2. scanning' = TRUE /\ ticks' = ticks + 1 /\ ticks < MaxTicks
          /\ scans' = [scans EXCEPT ![i] = @ + 1]
      BY <1>3 DEF TriggerScan
    <2>3. scans \in [Ifaces -> Nat] /\ ticks \in 0..MaxTicks
      BY DEF ScanInv
    <2>4. ticks' \in 0..MaxTicks
      BY <2>2, <2>3, BoundAssumption
    <2>5. scans' \in [Ifaces -> Nat] /\ scans'[i] = 1
      BY <2>1, <2>2, <2>3
    <2>6. \A j \in Ifaces : j # i => scans'[j] = 0
      BY <2>1, <2>2, <2>3
    <2>7. OneScanAtATime'
      BY <2>5, <2>6 DEF OneScanAtATime
    <2>. QED  BY <1>1, <2>2, <2>4, <2>5, <2>7 DEF ScanInv
  <1>. QED  BY <1>1, <1>2, <1>3

LEMMA LookUpStatusType ==
  ASSUME IfaceInv, NEW i \in Ifaces, LookUpStatus(i)
  PROVE  statuses' \in [Ifaces -> 0..MaxStatus]
  BY BoundAssumption DEF IfaceInv, LookUpStatus

LEMMA ScanEnds ==
  ASSUME ScanInv, NEW i \in Ifaces, scans[i] > 0,
         scans' = [scans EXCEPT ![i] = @ - 1],
         scanning' \in {scanning, FALSE}, UNCHANGED ticks
  PROVE  ScanInv'
  <1>1. scans \in [Ifaces -> Nat] /\ scans[i] = 1
    BY DEF ScanInv, OneScanAtATime
  <1>2. ASSUME NEW j \in Ifaces PROVE scans'[j] = 0
    <2>1. CASE j = i
      BY <1>1, <2>1
    <2>2. CASE j # i
      BY <1>1, <2>2 DEF ScanInv, OneScanAtATime
    <2>. QED  BY <2>1, <2>2
  <1>3. scans' \in [Ifaces -> Nat]
    BY <1>1, <1>2
  <1>4. scanning' \in BOOLEAN /\ ticks' \in 0..MaxTicks
    BY DEF ScanInv
  <1>5. \A j \in Ifaces : ~(scans'[j] > 0)
    BY <1>2
  <1>. QED  BY <1>3, <1>4, <1>5 DEF ScanInv, OneScanAtATime

-----------------------------------------------------------------------------
(* What is shown is of the selected interface *)

\* A step that selects nothing else, clears or keeps what is shown, and loses no
\* lookup of the selected interface.
LEMMA SameShown ==
  ASSUME ShownInv, UNCHANGED <<ifaces, ifIndex, loading, connOf, addrOf>>,
         \/ apsOf' \subseteq SelectedIface
         \/ apsOf' = apsOf /\ (scanning => scanning'),
         \A i \in SelectedIface : statuses[i] > 0 => statuses'[i] > 0,
         scanning' => ticks' > 0
  PROVE  ShownInv'
  <1>1. SelectedIface' = SelectedIface
    BY DEF SelectedIface, Selected
  <1>2. ListOfSelected'
    BY <1>1 DEF ShownInv, ListOfSelected
  <1>3. StatusOfSelected'
    BY <1>1 DEF ShownInv, StatusOfSelected
  <1>. QED  BY <1>2, <1>3 DEF ShownInv, SpinnerRuns

\* Another interface is selected, a scan triggered and its status looked up.
LEMMA SwitchedShown ==
  ASSUME ShownInv, ScanInv, NEW i \in Ifaces, TriggerScan(i, TRUE), LookUpStatus(i),
         statuses \in [Ifaces -> 0..MaxStatus],
         SelectedIface' = {i}, addrOf' = {}, loading' = FALSE
  PROVE  ShownInv'
  <1>1. statuses'[i] > 0
    BY BoundAssumption DEF LookUpStatus
  <1>2. connOf' \in SUBSET Ifaces /\ StatusOfSelected'
    BY <1>1 DEF ShownInv, StatusOfSelected, TriggerScan
  <1>3. scanning' /\ ticks' > 0
    <2>1. CASE scanning
      BY <2>1 DEF TriggerScan, ShownInv, SpinnerRuns
    <2>2. CASE ~scanning
      BY <2>2 DEF TriggerScan, ScanInv
    <2>. QED  BY <2>1, <2>2
  <1>. QED  BY <1>2, <1>3 DEF ShownInv, ListOfSelected, SpinnerRuns

-----------------------------------------------------------------------------
(* Every step *)

LEMMA SameScan ==
  ASSUME ScanInv, UNCHANGED <<scanning, ticks, scans>>
  PROVE  ScanInv'
  BY DEF ScanInv, OneScanAtATime

LEMMA InterfacesLoadedInv ==
  ASSUME IInv, NEW list \in {<<>>, IfaceList}, InterfacesLoaded(list)
  PROVE  IInv'
  <1>. USE DEF IInv
  <1>1. Len(list) \in Nat /\ (list = <<>> <=> Len(list) = 0)
    BY IfaceAssumption
  <1>2. ifIndex' \in Nat /\ (list # <<>> => ifIndex' < Len(list))
    BY <1>1 DEF InterfacesLoaded, IfaceInv
  <1>3. CASE list = <<>>
    <2>1. UNCHANGED <<listVars, height, scanning, scans, statuses, ticks>>
      BY <1>3 DEF InterfacesLoaded
    <2>2. ListInv' /\ ScanInv' /\ IfaceInv'
      BY <1>2, <1>3, <2>1, SameList, SameScan DEF InterfacesLoaded, IfaceInv, listVars
    <2>3. UNCHANGED <<connOf, addrOf, apsOf, scanning, ticks, statuses>>
          /\ ifaces = <<>> /\ ifaces' = <<>> /\ loading' = FALSE
      BY <1>3 DEF InterfacesLoaded, ShownInv, listVars
    <2>4. SelectedIface = {} /\ SelectedIface' = {}
      BY <1>2, <2>3 DEF SelectedIface, Selected, IfaceInv
    <2>5. ShownInv'
      BY <2>3, <2>4 DEF ShownInv, ListOfSelected, StatusOfSelected, SpinnerRuns
    <2>. QED  BY <2>2, <2>5
  <1>4. CASE list # <<>>
    <2>. DEFINE i == list[ifIndex' + 1]
    <2>1. i \in Ifaces
      BY <1>1, <1>2, <1>4, PickedIface
    <2>2. TriggerScan(i, TRUE) /\ LookUpStatus(i) /\ UNCHANGED height
      BY <1>4 DEF InterfacesLoaded
    <2>5. SelectedIface' = {i} /\ addrOf' = {} /\ loading' = FALSE
      BY <1>1, <1>2, <1>4 DEF InterfacesLoaded, SelectedIface, Selected
    <2>. HIDE DEF i
    <2>3. ListInv' /\ ScanInv'
      BY <2>1, <2>2, TriggerScanInv
    <2>4. statuses' \in [Ifaces -> 0..MaxStatus]
      BY <2>1, <2>2, LookUpStatusType
    <2>6. ShownInv'
      BY <2>1, <2>2, <2>5, SwitchedShown DEF IfaceInv
    <2>. QED  BY <1>2, <2>3, <2>4, <2>6 DEF InterfacesLoaded, IfaceInv
  <1>. QED  BY <1>3, <1>4

LEMMA TabInv ==
  ASSUME IInv, Tab
  PROVE  IInv'
  <1>. USE DEF IInv
  <1>1. Len(ifaces) \in Nat \ {0} /\ ifaces = IfaceList /\ ifIndex \in Nat
    BY IfaceAssumption DEF Tab, IfaceInv
  <1>2. ifIndex' \in Nat /\ ifIndex' < Len(ifaces)
    BY <1>1 DEF Tab
  <1>. DEFINE i == ifaces[ifIndex' + 1]
  <1>3. i \in Ifaces
    BY <1>1, <1>2, PickedIface
  <1>4. TriggerScan(i, TRUE) /\ LookUpStatus(i) /\ UNCHANGED height
    BY DEF Tab
  <1>7. SelectedIface' = {i} /\ addrOf' = {} /\ loading' = FALSE
    BY <1>1, <1>2 DEF Tab, SelectedIface, Selected, IfaceInv, ShownInv
  <1>. HIDE DEF i
  <1>5. ListInv' /\ ScanInv'
    BY <1>3, <1>4, TriggerScanInv
  <1>6. statuses' \in [Ifaces -> 0..MaxStatus]
    BY <1>3, <1>4, LookUpStatusType
  <1>8. ShownInv'
    BY <1>3, <1>4, <1>7, SwitchedShown DEF IfaceInv
  <1>. QED  BY <1>2, <1>5, <1>6, <1>8 DEF Tab, IfaceInv

LEMMA RescanInv ==
  ASSUME IInv, Rescan \/ ScanTick
  PROVE  IInv'
  <1>. USE DEF IInv
  <1>1. PICK i \in SelectedIface : /\ TriggerScan(i, FALSE)
                                   /\ UNCHANGED statuses \/ LookUpStatus(i)
    BY DEF Rescan, ScanTick
  <1>2. i \in Ifaces
    BY PickedIface
  <1>3. UNCHANGED <<ifaces, ifIndex, height, loading>>
    BY DEF Rescan, ScanTick
  <1>4. ListInv' /\ ScanInv'
    BY <1>1, <1>2, <1>3, TriggerScanInv
  <1>5. statuses' \in [Ifaces -> 0..MaxStatus]
    BY <1>1, <1>2, LookUpStatusType DEF IfaceInv
  <1>6. ShownInv'
    <2>1. /\ UNCHANGED <<apsOf, connOf, addrOf>>
          /\ scanning => UNCHANGED <<scanning, ticks>>
      BY <1>1 DEF TriggerScan, listVars, Rescan, ScanTick
    <2>2. scanning' => ticks' > 0
      <3>1. CASE scanning
        BY <2>1, <3>1 DEF ShownInv, SpinnerRuns
      <3>2. CASE ~scanning
        <4>1. ticks' = ticks + 1 /\ ticks \in 0..MaxTicks
          BY <1>1, <3>2 DEF TriggerScan, ScanInv
        <4>. QED  BY <4>1, BoundAssumption
      <3>. QED  BY <3>1, <3>2
    <2>3. \A j \in SelectedIface : statuses[j] > 0 => statuses'[j] > 0
      BY <1>1, PickedIface DEF LookUpStatus, IfaceInv
    <2>. QED  BY <1>3, <2>1, <2>2, <2>3, SameShown
  <1>. QED  BY <1>3, <1>4, <1>5, <1>6 DEF IfaceInv

LEMMA ViewportInv ==
  ASSUME IInv, Up \/ Down \/ \E h \in Heights : Resize(h)
  PROVE  IInv'
  <1>. USE DEF IInv
  <1>1. /\ Len(aps) \in Nat /\ (aps = <<>> <=> Len(aps) = 0)
        /\ apIndex \in Nat /\ height \in Heights \cup {0}
        /\ aps # <<>> => apIndex < Len(aps)
        /\ aps = <<>> => apIndex = 0
    BY DEF ListInv, ListTypes
  <1>2. UNCHANGED <<ifaces, ifIndex, scanning, loading, scans, statuses, ticks>>
    BY DEF Up, Down, Resize
  <1>3. ListInv'
    <2>1. CASE Up
      BY <1>1, <2>1, ScrolledList DEF Up
    <2>2. CASE Down
      BY <1>1, <2>2, ScrolledList DEF Down
    <2>3. ASSUME NEW h \in Heights, Resize(h) PROVE ListInv'
      BY <1>1, <2>3, ScrolledList DEF Resize
    <2>. QED  BY <2>1, <2>2, <2>3
  <1>4. UNCHANGED <<connOf, addrOf, apsOf>>
    BY DEF Up, Down, Resize
  <1>5. ShownInv'
    BY <1>2, <1>4, SameShown DEF ShownInv, SpinnerRuns
  <1>. QED  BY <1>2, <1>3, <1>5, SameScan DEF IfaceInv

LEMMA DeliverInv ==
  ASSUME IInv, NEW i \in Ifaces,
         \/ \E items \in Results : ScanResult(i, items)
         \/ ScanIgnored(i)
         \/ \E conn \in Conns, addressed \in BOOLEAN : Status(i, conn, addressed)
  PROVE  IInv'
  <1>. USE DEF IInv
  <1>1. ASSUME NEW items \in Results, ScanResult(i, items) PROVE IInv'
    <2>1. ListInv'
      BY <1>1, AppliedScan DEF ScanResult
    <2>2. ScanInv'
      BY <1>1, ScanEnds DEF ScanResult
    <2>3. ShownInv'
      BY <1>1, SameShown DEF ScanResult
    <2>. QED  BY <1>1, <2>1, <2>2, <2>3 DEF ScanResult, IfaceInv
  <1>2. CASE ScanIgnored(i)
    <2>1. ScanInv'
      BY <1>2, ScanEnds DEF ScanIgnored
    <2>2. ShownInv'
      BY <1>2, SameShown DEF ScanIgnored, listVars, ShownInv, SpinnerRuns
    <2>. QED  BY <1>2, <2>1, <2>2, SameList DEF ScanIgnored, IfaceInv
  <1>3. ASSUME NEW conn \in Conns, NEW addressed \in BOOLEAN,
               Status(i, conn, addressed) PROVE IInv'
    <2>1. UNCHANGED <<ifaces, ifIndex, height, scanning, loading, scans, ticks>>
      BY <1>3 DEF Status
    <2>2. statuses' \in [Ifaces -> 0..MaxStatus]
      BY <1>3, BoundAssumption DEF Status, IfaceInv
    <2>3. ListInv'
      BY <1>3, <2>1, SameList, ShownStatus DEF Status, StatusShown, Conns
    <2>4. ShownInv'
      <3>1. SelectedIface' = SelectedIface
        BY <2>1 DEF SelectedIface, Selected
      <3>2. CASE i \in SelectedIface
        <4>1. StatusShown(i, conn, addressed)
          BY <1>3, <3>2 DEF Status
        <4>2. connOf' \subseteq SelectedIface /\ addrOf' \subseteq SelectedIface
          BY <3>2, <4>1 DEF StatusShown
        <4>3. apsOf' \subseteq SelectedIface \/ apsOf' = apsOf
          BY <3>2, <4>1 DEF StatusShown, listVars
        <4>. QED
          BY <2>1, <3>1, <4>2, <4>3, PickedIface
          DEF ShownInv, ListOfSelected, StatusOfSelected, SpinnerRuns
      <3>3. CASE i \notin SelectedIface
        <4>1. UNCHANGED <<apsOf, connOf, addrOf>>
          BY <1>3, <3>3 DEF Status, StatusShown, listVars
        <4>2. \A j \in SelectedIface : statuses[j] > 0 => statuses'[j] > 0
          BY <1>3, <3>3, PickedIface DEF Status, IfaceInv
        <4>. QED  BY <2>1, <4>1, <4>2, SameShown DEF ShownInv, SpinnerRuns
      <3>. QED  BY <3>2, <3>3
    <2>. QED  BY <2>1, <2>2, <2>3, <2>4, SameScan DEF IfaceInv
  <1>. QED  BY <1>1, <1>2, <1>3

LEMMA StepIInv == IInv /\ [Next]_vars => IInv'
  <1>. SUFFICES ASSUME IInv, [Next]_vars PROVE IInv'
    OBVIOUS
  <1>1. CASE SpinnerTick
    <2>1. ticks' \in 0..MaxTicks
      BY <1>1, BoundAssumption DEF SpinnerTick, IInv, ScanInv
    <2>2. ListInv' /\ IfaceInv'
      BY <1>1, SameList DEF SpinnerTick, IInv, IfaceInv
    <2>3. ShownInv'
      BY <1>1, SameShown DEF SpinnerTick, listVars, IInv, ShownInv, SpinnerRuns
    <2>. QED  BY <1>1, <2>1, <2>2, <2>3 DEF SpinnerTick, IInv, ScanInv, OneScanAtATime
  <1>2. CASE UNCHANGED vars
    <2>1. ListInv' /\ ScanInv' /\ IfaceInv'
      BY <1>2, SameList, SameScan DEF vars, listVars, IInv, IfaceInv
    <2>2. ShownInv'
      BY <1>2, SameShown DEF vars, IInv, ShownInv, SpinnerRuns
    <2>. QED  BY <2>1, <2>2 DEF IInv
  <1>. QED
    BY <1>1, <1>2, InterfacesLoadedInv, TabInv, RescanInv, ViewportInv, DeliverInv
    DEF Next, Deliver

LEMMA Inductive == Spec => []IInv
  BY InitIInv, StepIInv, PTL DEF Spec

\* TypeOK: every variable keeps its type; the indices never go negative.
THEOREM TypeCorrect == Spec => []TypeOK
  <1>1. IInv => TypeOK
    BY DEF IInv, ListInv, ListTypes, ScanInv, IfaceInv, ShownInv, TypeOK
  <1>. QED  BY <1>1, Inductive, PTL

\* CursorVisible: no key, resize, result or late message leaves the cursor off
\* the list or outside the viewport.
THEOREM CursorVisibleCorrect == Spec => []CursorVisible
  <1>1. IInv => CursorVisible
    BY DEF IInv, ListInv
  <1>. QED  BY <1>1, Inductive, PTL

\* OneScanAtATime: the UI never has two Scan RPCs under way.
THEOREM OneScanCorrect == Spec => []OneScanAtATime
  <1>1. IInv => OneScanAtATime
    BY DEF IInv, ScanInv
  <1>. QED  BY <1>1, Inductive, PTL

\* ListOfSelected: with no scan running, the list is the selected interface's.
THEOREM ListOfSelectedCorrect == Spec => []ListOfSelected
  <1>1. IInv => ListOfSelected
    BY DEF IInv, ShownInv
  <1>. QED  BY <1>1, Inductive, PTL

\* StatusOfSelected: no late lookup shows another interface's address or connection.
THEOREM StatusOfSelectedCorrect == Spec => []StatusOfSelected
  <1>1. IInv => StatusOfSelected
    BY DEF IInv, ShownInv
  <1>. QED  BY <1>1, Inductive, PTL

\* SpinnerRuns: a scan shown as running has a timer for its spinner.
THEOREM SpinnerRunsCorrect == Spec => []SpinnerRuns
  <1>1. IInv => SpinnerRuns
    BY DEF IInv, ShownInv
  <1>. QED  BY <1>1, Inductive, PTL

-----------------------------------------------------------------------------
(* What a step does to the cursor *)

\* A step that leaves the list and the scans alone moves the cursor by Up or Down
\* only.
LEMMA CursorMoves ==
  ASSUME IInv, Next, UNCHANGED <<aps, scans>>, apIndex' # apIndex
  PROVE  Up \/ Down
  <1>. USE DEF IInv
  <1>1. apIndex \in Nat /\ (aps = <<>> => apIndex = 0)
    BY DEF ListInv, ListTypes
  <1>2. ASSUME NEW i, NEW clear \in BOOLEAN, TriggerScan(i, clear) PROVE FALSE
    BY <1>1, <1>2 DEF TriggerScan, listVars
  <1>3. ASSUME NEW i \in Ifaces, NEW items \in Results, ScanResult(i, items) PROVE FALSE
    <2>1. scans \in [Ifaces -> Nat] /\ scans' = [scans EXCEPT ![i] = @ - 1]
      BY <1>3 DEF ScanResult, ScanInv
    <2>. QED  BY <2>1
  <1>4. ASSUME NEW i, NEW conn, NEW addressed, Status(i, conn, addressed) PROVE FALSE
    BY <1>1, <1>4 DEF Status, StatusShown, listVars
  <1>. QED
    BY <1>2, <1>3, <1>4
    DEF Next, Deliver, InterfacesLoaded, SpinnerTick, ScanIgnored, Resize, Tab, Rescan,
        ScanTick, listVars

\* MarginKept: wherever the viewport was, moving the cursor shows the rows ahead.
THEOREM MarginKeptCorrect == Spec => MarginKept
  <1>. DEFINE Kept == /\ UNCHANGED <<aps, scans, height>>
                      /\ apIndex' # apIndex
                      => LET rows == ListRows(height)
                         IN  IF apIndex' > apIndex
                             THEN top' + rows - 1 - apIndex'
                                    >= Min2(Margin(rows), Len(aps) - 1 - apIndex')
                             ELSE apIndex' - top' >= Min2(Margin(rows), apIndex')
  <1>1. IInv /\ [Next]_vars => [Kept]_vars
    <2>. SUFFICES ASSUME IInv, Next, UNCHANGED <<aps, scans, height>>, apIndex' # apIndex
                  PROVE  Kept
      BY DEF vars
    <2>1. /\ Len(aps) \in Nat /\ apIndex \in Nat /\ top \in Nat
          /\ VisibleRows(height) \in Nat \ {0} /\ ListRows(height) = VisibleRows(height)
          /\ aps # <<>> => apIndex < Len(aps)
          /\ aps = <<>> => Len(aps) = 0 /\ apIndex = 0
      BY HeightType, RowsAgree DEF IInv, ListInv, ListTypes
    <2>2. CASE Up
      <3>1. /\ apIndex' = apIndex - 1
            /\ Len(aps) \in Nat \ {0} /\ apIndex' \in 0..(Len(aps) - 1)
            /\ top' = Scroll(Len(aps), VisibleRows(height), -1, apIndex', top)
        BY <2>1, <2>2 DEF Up
      <3>2. apIndex' - top' >= Min2(Margin(ListRows(height)), apIndex')
        BY <2>1, <3>1, ScrollUpMargin
      <3>. QED  BY <2>1, <3>1, <3>2
    <2>3. CASE Down
      <3>1. /\ apIndex' = apIndex + 1
            /\ Len(aps) \in Nat \ {0} /\ apIndex' \in 0..(Len(aps) - 1)
            /\ top' = Scroll(Len(aps), VisibleRows(height), 1, apIndex', top)
        BY <2>1, <2>3 DEF Down
      <3>2. top' + ListRows(height) - 1 - apIndex'
                >= Min2(Margin(ListRows(height)), Len(aps) - 1 - apIndex')
        BY <2>1, <3>1, ScrollDownMargin
      <3>. QED  BY <2>1, <3>1, <3>2
    <2>. QED  BY <2>2, <2>3, CursorMoves
  <1>. QED  BY <1>1, Inductive, PTL DEF Spec, MarginKept

\* SelectionFollowed: whatever replaces the list, the cursor stays with the id it was
\* on when that id is still listed, for any ids, shared and missing ones among them.
THEOREM SelectionFollowedCorrect == Spec => SelectionFollowed
  <1>. DEFINE Followed == \A a \in SelectedAP :
                            /\ <<aps, scans>>' # <<aps, scans>>
                            /\ IdOf[a] # NoId
                            /\ \E k \in DOMAIN aps' : IdOf[aps'[k]] = IdOf[a]
                            => \E b \in SelectedAP' : IdOf[b] = IdOf[a]
  <1>1. IInv /\ [Next]_vars => [Followed]_vars
    <2>. SUFFICES ASSUME IInv, Next, NEW a \in SelectedAP,
                         <<aps, scans>>' # <<aps, scans>>, IdOf[a] # NoId,
                         NEW k \in DOMAIN aps', IdOf[aps'[k]] = IdOf[a]
                  PROVE  \E b \in SelectedAP' : IdOf[b] = IdOf[a]
      BY DEF vars
    <2>0. CASE UNCHANGED <<aps, apIndex>>
      <3>1. a \in SelectedAP'
        BY <2>0 DEF SelectedAP, Selected
      <3>. QED  BY <3>1
    <2>1. ASSUME NEW i, NEW clear \in BOOLEAN, TriggerScan(i, clear)
          PROVE  UNCHANGED <<aps, apIndex>>
      BY <2>1 DEF TriggerScan, listVars
    <2>2. ASSUME NEW i \in Ifaces, NEW items \in Results, ScanResult(i, items)
          PROVE  \E b \in SelectedAP' : IdOf[b] = IdOf[a]
      <3>1. aps' = items /\ apIndex' = NewIndex(items)
        BY <2>2 DEF ScanResult
      <3>2. k \in SameId(items)
        BY <3>1 DEF SameId
      <3>3. /\ apIndex' \in Nat /\ apIndex' < Len(items)
            /\ apIndex' + 1 \in SameId(items)
        <4>1. ListInv /\ items # <<>> /\ Len(items) \in Nat
          BY <3>1, ResultType DEF IInv
        <4>. QED  BY <3>1, <3>2, <4>1, NewIndexInRange
      <3>4. SelectedAP' = {items[apIndex' + 1]}
        BY <3>1, <3>3 DEF SelectedAP, Selected
      <3>5. SelectedAP = {a}
        BY DEF SelectedAP, Selected
      <3>6. IdOf[items[apIndex' + 1]] = IdOf[a]
        BY <3>3, <3>5 DEF SameId
      <3>. QED  BY <3>4, <3>6
    <2>3. ASSUME NEW i, NEW conn, NEW addressed, Status(i, conn, addressed)
          PROVE  UNCHANGED <<aps, apIndex>>
      <3>1. aps # <<>>
        BY DEF SelectedAP, Selected, IInv, ListInv, ListTypes
      <3>. QED  BY <2>3, <3>1 DEF Status, StatusShown, listVars
    <2>4. CASE SpinnerTick \/ \E i \in Ifaces : ScanIgnored(i)
      BY <2>0, <2>4 DEF SpinnerTick, ScanIgnored, listVars
    <2>5. CASE Up \/ Down \/ \E h \in Heights : Resize(h)
      BY <2>5 DEF Up, Down, Resize
    <2>6. CASE Tab \/ Rescan \/ ScanTick
      BY <2>0, <2>1, <2>6 DEF Tab, Rescan, ScanTick
    <2>7. ASSUME NEW list, InterfacesLoaded(list)
          PROVE  UNCHANGED <<aps, apIndex>>
      BY <2>1, <2>7 DEF InterfacesLoaded, listVars
    <2>. QED
      BY <2>0, <2>2, <2>3, <2>4, <2>5, <2>6, <2>7 DEF Next, Deliver
  <1>. QED  BY <1>1, Inductive, PTL DEF Spec, SelectionFollowed

\* ScanNotClobbered: only the start or the end of a scan changes a list that is not
\* empty; a late lookup does not.
THEOREM ScanNotClobberedCorrect == Spec => ScanNotClobbered
  <1>. DEFINE Kept == aps' # aps /\ aps # <<>> => scans' # scans
  <1>1. IInv /\ [Next]_vars => [Kept]_vars
    <2>. SUFFICES ASSUME IInv, Next, aps' # aps, aps # <<>>
                  PROVE  scans' # scans
      BY DEF vars
    <2>1. scans \in [Ifaces -> Nat]
      BY DEF IInv, ScanInv
    <2>2. ASSUME NEW i \in Ifaces, NEW clear \in BOOLEAN, TriggerScan(i, clear)
          PROVE  scans' # scans
      <3>1. scans' = [scans EXCEPT ![i] = @ + 1]
        BY <2>2 DEF TriggerScan, listVars
      <3>. QED  BY <2>1, <3>1
    <2>3. ASSUME NEW i \in Ifaces, NEW items \in Results, ScanResult(i, items)
          PROVE  scans' # scans
      BY <2>1, <2>3 DEF ScanResult
    <2>4. ASSUME NEW i, NEW conn, NEW addressed, Status(i, conn, addressed) PROVE FALSE
      BY <2>4 DEF Status, StatusShown, listVars
    <2>5. ASSUME NEW list \in {<<>>, IfaceList}, InterfacesLoaded(list)
          PROVE  scans' # scans
      <3>1. CASE list = <<>>
        BY <2>5, <3>1 DEF InterfacesLoaded, listVars
      <3>2. CASE list # <<>>
        <4>1. /\ Len(list) \in Nat \ {0} /\ ifIndex \in Nat
              /\ ifIndex' = IF ifIndex >= Len(list) THEN 0 ELSE ifIndex
          BY <2>5, <3>2, IfaceAssumption DEF InterfacesLoaded, IInv, IfaceInv
        <4>2. list[ifIndex' + 1] \in Ifaces
          BY <3>2, <4>1, PickedIface DEF IInv
        <4>3. TriggerScan(list[ifIndex' + 1], TRUE)
          BY <2>5, <3>2 DEF InterfacesLoaded
        <4>. QED  BY <2>2, <4>2, <4>3
      <3>. QED  BY <3>1, <3>2
    <2>6. CASE Tab
      <3>1. /\ Len(ifaces) \in Nat \ {0} /\ ifaces = IfaceList /\ ifIndex \in Nat
            /\ ifIndex' = (ifIndex + 1) % Len(ifaces)
        BY <2>6, IfaceAssumption DEF Tab, IInv, IfaceInv
      <3>2. ifaces[ifIndex' + 1] \in Ifaces
        BY <3>1, PickedIface DEF IInv
      <3>3. TriggerScan(ifaces[ifIndex' + 1], TRUE)
        BY <2>6 DEF Tab
      <3>. QED  BY <2>2, <3>2, <3>3
    <2>7. CASE Rescan \/ ScanTick
      <3>1. PICK i \in SelectedIface : TriggerScan(i, FALSE)
        BY <2>7 DEF Rescan, ScanTick
      <3>2. i \in Ifaces
        BY PickedIface DEF IInv
      <3>. QED  BY <2>2, <3>1, <3>2
    <2>. QED
      BY <2>3, <2>4, <2>5, <2>6, <2>7
      DEF Next, Deliver, SpinnerTick, ScanIgnored, Resize, Up, Down, listVars
  <1>. QED  BY <1>1, Inductive, PTL DEF Spec, ScanNotClobbered
-----------------------------------------------------------------------------
(* The scan that never ends *)

\* A scan is started or kept waiting, for an interface the server has: what happens
\* to the scans in every step that may trigger one.
LEMMA Triggered ==
  ASSUME IInv, Next,
         ~ \E i \in Ifaces : ScanIgnored(i) \/ \E items \in Results : ScanResult(i, items)
  PROVE  \/ UNCHANGED <<scanning, scans>>
         \/ \E i \in Ifaces : /\ ~scanning /\ scanning'
                              /\ scans' = [scans EXCEPT ![i] = @ + 1]
  <1>1. ASSUME NEW i \in Ifaces, NEW clear \in BOOLEAN, TriggerScan(i, clear)
        PROVE  \/ UNCHANGED <<scanning, scans>>
               \/ \E k \in Ifaces : /\ ~scanning /\ scanning'
                                    /\ scans' = [scans EXCEPT ![k] = @ + 1]
    BY <1>1 DEF TriggerScan
  <1>2. ASSUME NEW list \in {<<>>, IfaceList}, InterfacesLoaded(list), list # <<>>
        PROVE  list[ifIndex' + 1] \in Ifaces /\ TriggerScan(list[ifIndex' + 1], TRUE)
    <2>1. /\ Len(list) \in Nat \ {0} /\ ifIndex \in Nat
          /\ ifIndex' = IF ifIndex >= Len(list) THEN 0 ELSE ifIndex
      BY <1>2, IfaceAssumption DEF InterfacesLoaded, IInv, IfaceInv
    <2>2. list[ifIndex' + 1] \in Ifaces
      BY <1>2, <2>1, PickedIface DEF IInv
    <2>. QED  BY <1>2, <2>2 DEF InterfacesLoaded
  <1>3. ASSUME Tab
        PROVE  ifaces[ifIndex' + 1] \in Ifaces /\ TriggerScan(ifaces[ifIndex' + 1], TRUE)
    <2>1. /\ Len(ifaces) \in Nat \ {0} /\ ifaces = IfaceList /\ ifIndex \in Nat
          /\ ifIndex' = (ifIndex + 1) % Len(ifaces)
      BY <1>3, IfaceAssumption DEF Tab, IInv, IfaceInv
    <2>2. ifaces[ifIndex' + 1] \in Ifaces
      BY <2>1, PickedIface DEF IInv
    <2>. QED  BY <1>3, <2>2 DEF Tab
  <1>4. ASSUME Rescan \/ ScanTick PROVE \E i \in Ifaces : TriggerScan(i, FALSE)
    BY <1>4, PickedIface DEF Rescan, ScanTick, IInv
  <1>5. ASSUME NEW list \in {<<>>, IfaceList}, InterfacesLoaded(list), list = <<>>
        PROVE  UNCHANGED <<scanning, scans>>
    BY <1>5 DEF InterfacesLoaded
  <1>6. CASE (\E h \in Heights : Resize(h)) \/ Up \/ Down \/ SpinnerTick
    BY <1>6 DEF Resize, Up, Down, SpinnerTick
  <1>7. ASSUME NEW i, NEW conn, NEW addressed, Status(i, conn, addressed)
        PROVE  UNCHANGED <<scanning, scans>>
    BY <1>7 DEF Status
  <1>. QED  BY <1>1, <1>2, <1>3, <1>4, <1>5, <1>6, <1>7 DEF Next, Deliver

\* StuckForGood: triggerScan refuses while `scanning` is set, and only the result of
\* a scan under way clears it: in a stuck UI neither ever happens again, whatever the
\* user does (model.go:271 and triggerScan).
THEOREM StuckForGoodCorrect == Spec => StuckForGood
  <1>1. ASSUME IInv, [Next]_vars, Stuck PROVE Stuck'
    <2>1. CASE UNCHANGED vars
      BY <1>1, <2>1 DEF vars, Stuck
    <2>2. ~ \E i \in Ifaces : ScanIgnored(i) \/ \E items \in Results : ScanResult(i, items)
      <3>1. \A i \in Ifaces : ~(scans[i] > 0)
        BY <1>1 DEF Stuck
      <3>. QED  BY <3>1 DEF ScanIgnored, ScanResult
    <2>. QED  BY <1>1, <2>1, <2>2, Triggered DEF Stuck
  <1>2. IInv /\ [Next]_vars => [Stuck => Stuck']_vars
    BY <1>1
  <1>. QED  BY <1>2, Inductive, PTL DEF Spec, StuckForGood

\* StuckByLeaving: while every result is of the selected interface the flag and the
\* scans end together; only a dropped result takes the scan and leaves the flag.
THEOREM StuckByLeavingCorrect == Spec => StuckByLeaving
  <1>1. ASSUME IInv, [Next]_vars, ~Stuck, Stuck', ~ \E i \in Ifaces : ScanIgnored(i)
        PROVE  FALSE
    <2>1. ~UNCHANGED vars /\ ~UNCHANGED <<scanning, scans>>
      BY <1>1 DEF vars, Stuck
    <2>2. ASSUME NEW i \in Ifaces, NEW items \in Results, ScanResult(i, items) PROVE FALSE
      BY <1>1, <2>2 DEF ScanResult, Stuck
    <2>3. PICK i \in Ifaces : scans' = [scans EXCEPT ![i] = @ + 1]
      BY <1>1, <2>1, <2>2, Triggered
    <2>4. scans'[i] = scans[i] + 1 /\ scans[i] \in Nat
      <3>1. scans \in [Ifaces -> Nat]
        BY <1>1 DEF IInv, ScanInv
      <3>. QED  BY <2>3, <3>1
    <2>. QED  BY <1>1, <2>4 DEF Stuck
  <1>2. IInv /\ [Next]_vars =>
          [~Stuck /\ Stuck' => \E i \in Ifaces : ScanIgnored(i)]_vars
    BY <1>1
  <1>. QED  BY <1>2, Inductive, PTL DEF Spec, StuckByLeaving
=============================================================================
