--------------------------- MODULE DashboardProofs ---------------------------
(***************************************************************************)
(* Proofs about Dashboard, for every page size, every width of the scroll, *)
(* every set of scenarios and any number of rows, failures and keys.  The  *)
(* selection is safe because each handler that changes what is listed goes *)
(* to the top before the list can change, and each new list clamps it; and *)
(* a frame is true because between the two reads of a reload a table only  *)
(* grows.                                                                  *)
(***************************************************************************)
EXTENDS Dashboard, FiniteSetTheorems, TLAPS

\* The tables are sequences of rows, and the list is a page of one.
DataInv ==
  /\ scenario \in DOMAIN Settings
  /\ rows \in Seq(Kinds) /\ read \in Seq(Kinds)
  /\ Len(requests) \in 0..PageSize
  /\ requests = <<>> <=> Len(requests) = 0
  /\ stats.total \in Nat /\ stats.errors \in Nat
  /\ failed \in BOOLEAN

\* The selection is a row of the list, in every phase.
SelectedInv == requests # <<>> => selected < Len(requests)

\* While a key is awaited the operator sees what the selection highlights.
FrameInv ==
  phase = "input" => frame = Highlighted

\* The second read of a reload finds no fewer rows than the first.
ReadInv ==
  phase = "list" => ~failed /\ stats.total <= Len(rows) /\ stats.errors <= Stats(rows).errors

\* A detail has a line to scroll to.
DetailInv ==
  /\ detail.lines \in Nat \ {0}
  /\ scroll \in Nat
  /\ ScrollOnText

IInv ==
  /\ TypeOK
  /\ DataInv
  /\ SelectedInv
  /\ FrameInv
  /\ ReadInv
  /\ ListIsTrue
  /\ DetailInv

-----------------------------------------------------------------------------
(* Operators.                                                              *)

\* FiniteSetsExt's Min of two numbers.
LEMMA MinOfTwo ==
  ASSUME NEW a \in Nat, NEW b \in Nat
  PROVE  Min({a, b}) \in Nat /\ Min({a, b}) = (IF a <= b THEN a ELSE b)
<1>1. PICK m \in {a, b} : \A y \in {a, b} : m =< y
  OBVIOUS
<1>2. Min({a, b}) \in {a, b} /\ \A y \in {a, b} : Min({a, b}) =< y
  BY <1>1 DEF Min
<1>3. QED
  BY <1>2

\* A tab, an order, a method or a status has a next one.
LEMMA CycleStays ==
  ASSUME NEW items, Len(items) \in Nat \ {0}, NEW item, \E i \in 1..Len(items) : item = items[i]
  PROVE  \E i \in 1..Len(items) : Cycle(items, item) = items[i]
<1> DEFINE i == CHOOSE i \in 1..Len(items) : items[i] = item
<1>1. i \in 1..Len(items)
  OBVIOUS
<1>2. (i % Len(items)) + 1 \in 1..Len(items)
  BY <1>1
<1>3. Cycle(items, item) = items[(i % Len(items)) + 1]
  BY DEF Cycle
<1>4. QED
  BY <1>2, <1>3

\* What the database says of a table is about numbers, and more for more rows.
LEMMA StatsOfTable ==
  ASSUME NEW table \in Seq(Kinds)
  PROVE  /\ Stats(table).total = Len(table)
         /\ Stats(table).errors \in Nat
         /\ \A kind \in Kinds : Stats(table).errors <= Stats(Append(table, kind)).errors
<1> DEFINE Errors(t) == {i \in 1..Len(t) : IsError(t[i])}
<1>1. ASSUME NEW t \in Seq(Kinds)
      PROVE  IsFiniteSet(Errors(t)) /\ Cardinality(Errors(t)) \in Nat
  <2>1. IsFiniteSet(1..Len(t))
    BY FS_Interval
  <2>2. QED
    BY <2>1, FS_Subset, FS_CardinalityType
<1>2. ASSUME NEW kind \in Kinds
      PROVE  Cardinality(Errors(table)) <= Cardinality(Errors(Append(table, kind)))
  <2>1. Append(table, kind) \in Seq(Kinds)
    OBVIOUS
  <2>2. Errors(table) \in SUBSET Errors(Append(table, kind))
    OBVIOUS
  <2>3. QED
    BY <1>1, <2>1, <2>2, FS_Subset
<1>3. QED
  BY <1>1, <1>2 DEF Stats

\* fetch_requests returns a page, and nothing of an empty table.
LEMMA FetchedPage ==
  ASSUME NEW asked, NEW table \in Seq(Kinds)
  PROVE  /\ Len(Fetched(asked, table)) \in 0..PageSize
         /\ Fetched(asked, table) = <<>> <=> Len(Fetched(asked, table)) = 0
         /\ table = <<>> => Fetched(asked, table) = <<>>
<1> DEFINE passing == {i \in 1..Len(table) : Passes(asked, table[i])}
           size == Min({PageSize, Cardinality(passing)})
           Preceding(i) == {j \in passing : Before(asked, table, j, i)}
           Nth(n) == CHOOSE i \in passing : Cardinality(Preceding(i)) = n - 1
<1>1. Cardinality(passing) \in Nat /\ (passing = {} => Cardinality(passing) = 0)
  <2>1. IsFiniteSet(1..Len(table))
    BY FS_Interval
  <2>2. QED
    BY <2>1, FS_Subset, FS_CardinalityType, FS_EmptySet
<1>2. size \in 0..PageSize /\ (passing = {} => size = 0)
  BY <1>1, MinOfTwo, DashboardAssumption
<1>3. Fetched(asked, table) = [n \in 1..size |-> Nth(n)]
  BY DEF Fetched
<1> HIDE DEF size, Nth
<1>4. Len([n \in 1..size |-> Nth(n)]) = size
  BY <1>2
<1>5. size = 0 => [n \in 1..size |-> Nth(n)] = <<>>
  BY <1>2
<1>6. [n \in 1..size |-> Nth(n)] = <<>> => size = 0
  BY <1>2, <1>4
<1>7. table = <<>> => passing = {}
  OBVIOUS
<1>8. QED
  BY <1>2, <1>3, <1>4, <1>5, <1>6, <1>7

-----------------------------------------------------------------------------
(* The initial state.                                                      *)

LEMMA InvInit == Init => IInv
<1> SUFFICES ASSUME Init PROVE IInv
  OBVIOUS
<1>1. \A s \in Seq(Kinds) : Len(s) \in Nat
  OBVIOUS
<1>2. TypeOK
  <2>1. NoFilters \in Filters
    <3>1. "any" = Methods[1] /\ 1 \in 1..Len(Methods) /\ "any" = Statuses[1] /\ 1 \in 1..Len(Statuses)
      BY DEF Methods, Statuses
    <3>2. 0 \in 0..MaxTyped
      BY DashboardAssumption
    <3>3. QED
      BY <3>1, <3>2 DEF NoFilters, Filters
  <2>2. tab = Tabs[1] /\ 1 \in 1..Len(Tabs) /\ sort = Sorts[1] /\ 1 \in 1..Len(Sorts)
    BY DEF Init, Tabs, Sorts
  <2>3. QED
    BY <2>1, <2>2, DashboardAssumption DEF Init, TypeOK
<1>3. DataInv
  <2>1. scenario \in DOMAIN Settings /\ failed \in BOOLEAN
    BY DEF Init
  <2>2. stats.total \in Nat /\ stats.errors \in Nat
    BY DEF Init, NoStats
  <2>3. rows \in Seq(Kinds) /\ read \in Seq(Kinds)
    BY DEF Init
  <2>4. requests = <<>> /\ Len(requests) = 0
    BY DEF Init
  <2>5. 0 \in 0..PageSize
    BY DashboardAssumption
  <2>6. QED
    BY <2>1, <2>2, <2>3, <2>4, <2>5 DEF DataInv
<1>4. SelectedInv /\ FrameInv /\ ReadInv
  BY DEF Init, SelectedInv, FrameInv, ReadInv
<1>5. ListIsTrue
  BY DEF Init, ListIsTrue, AtRest
<1>6. DetailInv
  BY DEF Init, DetailInv, ScrollOnText, NoDetail
<1>7. QED
  BY <1>2, <1>3, <1>4, <1>5, <1>6 DEF IInv

-----------------------------------------------------------------------------
(* What a key does to the list: nothing but move the selection.  A key that *)
(* changes what is asked for goes to the top and reloads.                   *)

LEMMA KeyMoves ==
  ASSUME TypeOK, DataInv, KeyEvent
  PROVE  /\ phase = "input" /\ frame' = NoRow
         /\ UNCHANGED <<outside, data>>
         /\ phase' \in {"draw", "stats", "quit"}
         /\ phase' = "draw" => UNCHANGED controls
         /\ \/ selected' = 0 \/ selected' = selected
            \/ selected' = selected + 1 /\ selected + 1 < Len(requests)
            \/ selected > 0 /\ selected' = selected - 1
<1>1. CASE Quit
  BY <1>1 DEF Quit, Key
<1>2. CASE Refresh
  BY <1>2 DEF Refresh, Key, Reload
<1>3. CASE NextRow
  BY <1>3 DEF NextRow, Key, Redraw
<1>4. CASE PreviousRow
  BY <1>4 DEF PreviousRow, Key, Redraw
<1>5. CASE SetTab
  BY <1>5 DEF SetTab, Key, FromTheTop, Reload
<1>6. CASE CycleSort
  BY <1>6 DEF CycleSort, Key, FromTheTop, Reload
<1>7. CASE StartSearch
  BY <1>7 DEF StartSearch, Key, Redraw
<1>8. CASE EndSearch
  BY <1>8 DEF EndSearch, Key, Redraw
<1>9. CASE AddSearchChar
  BY <1>9 DEF AddSearchChar, Key, FromTheTop, Reload
<1>10. CASE PopSearchChar
  BY <1>10 DEF PopSearchChar, Key, FromTheTop, Reload
<1>11. CASE ClearSearch
  BY <1>11 DEF ClearSearch, Key, FromTheTop, Reload
<1>12. CASE OpenFilterEditor
  BY <1>12 DEF OpenFilterEditor, Key, Redraw
<1>13. CASE CloseFilterEditor
  BY <1>13 DEF CloseFilterEditor, Key, Redraw
<1>14. CASE ApplyFilterEditor
  BY <1>14 DEF ApplyFilterEditor, Key, FromTheTop, Reload
<1>15. CASE MoveField
  BY <1>15 DEF MoveField, Key, Redraw
<1>16. CASE EditDraft
  BY <1>16 DEF EditDraft, Key, Redraw
<1>17. CASE OpenDetail
  BY <1>17 DEF OpenDetail, Key, Redraw
<1>18. CASE CloseDetail
  BY <1>18 DEF CloseDetail, Key, Redraw
<1>19. CASE Scroll
  BY <1>19 DEF Scroll, Key, Redraw
<1>20. QED
  BY <1>1, <1>2, <1>3, <1>4, <1>5, <1>6, <1>7, <1>8, <1>9, <1>10, <1>11, <1>12,
     <1>13, <1>14, <1>15, <1>16, <1>17, <1>18, <1>19 DEF KeyEvent

\* Outside, rows are added or the table is removed, and nothing else changes.
LEMMA OutsideMoves ==
  ASSUME DataInv, Commit \/ RemoveDatabase \/ CreateDatabase
  PROVE  /\ UNCHANGED <<phase, frame, controls, editor, data, selected, modal, scenario>>
         /\ rows' \in Seq(Kinds)
         /\ phase = "list" =>
              rows' = rows \/ \E kind \in Kinds : rows' = Append(rows, kind)
<1>1. CASE Commit
  <2>1. PICK kind \in Settings[scenario].kinds : rows' = Append(rows, kind)
    BY <1>1 DEF Commit
  <2>2. kind \in Kinds
    BY DashboardAssumption DEF DataInv
  <2>3. QED
    BY <1>1, <2>1, <2>2 DEF Commit, DataInv
<1>2. CASE RemoveDatabase
  BY <1>2 DEF RemoveDatabase
<1>3. CASE CreateDatabase
  BY <1>3 DEF CreateDatabase, DataInv
<1>4. QED
  BY <1>1, <1>2, <1>3

-----------------------------------------------------------------------------
(* The list, the selection and the statistics.                             *)

LEMMA ListInductive ==
  ASSUME TypeOK, DataInv, SelectedInv, FrameInv, ReadInv, ListIsTrue, [Next]_vars
  PROVE  DataInv' /\ SelectedInv' /\ FrameInv' /\ ReadInv' /\ ListIsTrue'
<1> USE DEF outside, controls, data, modal, editor
<1>1. ASSUME UNCHANGED controls
      PROVE  \A table : Fetched(Asked, table) = Fetched(Asked', table)
  BY <1>1 DEF Asked
<1>2. CASE Draw \/ Timeout
  <2>1. /\ UNCHANGED <<outside, controls, data, selected>>
        /\ phase = "draw" \/ phase = "input"
        /\ \/ phase' = "draw" \/ phase' = "stats"
           \/ phase' = "input"
              /\ frame' = Highlighted
    BY <1>2 DEF Draw, Timeout, AfterTimeout
  <2>2. DataInv' /\ SelectedInv' /\ FrameInv' /\ ReadInv'
    BY <2>1 DEF DataInv, SelectedInv, FrameInv, ReadInv, Highlighted
  <2>3. ListIsTrue'
    <3>1. AtRest' /\ ~failed' => requests' = Fetched(Asked', read')
      BY <1>1, <2>1 DEF ListIsTrue, AtRest, Listing
    <3>2. QED
      BY <2>1, <3>1 DEF ListIsTrue, AtRest, Listing, Stats
  <2>4. QED
    BY <2>2, <2>3
<1>3. CASE ReadFails
  <2>1. phase' = "draw" /\ failed' = TRUE /\ UNCHANGED <<rows, scenario, requests, stats, read, selected>>
    BY <1>3 DEF ReadFails
  <2>2. DataInv' /\ SelectedInv' /\ FrameInv' /\ ReadInv'
    BY <2>1 DEF DataInv, SelectedInv, FrameInv, ReadInv
  <2>3. ListIsTrue'
    BY <2>1 DEF ListIsTrue
  <2>4. QED
    BY <2>2, <2>3
<1>4. CASE ReadNothing
  <2>1. /\ phase' = "draw" /\ failed' = FALSE /\ requests' = <<>> /\ read' = <<>>
        /\ stats'.total = 0 /\ stats'.errors = 0 /\ UNCHANGED <<rows, scenario>>
    BY <1>4 DEF ReadNothing, NoStats
  <2>2. <<>> \in Seq(Kinds) /\ Len(<<>>) = 0 /\ 0 \in 0..PageSize
    BY DashboardAssumption
  <2>3. DataInv'
    <3>1. scenario' \in DOMAIN Settings /\ rows' \in Seq(Kinds) /\ read' \in Seq(Kinds)
      BY <2>1, <2>2 DEF DataInv
    <3>2. Len(requests') \in 0..PageSize /\ (requests' = <<>> <=> Len(requests') = 0)
      BY <2>1, <2>2
    <3>3. failed' \in BOOLEAN
      BY <2>1
    <3>4. stats'.total \in Nat /\ stats'.errors \in Nat
      BY <2>1
    <3>5. QED
      BY <3>1, <3>2, <3>3, <3>4 DEF DataInv
  <2>4. SelectedInv' /\ FrameInv' /\ ReadInv'
    BY <2>1 DEF SelectedInv, FrameInv, ReadInv
  <2>5. Fetched(Asked', <<>>) = <<>>
    BY <2>2, FetchedPage
  <2>6. Stats(<<>>).errors \in Nat
    BY <2>2, StatsOfTable
  <2>7. Stats(read').errors \in Nat /\ Stats(read)' = Stats(read')
    BY <2>1, <2>6 DEF Stats
  <2>8. ListIsTrue'
    BY <2>1, <2>2, <2>5, <2>7 DEF ListIsTrue, Listing
  <2>9. QED
    BY <2>3, <2>4, <2>8
<1>5. CASE ReadStats
  <2>1. /\ phase' = "list" /\ failed' = FALSE /\ stats' = Stats(rows)
        /\ UNCHANGED <<rows, scenario, requests, read, selected>>
    BY <1>5 DEF ReadStats
  <2>2. Stats(rows).total = Len(rows) /\ Stats(rows).errors \in Nat /\ Len(rows) \in Nat
    BY StatsOfTable DEF DataInv
  <2>3. Stats(rows)' = Stats(rows)
    BY <2>1 DEF Stats
  <2>4. DataInv' /\ SelectedInv' /\ FrameInv'
    BY <2>1, <2>2 DEF DataInv, SelectedInv, FrameInv
  <2>5. ReadInv'
    BY <2>1, <2>2, <2>3 DEF ReadInv
  <2>6. ListIsTrue'
    BY <2>1 DEF ListIsTrue, AtRest
  <2>7. QED
    BY <2>4, <2>5, <2>6
<1>6. CASE ReadList
  <2>1. /\ phase = "list" /\ phase' = "draw" /\ requests' = Listing(rows) /\ read' = rows
        /\ selected' = Clamped(Listing(rows))
        /\ UNCHANGED <<rows, scenario, controls, stats, failed>>
    BY <1>6 DEF ReadList
  <2>2. /\ Len(requests') \in 0..PageSize
        /\ requests' = <<>> <=> Len(requests') = 0
    BY <2>1, FetchedPage DEF DataInv, Listing
  <2>3. DataInv'
    BY <2>1, <2>2 DEF DataInv
  <2>4. SelectedInv'
    BY <2>1, <2>2, DashboardAssumption DEF SelectedInv, Clamped, TypeOK
  <2>5. FrameInv' /\ ReadInv'
    BY <2>1 DEF FrameInv, ReadInv
  <2>6. requests' = Fetched(Asked', read')
    BY <1>1, <2>1 DEF Listing
  <2>7. Stats(read)' = Stats(rows)
    BY <2>1 DEF Stats
  <2>8. ListIsTrue'
    BY <2>1, <2>6, <2>7 DEF ListIsTrue, Listing, ReadInv
  <2>9. QED
    BY <2>3, <2>4, <2>5, <2>8
<1>7. CASE KeyEvent
  <2>1. /\ phase = "input" /\ frame' = NoRow
        /\ UNCHANGED <<outside, data>>
        /\ phase' \in {"draw", "stats", "quit"}
        /\ phase' = "draw" => UNCHANGED controls
        /\ \/ selected' = 0 \/ selected' = selected
           \/ selected' = selected + 1 /\ selected + 1 < Len(requests)
           \/ selected > 0 /\ selected' = selected - 1
    BY <1>7, KeyMoves
  <2>2. DataInv' /\ FrameInv' /\ ReadInv'
    BY <2>1 DEF DataInv, FrameInv, ReadInv
  <2>3. SelectedInv'
    BY <2>1, DashboardAssumption, SMTT(60) DEF SelectedInv, DataInv, TypeOK
  <2>4. AtRest' => requests' = requests /\ UNCHANGED controls
    BY <2>1 DEF AtRest
  <2>5. AtRest' /\ ~failed' => requests' = Fetched(Asked', read')
    BY <1>1, <2>1, <2>4 DEF ListIsTrue, AtRest, Listing
  <2>6. ListIsTrue'
    BY <2>1, <2>5 DEF ListIsTrue, AtRest, Listing, Stats
  <2>7. QED
    BY <2>2, <2>3, <2>6
<1>8. CASE Commit \/ RemoveDatabase \/ CreateDatabase
  <2>1. /\ UNCHANGED <<phase, frame, controls, data, selected, scenario>>
        /\ rows' \in Seq(Kinds)
        /\ phase = "list" =>
              rows' = rows \/ \E kind \in Kinds : rows' = Append(rows, kind)
    BY <1>8, OutsideMoves
  <2>2. DataInv' /\ SelectedInv' /\ FrameInv'
    BY <2>1 DEF DataInv, SelectedInv, FrameInv, Highlighted
  <2>3. ReadInv'
    <3>1. SUFFICES ASSUME phase = "list"
                   PROVE  Len(rows) <= Len(rows') /\ Stats(rows).errors <= Stats(rows').errors
      <4>1. Stats(rows)' = Stats(rows')
        BY DEF Stats
      <4>2. Stats(rows).errors \in Nat /\ Stats(rows').errors \in Nat
        BY <2>1, StatsOfTable DEF DataInv
      <4>3. Len(rows) \in Nat /\ Len(rows') \in Nat
        BY <2>1 DEF DataInv
      <4>4. QED
        BY <2>1, <4>1, <4>2, <4>3 DEF ReadInv, DataInv
    <3>2. CASE rows' = rows
      <4>1. Stats(rows).errors \in Nat
        BY StatsOfTable DEF DataInv
      <4>2. QED
        BY <3>2, <4>1 DEF DataInv
    <3>3. CASE \E kind \in Kinds : rows' = Append(rows, kind)
      <4>1. PICK kind \in Kinds : rows' = Append(rows, kind)
        BY <3>3
      <4>2. QED
        BY <4>1, StatsOfTable DEF DataInv
    <3>4. QED
      BY <2>1, <3>1, <3>2, <3>3
  <2>4. AtRest' /\ ~failed' => requests' = Fetched(Asked', read')
    BY <1>1, <2>1 DEF ListIsTrue, AtRest, Listing
  <2>5. ListIsTrue'
    BY <2>1, <2>4 DEF ListIsTrue, AtRest, Listing, Stats
  <2>6. QED
    BY <2>2, <2>3, <2>5
<1>9. CASE UNCHANGED vars
  <2>1. UNCHANGED <<outside, phase, frame, controls, data, selected>>
    BY <1>9 DEF vars
  <2>2. DataInv' /\ SelectedInv' /\ FrameInv'
    BY <2>1 DEF DataInv, SelectedInv, FrameInv, Highlighted
  <2>3. ReadInv'
    BY <2>1 DEF ReadInv, Stats
  <2>4. AtRest' /\ ~failed' => requests' = Fetched(Asked', read')
    BY <1>1, <2>1 DEF ListIsTrue, AtRest, Listing
  <2>5. ListIsTrue'
    BY <2>1, <2>4 DEF ListIsTrue, AtRest, Listing, Stats
  <2>6. QED
    BY <2>2, <2>3, <2>5
<1>10. QED
  BY <1>2, <1>3, <1>4, <1>5, <1>6, <1>7, <1>8, <1>9 DEF Next, Reading

-----------------------------------------------------------------------------
(* The detail.                                                             *)

\* A remainder is no more than the number.
LEMMA Remainder ==
  ASSUME NEW a \in Nat, NEW n \in Nat \ {0}
  PROVE  a % n \in Nat /\ a % n <= a
OBVIOUS

\* Three handlers touch the detail.
LEMMA ModalMoves ==
  [Next]_vars => UNCHANGED modal \/ OpenDetail \/ CloseDetail \/ Scroll
<1>1. Draw \/ Timeout \/ Reading \/ Commit \/ RemoveDatabase \/ CreateDatabase
        \/ UNCHANGED vars => UNCHANGED modal
  BY DEF Draw, Timeout, Reading, ReadFails, ReadNothing, ReadStats, ReadList, Commit,
         RemoveDatabase, CreateDatabase, vars
<1>2. KeyEvent => UNCHANGED modal \/ OpenDetail \/ CloseDetail \/ Scroll
  BY DEF KeyEvent, Quit, Refresh, NextRow, PreviousRow, SetTab, CycleSort, StartSearch,
         EndSearch, AddSearchChar, PopSearchChar, ClearSearch, OpenFilterEditor,
         CloseFilterEditor, ApplyFilterEditor, MoveField, EditDraft, FromTheTop, modal
<1>3. QED
  BY <1>1, <1>2 DEF Next

LEMMA DetailInductive ==
  ASSUME DataInv, DetailInv, [Next]_vars
  PROVE  DetailInv'
<1>1. CASE UNCHANGED modal
  BY <1>1 DEF modal, DetailInv, ScrollOnText
<1>2. CASE OpenDetail /\ ~UNCHANGED modal
  <2>1. /\ RowToOpen \in 1..Len(rows)
        /\ detail' = [id |-> RowToOpen, lines |-> rows[RowToOpen].lines]
        /\ scroll' = 0
    BY <1>2 DEF OpenDetail
  <2>2. rows[RowToOpen] \in Kinds
    BY <2>1 DEF DataInv
  <2>3. detail'.lines \in Nat \ {0}
    BY <2>1, <2>2 DEF Kinds
  <2>4. QED
    BY <2>1, <2>3 DEF DetailInv, ScrollOnText
<1>3. CASE CloseDetail
  BY <1>3 DEF CloseDetail, DetailInv, ScrollOnText, NoDetail
<1>4. CASE Scroll
  <2>1. detail' = detail /\ detail # NoDetail
    BY <1>4 DEF Scroll, Key, Mode
  <2>2. MaxScroll \in Nat /\ MaxScroll < detail.lines
    BY Remainder, DashboardAssumption DEF MaxScroll, DetailInv
  <2>3. ASSUME NEW n \in Nat
        PROVE  Down(n) \in Nat /\ Down(n) <= MaxScroll
    <3>1. PICK m \in {scroll + n, ScrollSpace - 1, MaxScroll} :
            \A y \in {scroll + n, ScrollSpace - 1, MaxScroll} : m =< y
      BY <2>2, DashboardAssumption DEF DetailInv
    <3>2. /\ Down(n) \in {scroll + n, ScrollSpace - 1, MaxScroll}
          /\ \A y \in {scroll + n, ScrollSpace - 1, MaxScroll} : Down(n) =< y
      BY <3>1 DEF Down, Min
    <3>3. QED
      BY <2>2, <3>2, DashboardAssumption DEF DetailInv
  <2>4. ASSUME NEW n \in Nat
        PROVE  Up(n) \in Nat /\ Up(n) <= scroll
    BY DEF Up, DetailInv
  <2>5. \E n \in Nat : scroll' = Down(n) \/ scroll' = Up(n)
    BY <1>4, DashboardAssumption DEF Scroll
  <2>6. scroll' \in Nat /\ scroll' < detail.lines
    BY <2>2, <2>3, <2>4, <2>5 DEF DetailInv, ScrollOnText
  <2>7. QED
    BY <2>1, <2>6 DEF DetailInv, ScrollOnText
<1>5. QED
  BY <1>1, <1>2, <1>3, <1>4, ModalMoves

\* The row that opens is the one that was highlighted: the selection and the list
\* are those of the frame, and the only row of the file with that id is asked for.
LEMMA OpensHighlighted ==
  ASSUME TypeOK, DataInv, FrameInv, [Next]_vars,
         detail = NoDetail, detail' # NoDetail
  PROVE  frame # NoRow /\ (frame.file = file => frame.id = detail'.id)
<1>1. OpenDetail
  BY ModalMoves DEF CloseDetail, Scroll, modal
<1>2. /\ phase = "input" /\ selected < Len(requests) /\ RowToOpen \in 1..Len(rows)
      /\ detail' = [id |-> RowToOpen, lines |-> rows[RowToOpen].lines]
  BY <1>1 DEF OpenDetail, Key, modal
<1>3. frame = [file |-> listed, id |-> RowToOpen]
  BY <1>2 DEF FrameInv, Highlighted, RowToOpen
<1>4. RowToOpen # 0
  BY <1>2 DEF DataInv
<1>5. QED
  BY <1>2, <1>3, <1>4 DEF NoRow

-----------------------------------------------------------------------------
(* The controls and the editor.                                            *)

IsTab(t) == \E i \in 1..Len(Tabs) : t = Tabs[i]
IsSort(s) == \E i \in 1..Len(Sorts) : s = Sorts[i]

\* The defaults are values of the controls.
LEMMA Defaults ==
  /\ NoFilters \in Filters
  /\ IsTab("all") /\ IsTab("errors") /\ IsTab("slow")
  /\ \A t : IsTab(t) => IsTab(Cycle(Tabs, t))
  /\ \A s : IsSort(s) => IsSort(Cycle(Sorts, s))
  /\ \A d \in Filters : /\ [d EXCEPT !.method = Cycle(Methods, d.method)] \in Filters
                        /\ [d EXCEPT !.status = Cycle(Statuses, d.status)] \in Filters
<1>1. /\ Len(Tabs) = 3 /\ Len(Tabs) \in Nat \ {0}
      /\ Tabs[1] = "all" /\ Tabs[2] = "errors" /\ Tabs[3] = "slow"
      /\ Len(Sorts) \in Nat \ {0}
      /\ Len(Methods) \in Nat \ {0} /\ Methods[1] = "any"
      /\ Len(Statuses) \in Nat \ {0} /\ Statuses[1] = "any"
  BY DEF Tabs, Sorts, Methods, Statuses
<1>2. NoFilters \in Filters
  <2>1. "any" \in {Methods[i] : i \in 1..Len(Methods)}
        /\ "any" \in {Statuses[i] : i \in 1..Len(Statuses)}
    BY <1>1
  <2>2. 0 \in 0..MaxTyped
    BY DashboardAssumption
  <2>3. QED
    BY <2>1, <2>2 DEF NoFilters, Filters
<1>3. IsTab("all") /\ IsTab("errors") /\ IsTab("slow")
  BY <1>1 DEF IsTab
<1>4. ASSUME NEW t, IsTab(t) PROVE IsTab(Cycle(Tabs, t))
  BY <1>1, <1>4, CycleStays DEF IsTab
<1>5. ASSUME NEW s, IsSort(s) PROVE IsSort(Cycle(Sorts, s))
  BY <1>1, <1>5, CycleStays DEF IsSort
<1>6. ASSUME NEW d \in Filters
      PROVE  /\ [d EXCEPT !.method = Cycle(Methods, d.method)] \in Filters
             /\ [d EXCEPT !.status = Cycle(Statuses, d.status)] \in Filters
  <2>1. /\ \E i \in 1..Len(Methods) : d.method = Methods[i]
        /\ \E i \in 1..Len(Statuses) : d.status = Statuses[i]
    BY DEF Filters
  <2>2. Cycle(Methods, d.method) \in {Methods[i] : i \in 1..Len(Methods)}
    BY <1>1, <2>1, CycleStays
  <2>3. Cycle(Statuses, d.status) \in {Statuses[i] : i \in 1..Len(Statuses)}
    BY <1>1, <2>1, CycleStays
  <2>4. QED
    BY <2>2, <2>3 DEF Filters
<1>7. QED
  BY <1>2, <1>3, <1>4, <1>5, <1>6

\* A character typed in the editor leaves a draft that can be applied.
LEMMA TypedStays ==
  ASSUME TypeOK, NEW c, draft' = WithCharacter(c), draft'.path <= MaxTyped
  PROVE  draft' \in Filters
<1>1. /\ draft \in Filters /\ draft.path \in Nat /\ MaxTyped \in Nat
      /\ draft.duration \in {Unset} \union 0..DurationLimit
  BY DashboardAssumption DEF TypeOK, Filters
<1>2. CASE field = 2
  <2>1. WithCharacter(c) = [draft EXCEPT !.path = draft.path + 1]
    BY <1>2 DEF WithCharacter
  <2>2. draft'.path = draft.path + 1
    BY <1>1, <2>1 DEF Filters
  <2>3. draft.path + 1 \in 0..MaxTyped
    BY <1>1, <2>2
  <2>4. QED
    BY <1>1, <2>1, <2>3 DEF Filters
<1>3. CASE field = 3 /\ c \in Digits
  <2>1. WithCharacter(c) = [draft EXCEPT !.duration = WithDigit(draft.duration, DigitOf[c])]
    BY <1>3 DEF WithCharacter
  <2>2. DigitOf[c] \in Nat
    BY <1>3 DEF DigitOf, Digits
  <2>3. WithDigit(draft.duration, DigitOf[c]) \in {Unset} \union 0..DurationLimit
    BY <1>1, <2>2, DashboardAssumption DEF WithDigit, Unset
  <2>4. QED
    BY <1>1, <2>1, <2>3 DEF Filters
<1>4. CASE field # 2 /\ ~(field = 3 /\ c \in Digits)
  BY <1>1, <1>4 DEF WithCharacter
<1>5. QED
  BY <1>2, <1>3, <1>4

\* A key in the editor leaves a draft that can be applied.
LEMMA DraftStays ==
  ASSUME TypeOK, EditDraft
  PROVE  draft' \in Filters
<1>1. /\ draft \in Filters /\ draft.path \in Nat /\ MaxTyped \in Nat
      /\ draft.duration \in {Unset} \union 0..DurationLimit
  BY DashboardAssumption DEF TypeOK, Filters
<1>2. draft'.path <= MaxTyped
  BY DEF EditDraft
<1>3. CASE draft' = CycledValue
  BY <1>1, <1>3, Defaults DEF CycledValue
<1>4. CASE draft' = WithoutCharacter
  <2>1. CASE field = 2
    BY <1>1, <1>4, <2>1 DEF WithoutCharacter, Filters
  <2>2. CASE field = 3
    <3>1. (IF draft.duration < 10 THEN Unset ELSE draft.duration \div 10)
            \in {Unset} \union 0..DurationLimit
      BY <1>1, DashboardAssumption DEF Unset
    <3>2. QED
      BY <1>1, <1>4, <2>2, <3>1, SMTT(60) DEF WithoutCharacter, Filters
  <2>3. CASE field \notin {2, 3}
    BY <1>1, <1>4, <2>3 DEF WithoutCharacter
  <2>4. QED
    BY <2>1, <2>2, <2>3
<1>5. CASE draft' = WithoutValue
  <2>1. /\ NoFilters.method = "any" /\ NoFilters.status = "any" /\ NoFilters \in Filters
        /\ 0 \in 0..MaxTyped
    BY <1>1, Defaults DEF NoFilters
  <2>2. field \in {0, 1, 2, 3}
    BY DEF TypeOK
  <2>3. QED
    BY <1>1, <1>5, <2>1, <2>2 DEF WithoutValue, Filters
<1>6. CASE \E c : draft' = WithCharacter(c)
  BY <1>2, <1>6, TypedStays
<1>7. QED
  BY <1>3, <1>4, <1>5, <1>6 DEF EditDraft

LEMMA TypeInductive ==
  ASSUME TypeOK, DataInv, [Next]_vars
  PROVE  TypeOK'
<1> USE DEF outside, controls, data, modal, editor
<1>1. selected' \in 0..PageSize-1
  <2>1. CASE KeyEvent
    <3>1. \/ selected' = 0 \/ selected' = selected
          \/ selected' = selected + 1 /\ selected + 1 < Len(requests)
          \/ selected > 0 /\ selected' = selected - 1
      BY <2>1, KeyMoves
    <3>2. selected \in 0..PageSize-1 /\ Len(requests) \in 0..PageSize
      BY DEF TypeOK, DataInv
    <3>3. QED
      BY <3>1, <3>2, DashboardAssumption
  <2>2. CASE ReadList
    <3>1. Len(Listing(rows)) \in 0..PageSize /\ (Listing(rows) = <<>> <=> Len(Listing(rows)) = 0)
      BY FetchedPage DEF DataInv, Listing
    <3>2. QED
      BY <2>2, <3>1, DashboardAssumption DEF ReadList, Clamped, TypeOK
  <2>3. CASE selected' = selected
    BY <2>3 DEF TypeOK
  <2>4. QED
    BY <2>1, <2>2, <2>3
    DEF Next, Draw, Timeout, Reading, ReadFails, ReadNothing, ReadStats, Commit,
        RemoveDatabase, CreateDatabase, vars
<1>2. phase' \in {"draw", "input", "stats", "list", "quit"}
  <2>1. CASE KeyEvent
    BY <2>1, KeyMoves
  <2>2. QED
    BY <2>1
    DEF TypeOK, Next, Draw, Timeout, AfterTimeout, Reading, ReadFails, ReadNothing,
        ReadStats, ReadList, Commit, RemoveDatabase, CreateDatabase, vars
<1>3. /\ IsTab(tab) /\ IsSort(sort) /\ query \in 0..MaxTyped
      /\ filters \in Filters /\ draft \in Filters /\ field \in 0..3
  BY DEF TypeOK, IsTab, IsSort
<1>4. /\ IsTab(tab') /\ IsSort(sort') /\ query' \in 0..MaxTyped
      /\ filters' \in Filters /\ draft' \in Filters /\ field' \in 0..3
  <2>1. CASE UNCHANGED <<controls, draft, field>>
    BY <1>3, <2>1
  <2>2. CASE SetTab
    BY <1>3, <2>2, Defaults DEF SetTab
  <2>3. CASE CycleSort
    BY <1>3, <2>3, Defaults DEF CycleSort
  <2>4. CASE AddSearchChar \/ PopSearchChar \/ ClearSearch
    BY <1>3, <2>4, DashboardAssumption DEF AddSearchChar, PopSearchChar, ClearSearch
  <2>5. CASE OpenFilterEditor \/ CloseFilterEditor \/ ApplyFilterEditor
    BY <1>3, <2>5, Defaults DEF OpenFilterEditor, CloseFilterEditor, ApplyFilterEditor
  <2>6. CASE MoveField
    BY <1>3, <2>6 DEF MoveField, NextField, PreviousField
  <2>7. CASE EditDraft
    BY <1>3, <2>7, DraftStays DEF EditDraft
  <2>8. Draw \/ Timeout \/ Reading \/ Commit \/ RemoveDatabase \/ CreateDatabase
          \/ UNCHANGED vars => UNCHANGED <<controls, draft, field>>
    BY DEF Draw, Timeout, Reading, ReadFails, ReadNothing, ReadStats, ReadList, Commit,
           RemoveDatabase, CreateDatabase, vars
  <2>9. Quit \/ Refresh \/ NextRow \/ PreviousRow \/ StartSearch \/ EndSearch
          \/ OpenDetail \/ CloseDetail \/ Scroll => UNCHANGED <<controls, draft, field>>
    BY DEF Quit, Refresh, NextRow, PreviousRow, StartSearch, EndSearch, OpenDetail,
           CloseDetail, Scroll
  <2>10. QED
    BY <2>1, <2>2, <2>3, <2>4, <2>5, <2>6, <2>7, <2>8, <2>9 DEF Next, KeyEvent
<1>5. QED
  BY <1>1, <1>2, <1>4 DEF TypeOK, IsTab, IsSort

-----------------------------------------------------------------------------
(* The theorems.                                                           *)

\* The inductive invariant holds in every reachable state.
THEOREM Invariant == Spec => []IInv
<1>1. IInv /\ [Next]_vars => IInv'
  <2>1. SUFFICES ASSUME IInv, [Next]_vars PROVE IInv'
    OBVIOUS
  <2>2. TypeOK /\ DataInv /\ SelectedInv /\ FrameInv /\ ReadInv /\ ListIsTrue /\ DetailInv
    BY <2>1 DEF IInv
  <2>3. TypeOK'
    BY <2>1, <2>2, TypeInductive
  <2>4. DataInv' /\ SelectedInv' /\ FrameInv' /\ ReadInv' /\ ListIsTrue'
    BY <2>1, <2>2, ListInductive
  <2>5. DetailInv'
    BY <2>1, <2>2, DetailInductive
  <2>6. QED
    BY <2>3, <2>4, <2>5 DEF IInv
<1>2. QED
  BY InvInit, <1>1, PTL DEF Spec

\* The selection of state.rs is a row of the list that is drawn, however the
\* table, the list and the controls changed under it.
THEOREM Selection == Spec => []SelectionInRange
<1>1. IInv => SelectionInRange
  BY DEF IInv, SelectedInv, SelectionInRange
<1>2. QED
  BY Invariant, <1>1, PTL

\* What a frame without an error shows is the page its controls ask for, of one
\* state of the table, with statistics that count no row it does not have.
THEOREM FramesAreTrue == Spec => []ListIsTrue
<1>1. IInv => ListIsTrue
  BY DEF IInv
<1>2. QED
  BY Invariant, <1>1, PTL

\* The 16 bits of detail_scroll never leave the text, and a new detail starts at
\* its top.
THEOREM Scrolling == Spec => []ScrollOnText
<1>1. IInv => ScrollOnText
  BY DEF IInv, DetailInv
<1>2. QED
  BY Invariant, <1>1, PTL

\* toggle_detail opens the row the operator saw highlighted, although rows were
\* committed since, unless the database is no longer the file the row was read from.
THEOREM Opening == Spec => OpensInSameFile
<1>1. IInv /\ [Next]_vars
        => [detail = NoDetail /\ detail' # NoDetail
              => frame # NoRow /\ (frame.file = file => frame.id = detail'.id)]_vars
  BY OpensHighlighted DEF IInv
<1>2. QED
  BY Invariant, <1>1, PTL DEF Spec, OpensInSameFile
=============================================================================
