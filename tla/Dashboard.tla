------------------------------ MODULE Dashboard ------------------------------
(***************************************************************************)
(* The terminal dashboard: run_loop and handle_key_event                   *)
(* (src/src/tui/app.rs), TuiState (src/src/tui/state.rs) and the queries   *)
(* of src/src/tui/repo.rs, against a database that a writer in another     *)
(* thread or process appends to and an operator may remove.                *)
(*                                                                         *)
(* The loop draws a frame, waits 500 ms for a key, and handles it or       *)
(* reloads.  A reload is two reads, the statistics and then the list, and  *)
(* rows may be committed between them.                                     *)
(*                                                                         *)
(* A row is its id, which is its place in the table, and its kind; a table *)
(* that is created again begins at 1, so that two requests may have one id *)
(* and a history variable counts the files.  What is typed is a number of  *)
(* characters of one text; a row says how much of it its path and its      *)
(* searched columns contain, without the blanks that the code trims.  A    *)
(* database removed between the two reads of a reload is read to the end,  *)
(* so the removal is the same as one after the reload.                     *)
(***************************************************************************)
EXTENDS Integers, Sequences, FiniteSets, FiniteSetsExt

CONSTANTS
  PageSize,       \* the limit of the list (100 in the code)
  DurationLimit,  \* i64::MAX
  ScrollSpace,    \* u16 holds 0..ScrollSpace-1
  PageScroll,     \* DETAIL_PAGE_SCROLL
  Settings,       \* the scenarios: keys in use, kinds of rows, and bounds
  MaxTyped        \* bound of the model: characters of a text

Kinds ==
  [ method : {"GET", "POST", "PUT", "PATCH", "DELETE", "HEAD"},
    status : Nat,
    duration : Nat,
    path : Nat,             \* typed characters the path contains
    words : Nat,            \* the same of all searched columns
    lines : Nat \ {0} ]     \* lines of its detail

ASSUME DashboardAssumption ==
  /\ PageSize \in Nat \ {0}
  /\ DurationLimit \in Nat /\ ScrollSpace \in Nat \ {0} /\ PageScroll \in Nat
  /\ MaxTyped \in Nat
  /\ \A s \in DOMAIN Settings :
       /\ Settings[s].kinds \subseteq Kinds
       /\ Settings[s].maxRows \in Nat       \* rows of the table
       /\ Settings[s].maxFailures \in Nat   \* reads that fail
       /\ Settings[s].maxFiles \in Nat \ {0}  \* database files, one at a time

VARIABLES
  rows, present,   \* the table's rows in the order of their ids; its file exists
  file,            \* history: how many files there were
  scenario,        \* which of Settings this behaviour is
  failures,        \* reads that failed
  phase,           \* where run_loop is: "draw", "input", "stats", "list", "quit"
  tab, sort, query, filters,          \* active_tab, sort_field, search_query
  searching, editing, draft, field,   \* draft is draft_filters when editing
  requests, selected,                 \* the list, as ids, and selected_index
  stats,
  failed,          \* data_error is Some
  detail, scroll,  \* selected_detail and detail_scroll
  frame,           \* history: the row highlighted while a key is awaited
  read, listed     \* history: the rows and the file the list was read from

outside == <<rows, present, file, scenario, failures>>
controls == <<tab, sort, query, filters>>
editor == <<searching, editing, draft, field>>
data == <<requests, stats, failed, read, listed>>
modal == <<detail, scroll>>
vars == <<outside, phase, frame, controls, editor, data, selected, modal>>

-----------------------------------------------------------------------------
(* model.rs.                                                               *)

Cycle(items, item) ==
  LET i == CHOOSE i \in 1..Len(items) : items[i] = item
  IN  items[(i % Len(items)) + 1]

Tabs == <<"all", "errors", "slow">>
Sorts == <<"recent", "slowest", "statusDesc", "oldest">>
Methods == <<"any", "GET", "POST", "PUT", "PATCH", "DELETE">>
Statuses == <<"any", "errors", "clientErrors", "serverErrors">>

\* min_duration_ms is None.
Unset == -1

NoFilters == [method |-> "any", status |-> "any", path |-> 0, duration |-> Unset]
NoDetail == [id |-> 0, lines |-> 1]
NoRow == [file |-> 0, id |-> 0]
NoStats == [total |-> 0, errors |-> 0]

-----------------------------------------------------------------------------
(* repo.rs.                                                                *)

IsError(row) == row.status >= 400

Stats(table) ==
  [ total |-> Len(table),
    errors |-> Cardinality({i \in 1..Len(table) : IsError(table[i])}) ]

\* What reload_data asks fetch_requests for.
Asked == [tab |-> tab, sort |-> sort, words |-> query, filters |-> filters]

\* The conditions of fetch_requests.
Passes(asked, row) ==
  LET filter == asked.filters IN
  /\ asked.tab = "errors" => IsError(row)
  /\ asked.tab = "slow" => row.duration >= 500
  /\ filter.method \in {"any", row.method}
  /\ filter.status = "errors" => IsError(row)
  /\ filter.status = "clientErrors" => row.status \in 400..499
  /\ filter.status = "serverErrors" => row.status \in 500..599
  /\ filter.path <= row.path
  /\ filter.duration <= row.duration
  /\ asked.words <= row.words

\* sql_order_by, between two ids of a table.
Before(asked, table, i, j) ==
  CASE asked.sort = "recent" -> i > j
    [] asked.sort = "oldest" -> i < j
    [] asked.sort = "slowest" ->
         \/ table[i].duration > table[j].duration
         \/ table[i].duration = table[j].duration /\ i > j
    [] asked.sort = "statusDesc" ->
         \/ table[i].status > table[j].status
         \/ table[i].status = table[j].status /\ i > j

\* fetch_requests: the ids of the rows that pass, in order, the first of them.
\* The n-th is the one that n - 1 others come before.
Fetched(asked, table) ==
  LET passing == {i \in 1..Len(table) : Passes(asked, table[i])}
      Preceding(i) == {j \in passing : Before(asked, table, j, i)}
  IN  [n \in 1..Min({PageSize, Cardinality(passing)}) |->
         CHOOSE i \in passing : Cardinality(Preceding(i)) = n - 1]

Listing(table) == Fetched(Asked, table)

-----------------------------------------------------------------------------
(* run_loop: draw, wait, reload.                                           *)

\* The row that is drawn highlighted.
Highlighted ==
  IF selected < Len(requests) THEN [file |-> listed, id |-> requests[selected + 1]]
  ELSE NoRow

Draw ==
  /\ phase = "draw"
  /\ phase' = "input"
  /\ frame' = Highlighted
  /\ UNCHANGED <<outside, controls, editor, data, selected, modal>>

\* No key for 500 ms: reload, unless a detail is open.
NeverReloads == "draw"
AfterTimeout == IF detail = NoDetail THEN "stats" ELSE "draw"

Timeout ==
  /\ phase = "input"
  /\ phase' = AfterTimeout
  /\ frame' = NoRow
  /\ UNCHANGED <<outside, controls, editor, data, selected, modal>>

\* A read of reload_data fails: the error is shown and all else stays.
ReadFails ==
  /\ phase \in {"stats", "list"}
  /\ failures < Settings[scenario].maxFailures
  /\ failures' = failures + 1
  /\ failed' = TRUE
  /\ phase' = "draw"
  /\ UNCHANGED <<rows, present, file, scenario, frame, controls, editor, requests,
                 stats, read, listed, selected, modal>>

\* There is no database: the list and the statistics are emptied.
ReadNothing ==
  /\ phase = "stats"
  /\ ~present
  /\ requests' = <<>>
  /\ read' = <<>>
  /\ stats' = NoStats
  /\ failed' = FALSE
  /\ phase' = "draw"
  /\ UNCHANGED <<outside, frame, controls, editor, listed, selected, modal>>

ReadStats ==
  /\ phase = "stats"
  /\ present
  /\ stats' = Stats(rows)
  /\ failed' = FALSE
  /\ phase' = "list"
  /\ UNCHANGED <<outside, frame, controls, editor, requests, read, listed, selected, modal>>

NotClamped(list) == selected
Clamped(list) ==
  IF list = <<>> THEN 0
  ELSE IF selected >= Len(list) THEN Len(list) - 1 ELSE selected

ReadList ==
  /\ phase = "list"
  /\ requests' = Listing(rows)
  /\ read' = rows
  /\ listed' = file
  /\ selected' = Clamped(Listing(rows))
  /\ phase' = "draw"
  /\ UNCHANGED <<outside, frame, controls, editor, stats, failed, modal>>

-----------------------------------------------------------------------------
(* handle_key_event.                                                       *)

Characters == {"q", "/", "f", "s", "j", "k", "r", "1", "2", "3", " "}
Digits == {"1", "2", "3"}
DigitOf == [d \in Digits |-> CASE d = "1" -> 1 [] d = "2" -> 2 [] d = "3" -> 3]

Mode ==
  IF detail # NoDetail THEN "detail"
  ELSE IF searching THEN "search"
  ELSE IF editing THEN "filters" ELSE "list"

\* One of these keys arrives in this mode.
Key(mode, keys) ==
  /\ phase = "input"
  /\ Mode = mode
  /\ keys \intersect Settings[scenario].keys # {}
  /\ UNCHANGED outside

\* The handler is done, or calls reload_data as its last act.
Redraw == phase' = "draw" /\ frame' = NoRow
Reload == phase' = "stats" /\ frame' = NoRow

Quit ==
  /\ \/ Key("list", {"q", "ctrlC"})
     \/ Key("detail", {"q", "ctrlC"})
     \/ Key("search", {"ctrlC"})
     \/ Key("filters", {"ctrlC"})
  /\ phase' = "quit"
  /\ frame' = NoRow
  /\ UNCHANGED <<controls, editor, data, selected, modal>>

Refresh ==
  /\ Key("list", {"r"})
  /\ Reload
  /\ UNCHANGED <<controls, editor, data, selected, modal>>

NextRow ==
  /\ Key("list", {"down", "j"})
  /\ selected' = IF selected + 1 < Len(requests) THEN selected + 1 ELSE selected
  /\ Redraw
  /\ UNCHANGED <<controls, editor, data, modal>>

PreviousRow ==
  /\ Key("list", {"up", "k"})
  /\ selected' = IF selected > 0 THEN selected - 1 ELSE selected
  /\ Redraw
  /\ UNCHANGED <<controls, editor, data, modal>>

\* The handlers that change what is listed go to its first row and reload.
FromTheTop ==
  /\ selected' = 0
  /\ Reload
  /\ UNCHANGED <<data, modal>>

SetTab ==
  /\ \/ Key("list", {"tab"}) /\ tab' = Cycle(Tabs, tab)
     \/ Key("list", {"1"}) /\ tab' = "all"
     \/ Key("list", {"2"}) /\ tab' = "errors"
     \/ Key("list", {"3"}) /\ tab' = "slow"
  /\ FromTheTop
  /\ UNCHANGED <<sort, query, filters, editor>>

CycleSort ==
  /\ Key("list", {"s"})
  /\ sort' = Cycle(Sorts, sort)
  /\ FromTheTop
  /\ UNCHANGED <<tab, query, filters, editor>>

StartSearch ==
  /\ Key("list", {"/"})
  /\ searching' = TRUE
  /\ Redraw
  /\ UNCHANGED <<controls, editing, draft, field, data, selected, modal>>

EndSearch ==
  /\ Key("search", {"enter"})
  /\ searching' = FALSE
  /\ Redraw
  /\ UNCHANGED <<controls, editing, draft, field, data, selected, modal>>

AddSearchChar ==
  /\ Key("search", Characters)
  /\ query < MaxTyped
  /\ query' = query + 1
  /\ FromTheTop
  /\ UNCHANGED <<tab, sort, filters, editor>>

PopSearchChar ==
  /\ Key("search", {"backspace"})
  /\ query' = IF query > 0 THEN query - 1 ELSE 0
  /\ FromTheTop
  /\ UNCHANGED <<tab, sort, filters, editor>>

ClearSearch ==
  /\ \/ Key("search", {"esc"})
     \/ Key("list", {"esc"}) /\ query > 0
  /\ query' = 0
  /\ searching' = FALSE
  /\ FromTheTop
  /\ UNCHANGED <<tab, sort, filters, editing, draft, field>>

-----------------------------------------------------------------------------
(* The filter editor.                                                      *)

OpenFilterEditor ==
  /\ Key("list", {"f"})
  /\ editing' = TRUE
  /\ draft' = filters
  /\ field' = 0
  /\ Redraw
  /\ UNCHANGED <<controls, searching, data, selected, modal>>

CloseFilterEditor ==
  /\ Key("filters", {"esc"})
  /\ editing' = FALSE
  /\ draft' = NoFilters
  /\ Redraw
  /\ UNCHANGED <<controls, searching, field, data, selected, modal>>

ApplyFilterEditorToNextReload ==
  /\ Key("filters", {"enter"})
  /\ filters' = draft
  /\ editing' = FALSE
  /\ draft' = NoFilters
  /\ selected' = 0
  /\ Redraw
  /\ UNCHANGED <<tab, sort, query, searching, field, data, modal>>

ApplyFilterEditor ==
  /\ Key("filters", {"enter"})
  /\ filters' = draft
  /\ editing' = FALSE
  /\ draft' = NoFilters
  /\ FromTheTop
  /\ UNCHANGED <<tab, sort, query, searching, field>>

NextField == (field + 1) % 4
PreviousField == (field - 1) % 4

MoveField ==
  /\ \/ Key("filters", {"tab", "down"}) /\ field' = NextField
     \/ Key("filters", {"backTab", "up"}) /\ field' = PreviousField
  /\ Redraw
  /\ UNCHANGED <<controls, searching, editing, draft, data, selected, modal>>

\* The four handlers that change the draft, each by the field it is on.
CycledValue ==
  CASE field = 0 -> [draft EXCEPT !.method = Cycle(Methods, @)]
    [] field = 1 -> [draft EXCEPT !.status = Cycle(Statuses, @)]
    [] OTHER -> draft

\* A number that does not fit i64 does not parse: no filter.
WithDigit(duration, digit) ==
  LET value == (IF duration = Unset THEN 0 ELSE 10 * duration) + digit
  IN  IF value <= DurationLimit THEN value ELSE Unset

WithCharacter(character) ==
  CASE field = 2 -> [draft EXCEPT !.path = @ + 1]
    [] field = 3 /\ character \in Digits ->
         [draft EXCEPT !.duration = WithDigit(@, DigitOf[character])]
    [] OTHER -> draft

WithoutCharacter ==
  CASE field = 2 -> [draft EXCEPT !.path = IF @ > 0 THEN @ - 1 ELSE 0]
    [] field = 3 -> [draft EXCEPT !.duration = IF @ < 10 THEN Unset ELSE @ \div 10]
    [] OTHER -> draft

WithoutValue ==
  CASE field = 0 -> [draft EXCEPT !.method = "any"]
    [] field = 1 -> [draft EXCEPT !.status = "any"]
    [] field = 2 -> [draft EXCEPT !.path = 0]
    [] field = 3 -> [draft EXCEPT !.duration = Unset]

EditDraft ==
  /\ \/ Key("filters", {"right", " "}) /\ draft' = CycledValue
     \/ Key("filters", {"backspace"}) /\ draft' = WithoutCharacter
     \/ Key("filters", {"delete"}) /\ draft' = WithoutValue
     \/ \E c \in Characters \ {" "} :
          Key("filters", {c}) /\ draft' = WithCharacter(c)
  /\ draft'.path <= MaxTyped
  /\ Redraw
  /\ UNCHANGED <<controls, searching, editing, field, data, selected, modal>>

-----------------------------------------------------------------------------
(* The detail.                                                             *)

\* toggle_detail asks for the id of the summary it has.
RowOfFreshList ==
  IF selected < Len(Listing(rows)) THEN Listing(rows)[selected + 1] ELSE 0
RowToOpen == requests[selected + 1]

\* It opens if the database still has that row and can be read.
OpenDetail ==
  /\ Key("list", {"enter", " "})
  /\ \/ /\ present
        /\ selected < Len(requests)
        /\ RowToOpen \in 1..Len(rows)
        /\ detail' = [id |-> RowToOpen, lines |-> rows[RowToOpen].lines]
        /\ scroll' = 0
     \/ UNCHANGED modal
  /\ Redraw
  /\ UNCHANGED <<controls, editor, data, selected>>

CloseDetail ==
  /\ Key("detail", {"esc", "enter"})
  /\ detail' = NoDetail
  /\ scroll' = 0
  /\ Redraw
  /\ UNCHANGED <<controls, editor, data, selected>>

\* detail_max_scroll: the number of the last line, as u16.
MaxScroll == (detail.lines - 1) % ScrollSpace

\* saturating_add, and never past the end.
DownUnclamped(n) == Min({scroll + n, ScrollSpace - 1})
Down(n) == Min({scroll + n, ScrollSpace - 1, MaxScroll})
Up(n) == IF scroll > n THEN scroll - n ELSE 0

Scroll ==
  /\ \/ Key("detail", {"down", "j"}) /\ scroll' = Down(1)
     \/ Key("detail", {"up", "k"}) /\ scroll' = Up(1)
     \/ Key("detail", {"pageDown"}) /\ scroll' = Down(PageScroll)
     \/ Key("detail", {"pageUp"}) /\ scroll' = Up(PageScroll)
  /\ Redraw
  /\ UNCHANGED <<controls, editor, data, selected, detail>>

-----------------------------------------------------------------------------
(* The database.                                                           *)

Commit ==
  /\ present
  /\ Len(rows) < Settings[scenario].maxRows
  /\ \E kind \in Settings[scenario].kinds : rows' = Append(rows, kind)
  /\ UNCHANGED <<present, file, scenario, failures, frame, phase, controls, editor,
                 data, selected, modal>>

\* An operator purges the data; a writer creates the table again.  A reload has
\* its connection: between its two reads it keeps the file that was removed.
RemoveDatabase ==
  /\ present
  /\ file < Settings[scenario].maxFiles
  /\ phase # "list"
  /\ present' = FALSE
  /\ rows' = <<>>
  /\ UNCHANGED <<file, scenario, failures, frame, phase, controls, editor, data,
                 selected, modal>>

CreateDatabase ==
  /\ ~present
  /\ present' = TRUE
  /\ file' = file + 1
  /\ UNCHANGED <<rows, scenario, failures, frame, phase, controls, editor, data,
                 selected, modal>>

Init ==
  /\ rows = <<>>
  /\ present \in BOOLEAN
  /\ file = IF present THEN 1 ELSE 0
  /\ scenario \in DOMAIN Settings
  /\ failures = 0
  /\ phase = "stats"
  /\ tab = "all" /\ sort = "recent" /\ query = 0 /\ filters = NoFilters
  /\ searching = FALSE /\ editing = FALSE /\ draft = NoFilters /\ field = 0
  /\ requests = <<>> /\ selected = 0
  /\ stats = NoStats
  /\ failed = FALSE
  /\ detail = NoDetail /\ scroll = 0
  /\ frame = NoRow
  /\ read = <<>> /\ listed = 0

KeyEvent ==
  \/ Quit
  \/ Refresh
  \/ NextRow
  \/ PreviousRow
  \/ SetTab
  \/ CycleSort
  \/ StartSearch
  \/ EndSearch
  \/ AddSearchChar
  \/ PopSearchChar
  \/ ClearSearch
  \/ OpenFilterEditor
  \/ CloseFilterEditor
  \/ ApplyFilterEditor
  \/ MoveField
  \/ EditDraft
  \/ OpenDetail
  \/ CloseDetail
  \/ Scroll

Reading == ReadFails \/ ReadNothing \/ ReadStats \/ ReadList

Next ==
  \/ Draw
  \/ Timeout
  \/ Reading
  \/ KeyEvent
  \/ Commit
  \/ RemoveDatabase
  \/ CreateDatabase

Spec == Init /\ [][Next]_vars

\* The loop runs, and the operator pauses for 500 ms again and again.
FairSpec == Spec /\ WF_vars(Draw) /\ WF_vars(Reading) /\ SF_vars(Timeout)

-----------------------------------------------------------------------------
(* Correctness.                                                            *)

Filters ==
  [ method : {Methods[i] : i \in 1..Len(Methods)},
    status : {Statuses[i] : i \in 1..Len(Statuses)},
    path : 0..MaxTyped,
    duration : {Unset} \union 0..DurationLimit ]

\* Every control has one of its values, and the editor is on a field.
TypeOK ==
  /\ phase \in {"draw", "input", "stats", "list", "quit"}
  /\ \E i \in 1..Len(Tabs) : tab = Tabs[i]
  /\ \E i \in 1..Len(Sorts) : sort = Sorts[i]
  /\ query \in 0..MaxTyped
  /\ filters \in Filters /\ draft \in Filters
  /\ field \in 0..3
  /\ selected \in 0..PageSize-1

AtRest == phase \in {"draw", "input"}

\* The state is well formed and, whatever happened to the table between two
\* frames, the selection is one of the rows of the list that is drawn.
SelectionInRange ==
  /\ TypeOK
  /\ AtRest /\ requests # <<>> => selected < Len(requests)

\* A frame without an error shows what the controls ask for: the list of one
\* state of the table under the tab, the order, the search and the filters in
\* force, and statistics that count no row that state does not have.
ListIsTrue ==
  AtRest /\ ~failed =>
    /\ requests = Listing(read)
    /\ stats.total <= Len(read)
    /\ stats.errors <= Stats(read).errors

\* The detail that opens is that of the row the operator saw highlighted, whatever
\* was committed since and however the selection moved.  Not so when the database was
\* purged and created again under the list: the row is then fetched from the new
\* file by its number alone (state.rs:248), and is another one.
OpensInSameFile ==
  [][detail = NoDetail /\ detail' # NoDetail
       => frame # NoRow /\ (frame.file = file => frame.id = detail'.id)]_vars

\* The detail is never scrolled past its text, and a new one starts at its top.
ScrollOnText ==
  /\ scroll < detail.lines
  /\ detail = NoDetail => scroll = 0

\* docs/README.md: the requests are shown in real time.  As long as no detail is
\* open the list is again and again that of the table as it is.
CatchesUp ==
  []<>( \/ phase = "quit"
        \/ detail # NoDetail
        \/ phase = "draw" /\ ~failed /\ requests = Listing(rows) )
=============================================================================
