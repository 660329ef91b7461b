------------------------------ MODULE TestTabs ------------------------------
(* The Progress and the Table tab, which a tick refreshes in place: a bar   *)
(* and a row for every test, kept across ticks, sorts and runs, the rows    *)
(* found by an index.  The context menu of the table has an event loop of   *)
(* its own, during which ticks go on.                                       *)
EXTENDS LiveOutput

CONSTANT MaxClicks   \* bound: what the user does

VARIABLES
  tick,        \* the TickData that is passed around
  layout,      \* Progress: the bars, from the top
  layoutOrder, \* _layout_order
  rows,        \* Table: the rows, from the top
  rowByName,   \* _row_by_name
  sort,        \* _sort_column and _sort_order
  menu,        \* the test the context menu is up for and its row; Closed
  clipboard,   \* what was put there since the last tick
  clicks       \* what the user has done

progress == <<layout, layoutOrder>>
tableTab == <<rows, rowByName, sort>>
vars == <<world, readCache, tick, progress, tableTab, menu, clipboard, clicks>>

-----------------------------------------------------------------------------
Closed == [name |-> NoTest, row |-> 0]

Init ==
  /\ WorldInit /\ tick = <<>> /\ layout = <<>> /\ layoutOrder = <<>>
  /\ rows = <<>> /\ rowByName = <<>> /\ sort = [column |-> "none", descending |-> FALSE]
  /\ menu = Closed /\ clipboard = Empty /\ clicks = 0

WorldMoves ==
  /\ RecordsChange \/ LogsChange
  /\ UNCHANGED <<readCache, tick, progress, tableTab, menu, clipboard, clicks>>

-----------------------------------------------------------------------------
(* The tick: gui_main.py, _update_tick, of what is on record by then.       *)

Listed(data) == Ascending(DOMAIN data)

Desired == Listed(record)

(* GraphTab.update_tick: bars go, and are laid out anew if the order is not *)
(* the one of the last time.                                                *)
Layout ==
  LET kept == Ascending({i \in DOMAIN layout : layout[i] \in DOMAIN record})
  IN  IF Desired # layoutOrder THEN Desired ELSE [k \in DOMAIN kept |-> layout[kept[k]]]

(* TableTab: the order of the rows.  The state sorts by its text.           *)
SortKey(row, by) ==
  IF by.column = "name" THEN row.name
  ELSE CHOOSE k \in 1 .. 5 : row.state = <<"Fail", "Pass", "Queued", "Running", "Terminated">>[k]

SortItems(list, by) ==
  LET Key(i) == SortKey(list[i], by)
      Above(i, j) == \/ IF by.descending THEN Key(i) > Key(j) ELSE Key(i) < Key(j)
                     \/ Key(i) = Key(j) /\ i < j
      Place(i) == 1 + Cardinality({j \in DOMAIN list : Above(j, i)})
  IN  [p \in DOMAIN list |-> list[CHOOSE i \in DOMAIN list : Place(i) = p]]

(* A slip: the index keeps the places the rows had before they were sorted. *)
IndexKept(list) == rowByName

RowIndex(list) ==
  [t \in {list[i].name : i \in DOMAIN list} |-> CHOOSE i \in DOMAIN list : list[i].name = t]

Shrunk == DOMAIN rowByName # {} /\ ~ DOMAIN rowByName \subseteq DOMAIN record

(* Rows of tests that are new follow the others.                            *)
Placed ==
  LET known == IF Shrunk THEN <<>> ELSE rowByName
      new == DOMAIN record \ DOMAIN known
  IN  [t \in DOMAIN known \cup new |->
         IF t \in DOMAIN known THEN known[t] ELSE Cardinality(DOMAIN known) + PlaceIn(new, t)]

ToolTip(t) ==
  IF record[t].state = "Running" THEN ReadLive(readCache, t, TailOf)
  ELSE IF record[t].out THEN Captured(t, record[t].run) ELSE Empty

(* Every cell of a test is written where its row is said to be.             *)
Written ==
  LET old == IF Shrunk THEN <<>> ELSE rows
      height == IF Len(old) < Cardinality(DOMAIN record) THEN Cardinality(DOMAIN record) ELSE Len(old)
      Here(i) == {t \in DOMAIN record : Placed[t] = i}
  IN  [i \in 1 .. height |->
         IF Here(i) = {} THEN old[i]
         ELSE LET t == CHOOSE u \in Here(i) : TRUE
              IN  [name |-> t, state |-> record[t].state, tip |-> ToolTip(t)]]

SortIsStale ==
  \/ Shrunk \/ DOMAIN record # DOMAIN rowByName
  \/ \E i \in DOMAIN rows : SortKey(Written[i], sort) # SortKey(rows[i], sort)

(* The tabs' update_tick, one after the other; only the table reads logs.   *)
Tick ==
  /\ tick' = record /\ layout' = Layout /\ layoutOrder' = Desired
  /\ IF sort.column # "none" /\ SortIsStale
     THEN rows' = SortItems(Written, sort) /\ rowByName' = RowIndex(rows')
     ELSE rows' = Written /\ rowByName' = Placed
  /\ readCache' = [t \in Tests |->
       IF t \in DOMAIN record /\ record[t].state = "Running"
       THEN CacheAfter(readCache, t, TailOf)[t] ELSE readCache[t]]
  /\ clipboard' = Empty
  /\ UNCHANGED <<world, sort, menu, clicks>>

-----------------------------------------------------------------------------
(* The user, between ticks.                                                 *)

UserActs == menu = Closed /\ clicks < MaxClicks /\ clicks' = clicks + 1

(* A header is double-clicked: the rows are sorted by it, or the other way. *)
ClickHeader(column) ==
  /\ UserActs
  /\ sort' = [column |-> column, descending |-> sort.column = column /\ ~ sort.descending]
  /\ rows' = SortItems(rows, sort') /\ rowByName' = RowIndex(rows')
  /\ UNCHANGED <<world, readCache, tick, progress, menu, clipboard>>

OpenMenu(i) ==
  /\ UserActs /\ i \in DOMAIN rows /\ menu' = [name |-> rows[i].name, row |-> i]
  /\ UNCHANGED <<world, readCache, tick, progress, tableTab, clipboard>>

(* Copy Pytest Output, on the column that has tool tips.                    *)
Copy ==
  /\ menu # Closed /\ menu' = Closed
  /\ LET text == Output(tick, menu.name)
         tip == IF menu.row \in DOMAIN rows THEN rows[menu.row].tip ELSE Empty
         copied == IF text = Empty THEN tip ELSE text
     IN  clipboard' = IF copied = Empty THEN clipboard ELSE copied
  /\ readCache' = CacheAfterOutput(tick, menu.name)
  /\ UNCHANGED <<world, tick, progress, tableTab, clicks>>

(* Force Stop, which the runner takes from there, or nothing.               *)
LeaveMenu ==
  /\ menu # Closed /\ menu' = Closed
  /\ UNCHANGED <<world, readCache, tick, progress, tableTab, clipboard, clicks>>

Next ==
  \/ WorldMoves \/ Tick
  \/ \E column \in {"name", "state"} : ClickHeader(column)
  \/ \E i \in 1 .. Cardinality(Tests) : OpenMenu(i)
  \/ Copy \/ LeaveMenu

Spec == Init /\ [][Next]_vars

-----------------------------------------------------------------------------
(* Whatever was sorted, added and removed by earlier ticks and clicks, the  *)
(* tabs show exactly the last tick's tests: a bar each, in order, and a row *)
(* each, of the state they are in, found where the index says, and sorted   *)
(* as was asked.                                                            *)
TabsShowTick ==
  /\ layout = Listed(tick)
  /\ DOMAIN rowByName = DOMAIN tick /\ Len(rows) = Cardinality(DOMAIN tick)
  /\ \A t \in DOMAIN tick :
       rows[rowByName[t]].name = t /\ rows[rowByName[t]].state = tick[t].state
  /\ sort.column # "none" => SortItems(rows, sort) = rows

(* gui_util.py, resolve_test_output: "Return the full captured pytest       *)
(* output for a test."  The cache does not tell a tail from a whole log.    *)
CopiesWholeOutput == clipboard.whole

(* table_tab.py, show_context_menu: "Fallback to the tooltip text if no     *)
(* output is available yet" - of the test that is in that row by then.      *)
CopiesOwnOutput == [][clipboard' \notin {clipboard, Empty} => clipboard'.of = menu.name]_vars
=============================================================================
