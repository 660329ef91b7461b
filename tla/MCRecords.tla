------------------------------ MODULE MCRecords ------------------------------
(* Four components that live off the results table, each with a table of    *)
(* its own: the preparation of runs from the history; the refresh tick,     *)
(* whose table is left by an earlier session in which one test passed and   *)
(* the other was running when the application crashed; and, over the states *)
(* of tests that a tick derives, the tabs it refreshes in place and the     *)
(* panes for output.  A behaviour is one of the component in focus; the     *)
(* others rest.                                                             *)
EXTENDS RunHistory

(* Two tests; the first in the alphabet may be missing from a discovery,    *)
(* and is a singleton in the first version of the program, so that name,    *)
(* aspects and kind each decide the order somewhere.                        *)
Pair       == {1, 2}
Marks      == [version \in 1..3 |-> IF version = 1 THEN {1} ELSE {}]
Lines      == (1 :> 2) @@ (2 :> 3)
Varying    == (1 :> <<1, 3, 1>>) @@ (2 :> <<2, 1, 1>>)
Always     == {{1, 2}}
Sometimes  == {{1, 2}, {2}}
Careful    == {{"restart", "check"}}
Everybody  == {{"restart", "check"}, {"restart", "resume", "check"}}
Efficiency  == {<<"coverage_efficiency">>}
Efficiently == {<<"failed_first", "coverage_efficiency", "longest_prior_first">>}

CONSTANTS
  FirstRows, Endings, RunsTicked, RunLimit,  \* of the tick
  RunsShown, TabClicks, LogSize, PaneClicks  \* of the tabs and panes

VARIABLES
  focus,
  tickRows, tickGuid, stage, waiting, shown, pc, snap, outputs, lastPass, history, toRead,
  run, record, log, readCache, tick, clicks,
  layout, layoutOrder, tableRows, rowByName, sort, menu, clipboard,
  step, failed, picked, live

Earlier ==
  LET R(t, code, out, n) == [run |-> 1, name |-> t, code |-> code, out |-> out, ts |-> n]
  IN  {<<R(1, "NONE", FALSE, 1), R(2, "NONE", FALSE, 2), R(1, "OK", TRUE, 3)>>}

GuiTable == INSTANCE GuiTick 
              WITH rows <- tickRows, guid <- tickGuid, Codes <- Endings, MaxRuns <- RunsTicked

(* A log that is only opened shows nothing, and what the tabs are checked   *)
(* for is not in the logs: none is written there.                           *)
Tabs  == INSTANCE TestTabs
           WITH rows <- tableRows, MaxRuns <- RunsShown, MaxSize <- 0, MaxClicks <- TabClicks
Panes == INSTANCE OutputPanes
           WITH pc <- step, MaxRuns <- RunsShown, MaxSize <- LogSize, MaxClicks <- PaneClicks

ASSUME RecordsConstantsOK == GuiTable!TickConstantsOK /\ Panes!LiveConstantsOK

tickVars == <<tickRows, tickGuid, stage, waiting, shown, pc, snap, outputs, lastPass, history, toRead>>
shownVars == <<run, record, log, readCache, tick, clicks>>
tabVars == <<layout, layoutOrder, tableRows, rowByName, sort, menu, clipboard>>
paneVars == <<step, failed, picked, live>>

RecordsInit ==
  /\ focus \in {"history", "tick", "tabs", "panes"}
  /\ Init /\ GuiTable!Init /\ Tabs!Init /\ Panes!Init
  /\ focus # "history" => modes = CHOOSE habit \in Habits : TRUE

HistoryStep == focus = "history" /\ Next /\ UNCHANGED <<focus, tickVars, shownVars, tabVars, paneVars>>

TickStep == focus = "tick" /\ GuiTable!Next /\ UNCHANGED <<focus, vars, shownVars, tabVars, paneVars>>

TabsStep == focus = "tabs" /\ Tabs!Next /\ UNCHANGED <<focus, log, vars, tickVars, paneVars>>

PanesStep == focus = "panes" /\ Panes!Next /\ UNCHANGED <<focus, vars, tickVars, tabVars>>

RecordsSpec ==
  RecordsInit /\ [][HistoryStep \/ TickStep \/ TabsStep \/ PanesStep]_<<focus, vars, tickVars, shownVars, tabVars, paneVars>>

(* What a tick shows of a run and of last passes is what the table says     *)
(* (GuiTick).                                                               *)
SummariesCurrent == GuiTable!SummariesCurrent

(* Every output a tick shows is its own record's, and none of a completed   *)
(* test is missing (GuiTick).                                               *)
OutputsOwnAndComplete == GuiTable!OutputsOwnAndComplete

(* Not true of the code, whose cache keeps a test without output (GuiTick). *)
OutputsAsQueried == GuiTable!OutputsAsQueried

(* Bars and rows are those of the tick, in order, and found (TestTabs).     *)
TabsShowTick == focus = "tabs" => Tabs!TabsShowTick

(* List and pane agree, and the pane shows the output of the test it is     *)
(* about (OutputPanes).                                                     *)
PaneShowsChosen == focus = "panes" => Panes!PaneShowsChosen
=============================================================================
