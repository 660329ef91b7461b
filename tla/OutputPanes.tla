----------------------------- MODULE OutputPanes -----------------------------
(* The list of failed tests and the pane for live output in the Run tab.    *)
(* The pane streams a running test, until a failed test is clicked and      *)
(* thereby pinned; the list tells the pane by a signal, delivered at once,  *)
(* perhaps in the middle of a tick.                                         *)
EXTENDS LiveOutput

CONSTANT MaxClicks   \* bound: what the user does

VARIABLES
  pc,      \* the tick's next step; "idle": none
  tick,    \* the TickData that is passed around
  failed,  \* Failed Tests: _failed_names
  picked,  \* _selected_name; NoTest
  live,    \* Live Output: its fields, and what its view shows
  clicks   \* what the user has done

panes == <<failed, picked, live>>
vars == <<world, readCache, pc, tick, panes, clicks>>

Init ==
  /\ WorldInit /\ pc = "idle" /\ tick = <<>> /\ failed = <<>> /\ picked = NoTest
  /\ live = [running |-> <<>>, selected |-> NoTest, pinned |-> NoTest,
             lastText |-> Empty, view |-> Empty, rebuild |-> FALSE, latest |-> <<>>]
  /\ clicks = 0

(* No record is read after the first step of a tick, and a log only by the  *)
(* pane's, of which there may be two.                                       *)
WorldMoves ==
  /\ \/ pc = "idle" /\ RecordsChange
     \/ pc \in {"idle", "live"} /\ LogsChange
  /\ UNCHANGED <<readCache, pc, tick, panes, clicks>>

-----------------------------------------------------------------------------
(* A slip: a test that has left the list stays picked.                      *)
PickedAnyway(names) == picked

(* FailedTestsWindow.update_tick: what was picked stays so if it is still   *)
(* listed.                                                                  *)
Restored(names) == IF picked \in ToSet(names) THEN picked ELSE NoTest

(* set_pinned_failed_test(None).                                            *)
Unpinned == [live EXCEPT !.pinned = NoTest, !.lastText = Empty, !.view = Empty, !.rebuild = TRUE]

(* A tick begins: gui_main.py, _update_tick, and run_tab.py, update_tick.   *)
UpdateFailed ==
  LET names == InState(record, {"Fail", "Terminated"})
      kept  == IF names = failed THEN picked ELSE Restored(names)
  IN  /\ pc = "idle" /\ tick' = record /\ failed' = names /\ picked' = kept
      /\ IF kept # picked THEN live' = Unpinned /\ pc' = "unpinned"
                          ELSE live' = live /\ pc' = "live"
      /\ UNCHANGED <<world, readCache, clicks>>

(* _render_pinned, for data the pane has or has just been given.            *)
RenderPinned(pane, data) ==
  LET text == Output(data, pane.pinned)
  IN  /\ live' = IF text = pane.lastText THEN pane
                 ELSE [pane EXCEPT !.lastText = text, !.view = text]
      /\ readCache' = CacheAfterOutput(data, pane.pinned)

(* _rebuild_selector: who was streamed still is, if it runs.                *)
Rebuilt(pane, names) ==
  LET keep == pane.selected \in ToSet(names)
      next == IF names = <<>> THEN NoTest ELSE IF keep THEN pane.selected ELSE names[1]
  IN  IF next # NoTest /\ ~ keep
      THEN [pane EXCEPT !.running = names, !.rebuild = FALSE, !.selected = next,
                        !.lastText = Empty, !.view = Empty]
      ELSE [pane EXCEPT !.running = names, !.rebuild = FALSE, !.selected = next]

(* The rest of update_tick: what the selected test has written.             *)
Stream(pane) ==
  IF pane.selected = NoTest
  THEN /\ live' = IF pane.lastText = Empty THEN pane
                  ELSE [pane EXCEPT !.lastText = Empty, !.view = Empty]
       /\ UNCHANGED readCache
  ELSE LET text == ReadLive(readCache, pane.selected, TailOf)
       IN  /\ live' = IF text = pane.lastText THEN pane
                      ELSE [pane EXCEPT !.lastText = text, !.view = text]
           /\ readCache' = CacheAfter(readCache, pane.selected, TailOf)

(* LiveOutputWindow.update_tick.                                            *)
UpdatePane(data) ==
  LET pane  == [live EXCEPT !.latest = data]
      names == InState(data, {"Running"})
  IN  IF pane.pinned # NoTest THEN RenderPinned(pane, data)
      ELSE Stream(IF names # pane.running \/ pane.rebuild THEN Rebuilt(pane, names) ELSE pane)

(* Unpinning shows what the last tick brought, this one follows.            *)
UpdateUnpinned ==
  /\ pc = "unpinned" /\ pc' = "live" /\ UpdatePane(live.latest)
  /\ UNCHANGED <<world, tick, failed, picked, clicks>>

UpdateLive ==
  /\ pc = "live" /\ pc' = "idle" /\ UpdatePane(tick)
  /\ UNCHANGED <<world, tick, failed, picked, clicks>>

-----------------------------------------------------------------------------
(* The user, between ticks.                                                 *)

UserActs == pc = "idle" /\ clicks < MaxClicks /\ clicks' = clicks + 1

(* A failed test is clicked: it is pinned, or no longer.                    *)
ClickFailed(t) ==
  /\ UserActs /\ t \in ToSet(failed)
  /\ IF t = picked
     THEN /\ picked' = NoTest
          /\ LET names == InState(live.latest, {"Running"}) IN Stream(Rebuilt(Unpinned, names))
     ELSE /\ picked' = t
          /\ RenderPinned([live EXCEPT !.pinned = t, !.lastText = Empty], live.latest)
  /\ UNCHANGED <<world, pc, tick, failed>>

(* Another running test is chosen; the selector is disabled while pinned.   *)
SelectRunning(t) ==
  /\ UserActs /\ live.pinned = NoTest /\ t \in ToSet(live.running) \ {live.selected}
  /\ live' = [live EXCEPT !.selected = t, !.lastText = Empty, !.view = Empty]
  /\ UNCHANGED <<world, readCache, pc, tick, failed, picked>>

Next ==
  \/ WorldMoves \/ UpdateFailed \/ UpdateUnpinned \/ UpdateLive
  \/ \E t \in Tests : ClickFailed(t) \/ SelectRunning(t)

Spec == Init /\ [][Next]_vars

-----------------------------------------------------------------------------
(* Between ticks the list and the pane agree on what is pinned, a test that *)
(* is listed; and the pane shows the output of the test it is about - but   *)
(* for a pinned test without any output.                                    *)
PaneShowsChosen ==
  LET about == IF live.pinned = NoTest THEN live.selected ELSE live.pinned IN
  pc = "idle" =>
    /\ live.pinned = picked /\ (picked # NoTest => picked \in ToSet(failed))
    /\ \/ live.view.of \in {NoTest, about}
       \/ live.pinned # NoTest /\ live.lastText = Empty

(* Not true of the code, when the test has no output: its title is shown    *)
(* over the text of another.  (live_output_window.py, _render_pinned:       *)
(* "Render the pinned failed test's captured output into the text view".)   *)
PinnedShowsItsOutput == live.pinned # NoTest => live.view.of \in {NoTest, live.pinned}

=============================================================================
