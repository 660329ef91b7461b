----------------------------- MODULE RunControl -----------------------------
(***************************************************************************)
(* gui/run_tab/control_window.py and the closing of gui/gui_main.py: the   *)
(* GUI thread with its buttons, its periodic tick and closeEvent, and the  *)
(* background thread that prepares a run - winds down the previous runner, *)
(* discovers the tests, clears the coverage, starts the new runner - and   *)
(* hands it to the GUI thread by a queued signal.                          *)
(*                                                                         *)
(* The GUI thread runs one handler at a time; a handler is one action, but *)
(* for the tick, which reads the records first and asks the runner later,  *)
(* and closeEvent, which waits in between.                                 *)
(*                                                                         *)
(* A runner is reduced to what its callers can see: started but without a  *)
(* pool yet (is_running() is false, and stop() reaches no worker), with    *)
(* live workers, or over.  PytestRunner.tla has the rest of it.            *)
(***************************************************************************)
EXTENDS Integers

CONSTANTS
  MaxRuns         \* bound: how often Run is clicked in one behaviour

ASSUME ConstantsOK == MaxRuns \in Nat \ {0}

Runs   == 1 .. MaxRuns
NoRun  == 0       \* None
Failed == -1      \* a finished signal without a runner

VARIABLES
  \* the runners, by run_guid
  life,           \* "none", "starting", "live", "over"
  told,           \* those whose workers were told to stop
  stopRequested,  \* _stop_requested
  forceStopped,   \* _force_stopped
  softStop,       \* _soft_stop_event
  complete,       \* the runs with records, all of them terminal
  \* ControlWindow
  gui,            \* where the GUI thread stands
  runGuids,       \* how many run_guids were generated
  runGuid,        \* run_guid
  shown,          \* pytest_runner
  prepActive,     \* _run_prep_active
  softStopFlag,   \* _soft_stop_requested: the button reads "Cancel Stop"
  runEnabled,     \* run_button
  stopEnabled,    \* stop_button and force_stop_button, always alike
  tickComplete,   \* user_complete, as this tick's records have it
  \* the preparation thread
  prep,           \* where it stands
  prior,          \* prior_runner
  result,         \* what it is about to emit
  finished,       \* the emitted signal, until the GUI thread delivers it
  abort,          \* _run_prep_abort
  \* history
  overlooked,     \* runners that a check of is_running() or a stop() missed
  gaveUp          \* runners whose join timed out

runnerVars  == <<life, told, stopRequested, forceStopped, softStop, complete>>
buttonVars  == <<prepActive, softStopFlag, runEnabled, stopEnabled>>
windowVars  == <<runGuids, runGuid, shown, buttonVars>>
prepVars    == <<prep, prior, result, finished>>
historyVars == <<overlooked, gaveUp>>
vars == <<runnerVars, gui, windowVars, tickComplete, prepVars, abort, historyVars>>

TypeOK ==
  /\ life \in [Runs -> {"none", "starting", "live", "over"}]
  /\ told \subseteq stopRequested /\ stopRequested \subseteq Runs
  /\ forceStopped \subseteq stopRequested
  /\ softStop \subseteq Runs /\ complete \subseteq Runs
  /\ gui \in {"idle", "refresh", "joinPrep", "deliver", "stopRun", "joinRun", "closed"}
  /\ runGuids \in 0 .. MaxRuns
  /\ runGuid \in {NoRun} \cup Runs /\ shown \in {NoRun} \cup Runs
  /\ prepActive \in BOOLEAN /\ softStopFlag \in BOOLEAN
  /\ runEnabled \in BOOLEAN /\ stopEnabled \in BOOLEAN
  /\ tickComplete \in BOOLEAN
  /\ prep \in {"none", "detect", "windDown", "join", "discover", "load", "recheck",
               "start", "started", "emit"}
  /\ prior \in {NoRun} \cup Runs
  /\ result \in {Failed} \cup Runs
  /\ finished \in {NoRun, Failed} \cup Runs
  /\ abort \in BOOLEAN
  /\ overlooked \subseteq Runs /\ gaveUp \subseteq Runs

Init ==
  /\ life = [r \in Runs |-> "none"]
  /\ told = {} /\ stopRequested = {} /\ forceStopped = {} /\ softStop = {} /\ complete = {}
  /\ gui = "idle"
  /\ runGuids = 0 /\ runGuid = NoRun /\ shown = NoRun
  /\ prepActive = FALSE /\ softStopFlag = FALSE
  /\ runEnabled = TRUE /\ stopEnabled = FALSE
  /\ tickComplete = FALSE
  /\ prep = "none" /\ prior = NoRun /\ result = Failed /\ finished = NoRun
  /\ abort = FALSE
  /\ overlooked = {} /\ gaveUp = {}

-----------------------------------------------------------------------------
(* The runners                                                             *)

IsRunning(r)   == r # NoRun /\ life[r] = "live"
Unspawned(r)   == r # NoRun /\ life[r] = "starting"
Going          == {r \in Runs : life[r] \in {"starting", "live"}}

(* stop() signals the workers there are: none before the pool is spawned.  *)
OnlySignal(r) ==                              \* mutated form of StopRunner
  /\ told' = IF life[r] = "live" THEN told \cup {r} ELSE told
  /\ UNCHANGED stopRequested
StopRunner(r) ==
  /\ stopRequested' = stopRequested \cup {r}
  /\ told' = IF life[r] = "live" THEN told \cup {r} ELSE told

(* The queue is filled, which writes a QUEUED record for every test - if   *)
(* there is one -, and the pool is spawned.                                *)
PoolSpawns(r) ==
  /\ life[r] = "starting"
  /\ life' = [life EXCEPT ![r] = "live"]
  /\ complete' \in {complete, complete \ {r}}
  /\ UNCHANGED <<told, stopRequested, forceStopped, softStop, gui, windowVars, tickComplete,
                 prepVars, abort, historyVars>>

(* The last record of the run becomes terminal.                            *)
TestsComplete(r) ==
  /\ life[r] = "live"
  /\ complete' = complete \cup {r}
  /\ UNCHANGED <<life, told, stopRequested, forceStopped, softStop, gui, windowVars, tickComplete,
                 prepVars, abort, historyVars>>

(* The last worker leaves; a stop leaves records that are not terminal.    *)
WorkersLeave(r) ==
  /\ life[r] = "live"
  /\ r \in complete \cup stopRequested
  /\ life' = [life EXCEPT ![r] = "over"]
  /\ UNCHANGED <<told, stopRequested, forceStopped, softStop, complete, gui, windowVars,
                 tickComplete, prepVars, abort, historyVars>>

(* The resource guard's soft stop.                                         *)
GuardStops(r) ==
  /\ life[r] = "live"
  /\ softStop' = softStop \cup {r}
  /\ UNCHANGED <<life, told, stopRequested, forceStopped, complete, gui, windowVars,
                 tickComplete, prepVars, abort, historyVars>>

RunnerStep(r) == PoolSpawns(r) \/ TestsComplete(r) \/ WorkersLeave(r) \/ GuardStops(r)

-----------------------------------------------------------------------------
(* The GUI thread: the buttons                                             *)

SetButtons(run, stop) == runEnabled' = run /\ stopEnabled' = stop

ClickRun ==
  /\ gui = "idle" /\ runEnabled /\ ~prepActive
  /\ runGuids < MaxRuns
  /\ runGuids' = runGuids + 1
  /\ runGuid' = runGuids + 1
  /\ prepActive' = TRUE
  /\ SetButtons(FALSE, FALSE)
  /\ abort' = FALSE
  /\ prep' = "detect"
  /\ prior' = shown
  /\ UNCHANGED <<runnerVars, gui, shown, softStopFlag, tickComplete, result, finished, historyVars>>

(* The Stop button asks for a soft stop, or, relabelled, cancels it.       *)
ClickStop ==
  /\ gui = "idle" /\ stopEnabled /\ ~softStopFlag
  /\ softStop' = softStop \cup {shown}
  /\ softStopFlag' = TRUE
  /\ UNCHANGED <<life, told, stopRequested, forceStopped, complete, gui, runGuids, runGuid, shown,
                 prepActive, runEnabled, stopEnabled, tickComplete, prepVars, abort, historyVars>>

(* Too late once the run is over or was stopped hard: the flag stays.      *)
ClickCancelStop ==
  /\ gui = "idle" /\ stopEnabled /\ softStopFlag
  /\ IF life[shown] \in {"starting", "live"} /\ shown \notin stopRequested
       THEN softStop' = softStop \ {shown} /\ softStopFlag' = FALSE
       ELSE UNCHANGED <<softStop, softStopFlag>>
  /\ UNCHANGED <<life, told, stopRequested, forceStopped, complete, gui, runGuids, runGuid, shown,
                 prepActive, runEnabled, stopEnabled, tickComplete, prepVars, abort, historyVars>>

(* force_stop: stop, mark the records there are, give the buttons back.    *)
ClickForceStop ==
  /\ gui = "idle" /\ stopEnabled
  /\ StopRunner(shown)
  /\ forceStopped' = forceStopped \cup {shown}
  /\ complete' = IF Unspawned(shown) THEN complete ELSE complete \cup {shown}
  /\ SetButtons(TRUE, FALSE)
  /\ softStopFlag' = FALSE
  /\ runGuid' = NoRun
  /\ overlooked' = IF Unspawned(shown) THEN overlooked \cup {shown} ELSE overlooked
  /\ UNCHANGED <<life, softStop, gui, runGuids, shown, prepActive, tickComplete, prepVars, abort,
                 gaveUp>>

-----------------------------------------------------------------------------
(* The GUI thread: the tick                                                *)

TickReads ==
  /\ gui = "idle"
  /\ gui' = "refresh"
  /\ tickComplete' = (shown \in forceStopped \/ runGuid \in complete)
  /\ UNCHANGED <<runnerVars, windowVars, prepVars, abort, historyVars>>

DoneWhenWorkersLeave == shown = NoRun \/ ~IsRunning(shown)    \* mutated form of DoneForUser
DoneForUser == shown = NoRun \/ tickComplete \/ ~IsRunning(shown)

OwnStopsOnly == softStopFlag                  \* mutated form of StopPending
StopPending == softStopFlag \/ (IsRunning(shown) /\ shown \in softStop)

(* refresh_button_state                                                    *)
TickRefreshes ==
  /\ gui = "refresh"
  /\ gui' = "idle"
  /\ IF prepActive
       THEN SetButtons(FALSE, FALSE) /\ UNCHANGED softStopFlag
       ELSE IF DoneForUser
         THEN SetButtons(TRUE, FALSE) /\ softStopFlag' = FALSE
         ELSE SetButtons(FALSE, TRUE) /\ softStopFlag' = StopPending
  /\ tickComplete' = FALSE
  /\ UNCHANGED <<runnerVars, runGuids, runGuid, shown, prepActive, prepVars, abort, historyVars>>

-----------------------------------------------------------------------------
(* The preparation thread                                                  *)

PrepGoes(point) == prep' = point /\ UNCHANGED <<prior, finished>>

Alone == <<gui, windowVars, tickComplete, abort>>   \* what it never writes

Detect ==
  /\ prep = "detect"
  /\ PrepGoes("windDown")
  /\ UNCHANGED <<runnerVars, result, Alone, historyVars>>

(* OSError, RuntimeError and the like end the preparation without a        *)
(* runner; the signal is emitted all the same.                             *)
PrepFails ==
  /\ prep \in {"detect", "windDown", "load", "recheck"}
  /\ PrepGoes("emit")
  /\ result' = Failed
  /\ UNCHANGED <<runnerVars, Alone, historyVars>>

LeaveItRunning == UNCHANGED <<told, stopRequested>>  \* mutated form of StopPrior
StopPrior == StopRunner(prior)

WindDown ==
  /\ prep = "windDown"
  /\ IF IsRunning(prior)
       THEN StopPrior /\ PrepGoes("join") /\ UNCHANGED overlooked
       ELSE /\ PrepGoes("discover")
            /\ overlooked' = IF Unspawned(prior) THEN overlooked \cup {prior} ELSE overlooked
            /\ UNCHANGED <<told, stopRequested>>
  /\ UNCHANGED <<life, forceStopped, softStop, complete, result, Alone, gaveUp>>

NotWaited == TRUE                             \* mutated form of PriorIsOver
PriorIsOver == life[prior] = "over"

PriorJoined ==
  /\ prep = "join" /\ PriorIsOver
  /\ PrepGoes("discover")
  /\ UNCHANGED <<runnerVars, result, Alone, historyVars>>

(* The join is bounded.                                                    *)
JoinTimesOut ==
  /\ prep = "join" /\ life[prior] # "over"
  /\ PrepGoes("discover")
  /\ gaveUp' = gaveUp \cup {prior}
  /\ UNCHANGED <<runnerVars, result, Alone, overlooked>>

Discovered ==
  /\ prep = "discover"
  /\ PrepGoes("load")
  /\ UNCHANGED <<runnerVars, result, Alone, historyVars>>

DiscoveryAborted ==
  /\ prep = "discover" /\ abort
  /\ PrepGoes("emit")
  /\ result' = Failed
  /\ UNCHANGED <<runnerVars, Alone, historyVars>>

(* The records are read, RESTART clears the coverage directory, RESUME      *)
(* copies the records of the tests that passed, which may be all of them.  *)
Load ==
  /\ prep = "load"
  /\ PrepGoes("recheck")
  /\ complete' \in {complete, complete \cup {runGuids}}
  /\ UNCHANGED <<life, told, stopRequested, forceStopped, softStop, result, Alone, historyVars>>

Recheck ==
  /\ prep = "recheck"
  /\ IF abort THEN PrepGoes("emit") /\ result' = Failed
              ELSE PrepGoes("start") /\ UNCHANGED result
  /\ UNCHANGED <<runnerVars, Alone, historyVars>>

StartRunner ==
  /\ prep = "start"
  /\ PrepGoes("started")
  /\ life' = [life EXCEPT ![runGuids] = "starting"]
  /\ UNCHANGED <<told, stopRequested, forceStopped, softStop, complete, result, Alone, historyVars>>

(* A window that closes between start and adoption: stop it here.          *)
StartedRecheck ==
  /\ prep = "started"
  /\ PrepGoes("emit")
  /\ IF abort
       THEN /\ StopRunner(runGuids)
            /\ overlooked' = IF Unspawned(runGuids) THEN overlooked \cup {runGuids} ELSE overlooked
            /\ result' = Failed
       ELSE /\ result' = runGuids
            /\ UNCHANGED <<told, stopRequested, overlooked>>
  /\ UNCHANGED <<life, forceStopped, softStop, complete, Alone, gaveUp>>

EmittedIfPrepared == IF result = Failed THEN NoRun ELSE result  \* mutated form of Emitted
Emitted == result

Emit ==
  /\ prep = "emit"
  /\ prep' = "none"
  /\ finished' = Emitted
  /\ result' = Failed
  /\ prior' = NoRun
  /\ UNCHANGED <<runnerVars, Alone, historyVars>>

PrepStep ==
  \/ Detect \/ WindDown \/ PriorJoined \/ JoinTimesOut \/ Discovered \/ DiscoveryAborted
  \/ Load \/ Recheck \/ StartRunner \/ StartedRecheck \/ Emit

(* _on_run_prep_finished, the slot of the queued signal                    *)
Adopt ==
  /\ finished # NoRun
  /\ finished' = NoRun
  /\ prepActive' = FALSE
  /\ IF finished = Failed
       THEN SetButtons(TRUE, FALSE) /\ UNCHANGED <<shown, softStopFlag>>
       ELSE shown' = finished /\ SetButtons(FALSE, TRUE) /\ softStopFlag' = FALSE
  /\ UNCHANGED <<runnerVars, runGuids, runGuid, tickComplete, prep, prior, result, abort,
                 historyVars>>

AdoptWhenIdle == gui = "idle" /\ Adopt /\ UNCHANGED gui

-----------------------------------------------------------------------------
(* The GUI thread: closeEvent                                              *)

(* The user confirms, if asked; a preparation in flight is told to abort.  *)
Close ==
  /\ gui = "idle"
  /\ gui' = IF prep # "none" THEN "joinPrep" ELSE "deliver"
  /\ abort' = (abort \/ prep # "none")
  /\ UNCHANGED <<runnerVars, windowVars, tickComplete, prepVars, historyVars>>

(* The preparation thread exits, or ten seconds pass - which its last      *)
(* steps, from the second look at the abort flag on, do not take.          *)
PrepJoined ==
  /\ gui = "joinPrep" /\ prep \notin {"start", "started", "emit"}
  /\ gui' = "deliver"
  /\ UNCHANGED <<runnerVars, windowVars, tickComplete, prepVars, abort, historyVars>>

NothingDelivered == FALSE                     \* mutated form of Deliverable
Deliverable == finished # NoRun

(* processEvents: a runner that was just prepared is adopted.              *)
Deliver ==
  /\ gui = "deliver"
  /\ gui' = "stopRun"
  /\ IF Deliverable THEN Adopt
     ELSE UNCHANGED <<runnerVars, windowVars, tickComplete, prepVars, abort, historyVars>>

CloseStops ==
  /\ gui = "stopRun"
  /\ IF IsRunning(shown)
       THEN gui' = "joinRun" /\ StopRunner(shown) /\ UNCHANGED overlooked
       ELSE /\ gui' = "closed"
            /\ overlooked' = IF Unspawned(shown) THEN overlooked \cup {shown} ELSE overlooked
            /\ UNCHANGED <<told, stopRequested>>
  /\ UNCHANGED <<life, forceStopped, softStop, complete, windowVars, tickComplete, prepVars, abort,
                 gaveUp>>

(* The runner is over, or thirty seconds pass.                             *)
RunJoined ==
  /\ gui = "joinRun"
  /\ gui' = "closed"
  /\ gaveUp' = IF life[shown] = "over" THEN gaveUp ELSE gaveUp \cup {shown}
  /\ UNCHANGED <<runnerVars, windowVars, tickComplete, prepVars, abort, overlooked>>

ClosingStep == PrepJoined \/ Deliver \/ CloseStops \/ RunJoined

-----------------------------------------------------------------------------
Click == ClickRun \/ ClickStop \/ ClickCancelStop \/ ClickForceStop

(* The window is gone; what is left goes on without it.                    *)
Closed == gui = "closed" /\ UNCHANGED vars

Next ==
  \/ \E r \in Runs : RunnerStep(r)
  \/ Click \/ Close
  \/ TickReads \/ TickRefreshes \/ AdoptWhenIdle
  \/ PrepStep \/ PrepFails
  \/ ClosingStep
  \/ Closed

Spec == Init /\ [][Next]_vars

(***************************************************************************)
(* The GUI thread goes on: its timer ticks and its handlers return, and    *)
(* Qt delivers a queued signal whatever else it has to do, hence strong    *)
(* fairness.  The preparation thread runs, its join is bounded, and the    *)
(* discovery process ends.  Nothing is assumed of the runners: workers may *)
(* be wedged for ever.                                                     *)
(***************************************************************************)
FairSpec ==
  /\ Spec
  /\ WF_vars(TickReads) /\ WF_vars(TickRefreshes) /\ SF_vars(AdoptWhenIdle)
  /\ WF_vars(ClosingStep)
  /\ WF_vars(PrepStep)

-----------------------------------------------------------------------------
(* Properties                                                              *)

(* A run that is started replaces the one before: whoever still goes has   *)
(* been told to stop, but for one (control_window.py:362-368).  A runner   *)
(* whose pool is not there yet looks finished and is overlooked.           *)
OneRunAtATime ==
  \A r, s \in Going \ (told \cup overlooked) : r = s

(* "we cannot delete the directory while a still-running PytestProcess is  *)
(* mid-coverage.save()" (control_window.py:393-396): the coverage is       *)
(* cleared only when the previous runner is over, or its join timed out,   *)
(* or it was overlooked.                                                   *)
CoverageNotPulled ==
  [][Load => Going \subseteq overlooked \cup gaveUp]_vars

(* The window takes its run with it: when it has closed, no runner works   *)
(* on without having been told to stop, wherever its preparation stood and *)
(* whatever timed out (gui_main.py:180-190, control_window.py:478-482) -   *)
(* but for a runner without a pool, which is overlooked.                   *)
WindowTakesRunAlong ==
  (gui = "closed" /\ prep = "none") => Going \subseteq told \cup overlooked

(* The same without that exception, as gui_main.py:180-182 has it: "a      *)
(* runner it already started is stopped by the path below instead of       *)
(* outliving the window".                                                  *)
NoRunOutlivesWindow ==
  (gui = "closed" /\ prep = "none") => Going \subseteq told

(* However a preparation ends, the GUI gets its controls back              *)
(* (control_window.py:339-340).                                            *)
ControlsComeBack == prepActive ~> (~prepActive \/ gui = "closed")

Usable == gui \in {"idle", "refresh"} /\ ~prepActive

(* A wedged worker never disables Run for good: once every test of the     *)
(* shown run is terminal or it was force-stopped, Run is enabled although  *)
(* its workers never leave (control_window.py:207-209).                    *)
NotLockedOut ==
  (Usable /\ (shown \in forceStopped \/ (IsRunning(shown) /\ shown \in complete /\ runGuid = shown)))
    ~> (runEnabled \/ ~Usable)

(* A soft stop the resource guard asked for reaches the Stop button, so    *)
(* that the user can cancel it (control_window.py:200-204).                *)
GuardStopShown ==
  (Usable /\ IsRunning(shown) /\ shown \in softStop)
    ~> (softStopFlag \/ runEnabled \/ ~Usable \/ shown \notin softStop)
=============================================================================
