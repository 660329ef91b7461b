# pytest-fly in TLA+

pytest-fly runs a test suite in parallel, one process per test module, and shows its progress in a
Qt window. This directory holds a TLA+ model of it - *which test runs when, what its records say,
when a run is over, what the next run makes of it, and whether what the window shows is true* - the
TLC configurations that check the model on small instances, and proofs, checked by TLAPS, of the
properties that matter most.

The modules are translated from the code under `src/src/pytest_fly/`; paths below are relative to
it. `PROJECT.json` maps every definition to its lines, lists every part of the system with its
status, and every hazard of the code, at its line, with the property that watches it.

## 1. The system

| part | state | operations | talks to |
|---|---|---|---|
| **runner thread** `pytest_runner/pytest_runner.py`, `PytestRunner` | queue, pool of workers, `number_of_processes`, soft-stop, stop and force-stop flags | `run` (enqueue, spawn, supervise, finalise), `set_number_of_processes`, `soft_stop`, `cancel_soft_stop`, `stop`, `force_stop_and_reset`, `force_stop_test` | called by the GUI, the stall watchdog, the resource guard; writes records |
| **worker threads** same file, `_TestRunner` | test in hand, process, stop / retire / force events | dequeue, admission, slot, start, poll, kill, reap, release | queue, coordinator, process, records |
| **singleton coordinator** `singleton_coordinator.py` | three fields under a condition | acquire / release, normal and singleton | workers |
| **test process** `pytest_process.py`, `process_monitor.py` | a process, its monitor, its descendants | RUNNING record, live output, result record, exit; tree kill and reaping from outside | records, operating system |
| **admission gates, resource guard** `admission.py`, `resource_guard.py` | a shared CPU sample; breaches and a latch | may a test start now; one soft stop | workers, runner |
| **stall watchdog** `stall_watchdog.py` on `monitor_thread.py` | fingerprint, timer, published info | tick, flag or force-stop the run | records, psutil, runner |
| **results database** `db/db.py`, `run_state.py`, `tick_data.py` | rows per run and test, time stamps | writes, queries, states derived from rows | everybody |
| **run modes, history, ordering** `interfaces.py`, `run_history.py`, `put_version.py`, `ordering.py` | earlier runs' records, fingerprints | what RESUME and CHECK skip and carry over; the order of the rest | database, run control |
| **test discovery** `test_list.py` | a process and its queue | two collections, merged | run control |
| **coverage** `coverage.py`, `gui/coverage_tracker.py` | a file per test, generation, worker thread | collect, combine, publish | main window, test processes |
| **run control** `gui/run_tab/control_window.py` | buttons, the runner shown, preparation thread, abort flag | Run, Stop / Cancel Stop, Force Stop, tick, adopt | runner, main window |
| **main window** `gui/gui_main.py` | caches, tick timer | tick, `closeEvent`, reset | run control, database |
| **displays** `gui/table_tab`, `gui/graph_tab`, `gui/run_tab` | rows, bars, selections, kept from tick to tick | update in place, user clicks | main window, live output |
| **configuration** `preferences.py`, `gui/configuration_tab`, mode and parallelism boxes | preferences, saved one by one | widgets' slots, couplings, Restore Defaults | run control |

What is hard is hardly ever one handler, but what happens between two: workers hand tests back to a
queue that another thread drains; a retire, a soft stop and its cancellation overlap; records are
written by processes that are being killed; the GUI asks `is_running()` of a thread that has not
got as far as running; a tick makes four queries of a table that is written to in between; pids
are reused; the application may crash anywhere, and the next run resumes from what is left.

What makes each part correct:

* *coordinator* - a singleton has the pool to itself; the counters mean what they say; a waiting
  singleton is neither overtaken nor starved;
* *runner and workers* - a test is in exactly one place and starts at most once; none is lost
  between the queue and the records; a run that ends has settled every test; nothing outlives a
  stop; results stay;
* *processes* - a result is recorded although a monitor hangs; no descendant that was seen
  outlives its test; nothing foreign is killed;
* *throttles and watchdog* - the guard asks once, the watchdog raises no false alarm and misses no
  wedge;
* *history* - CHECK skips what was proven, RESUME loses and invents no pass, the order is the one
  that was asked for;
* *window* - one run at a time; controls come back; closing takes the run along; what is shown is
  current, of the shown run, and of the right test; what is set is what is stored.

## 2. The modules

| module | models | state and actions |
|---|---|---|
| `ExclusiveAccess` | what the coordinator promises | normal holders, at most one exclusive holder |
| `SingletonCoordinator` | `SingletonCoordinator` | the three fields and who waits; one action per way a method can go |
| `TestDispatch` | what the runner promises about processes | tests pending, running, ended; a singleton starts alone |
| `PytestRunner` | `PytestRunner`, `_TestRunner`, processes and records as they see them | below; has `SingletonCoordinator` by `INSTANCE` |
| `TestProcess` | `_run_single_test` and `PytestProcess.run` for one test, `kill_process_tree`, `reap_pids` | test process, its monitor, the operating system's table of pids, and the worker that polls, kills and reaps, call by call |
| `Throttling` | `AdmissionGate`s, `ResourceGuard.tick`, `MonitorThread.run` | workers, soft stop and cancel, the CPU sample with its age, the guard with its count and latch |
| `StallWatchdog` | `StallWatchdog.tick`, `MonitorThread.run` | read, evaluate, check, wait; the tests are its environment |
| `RunControl` | `ControlWindow`, `closeEvent` | GUI thread, preparation thread, runners as their callers see them |
| `TestDiscovery` | `GetTests` and the wait for it | the process, its queue's feeder thread and pipe, the preparation |
| `RunHistory` | `_build_runner`'s reading and writing of records, `run_history`, `ordering`, `mark_test_terminated_if_stale` | the table, the program under test with its HEAD and edits, a run as the records it leaves |
| `OrderingAspects` | `OrderingAspectsWidget` and the list it stores | rows, checked or not; a saved list |
| `Settings` | `Configuration`, run mode and parallelism boxes, the reconciling of the process count, the target path | preferences, widgets, and what a running handler has still to write |
| `CoverageTracker` | `CoverageTracker`, its thread, the coverage directory | submit and signal; take, combine, read per test, publish |
| `GuiTick` | `_update_tick` with its three caches | one action per query, over a table that grows in between |
| `LiveOutput` | records, logs and the read cache of `live_output.py`, `resolve_test_output`; numbers in ascending order | extended by the next two |
| `TestTabs` | table and graph tab as a tick refreshes them | rows, index, sorting, bars; context menu and clipboard |
| `OutputPanes` | failed tests and live output pane | list, pick, pin; a signal delivered in the middle of a tick |
| `*Proofs` | section 5 | |
| `MC*` | model values, small tables, compositions | section 3 |

### PytestRunner

One action is one critical section, or one step between two points at which another thread can
look. A worker has a program counter (`worker[w]`) through `_TestRunner.run`: `check` (should it
stop?), `get`, `admit` and `sample` (the gates), `acquire`, `refused` (`_handle_not_acquired`),
`launch`, `watch`, `kill`, `finish`, `release`, `exiting`, `dead`. The runner thread goes through
`enqueue`, `spawn` and the supervision loop, `scan` and `heal`; it holds `_pool_lock` from one to
the other, and every other section under that lock is one action guarded by `PoolLockFree`. `stop`
sets its flag before it takes the lock, so it is two steps, and `force_stop_and_reset` three
(`caller`). A process is `starting`, `running`, `reported` (its final record is written, it has not
exited), `dead`.

Kept because properties depend on it: `exiting`, in which a thread has left its loop and
`is_alive()` still says true; `process[w]`, which names the last test of a worker even after it is
over; the events read twice in a refused worker; the healing loop's own count of workers; the pool
as seen by callers before it exists (`EarlyCalls`).

Abstracted: the records of a test are its latest state, written at once; `run` enqueues, and
`force_stop_and_reset` marks, in one step each, as each writes in one database session; the gates
may answer anything at any time; a tree kill succeeds (what it does in between is `TestProcess`);
a condition is modelled by its predicate, so a wait may be re-examined at any time, as its poll
does. `ResetSettlesEveryTest` is checked without a crashing process: one that writes RUNNING after
the reset and then dies would leave that row.

### TestProcess, Throttling, StallWatchdog

`TestProcess` has one test and an operating system that reuses pids, for strangers too. A handle
is a pid with its create time. Polls list descendants, a stop or an exit may come between any two
of them, a tree kill terminates, rescans and kills, and reaping resolves what was listed by pid
*and* create time. A terminated process may survive until it is killed.

`Throttling` gives the gates and the guard any readings. The CPU fraction is measured at most
once per interval and shared; the first call only primes it. A good reading clears the guard's
count; the latch is never cleared.

In `StallWatchdog` a tick reads the records (`ReadRecords`), samples the processes and publishes
the verdict (`Evaluate`, or `RunIsNotLive`), then asks whether the run goes on (`Check`). Tests
start, work, end, are killed or crash in between. A wait takes one of `Gaps`; nothing else takes
time. A sample says whether the process used more than the epsilon since the previous sample, and
nothing of a process that is gone or first seen, as `SubtreeCpuSampler` has it. The fingerprint has
a time stamp that goes *back* when the newest row loses its pid. `quiet` and `idle` are history:
how long nothing was recorded, and how long a process has not worked.

### RunControl, TestDiscovery, Settings

The GUI thread runs a handler at a time. Handlers are actions, except the tick of `RunControl`,
which derives `user_complete` from records it read earlier, and `closeEvent`, which joins the
preparation thread, delivers queued signals, stops the runner and joins it. The preparation thread
goes through `_build_runner` step by step and looks at the abort flag where the code does. A
runner is `starting` until its pool is spawned: `is_running()` is false then and `stop()` signals
nobody. `overlooked` is history: runners for which such a test was made while they were starting.
The last steps of a preparation, after its second look at the abort flag, are taken to be quicker
than the ten seconds the window waits. A guard's soft stop may come at any time here; that it
comes once is `Throttling`'s.

`TestDiscovery` opens up the one step `Discovered` of that: two passes, a merge in which the first
kind found is kept, a queue whose feeder writes to a pipe that holds `PipeCapacity`, a wait for the process.

`Settings` keeps for a handler the list of operations it has still to do (`todo`): storing a
preference, telling another widget, whose slot runs at once, validating. The application may end
between any two, and the next launch builds its widgets from what was saved.

### RunHistory, GuiTick, LiveOutput and the tabs

`RunHistory` keeps the whole table, in row order, with time stamps, fingerprints and, as history,
the version a record was really obtained on. Between runs the user edits, commits and checks out.
A run takes one test at a time: the interleaving of workers is `PytestRunner`'s.

`GuiTick` sees a table to which processes append between the four queries of a tick, and between
the tick and the click on Run that gives it another run to show. `LiveOutput` has what the two tab
modules share: the states of tests that a tick derives, logs that grow and are truncated when
their test starts again, and the cache that remembers the last text read of each. A displayed text
is the test and run it is of and how much of it there is.

`MCRecords` has all of them side by side, as far as they live off the results table (section 3).
Lists that the code sorts are defined by the place each member takes - one more than the number of
those that come before it - and not by repeated selection, so that the proofs can use what they are.

## 3. The runs

| run | configuration | properties |
|---|---|---|
| `coordinator` | four threads, each of either kind at every turn | `CountersMatchSlots`, `ImplementsExclusiveAccess`, `NormalsDoNotStarveSingletons` |
| `runner_live` | two workers, three tests, gates that may refuse for ever; soft stop, force stop of a test, resize to 0 or 1: two calls at any time, also before the pool exists | `EveryTestSettled`, `NoTestLost`, `EveryTestEnds`, `SoftStopEnds` |
| `runner_resize` | resizes, soft stop, cancel: three calls; a process that may not start and one that may crash | `OneOwner`, `NoOvercommit`, `StoppedNeverRan`, `ImplementsDispatch`, `ResultsStick` |
| `runner_stop` | soft stop, cancel, stop, force stop & reset: three calls; processes need not end | `StopReachesEveryWorker`, `ResetSettlesEveryTest`, `StopEnds` |
| `stall_watchdog` | two tests, warn 2, kill 3, waits of 1 or 2, read errors, a crash | `FlagsOnlyQuietRuns`, `EscalatesOnlyWhenIdle`, `WedgeIsFlagged` |
| `run_control` | two runs | `OneRunAtATime`, `WindowTakesRunAlong`, `CoverageNotPulled`, `ControlsComeBack`, `NotLockedOut` |
| `records` | history: three runs of two tests in every mode, tests that differ in duration, coverage, kind, and pass, die without a record, or pass and are killed all the same; tick: one more run, on a table left by a crash; tabs and panes: two runs, two clicks, and for the tabs no logs, as their property is not about the tips that show them | `CheckSkipsOnlyProven`, `ResumeKeepsPasses`, `LastPassIsGenuine`, `OrderFollowsAspects`, `SummariesCurrent`, `OutputsOwnAndComplete`, `TabsShowTick`, `PaneShowsChosen` |
| `coverage` | two tests, two runs | `CoverageOfThisRun`, `CoverageCatchesUp` |
| `services` | process: three pids, three births; throttles: two workers, three tests, two cancels; settings: four actions of the user over two paths and three numbers; discovery: three modules, one marked, a pipe for three; aspects: the four of the code | `NoForeignSignalled`, `SeenOrphansReaped`, `ResultDespiteMonitor`, `GuardStopsOnce`, `PoolFollowsSettings`, `DiscoveryComplete`, `ShownIsStored` |

Every property has a mutant in `PROJECT.json`: a definition changed as a slip in that code would
change it (they stand in the modules as "A slip" or "mutated form"), under which TLC finds the
property violated.

`MCRecords` and `MCServices` put components side by side that share no state. A behaviour is one
of the component in `focus` and the others rest in their initial state, so that the states to
visit are the *sum* of the components' and not their product. Nothing is lost by it: with no
variable in common no step of one can disturb a property of another; the
lemmas `ComponentsStep` of `ServicesProofs`, `RecordsHistory` of `RunHistoryProofs`, and
`RecordsTick`, `RecordsPanes`, `RecordsTabs` of `DisplaysProofs` prove it of those the theorems are about.

**Bounds.** Two workers and three tests, of which one is a singleton, are enough for every
conflict over a slot, a queue position or a test: a singleton against a normal test, a third test
for the one who lets go. The singleton comes last, as the ordering puts it, or in the middle, so
that a normal test queues behind it. `MaxOperations` is two or three: each hazard is a call against
a call, possibly undone by a third. `MaxWorkers` never binds in a passing run. Four threads let two
wait behind two holders. Two runs suffice in `RunControl`, as a runner is only ever compared with
its predecessor. The watchdog's windows leave room for one tick below, at and above each
threshold, and a wait of two can step over one. Three runs in `RunHistory` let a run resume one
that itself resumed; two versions and a HEAD let a pass be old, a checkout bring it back, and an
edit go unseen. Three pids are a child, a grandchild and the stranger that gets a pid again, with a
monitor among them. In `GuiTick` the new run may start between any two queries.

**Violations found.** Each of these runs checks one statement of the code's own comments against
the code, and TLC's trace shows how it fails.

| run | what happens |
|---|---|
| `retire_strands_queue` | the pool shrinks; the worker that retires hands its test back after the surviving one found the queue empty and left. The run ends with a queued test, which `_handle_not_acquired` says a surviving worker runs. |
| `cancel_drops_test` | a refused worker reads the soft stop a second time, after its cancellation, and drops its test. |
| `discovery_jams` | the preparation waits for the discovery process before it empties its queue; with more tests than the pipe holds neither goes on, although "the GUI always recovers its controls". |

The configurations below each show one more disagreement; they are kept beside the runs, to be
read with the modules they are of (`tlc -config X.cfg M`).

| configuration | module, property | the code | what it says elsewhere |
|---|---|---|---|
| `ForceStopHitsNext` | `MCPytestRunner`, `TerminatedOnRequest` | `force_stop_test` finds a worker by the process it ran before; its next test is killed | "Other workers are unaffected" (`pytest_runner.py:425-426`) |
| `StallBannerStays` | `MCStallWatchdog`, `NoAlarmLeft` | Force Stop ends the watchdog without a last tick; the alarm stays | `get_stall_info` is None "if not running" (`pytest_runner.py:287`) |
| `CloseLeavesRun` | `MCRunControl`, `NoRunOutlivesWindow` | a window closes on a runner without a pool: nobody stops it | "instead of outliving the window" (`gui_main.py:180-182`) |
| `GuardEndsEarly` | `Throttling`, `GuardLastsTheRun` | a monitor that ticks between the last worker's exit and a renewed pool is gone | "for the lifetime of a run" (`monitor_thread.py:19`) |
| `OrphanOutlivesTest` | `TestProcess`, `NoDescendantOutlivesTest` | a descendant no poll has listed outlives its test | "none of its descendants survive" (`docs/pytest-fly-liveness-recovery-spec.md:90`) |
| `CheckTrustsDirtyTree` | `MCRecords`, `CheckSkipsOnlyProven` | the fingerprint of a dirty tree is that of any other edit on the same commit | "any uncommitted change invalidates CHECK" (`interfaces.py:152`) |
| `RestartForgetsCoverage` | `MCRecords`, `OrderUsesCoverage` | RESTART clears the coverage directory before the order reads it | "RESTART only means 'rerun every test'" (`control_window.py:429-430`) |
| `HistoryStart` | `MCRecords`, `HistoryStartsWithRun` | records carried over keep their time stamps, and the earliest is the run's start | "wall-clock start of the run" (`run_history.py:22`) |
| `ResetHidesOutput` | `MCRecords`, `OutputsAsQueried` | a test that has a cached None, or a rewritten result, stays without output | "exactly as if they had been queried whole" (`gui_main.py:231`) |
| `BadWindowsHidden` | `Settings`, `BadWindowsShown` | a window that opens on bad windows saved earlier shows no warning until one is edited | "shown in the UI" (`configuration.py:513`) |
| `AspectsOutOfPlace` | `MCServices`, `EnabledAboveDisabled` | a row can be dragged anywhere | "Enabled rows appear above disabled ones" (`ordering_aspects_widget.py:42`) |
| `PinnedOverOtherText` | `OutputPanes`, `PinnedShowsItsOutput` | pinning a test without output leaves the text of another | "Render the pinned failed test's captured output" (`live_output_window.py:115`) |
| `CopyTruncated` | `TestTabs`, `CopiesWholeOutput` | the cache does not tell a tail from the whole | "the full captured pytest output" (`gui_util.py:156`) |
| `CopyOtherTest` | `TestTabs`, `CopiesOwnOutput` | the menu's row is another test's by the time it is read | "the tooltip text if no output is available yet" (`table_tab.py:144`) |

The docstring of `cancel_soft_stop` (`pytest_runner.py:386-388`) counts on the supervision loop to
heal a shortfall; an empty pool ends that loop. `QueueServed` also fails when the only worker dies of a process that does
not start; `StopReachesEveryWorker` when `stop()` comes before the pool is spawned, or a resize
after it. `QueueServed` therefore appears in no passing run, `EarlyCalls` is off in `runner_stop`,
resizing is not combined with hard stops, `NoTestLost` not with cancellations, and `RunControl`
states its invariants up to `overlooked`. `NotLockedOut` asks that `run_guid` be the shown run's:
after a failed preparation it names a run without records. `DiscoveryComplete` allows for a
discovery process that died: its exit code is not looked at, and a prefix is taken for the suite.

**Deadlock** is not checked in `records` and `services`, where a behaviour may use up its bounds;
in all other passing runs it is.

## 4. Fairness

* *Coordinator*: a thread that holds a slot releases it, and a thread whose `acquire` may return
  returns (`Condition` with a poll).
* *Runner*: each thread's own steps are weakly fair (`OwnStep`, `RunnerStep`); they are threads of
  one program. The gates' passing is no part of it: `GatesFail` is, so they may refuse for ever,
  and progress rests on the rule that a test is admitted when nothing is in flight. `CallerStep`
  is strongly fair: it waits for a lock the supervision loop takes again and again, but sleeps in
  between (line 180). That test processes end is the separate assumption `TestsEnd`, used only in
  `runner_live`; `runner_stop` does without.
* *Test process*: it and its worker are scheduled; the test that pytest runs, its children and its
  monitor owe nothing.
* *Watchdog*: its thread runs, and a read error does not recur for ever. Nothing about the tests.
* *Run control*: handlers return, the timer ticks, Qt delivers queued signals whatever else it
  does (strong), the preparation thread runs, its join is bounded, discovery ends. Nothing about
  the runners. *Discovery* itself assumes that each of its threads goes on when it can.
* *Settings*: a handler that runs ends, and the periodic tick comes. *Coverage*: ticks come, the
  slot that was signalled runs, and the tracker's thread is scheduled.

Calls, clicks, edits, crashes and time are never assumed to happen.

## 5. Proofs

| module | theorems | for |
|---|---|---|
| `SingletonCoordinatorProofs` | `CountersExact`, `Exclusivity`, `NeverOvertaken`: the counters are exact, a singleton is alone, no normal test passes a waiting one. `Refinement`: the coordinator implements `ExclusiveAccess` | every finite set of threads |
| `PytestRunnerProofs` | `TypeCorrect`; `Ownership`: a test is in one place; `SingletonIsolation`: a singleton's process is alone. `Refinement`: the runner implements `TestDispatch` | every list of tests, pool size, set and sequence of calls |
| | `PoolSize`: no more workers than asked for; `StoppedUnstarted`: what a soft stop marked STOPPED never runs | the same |
| | `FinalResults`, `OnlyHardStopTerminates`: PASS and FAIL stay, and nothing is terminated, short of a hard stop; `StopIsFinal`: `stop()` misses no worker; `ResetCompletes`: a reset settles every test; `NothingLost`: no test falls between queue, workers and processes; `RunCompletes`: a run that wound down undisturbed has settled every test | the same, but for the calls or faults named in the theorem (below) |
| `StallWatchdogProofs` | `NoFalseAlarm`, `NoHastyForceStop`: the watchdog flags, and force-stops, only what was quiet for its window, the latter once | every finite set of tests, windows, waits |
| `RunControlProofs` | `TypeCorrect`; `RunsReplaceEachOther`, `CoverageIsLeftAlone`, `WindowClosesItsRun`: one run at a time, coverage not cleared under a run that is waited for, a closed window leaves no run behind - up to overlooked runners | every number of runs |
| `CoverageTrackerProofs` | `ShownCoverageIsOfThisRun`: a figure that is shown is of files of the shown run, or of those it resumes | every finite set of tests, number of runs |
| `ServicesProofs` | `OnlyOwnSignalled`: nothing foreign is killed; `NothingSeenIsLeft`: what a poll saw does not outlive the reaping | every set of pids, number of processes |
| | `GuardAsksOnce`: one soft stop at most, and none on a single low reading | every pool, queue, number of cancels |
| | `EveryModulePrepared`: a run is prepared with the whole suite, each module in its kind | every suite, size of the pipe |
| | `ConfigurationIsStored`: no forced resume is hidden, Restore Defaults restores all, the saved aspects are the checked rows | every set of values, paths, aspects, series of edits |
| `RunHistoryProofs` | `HistoryCorrect`, `LastPassCorrect`, `ResumeCorrect`, `OrderCorrect`: the last pass found for a test is its last execution that passed, RESUME loses no pass, a chain of stable sorts is the lexicographic order of its aspects | every finite set of tests, suites, aspects, outcomes, length of the chain of runs |
| | `CheckCorrect`: CHECK skips only what passed on the program there is | the same, if only committed programs are run |
| `DisplaysProofs` | `TickCorrect`, `SummariesAreCurrent`, `OutputsAreOwn`: what a tick shows in spite of its caches is what the table says, each output at its own record | every set of tests, earlier session, interleaving of writes with its queries |
| | `PanesShowChosen`, `TabsAreOfTick`: list and pane agree and show the test that was chosen; bars and rows are those of the last tick, in order, and found | every set of tests, sequence of ticks, clicks, writes |

The assumptions are the named ones of the modules: finite sets, numbers that are natural, a list
without duplicates, `None` no test, and so on.

*Coordinator.* That a singleton enters when `active = 0` excludes others only if `active` counts
the normal holders, so the invariant is `TypeOK /\ CountersMatchSlots /\ SingletonExclusive`. Most
of the work is what one changed slot does to the cardinalities.

*Runner.* `OneOwner` is not inductive. `HandInv` says at which points of its loop a worker has a
test in hand; `PoolInv`, that ids not yet given out belong to threads that hold nothing, and that
nothing was started before the pool. With `SlotInv` (a worker holds a slot exactly between
`launch` and `release`, of its test's kind) and `ProcInv` (a live process is watched by the worker
that has its test in hand) the coordinator's exclusivity, carried over by instantiating its
proofs, becomes `SingletonAlone`. The invariant is kept by one lemma per action. `Refinement` needs
it in one place: that a launched singleton finds no other process alive.

*Outcome of a run.* The second part of `PytestRunnerProofs` adds three conjuncts to that invariant. `CrewInv`: the
supervised pool holds every live worker, only workers that were started, and is not empty while it
is supervised - without it healing could count too few and overfill it (`NoOvercommit` alone is not
inductive); that retiring those spawned last leaves so many fewer takes some arithmetic of finite
sets (`RetiringCount`). `SignalInv`: whoever was told to stop was told by a hard stop, whose flags are
raised before the workers are signalled. `RecordInv`: results come from processes that have run,
and what a soft stop marked was nowhere but in the queue. On these rest four more, each for its
theorem: `KillInv` (a worker at `kill` was stopped hard), `StopInv` and `ResetInv` (what holds once
`stop()`, or the reset, has done its steps), `RefusedInv` with `WindDownInv` (a refused worker still has its
reason when it looks again; workers leave only an empty queue).

Six of the theorems name in an `ASSUME` a call or a fault without which they hold, as the runs of
these properties do; with it they are false of the code:

| left out | from | because |
|---|---|---|
| `forceTest` | `FinalResults`, `OnlyHardStopTerminates` | a forced worker's next test is killed instead, also after its result (`ForceStopHitsNext`) |
| `cancel` | `NothingLost`, `RunCompletes` | a refused worker re-reads a soft stop that is gone and drops its test (`cancel_drops_test`) |
| `EarlyCalls` | `StopIsFinal`, `ResetCompletes` | `stop()` before the pool is spawned signals nobody |
| `resize` | `StopIsFinal` | a resize after `stop()` adds a worker that was not told |
| `Unstartable` | `NothingLost`, `RunCompletes` | a worker dies of a process that does not start, with the test in its hand |
| `Crashable` | `ResetCompletes`, `RunCompletes` | a process that dies without a record leaves the row RUNNING |

A retirement needs no assumption: `EveryTestSettled` itself excepts it, by `NobodyRetired`
(`retire_strands_queue`).

*Components side by side.* `ServicesProofs` states its theorems of the component by itself
(`TestProcess`, `Throttling`, `TestDiscovery`) and of the composition that is run: `ComponentsStep`
shows that a step of `MCServices` is a step or a stutter of each. `EveryModulePrepared` assumes that
the marked modules are some of the suite's.

*Test process.* Both theorems are about what a pid with its create time is good for. `TableInv`:
create times only grow, so a pair once taken from the table never means another process, and a
stranger is nobody's child. `HandleInv`: every pair the worker keeps was taken from the table and,
while it lives, is one of the test's; it is needed since a kill goes by what was listed several
steps before. `SeenInv`: from the resolving of the snapshot to the last kill no living pair is
missing from the targets. `Below`, the walk through descendants, is defined as the least closed
set, so that the proof can use what it is rather than how it is computed.

*Discovery.* Once put, the buffer and the pipe together hold every module, whatever the feeder has
moved, and the process has not ended while the buffer holds one (`FoundInv`); so what is taken after
it ended is everything (`TakenInv`).

*Watchdog.* Its clock is reset when the fingerprint differs from the last tick's. That an equal
fingerprint hides nothing is not obvious, as its time stamp can move back. `CountInv`: the number
of tests done, and of those done or running, never falls, and every record raises one of them.
From it, `RecordInv` (an unchanged fingerprint means no record as long as the clock has gone, and
no process in flight that was not sampled), the same for what a tick has read while tests go on
(`SnapshotInv`), and `IdleInv` for processes not seen to work.

*Run control.* The one runner that may be going is held by no single variable: it is handed from
the one shown to the preparation, to the queued signal and back. `IsAwaited` says who it is at
each point; `LooseInv`, that no other goes on untold, `AwaitedInv`, that no other goes on at all
but for those overlooked or given up; `PhaseInv` and `ClosingInv` hold what makes the handing over
work while a window closes.

*Coverage.* Generations order what the thread has taken against what the GUI has moved on to; the
invariant says of each stage of a computation whose files it may hold.

*Settings.* `SettingsInv` is about a handler's steps to go. `RestoredInv`: each preference is at its
default, or one of these will set it - be it the slot of a widget that is still to be shown, since a
slot that runs on the way may save a neighbour that still shows the old value. A slot that returns
early drops its other steps; that none of them is needed follows from their order (`WellFormed`: a
number is shown once, and before anything that saves it). `SkipInv` does the same for the box that
is coupled with the mode. For the aspects, rows built from a saved list give it back
(`EnabledOfRows`).

*Guard.* The latch says what was asked, and a count above zero that the reading before was low.

*History.* `HistoryInv` says where last passes come from. `PassInv`: the records of the last run
in which a test passed are about its last execution that passed, be they originals or copies. A
run that is killed after it passed, or copies that are copied again, keep that; a test that ran
twice in one run would not, so `QueueInv` has every queued test without a process in this run.
`FingerprintInv` ties a fingerprint to the version a record was obtained on. That is false once a
dirty tree is run, as all edits of a commit share one fingerprint: hence `~ DirtyRuns` in
`CheckCorrect`, without which the statement is false of the code (`CheckTrustsDirtyTree`).
The other three hold without it. They are about a preparation, and only a preparation leads to a
prepared run. The order is proved in two parts: `SortedBy` returns every member once and in the
order of the keys (`SortedByIsSorted`, by counting who comes before whom); and a link of the chain
keeps ties in their order (`StablySorted`), so that the last sort counts most. The chain is a fold;
as an operator cannot be a parameter, that its recursive function exists for lists of any length is
proved by induction over a set of numbers (`FoldExists`).

*Tick.* `TickInv` says of each cache when what it holds is what the table says: last passes, as
long as the run has as many passes as were counted; the history, as long as the table has as many
rows as the token says; an output, once the test has an entry, for a test reports only once per
run. A transaction of the newest run (`Adds`) either leaves what a cache is about alone or is
noticed - one more pass, a later row - and copies, which bring passes without being executions,
go to a run that is not shown yet (`ShownInv`). The theorems are about ticks undisturbed from first
query to last; the invariant is about all.

*Panes and tabs.* `PanesInv` says of every part of the pane which test it is of, and that the pick
is among the failures listed. What makes it hard is the signal that unpins in the middle of a
tick, when the pane has not seen the tick's data. `TabsInv` says that the rows are the tick's, and
that the index gives each test a row of its own. It comes down to counting: known rows take the
first places, one each, new tests the next (`PlacedIs`), so that all places are taken
(`PlacesAreTaken`, a one-to-one map between sets of one size) and every row is written anew. When
nothing is stale the rows are not sorted again; they are still in order, since no key has changed
(`UnstaleIsSorted`).

*Only model-checked*: everything under fairness, which is outside what the prover handles, and what
the violating configurations show. Every invariant of a passing run is stated by a theorem; where
one is proved under an assumption, the table and the paragraphs above name it.

## 6. Not modelled

`PROJECT.json` has every part with its reason. In short:

* *Displays without state*: charts, status text, system metrics, log and about tab draw anew
  what they are given; time axes, colours and figures derived for them are arithmetic for the eye.
* *Start-up and automation* of the window, and `PytestRunner.join()`.
* *The operating system*: logging, paths, platform queries, and how a version or a git state is
  found; each call is answered at once and nothing is kept between two.
* *Libraries*: pytest, coverage's combining and rendering, SQLite. A write that is retried and
  then dropped would lose a record; the models write every record, and once.
* *Numbers*: percentages are above a threshold or below it, sizes of texts are small integers.
* A *tree kill that fails* and leaves its process alive while the slot is given to the next test.
* Clocks never step back.
