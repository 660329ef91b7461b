---------------------------- MODULE StallWatchdog ----------------------------
(***************************************************************************)
(* pytest_runner/stall_watchdog.py on monitor_thread.py: the thread that   *)
(* flags a run as stalled when for warn_seconds no test started or ended   *)
(* and no test in flight used the CPU, and that may force-stop the run     *)
(* when this has lasted kill_seconds.                                      *)
(*                                                                         *)
(* A tick is three steps, between which the tests go on: the records are   *)
(* read, then the processes are sampled and the verdict is published, then *)
(* the loop asks whether the run is still going.  Time passes while the    *)
(* thread waits; the few milliseconds of a tick are nothing against the    *)
(* windows.  psutil measures the CPU between two calls for the same        *)
(* process, so a sample tells whether the process worked since the last    *)
(* one, and the first sample of a process tells nothing.                   *)
(*                                                                         *)
(* The tests, their records and the worker threads are the environment:    *)
(* what PytestRunner.tla describes in full is here reduced to what the     *)
(* watchdog can see.                                                       *)
(***************************************************************************)
EXTENDS Integers, FiniteSets, FiniteSetsExt

CONSTANTS
  Tests,          \* the tests of the run
  Warn, Kill,     \* warn_seconds, kill_seconds
  AutoForceStop,  \* auto_force_stop
  Gaps,           \* how long a wait between two ticks may take
  Crashable       \* tests whose process may die without a final record

ASSUME ConstantsOK ==
  /\ IsFiniteSet(Tests)
  /\ Warn \in Nat \ {0} /\ Kill \in Nat
  /\ AutoForceStop \in BOOLEAN
  /\ Gaps \subseteq Nat \ {0}
  /\ Crashable \subseteq Tests

VARIABLES
  \* the run
  row,           \* each test's latest record, as a state
  stamp,         \* the time stamp of that record, 0 if it has no pid
  alive,         \* the tests whose process is alive
  worked,        \* those that used the CPU since the watchdog last sampled them
  workers,       \* is_running: a worker thread is alive
  \* the watchdog
  point,         \* where its thread stands
  stopSignal,    \* _stop_event
  snapshot,      \* what this tick read from the database
  fingerprint,   \* _last_fingerprint
  elapsed,       \* now - _last_progress_monotonic
  sampled,       \* the pids the CPU sampler holds a handle for
  stalled,       \* the published StallInfo
  escalated,     \* _escalated
  \* history
  quiet,         \* time since a record was written
  idle,          \* for each test, time since its process used the CPU
  forceStops     \* how often the watchdog force-stopped the run

runVars     == <<row, stamp, alive, worked, workers>>
historyVars == <<quiet, idle, forceStops>>
vars == <<runVars, point, stopSignal, snapshot, fingerprint, elapsed, sampled, stalled,
          escalated, historyVars>>

Cap == IF Kill > Warn THEN Kill ELSE Warn   \* bound: nobody looks further back
Later(d, n) == IF d + n > Cap THEN Cap ELSE d + n

InFlight == {t \in Tests : row[t] = "running"}
Stuck    == {t \in Tests : row[t] # "done"}
Latest   == Max({stamp[t] : t \in Tests})

(* What _default_progress_source makes of the records: how many tests are  *)
(* terminal, how many are running, and the newest record with a pid, which *)
(* moves back when the test that owned it is killed.                       *)
FingerprintOfStarts == <<0, 0, Latest>>        \* mutated form of Fingerprint
Fingerprint == <<Cardinality(Tests \ Stuck), Cardinality(InFlight), Latest>>

Fingerprints == (0 .. Cardinality(Tests)) \X (0 .. Cardinality(Tests)) \X (0 .. 2 * Cardinality(Tests))

TypeOK ==
  /\ row \in [Tests -> {"queued", "running", "done"}]
  /\ stamp \in [Tests -> 0 .. 2 * Cardinality(Tests)]
  /\ alive \subseteq Tests /\ worked \subseteq alive
  /\ workers \in BOOLEAN
  /\ point \in {"tick", "evaluate", "check", "wait", "done"}
  /\ stopSignal \in BOOLEAN
  /\ point = "evaluate" =>
       snapshot \in [fingerprint : Fingerprints, stuck : SUBSET Tests, running : SUBSET Tests,
                     quiet : 0 .. Cap]
  /\ fingerprint \in Fingerprints \cup {<<>>}
  /\ elapsed \in 0 .. Cap
  /\ stalled \in BOOLEAN /\ (stalled => elapsed >= Warn)
  /\ sampled \subseteq Tests
  /\ escalated \in BOOLEAN
  /\ quiet \in 0 .. Cap /\ idle \in [Tests -> 0 .. Cap]
  /\ forceStops \in 0 .. 1

Read == [fingerprint |-> Fingerprint, stuck |-> Stuck, running |-> InFlight, quiet |-> quiet]
Unread == <<>>                                 \* the tick's locals are gone

Init ==
  /\ row = [t \in Tests |-> "queued"]
  /\ stamp = [t \in Tests |-> 0]
  /\ alive = {} /\ worked = {}
  /\ workers = TRUE
  /\ point = "tick"
  /\ stopSignal = FALSE
  /\ quiet = 0
  /\ snapshot = Unread
  /\ fingerprint = <<>>
  /\ elapsed = 0
  /\ sampled = {}
  /\ stalled = FALSE /\ escalated = FALSE
  /\ idle = [t \in Tests |-> 0]
  /\ forceStops = 0

-----------------------------------------------------------------------------
(* The run                                                                 *)

watchdogVars == <<point, stopSignal, snapshot, fingerprint, elapsed, sampled, stalled,
                  escalated, forceStops>>

TestStarts(t) ==
  /\ row[t] = "queued" /\ workers /\ ~stopSignal
  /\ row' = [row EXCEPT ![t] = "running"]
  /\ stamp' = [stamp EXCEPT ![t] = Latest + 1]
  /\ alive' = alive \cup {t}
  /\ worked' = worked \ {t}
  /\ idle' = [idle EXCEPT ![t] = 0]
  /\ quiet' = 0
  /\ UNCHANGED <<workers, watchdogVars>>

Works(t) ==
  /\ t \in alive
  /\ worked' = worked \cup {t}
  /\ idle' = [idle EXCEPT ![t] = 0]
  /\ UNCHANGED <<row, stamp, alive, workers, quiet, watchdogVars>>

Dies(t) ==
  /\ alive' = alive \ {t}
  /\ worked' = worked \ {t}
  /\ idle' = [idle EXCEPT ![t] = 0]

TestEnds(t) ==
  /\ row[t] = "running" /\ t \in alive
  /\ row' = [row EXCEPT ![t] = "done"]
  /\ stamp' = [stamp EXCEPT ![t] = Latest + 1]
  /\ Dies(t)
  /\ quiet' = 0
  /\ UNCHANGED <<workers, watchdogVars>>

(* A worker kills its test: the TERMINATED record carries no pid.          *)
TestIsKilled(t) ==
  /\ t \in alive
  /\ row' = [row EXCEPT ![t] = "done"]
  /\ stamp' = [stamp EXCEPT ![t] = 0]
  /\ Dies(t)
  /\ quiet' = 0
  /\ UNCHANGED <<workers, watchdogVars>>

TestCrashes(t) ==
  /\ t \in alive \cap Crashable
  /\ Dies(t)
  /\ UNCHANGED <<row, stamp, workers, quiet, watchdogVars>>

(* The worker threads are gone: the queue is empty or the run was stopped. *)
WorkersLeave ==
  /\ workers /\ alive = {}
  /\ stopSignal \/ \A t \in Tests : row[t] # "queued"
  /\ workers' = FALSE
  /\ UNCHANGED <<row, stamp, alive, worked, quiet, idle, watchdogVars>>

(* PytestRunner.stop() and force_stop_and_reset(), as far as they concern  *)
(* the watchdog: it is told to stop, and the tests left over are marked.   *)
Reset ==
  /\ stopSignal' = TRUE
  /\ row' = [t \in Tests |-> IF t \in Stuck THEN "done" ELSE row[t]]
  /\ stamp' = [t \in Tests |-> IF t \in Stuck THEN 0 ELSE stamp[t]]
  /\ quiet' = 0

UserForceStops ==
  /\ ~stopSignal
  /\ Reset
  /\ UNCHANGED <<alive, worked, workers, point, snapshot, fingerprint, elapsed, sampled,
                 stalled, escalated, idle, forceStops>>

RunStep ==
  \/ \E t \in Tests : TestStarts(t) \/ Works(t) \/ TestEnds(t) \/ TestIsKilled(t) \/ TestCrashes(t)
  \/ UserForceStops

-----------------------------------------------------------------------------
(* The watchdog: MonitorThread.run and StallWatchdog.tick                  *)

ReadRecords ==
  /\ point = "tick" /\ ~stopSignal
  /\ snapshot' = Read
  /\ point' = "evaluate"
  /\ UNCHANGED <<runVars, stopSignal, fingerprint, elapsed, sampled, stalled, escalated, historyVars>>

(* A read error: the tick is skipped and the banner withdrawn.             *)
ReadFails ==
  /\ point = "tick" /\ ~stopSignal
  /\ stalled' = FALSE
  /\ point' = "check"
  /\ UNCHANGED <<runVars, stopSignal, snapshot, fingerprint, elapsed, sampled, escalated, historyVars>>

(* A sample says nothing of a process that is gone or was never sampled.   *)
Readings(running) == running \cap alive \cap sampled
UnknownIsActive(running) == \/ Readings(running) \cap worked # {}   \* mutated form of Active
                            \/ Readings(running) = {}
Active(running) == \/ Readings(running) \cap worked # {}
                   \/ running # {} /\ Readings(running) = {}

Progressed == snapshot.fingerprint # fingerprint

IdleFor == IF Progressed \/ Active(snapshot.running) THEN 0 ELSE elapsed

KillWindowIgnored(idleTime) == AutoForceStop /\ ~escalated     \* mutated form of Escalates
Escalates(idleTime) == AutoForceStop /\ ~escalated /\ Kill > Warn /\ idleTime >= Kill

NothingLive == ~workers \/ snapshot.stuck = {}

KeepAlarm == UNCHANGED stalled                 \* mutated form of WithdrawAlarm
WithdrawAlarm == stalled' = FALSE

RunIsNotLive ==
  /\ point = "evaluate" /\ NothingLive
  /\ elapsed' = 0
  /\ fingerprint' = snapshot.fingerprint
  /\ WithdrawAlarm
  /\ snapshot' = Unread
  /\ point' = "check"
  /\ UNCHANGED <<runVars, stopSignal, sampled, escalated, historyVars>>

Evaluate ==
  /\ point = "evaluate" /\ ~NothingLive
  /\ fingerprint' = snapshot.fingerprint
  /\ elapsed' = IdleFor
  /\ stalled' = (IdleFor >= Warn)
  /\ sampled' = (sampled \ snapshot.running) \cup (snapshot.running \cap alive)
  /\ worked' = worked \ snapshot.running
  /\ IF stalled' /\ Escalates(IdleFor)
       THEN /\ escalated' = TRUE
            /\ forceStops' = forceStops + 1
            /\ Reset
       ELSE /\ escalated' = (escalated \/ (stalled' /\ AutoForceStop /\ Kill <= Warn))
            /\ UNCHANGED <<row, stamp, stopSignal, quiet, forceStops>>
  /\ snapshot' = Unread
  /\ point' = "check"
  /\ UNCHANGED <<alive, workers, idle>>

Outlives == FALSE                              \* mutated form of RunIsOver
RunIsOver == ~workers

Check ==
  /\ point = "check"
  /\ point' = IF RunIsOver THEN "done" ELSE "wait"
  /\ UNCHANGED <<runVars, stopSignal, snapshot, fingerprint, elapsed, sampled, stalled,
                 escalated, historyVars>>

(* The wait between two ticks: time passes.                                *)
Wait ==
  /\ point = "wait" /\ ~stopSignal
  /\ point' = "tick"
  /\ \E n \in Gaps :
       /\ elapsed' = Later(elapsed, n)
       /\ quiet' = Later(quiet, n)
       /\ idle' = [t \in Tests |-> IF t \in alive THEN Later(idle[t], n) ELSE 0]
  /\ UNCHANGED <<runVars, stopSignal, snapshot, fingerprint, sampled, stalled, escalated, forceStops>>

(* stop() wakes the wait, and the loop condition ends the thread.          *)
Leave ==
  /\ point \in {"wait", "tick"} /\ stopSignal
  /\ point' = "done"
  /\ UNCHANGED <<runVars, stopSignal, snapshot, fingerprint, elapsed, sampled, stalled,
                 escalated, historyVars>>

WatchdogStep == ReadRecords \/ RunIsNotLive \/ Evaluate \/ Check \/ Wait \/ Leave

-----------------------------------------------------------------------------
Over == point = "done" /\ ~workers /\ UNCHANGED vars

Next == RunStep \/ WorkersLeave \/ WatchdogStep \/ ReadFails \/ Over

Spec == Init /\ [][Next]_vars

(***************************************************************************)
(* The watchdog's thread runs, and a read error does not repeat for ever   *)
(* (hence strong fairness of the read that succeeds).  Nothing is assumed  *)
(* of the tests, the workers or the user.                                  *)
(***************************************************************************)
FairSpec == Spec /\ WF_vars(WatchdogStep) /\ SF_vars(ReadRecords)

-----------------------------------------------------------------------------
(* Properties                                                              *)

(* No false alarm: a run is flagged only if, at the moment its records     *)
(* were read, none had been written for warn_seconds, and no live process  *)
(* in flight has used the CPU for as long - whatever the ticks that failed *)
(* missed, and however late a tick comes (stall_watchdog.py:51-57).        *)
FlagsOnlyQuietRuns ==
  [][(point = "evaluate" /\ point' = "check" /\ stalled') =>
       /\ snapshot.quiet >= Warn
       /\ \A t \in snapshot.running \cap alive : idle[t] >= Warn]_vars

(* The opt-in escalation never hits a run that is making progress, and     *)
(* happens at most once (:63-64, :176).                                    *)
EscalatesOnlyWhenIdle ==
  [][forceStops' # forceStops =>
       /\ AutoForceStop /\ forceStops = 0
       /\ snapshot.quiet >= Kill
       /\ \A t \in snapshot.running \cap alive : idle[t] >= Kill]_vars

(* A wedged run is flagged: workers alive, tests left, and from some time  *)
(* on no record, no CPU use (:51-57).  The processes in flight are alive:  *)
(* a dead one cannot be sampled and keeps resetting the timer.             *)
Wedged ==
  workers /\ Stuck # {} /\ InFlight \subseteq alive /\ worked = {} /\ point # "done"

WedgeIsFlagged == <>[]Wedged => []<>stalled

(* The watchdog leaves when the run is over or stopped, and never keeps    *)
(* the program busy (monitor_thread.py:42-51).                             *)
WatchdogEnds == (~workers \/ stopSignal) ~> point = "done"

(* A watchdog that is gone shows no alarm: get_stall_info is to return     *)
(* None "if not running" (pytest_runner.py:287), so the banner's advice to *)
(* use Force Stop does not outlive the run.                                *)
NoAlarmLeft == point = "done" => ~stalled
=============================================================================
