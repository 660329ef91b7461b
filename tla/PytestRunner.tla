---------------------------- MODULE PytestRunner ----------------------------
(***************************************************************************)
(* pytest_runner/pytest_runner.py: the runner thread (PytestRunner), its   *)
(* pool of worker threads (_TestRunner), the test processes they start     *)
(* (PytestProcess), the records those write to the results database, and   *)
(* the calls other threads make on the runner - the GUI, the stall         *)
(* watchdog, the resource guard: resize, soft stop and its cancellation,   *)
(* hard stop, force stop & reset, force stop of one test.                  *)
(*                                                                         *)
(* One action is one critical section or one step between two points where *)
(* another thread can be seen.  _pool_lock is held from SuperviseScan to   *)
(* SuperviseHeal; every other section under it is one action.              *)
(***************************************************************************)
EXTENDS Integers, Sequences, FiniteSets, Functions

CONSTANTS
  TestList,       \* the scheduled tests in dispatch order, a sequence without duplicates
  Singletons,     \* those of them that must run alone
  InitialSize,    \* number_of_processes the runner is constructed with
  Sizes,          \* the values set_number_of_processes is called with
  Operations,     \* which calls the environment makes
  MaxOperations,  \* bound: how many calls in one behaviour
  MaxWorkers,     \* bound: worker threads spawned in one behaviour
  EarlyCalls,     \* calls may arrive before the pool is spawned
  GateEnabled,    \* an admission gate is configured
  Failing,        \* the tests whose own outcome is a failure
  Crashable,      \* tests whose process may die without a final record
  Unstartable,    \* tests whose process.start() may raise
  None            \* no test

Tests   == Range(TestList)
Workers == 0 .. MaxWorkers - 1

ASSUME ConstantsOK ==
  /\ TestList \in Seq(Tests) /\ IsInjective(TestList)
  /\ Singletons \subseteq Tests
  /\ InitialSize \in Nat \ {0} /\ Sizes \subseteq Int
  /\ MaxOperations \in Nat /\ MaxWorkers \in Nat
  /\ EarlyCalls \in BOOLEAN /\ GateEnabled \in BOOLEAN
  /\ Failing \subseteq Tests /\ Crashable \subseteq Tests /\ Unstartable \subseteq Tests
  /\ None \notin Tests

VARIABLES
  \* PytestRunner
  runner,            \* where the runner thread stands
  queue,             \* _test_queue
  numberOfProcesses, \* number_of_processes
  pool,              \* the keys of _test_runners; a larger id was spawned later
  nextWorkerId,      \* _next_worker_id
  softStop,          \* _soft_stop_event
  stopRequested,     \* _stop_requested
  forceStopped,      \* _force_stopped
  \* _TestRunner
  worker,            \* where each worker thread stands
  inHand,            \* scheduled_test: the test a worker has dequeued
  process,           \* self.process: the test of the last process a worker made
  signals,           \* which of _stop_event, _retire_event, _force_stop_current_event are set
  \* SingletonCoordinator
  active, singletonRunning, singletonWaiters, slot,
  \* PytestProcess and the results database
  proc,              \* each test's process
  state,             \* each test's latest state (run_state.latest_states)
  \* the environment
  caller,            \* where a thread inside stop() or force_stop_and_reset() stands
  operations,        \* calls made so far
  killAsked          \* history: the tests force_stop_test was called for

poolVars   == <<queue, numberOfProcesses, pool, nextWorkerId>>
stopVars   == <<softStop, stopRequested, forceStopped>>
coordVars  == <<active, singletonRunning, singletonWaiters, slot>>
threadVars == <<worker, inHand, process, signals>>
testVars   == <<proc, state>>
envVars    == <<caller, operations, killAsked>>
vars == <<runner, poolVars, stopVars, coordVars, threadVars, testVars, envVars>>

Coordinator == INSTANCE SingletonCoordinator WITH Threads <- Workers

Terminal == {"PASS", "FAIL", "TERMINATED", "STOPPED"}

WorkerPoints == {"unborn", "check", "get", "admit", "sample", "acquire", "refused",
                 "launch", "watch", "kill", "finish", "release", "exiting", "dead"}

TypeOK ==
  /\ runner \in {"enqueue", "spawn", "scan", "heal", "done"}
  /\ queue \in Seq(Tests)
  /\ numberOfProcesses \in Nat
  /\ pool \subseteq Workers
  /\ nextWorkerId \in 0 .. MaxWorkers
  /\ softStop \in BOOLEAN /\ stopRequested \in BOOLEAN /\ forceStopped \in BOOLEAN
  /\ worker \in [Workers -> WorkerPoints]
  /\ inHand \in [Workers -> Tests \cup {None}]
  /\ process \in [Workers -> Tests \cup {None}]
  /\ signals \in [Workers -> SUBSET {"stop", "retire", "force"}]
  /\ Coordinator!TypeOK
  /\ proc \in [Tests -> {"none", "starting", "running", "reported", "dead"}]
  /\ state \in [Tests -> Terminal \cup {"absent", "QUEUED", "RUNNING"}]
  /\ caller \in {"idle", "stopping", "forceStopping", "resetting"}
  /\ operations \in Nat
  /\ killAsked \subseteq Tests

Init ==
  /\ runner = "enqueue"
  /\ queue = <<>>
  /\ numberOfProcesses = InitialSize
  /\ pool = {}
  /\ nextWorkerId = 0
  /\ softStop = FALSE /\ stopRequested = FALSE /\ forceStopped = FALSE
  /\ worker = [w \in Workers |-> "unborn"]
  /\ inHand = [w \in Workers |-> None]
  /\ process = [w \in Workers |-> None]
  /\ signals = [w \in Workers |-> {}]
  /\ Coordinator!Init
  /\ proc = [t \in Tests |-> "none"]
  /\ state = [t \in Tests |-> "absent"]
  /\ caller = "idle"
  /\ operations = 0
  /\ killAsked = {}

-----------------------------------------------------------------------------
Started      == runner \notin {"enqueue", "spawn"}   \* _started_event
Finalized    == runner = "done"                      \* _queue_finalized
PoolLockFree == runner # "heal"

Alive == {w \in Workers : worker[w] \notin {"unborn", "dead"}}

(* should_abort, polled between tests and while waiting for a slot.        *)
ShouldAbort(w) == softStop \/ signals[w] \cap {"stop", "retire"} # {}

(* What makes a worker kill the test it is running.                        *)
InterruptsOnSoftStop(w) == softStop \/ signals[w] \cap {"stop", "force"} # {} \* mutated form of Interrupts
InterruptsOnForceOnly(w) == "force" \in signals[w] \* mutated form
Interrupts(w) == signals[w] \cap {"stop", "force"} # {}

(* Whether a worker that got no slot hands its test back.                  *)
HandsBackOnSoftStop(w) == softStop           \* mutated form of HandsBack
HandsBack(w) == softStop \/ "retire" \in signals[w]

NeverSingleton(t) == FALSE                   \* mutated form of IsSingleton
IsSingleton(t) == t \in Singletons

PoolWithTheDead == pool                      \* mutated form of LivePool
LivePool  == pool \cap Alive
NotRetiring(workers) == {w \in workers : "retire" \notin signals[w]}

Largest(n, S) == {w \in S : Cardinality({v \in S : v > w}) < n}

(* Fresh worker threads join the pool; the ids are never reused.           *)
SpawnWorkers(n, kept) ==
  LET fresh == nextWorkerId .. nextWorkerId + n - 1
  IN  /\ nextWorkerId + n <= MaxWorkers
      /\ nextWorkerId' = nextWorkerId + n
      /\ pool' = kept \cup fresh
      /\ worker' = [w \in Workers |-> IF w \in fresh THEN "check" ELSE worker[w]]

NoSpawn(kept) == pool' = kept /\ UNCHANGED <<nextWorkerId, worker>>

(* Top the pool up to size workers that are alive and not retiring.        *)
RefillPool(size, kept) ==                    \* mutated form of FillPool
  IF size > 0 THEN SpawnWorkers(size, kept) ELSE NoSpawn(kept)

FillPool(size, kept) ==
  LET deficit == size - Cardinality(NotRetiring(kept))
  IN  IF deficit > 0 THEN SpawnWorkers(deficit, kept) ELSE NoSpawn(kept)

-----------------------------------------------------------------------------
(* The runner thread: PytestRunner.run                                     *)

Enqueue ==
  /\ runner = "enqueue"
  /\ runner' = "spawn"
  /\ queue' = TestList
  /\ state' = [t \in Tests |-> "QUEUED"]
  /\ UNCHANGED <<numberOfProcesses, pool, nextWorkerId, stopVars, coordVars,
                 threadVars, proc, envVars>>

SpawnPool ==
  /\ runner = "spawn"
  /\ runner' = "scan"
  /\ SpawnWorkers(numberOfProcesses, {})
  /\ UNCHANGED <<queue, numberOfProcesses, stopVars, coordVars, inHand, process, signals,
                 testVars, envVars>>

(* What soft-stop finalisation writes: the queue is drained to STOPPED.     *)
FinalStateUnmarked(t) == state[t]            \* mutated form of FinalState
FinalStateOfUnfinished(t) ==                 \* mutated form of FinalState
  IF state[t] \in Terminal THEN state[t] ELSE "STOPPED"
FinalState(t) == IF t \in Range(queue) THEN "STOPPED" ELSE state[t]

(* Whether the supervision loop leaves the pool as it is.                  *)
HealingSuppressed == softStop \/ stopRequested \/ queue = <<>>

(* Drop dead workers; with none left the run winds down, and after a soft  *)
(* stop what is still queued is marked STOPPED.                            *)
SuperviseScan ==
  /\ runner = "scan"
  /\ pool' = LivePool
  /\ IF pool' # {}
       THEN runner' = "heal" /\ UNCHANGED <<queue, state>>
       ELSE /\ runner' = "done"
            /\ IF softStop /\ ~forceStopped
                 THEN /\ queue' = <<>>
                      /\ state' = [t \in Tests |-> FinalState(t)]
                 ELSE UNCHANGED <<queue, state>>
  /\ UNCHANGED <<numberOfProcesses, nextWorkerId, stopVars, coordVars, threadVars, proc, envVars>>

SuperviseHeal ==
  /\ runner = "heal"
  /\ runner' = "scan"
  /\ IF HealingSuppressed
       THEN UNCHANGED <<pool, nextWorkerId, worker>>
       ELSE FillPool(numberOfProcesses, pool)
  /\ UNCHANGED <<queue, numberOfProcesses, stopVars, coordVars, inHand, process, signals,
                 testVars, envVars>>

RunnerStep == Enqueue \/ SpawnPool \/ SuperviseScan \/ SuperviseHeal

-----------------------------------------------------------------------------
(* A worker thread: _TestRunner.run                                        *)

Goto(w, point) == worker' = [worker EXCEPT ![w] = point]

runnerVars == <<runner, numberOfProcesses, pool, nextWorkerId, stopVars, envVars>>

CheckAbort(w) ==
  /\ worker[w] = "check"
  /\ Goto(w, IF ShouldAbort(w) THEN "exiting" ELSE "get")
  /\ UNCHANGED <<runnerVars, queue, coordVars, inHand, process, signals, testVars>>

DequeuedNothing == queue                     \* mutated form of Dequeued
Dequeued == Tail(queue)

GetTest(w) ==
  /\ worker[w] = "get"
  /\ IF queue = <<>>
       THEN Goto(w, "exiting") /\ UNCHANGED <<queue, inHand>>
       ELSE /\ inHand' = [inHand EXCEPT ![w] = Head(queue)]
            /\ queue' = Dequeued
            /\ Goto(w, IF GateEnabled THEN "admit" ELSE "acquire")
  /\ UNCHANGED <<runnerVars, coordVars, process, signals, testVars>>

NothingEverInFlight == FALSE                 \* mutated form of NothingInFlight
NothingInFlight == active = 0                \* active_slot_count() == 0

(* _await_admission: poll the gates until they pass, nothing is in flight, *)
(* or the worker is to stop.                                               *)
AwaitAdmission(w) ==
  /\ worker[w] = "admit"
  /\ Goto(w, IF ShouldAbort(w) THEN "refused" ELSE "sample")
  /\ UNCHANGED <<runnerVars, queue, coordVars, inHand, process, signals, testVars>>

GatesPass(w) ==
  /\ worker[w] = "sample"
  /\ Goto(w, "acquire")
  /\ UNCHANGED <<runnerVars, queue, coordVars, inHand, process, signals, testVars>>

GatesFail(w) ==
  /\ worker[w] = "sample"
  /\ Goto(w, IF NothingInFlight THEN "acquire" ELSE "admit")
  /\ UNCHANGED <<runnerVars, queue, coordVars, inHand, process, signals, testVars>>

Acquire(w) ==
  /\ worker[w] = "acquire"
  /\ IF IsSingleton(inHand[w])
       THEN \/ Coordinator!ClaimSingleton(w) /\ Goto(w, "launch")
            \/ ShouldAbort(w)  /\ Coordinator!RefuseSingleton(w) /\ Goto(w, "refused")
            \/ ~ShouldAbort(w) /\ Coordinator!WaitSingleton(w) /\ UNCHANGED worker
       ELSE \/ Coordinator!ClaimNormal(w) /\ Goto(w, "launch")
            \/ ShouldAbort(w)  /\ Coordinator!RefuseNormal(w) /\ Goto(w, "refused")
            \/ ~ShouldAbort(w) /\ Coordinator!WaitNormal(w) /\ UNCHANGED worker
  /\ UNCHANGED <<runnerVars, queue, inHand, process, signals, testVars>>

HandedBackOther(w) == process[w]             \* mutated form of HandedBack
HandedBack(w) == inHand[w]

(* _handle_not_acquired: on a hard stop the worker's previous process, if  *)
(* it ever had one, stands in for the test's; otherwise the test goes back *)
(* to the tail of the queue - if soft stop or retire is still set.         *)
HandleNotAcquired(w) ==
  /\ worker[w] = "refused"
  /\ \/ /\ "stop" \in signals[w]
        /\ state' = IF process[w] = None THEN state
                    ELSE [state EXCEPT ![inHand[w]] = "TERMINATED"]
        /\ UNCHANGED queue
     \/ /\ "stop" \notin signals[w]
        /\ queue' = IF HandsBack(w) THEN Append(queue, HandedBack(w)) ELSE queue
        /\ UNCHANGED state
  /\ inHand' = [inHand EXCEPT ![w] = None]
  /\ Goto(w, "exiting")
  /\ UNCHANGED <<runnerVars, coordVars, process, signals, proc>>

(* _run_single_test: start the process and poll it.                        *)
Launch(w) ==
  /\ worker[w] = "launch"
  /\ process' = [process EXCEPT ![w] = inHand[w]]
  /\ proc' = [proc EXCEPT ![inHand[w]] = "starting"]
  /\ Goto(w, "watch")
  /\ UNCHANGED <<runnerVars, queue, coordVars, inHand, signals, state>>

(* start() raises: the finally clauses run and the thread is gone.         *)
LaunchFails(w) ==
  /\ worker[w] = "launch" /\ inHand[w] \in Unstartable
  /\ process' = [process EXCEPT ![w] = inHand[w]]
  /\ signals' = [signals EXCEPT ![w] = @ \ {"force"}]
  /\ Coordinator!Release(w)
  /\ inHand' = [inHand EXCEPT ![w] = None]
  /\ Goto(w, "exiting")
  /\ UNCHANGED <<runnerVars, queue, testVars>>

Watch(w) ==
  /\ worker[w] = "watch"
  /\ \/ proc[inHand[w]] = "dead" /\ Goto(w, "finish")
     \/ /\ proc[inHand[w]] # "dead"
        /\ Interrupts(w)
        /\ Goto(w, "kill")
  /\ UNCHANGED <<runnerVars, queue, coordVars, inHand, process, signals, testVars>>

(* _terminate_process: kill the tree, then record TERMINATED whatever the  *)
(* process managed to record before it died.                               *)
Kill(w) ==
  /\ worker[w] = "kill"
  /\ proc' = [proc EXCEPT ![inHand[w]] = "dead"]
  /\ state' = [state EXCEPT ![inHand[w]] = "TERMINATED"]
  /\ Goto(w, "finish")
  /\ UNCHANGED <<runnerVars, queue, coordVars, inHand, process, signals>>

Finish(w) ==
  /\ worker[w] = "finish"
  /\ signals' = [signals EXCEPT ![w] = @ \ {"force"}]
  /\ Goto(w, "release")
  /\ UNCHANGED <<runnerVars, queue, coordVars, inHand, process, testVars>>

ReleaseSlot(w) ==
  /\ worker[w] = "release"
  /\ Coordinator!Release(w)
  /\ inHand' = [inHand EXCEPT ![w] = None]
  /\ Goto(w, "check")
  /\ UNCHANGED <<runnerVars, queue, process, signals, testVars>>

(* Between leaving its loop and being seen dead a thread still counts as   *)
(* alive.                                                                  *)
WorkerExit(w) ==
  /\ worker[w] = "exiting"
  /\ Goto(w, "dead")
  /\ UNCHANGED <<runnerVars, queue, coordVars, inHand, process, signals, testVars>>

(* Every step of a worker but the gates' verdict, which is not its own.    *)
OwnStep(w) ==
  \/ CheckAbort(w) \/ GetTest(w) \/ AwaitAdmission(w) \/ Acquire(w) \/ HandleNotAcquired(w)
  \/ Launch(w) \/ LaunchFails(w) \/ Watch(w) \/ Kill(w) \/ Finish(w) \/ ReleaseSlot(w)
  \/ WorkerExit(w) \/ GatesFail(w)

WorkerStep(w) == OwnStep(w) \/ GatesPass(w)

-----------------------------------------------------------------------------
(* A test's process: PytestProcess.run, in a process of its own            *)

processVars == <<runnerVars, queue, coordVars, threadVars>>

ProcessBegins(t) ==
  /\ proc[t] = "starting"
  /\ proc' = [proc EXCEPT ![t] = "running"]
  /\ state' = [state EXCEPT ![t] = "RUNNING"]
  /\ UNCHANGED processVars

ProcessReports(t) ==
  /\ proc[t] = "running"
  /\ proc' = [proc EXCEPT ![t] = "reported"]
  /\ state' = [state EXCEPT ![t] = IF t \in Failing THEN "FAIL" ELSE "PASS"]
  /\ UNCHANGED processVars

ProcessExits(t) ==
  /\ proc[t] = "reported"
  /\ proc' = [proc EXCEPT ![t] = "dead"]
  /\ UNCHANGED <<processVars, state>>

ProcessCrashes(t) ==
  /\ t \in Crashable /\ proc[t] \in {"starting", "running"}
  /\ proc' = [proc EXCEPT ![t] = "dead"]
  /\ UNCHANGED <<processVars, state>>

ProcessStep(t) == ProcessBegins(t) \/ ProcessReports(t) \/ ProcessExits(t)

-----------------------------------------------------------------------------
(* Calls from other threads                                                *)

Call(op) ==
  /\ op \in Operations
  /\ caller = "idle"
  /\ EarlyCalls \/ Started
  /\ operations < MaxOperations
  /\ operations' = operations + 1

SetNumberOfProcesses(n) ==
  /\ Call("resize") /\ PoolLockFree
  /\ n >= 1
  /\ numberOfProcesses' = n
  /\ IF ~Started
       THEN UNCHANGED <<pool, nextWorkerId, worker, signals>>
       ELSE LET current == NotRetiring(LivePool)
                surplus == Cardinality(current) - n
            IN  /\ FillPool(n, LivePool)
                /\ signals' = [w \in Workers |->
                                 IF surplus > 0 /\ w \in Largest(surplus, current)
                                   THEN signals[w] \cup {"retire"} ELSE signals[w]]
  /\ UNCHANGED <<runner, queue, stopVars, coordVars, inHand, process, testVars, caller, killAsked>>

SoftStop ==
  /\ Call("softStop")
  /\ softStop' = TRUE
  /\ UNCHANGED <<runner, poolVars, stopRequested, forceStopped, coordVars, threadVars,
                 testVars, caller, killAsked>>

(* It returns False, changing nothing, once it is too late.                *)
CancelTooLate == Finalized \/ forceStopped \/ stopRequested

CancelSoftStop ==
  /\ Call("cancel") /\ PoolLockFree
  /\ ~CancelTooLate /\ softStop
  /\ softStop' = FALSE
  /\ IF Started THEN FillPool(numberOfProcesses, LivePool)
                ELSE UNCHANGED <<pool, nextWorkerId, worker>>
  /\ UNCHANGED <<runner, queue, numberOfProcesses, stopRequested, forceStopped, coordVars,
                 inHand, process, signals, testVars, caller, killAsked>>

(* stop: the flag is set before the pool lock is taken.                    *)
Stop ==
  /\ Call("stop")
  /\ stopRequested' = TRUE
  /\ caller' = "stopping"
  /\ UNCHANGED <<runner, poolVars, softStop, forceStopped, coordVars, threadVars,
                 testVars, killAsked>>

ForceStopAndReset ==
  /\ Call("forceStop")
  /\ stopRequested' = TRUE
  /\ forceStopped' = TRUE
  /\ caller' = "forceStopping"
  /\ UNCHANGED <<runner, poolVars, softStop, coordVars, threadVars, testVars, killAsked>>

BusyWorkers == {w \in pool : inHand[w] # None}   \* mutated form of StoppableWorkers
StoppableWorkers == pool                     \* the workers stop() signals

StopWorkers ==
  /\ caller \in {"stopping", "forceStopping"} /\ PoolLockFree
  /\ signals' = [w \in Workers |-> IF w \in StoppableWorkers THEN signals[w] \cup {"stop"} ELSE signals[w]]
  /\ caller' = IF caller = "forceStopping" THEN "resetting" ELSE "idle"
  /\ UNCHANGED <<runner, poolVars, stopVars, coordVars, worker, inHand, process, testVars,
                 operations, killAsked>>

(* The states force_stop_and_reset finds not terminal.                     *)
UnfinishedIfStarted(t) == state[t] = "RUNNING"   \* mutated form of Unfinished
Unfinished(t) == state[t] \in {"QUEUED", "RUNNING"}

(* Mark every test whose latest state is not terminal STOPPED, in one      *)
(* database transaction.                                                   *)
ResetStates ==
  /\ caller = "resetting"
  /\ state' = [t \in Tests |->
                 IF Unfinished(t) THEN "STOPPED" ELSE state[t]]
  /\ caller' = "idle"
  /\ UNCHANGED <<runner, poolVars, stopVars, coordVars, threadVars, proc, operations, killAsked>>

(* The first worker, in spawn order, whose process object carries the name *)
(* is signalled, whether or not that process is still the one it runs.     *)
ForceStopTest(t) ==
  /\ Call("forceTest") /\ PoolLockFree
  /\ killAsked' = killAsked \cup {t}
  /\ LET named == {w \in pool : process[w] = t}
     IN  signals' = [w \in Workers |->
                       IF w \in named /\ \A v \in named : w <= v
                         THEN signals[w] \cup {"force"} ELSE signals[w]]
  /\ UNCHANGED <<runner, poolVars, stopVars, coordVars, worker, inHand, process, testVars, caller>>

CallerStep == StopWorkers \/ ResetStates

UserCall ==
  \/ \E n \in Sizes : SetNumberOfProcesses(n)
  \/ SoftStop \/ CancelSoftStop \/ Stop \/ ForceStopAndReset
  \/ \E t \in Tests : ForceStopTest(t)

-----------------------------------------------------------------------------
(* The run is over and nothing is left to happen: not a deadlock.          *)
Over ==
  /\ Finalized /\ Alive = {} /\ caller = "idle"
  /\ UNCHANGED vars

Next ==
  \/ RunnerStep
  \/ \E w \in Workers : WorkerStep(w)
  \/ \E t \in Tests : ProcessStep(t) \/ ProcessCrashes(t)
  \/ UserCall \/ CallerStep
  \/ Over

Spec == Init /\ [][Next]_vars

(***************************************************************************)
(* Every thread of the program is scheduled, so what it can do it does;    *)
(* GatesFail is among a worker's steps, so the gates may refuse for ever.  *)
(* A caller waiting for the pool lock gets it although the runner takes it *)
(* again and again, because the runner sleeps in between (line 180): hence *)
(* strong fairness.  Nothing is assumed of the calls themselves, and       *)
(* whether tests end is a separate assumption.                             *)
(***************************************************************************)
ThreadFairness ==
  /\ WF_vars(RunnerStep)
  /\ \A w \in Workers : WF_vars(OwnStep(w))
  /\ SF_vars(CallerStep)

TestsEnd == \A t \in Tests : WF_vars(ProcessStep(t))

FairSpec == Spec /\ ThreadFairness

FairSpecTestsEnd == FairSpec /\ TestsEnd

-----------------------------------------------------------------------------
(* Properties                                                              *)

Running(t) == proc[t] \in {"starting", "running", "reported"}

(* A test is in one place: it is queued once, or one worker has it in      *)
(* hand, or its process has been started - whatever handing back after a   *)
(* retire or a soft stop, cancelling and healing do (pytest_runner.py:     *)
(* 655-666).                                                               *)
OneOwner ==
  /\ IsInjective(queue)
  /\ \A v, w \in Workers : (inHand[v] = inHand[w] /\ inHand[v] # None) => v = w
  /\ \A w \in Workers : inHand[w] \notin Range(queue)
  /\ \A t \in Tests : proc[t] # "none" =>
       /\ t \notin Range(queue)
       /\ \A w \in Workers : inHand[w] = t => worker[w] \in {"watch", "kill", "finish", "release"}

(* The runner implements TestDispatch: whatever is resized, stopped,       *)
(* cancelled or killed, a test's process is started at most once, and a    *)
(* singleton's only when no other test's process is alive.                 *)
Dispatch == INSTANCE TestDispatch
              WITH pending <- {t \in Tests : proc[t] = "none"},
                   running <- {t \in Tests : Running(t)},
                   ended   <- {t \in Tests : proc[t] = "dead"}

ImplementsDispatch == Dispatch!Spec

(* Between queue, workers and processes no test falls through: one that    *)
(* was enqueued and never started is still queued, in hand, or accounted   *)
(* for in the database ("hand the dequeued test back", :659-661).  A hard  *)
(* stop gives up on the tests in hand.                                     *)
NoTestLost ==
  \A t \in Tests :
    \/ state[t] \in Terminal \cup {"absent"} \/ stopRequested
    \/ t \in Range(queue) \/ proc[t] # "none" \/ \E w \in Workers : inHand[w] = t

(* Once the runner has wound down, every test that no hard stop interfered *)
(* with has a terminal state, so get_run_completion reports a complete run *)
(* (:242-265) - unless a worker was retired: see QueueServed.              *)
NobodyRetired == \A w \in Workers : "retire" \notin signals[w]

EveryTestSettled ==
  (Finalized /\ ~stopRequested /\ NobodyRetired) =>
    \A t \in Tests : state[t] \in Terminal

(* Not true of the code: the run does not wind down over a queue that      *)
(* nobody asked to stop, because a test handed back on a retire is run by  *)
(* a surviving worker (:661) and a cancelled soft stop resumes the queue   *)
(* (:390-391).                                                             *)
QueueServed ==
  (Finalized /\ ~softStop /\ ~stopRequested) => queue = <<>>

(* A singleton test's process never coexists with another test's process   *)
(* (:448-449, "no other workers execute concurrently"), across kills,      *)
(* failures to start and resizes.                                          *)
SingletonAlone ==
  \A t \in Singletons, u \in Tests : (Running(t) /\ Running(u)) => t = u

(* Healing, cancelling and resizing together never leave more working      *)
(* threads than number_of_processes asks for.                              *)
NoOvercommit == Started => Cardinality(NotRetiring(Alive)) <= numberOfProcesses

(* A test is TERMINATED only if the whole run was stopped hard or the user *)
(* asked for that very test: soft stop and retire let a running test       *)
(* finish, and stopping one test leaves the others alone (:425-426).       *)
TerminatedOnRequest ==
  \A t \in Tests : state[t] = "TERMINATED" => (stopRequested \/ t \in killAsked)

(* A recorded result is final: short of a hard stop of the run or of that  *)
(* test nothing overwrites PASS or FAIL.                                   *)
ResultsStick ==
  [][\A t \in Tests : state[t] \in {"PASS", "FAIL"} =>
       (state'[t] = state[t] \/ stopRequested \/ t \in killAsked)]_vars

(* STOPPED means never run: a soft stop's finalisation marks only tests    *)
(* whose process was never started, and none of them starts afterwards.    *)
StoppedNeverRan ==
  \A t \in Tests : (state[t] = "STOPPED" /\ ~forceStopped) => proc[t] = "none"

(* A hard stop is final: when stop() has returned, every live worker has   *)
(* been told to stop, and none joins the pool later ("it suppresses pool   *)
(* healing and the soft-stop cancel path", :361-362).                      *)
StopReachesEveryWorker ==
  (stopRequested /\ caller = "idle") => \A w \in Alive : "stop" \in signals[w]

(* Force stop & reset completes the run: when it has returned and the      *)
(* workers are gone, every test is terminal (:309-315).  A process that    *)
(* records RUNNING after the reset and then dies by itself would break it. *)
ResetSettlesEveryTest ==
  (forceStopped /\ caller = "idle" /\ Finalized /\ Alive = {}) =>
    \A t \in Tests : state[t] \in Terminal

(* Every test of a run nobody stops is run and ends, even if the admission *)
(* gates never pass again: the min-1 rule keeps the suite moving           *)
(* (:672-674).                                                             *)
EveryTestEnds ==
  <>(softStop \/ killAsked # {} \/ ~NobodyRetired \/ \A t \in Tests : state[t] \in {"PASS", "FAIL"})

(* A soft stop that is not cancelled winds the run down, whatever else was *)
(* resized in the meantime.                                                *)
SoftStopEnds == softStop ~> (~softStop \/ Finalized)

(* A hard stop ends the run even if no test process ever exits by itself   *)
(* (:308-315: all worker threads drain).                                   *)
StopEnds == stopRequested ~> (Finalized /\ Alive = {})
=============================================================================
