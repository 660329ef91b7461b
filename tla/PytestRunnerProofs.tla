------------------------- MODULE PytestRunnerProofs -------------------------
(***************************************************************************)
(* Proofs about PytestRunner.tla, for every list of tests, every pool size *)
(* and every sequence of calls: type correctness, the ownership of tests,  *)
(* the isolation of singletons, that the runner implements TestDispatch,   *)
(* and what becomes of tests and workers under resizes, soft stops,        *)
(* cancellations, hard stops, resets and the force stop of one test.       *)
(*                                                                         *)
(* OneOwner is not inductive: that a test in hand was never started needs  *)
(* to know which points of a worker's loop hold a test (HandInv), and that *)
(* a new worker thread starts with empty hands needs to know that its id   *)
(* was never used (PoolInv).  SingletonAlone follows from the              *)
(* coordinator's exclusivity once slots are tied to workers (SlotInv) and  *)
(* live processes to the workers that watch them (ProcInv).                *)
(*                                                                         *)
(* On top of that invariant, IInv, the second part proves what becomes of  *)
(* a run.  Some of it does not hold for every set of calls, as the         *)
(* violating runs and the README show.  Those theorems say in an ASSUME    *)
(* which calls or faults they leave out, as the runs that check their      *)
(* properties do; each of these assumptions excludes one documented        *)
(* failure, and no other.                                                  *)
(***************************************************************************)
EXTENDS PytestRunner, FiniteSetTheorems, WellFoundedInduction, TLAPS

CoordinatorProofs == INSTANCE SingletonCoordinatorProofs WITH Threads <- Workers

(* The points of a worker's loop at which it holds a test without a slot,  *)
(* and with one.                                                           *)
Waits == {"admit", "sample", "acquire", "refused"}
Busy  == {"launch", "watch", "kill", "finish", "release"}

HandInv == \A w \in Workers : inHand[w] # None <=> worker[w] \in Waits \cup Busy

SlotInv == \A w \in Workers :
  /\ slot[w] \in {"normal", "singleton"} <=> worker[w] \in Busy
  /\ slot[w] \in {"waitNormal", "waitSingleton"} => worker[w] = "acquire"
  /\ worker[w] \in Busy => (slot[w] = "singleton" <=> inHand[w] \in Singletons)

ProcInv ==
  /\ \A t \in Tests :
       Running(t) => \E w \in Workers : inHand[w] = t /\ worker[w] \in {"watch", "kill"}
  /\ \A w \in Workers :
       worker[w] \in {"watch", "kill", "finish", "release"} => proc[inHand[w]] # "none"

PoolInv ==
  /\ \A w \in Workers : w >= nextWorkerId => worker[w] = "unborn"
  /\ ~Started => nextWorkerId = 0 /\ \A t \in Tests : proc[t] = "none"

IInv == TypeOK /\ HandInv /\ SlotInv /\ ProcInv /\ PoolInv /\ OneOwner
          /\ CoordinatorProofs!IInv

USE DEF vars, runnerVars, processVars, poolVars, stopVars, coordVars, threadVars,
        testVars, envVars

-----------------------------------------------------------------------------
(* The coordinator's invariant, carried over                               *)

(* The coordinator's threads are finitely many: MaxWorkers bounds the ids. *)
LEMMA WorkersFinite == CoordinatorProofs!IsFiniteSet(Workers)
<1>1. IsFiniteSet(Workers)
  BY FS_Interval, ConstantsOK DEF Workers
<1>. QED
  BY <1>1 DEF CoordinatorProofs!IsFiniteSet, IsFiniteSet

(* The two instances of the coordinator, the runner's and the proofs', are *)
(* one.                                                                    *)
LEMMA SameCoordinator ==
  /\ Coordinator!Init <=> CoordinatorProofs!Init
  /\ Coordinator!Next <=> CoordinatorProofs!Next
  /\ Coordinator!TypeOK' <=> CoordinatorProofs!TypeOK'
  BY DEF Coordinator!Init, CoordinatorProofs!Init,
         Coordinator!TypeOK, CoordinatorProofs!TypeOK,
         Coordinator!Holding, CoordinatorProofs!Holding,
         Coordinator!Waiting, CoordinatorProofs!Waiting,
         Coordinator!Next, CoordinatorProofs!Next,
         Coordinator!AcquireNormal, CoordinatorProofs!AcquireNormal,
         Coordinator!AcquireSingleton, CoordinatorProofs!AcquireSingleton,
         Coordinator!Release, CoordinatorProofs!Release,
         Coordinator!ClaimNormal, CoordinatorProofs!ClaimNormal,
         Coordinator!WaitNormal, CoordinatorProofs!WaitNormal,
         Coordinator!RefuseNormal, CoordinatorProofs!RefuseNormal,
         Coordinator!ReleaseNormal, CoordinatorProofs!ReleaseNormal,
         Coordinator!ClaimSingleton, CoordinatorProofs!ClaimSingleton,
         Coordinator!WaitSingleton, CoordinatorProofs!WaitSingleton,
         Coordinator!RefuseSingleton, CoordinatorProofs!RefuseSingleton,
         Coordinator!ReleaseSingleton, CoordinatorProofs!ReleaseSingleton,
         Coordinator!NormalMayEnter, CoordinatorProofs!NormalMayEnter,
         Coordinator!SingletonMayEnter, CoordinatorProofs!SingletonMayEnter,
         Coordinator!WaitersWithout, CoordinatorProofs!WaitersWithout

(* What the runner does to the coordinator keeps the coordinator's         *)
(* invariant.                                                              *)
LEMMA CoordinatorStep ==
  ASSUME IInv, [Coordinator!Next]_coordVars
  PROVE  CoordinatorProofs!IInv' /\ Coordinator!TypeOK'
<1>1. [CoordinatorProofs!Next]_CoordinatorProofs!vars
  BY SameCoordinator DEF CoordinatorProofs!vars
<1>2. CoordinatorProofs!IInv'
  BY <1>1, WorkersFinite, CoordinatorProofs!NextIInv DEF IInv
<1>. QED
  BY <1>2, SameCoordinator DEF CoordinatorProofs!IInv

-----------------------------------------------------------------------------
(* The queue                                                               *)

(* Taking the head of a queue without duplicates.                          *)
LEMMA QueueGet ==
  ASSUME NEW S, NEW q \in Seq(S), q # <<>>, IsInjective(q)
  PROVE  /\ Tail(q) \in Seq(S)
         /\ IsInjective(Tail(q))
         /\ Head(q) \in S
         /\ Head(q) \in Range(q)
         /\ Range(Tail(q)) = Range(q) \ {Head(q)}
<1>1. /\ Tail(q) \in Seq(S) /\ Head(q) \in S /\ Len(q) \in Nat \ {0} /\ Head(q) = q[1]
      /\ DOMAIN q = 1..Len(q) /\ DOMAIN Tail(q) = 1..Len(q)-1
      /\ \A i \in 1..Len(q)-1 : Tail(q)[i] = q[i+1]
  OBVIOUS
<1>2. IsInjective(Tail(q))
  BY <1>1 DEF IsInjective
<1>3. Head(q) \in Range(q)
  BY <1>1 DEF Range
<1>4. \A x \in Range(Tail(q)) : x \in Range(q) /\ x # Head(q)
  BY <1>1 DEF Range, IsInjective
<1>5. ASSUME NEW x \in Range(q), x # Head(q) PROVE x \in Range(Tail(q))
  <2>1. PICK i \in 1..Len(q) : x = q[i]
    BY <1>1 DEF Range
  <2>2. i - 1 \in 1..Len(q)-1 /\ Tail(q)[i-1] = x
    BY <1>1, <1>5, <2>1
  <2>. QED
    BY <1>1, <2>2 DEF Range
<1>. QED
  BY <1>1, <1>2, <1>3, <1>4, <1>5

(* Putting a test back at the tail.                                        *)
LEMMA QueuePut ==
  ASSUME NEW S, NEW q \in Seq(S), NEW t \in S, IsInjective(q), t \notin Range(q)
  PROVE  /\ Append(q, t) \in Seq(S)
         /\ IsInjective(Append(q, t))
         /\ Range(Append(q, t)) = Range(q) \cup {t}
<1>1. /\ Append(q, t) \in Seq(S) /\ Len(q) \in Nat
      /\ DOMAIN q = 1..Len(q) /\ DOMAIN Append(q, t) = 1..Len(q)+1
      /\ \A i \in 1..Len(q) : Append(q, t)[i] = q[i]
      /\ Append(q, t)[Len(q)+1] = t
  OBVIOUS
<1>2. IsInjective(Append(q, t))
  BY <1>1 DEF IsInjective, Range
<1>3. \A x \in Range(Append(q, t)) : x \in Range(q) \cup {t}
  BY <1>1 DEF Range
<1>4. \A x \in Range(q) : x \in Range(Append(q, t))
  BY <1>1 DEF Range
<1>5. t \in Range(Append(q, t))
  BY <1>1 DEF Range
<1>. QED
  BY <1>1, <1>2, <1>3, <1>4, <1>5

(* What is queued are tests.                                               *)
LEMMA QueuedAreTests ==
  ASSUME TypeOK
  PROVE  Range(queue) \subseteq Tests /\ None \notin Range(queue)
  BY ConstantsOK DEF TypeOK, Range

(* The queue a soft stop's finalisation leaves has no duplicates.          *)
LEMMA EmptyQueue == <<>> \in Seq(Tests) /\ IsInjective(<<>>) /\ Range(<<>>) = {}
  BY DEF IsInjective, Range

-----------------------------------------------------------------------------
(* Steps that leave the workers, the processes and the queue alone keep    *)
(* everything but the types.                                               *)
LEMMA Bystanders ==
  ASSUME IInv, TypeOK', Started => Started', ~Started => UNCHANGED nextWorkerId,
         UNCHANGED <<queue, nextWorkerId, coordVars, worker, inHand, proc>>
  PROVE  IInv'
<1>1. CoordinatorProofs!IInv'
  BY CoordinatorStep
<1>2. HandInv' /\ SlotInv' /\ ProcInv' /\ OneOwner'
  BY DEF IInv, HandInv, SlotInv, ProcInv, OneOwner, Running
<1>3. PoolInv'
  BY DEF IInv, PoolInv
<1>. QED
  BY <1>1, <1>2, <1>3 DEF IInv

(* New worker threads hold nothing: their ids were never used before.      *)
LEMMA FreshWorkers ==
  ASSUME IInv, NEW n \in Nat, NEW kept \in SUBSET Workers, SpawnWorkers(n, kept),
         TypeOK', Started',
         UNCHANGED <<queue, coordVars, inHand, proc>>
  PROVE  IInv'
<1>. DEFINE fresh == nextWorkerId .. nextWorkerId + n - 1
<1>1. /\ nextWorkerId \in Nat /\ nextWorkerId' = nextWorkerId + n
      /\ worker' = [w \in Workers |-> IF w \in fresh THEN "check" ELSE worker[w]]
      /\ \A w \in fresh : w \in Workers => worker[w] = "unborn"
  BY DEF SpawnWorkers, IInv, TypeOK, PoolInv, Workers
<1>2. CoordinatorProofs!IInv'
  BY CoordinatorStep
<1>. HIDE DEF fresh
<1>3. HandInv' /\ SlotInv'
  BY <1>1 DEF IInv, HandInv, SlotInv, Waits, Busy
<1>4. ProcInv' /\ OneOwner'
  BY <1>1 DEF IInv, ProcInv, OneOwner, Running, HandInv, Waits, Busy
<1>5. PoolInv'
  BY <1>1, ConstantsOK DEF IInv, PoolInv, Workers, fresh
<1>. QED
  BY <1>2, <1>3, <1>4, <1>5 DEF IInv

-----------------------------------------------------------------------------
(* Types                                                                   *)

(* Live workers are workers.                                               *)
LEMMA LiveWorkers == Alive \subseteq Workers /\ LivePool \subseteq Workers
  BY DEF Alive, LivePool

(* Filling the pool adds some number of fresh workers, or none.            *)
LEMMA FillIsSpawn ==
  ASSUME NEW size \in Nat, NEW kept \in SUBSET Workers, FillPool(size, kept)
  PROVE  (\E n \in Nat : SpawnWorkers(n, kept)) \/ NoSpawn(kept)
<1>. DEFINE c == Cardinality(NotRetiring(kept))
<1>1. IsFiniteSet(NotRetiring(kept))
  <2>1. IsFiniteSet(Workers)
    BY FS_Interval, ConstantsOK DEF Workers
  <2>2. NotRetiring(kept) \subseteq Workers
    BY DEF NotRetiring
  <2>. QED
    BY <2>1, <2>2, FS_Subset
<1>2. c \in Nat
  BY <1>1, FS_CardinalityType
<1>3. IF size - c > 0 THEN SpawnWorkers(size - c, kept) ELSE NoSpawn(kept)
  BY DEF FillPool
<1>. HIDE DEF c
<1>4. CASE size - c > 0
  <2>1. size - c \in Nat
    BY <1>2, <1>4
  <2>. QED
    BY <1>3, <1>4, <2>1
<1>5. CASE ~(size - c > 0)
  BY <1>3, <1>5
<1>. QED
  BY <1>4, <1>5

(* Workers keep their types when fresh ones are spawned.                   *)
LEMMA SpawnTypes ==
  ASSUME TypeOK, NEW n \in Nat, NEW kept \in SUBSET Workers, SpawnWorkers(n, kept)
  PROVE  /\ nextWorkerId' \in 0 .. MaxWorkers
         /\ pool' \subseteq Workers
         /\ worker' \in [Workers -> WorkerPoints]
<1>1. nextWorkerId \in Nat /\ MaxWorkers \in Nat /\ nextWorkerId + n <= MaxWorkers
  BY ConstantsOK DEF TypeOK, SpawnWorkers
<1>2. nextWorkerId .. nextWorkerId + n - 1 \subseteq Workers
  BY <1>1 DEF Workers
<1>. QED
  BY <1>1, <1>2 DEF SpawnWorkers, TypeOK, WorkerPoints

(* Topping the pool up keeps the types of the pool and its workers.        *)
LEMMA FillTypes ==
  ASSUME TypeOK, NEW size \in Nat, NEW kept \in SUBSET Workers, FillPool(size, kept)
  PROVE  /\ nextWorkerId' \in 0 .. MaxWorkers
         /\ pool' \subseteq Workers
         /\ worker' \in [Workers -> WorkerPoints]
<1>1. CASE \E n \in Nat : SpawnWorkers(n, kept)
  BY <1>1, SpawnTypes
<1>2. CASE NoSpawn(kept)
  BY <1>2 DEF NoSpawn, TypeOK
<1>. QED
  BY <1>1, <1>2, FillIsSpawn

-----------------------------------------------------------------------------
(* Initially                                                               *)

(* The invariant holds when the runner is constructed.                     *)
LEMMA InitIInv == Init => IInv
<1>. SUFFICES ASSUME Init PROVE IInv
  OBVIOUS
<1>1. CoordinatorProofs!IInv /\ Coordinator!TypeOK
  <2>1. CoordinatorProofs!Init
    BY SameCoordinator DEF Init
  <2>2. CoordinatorProofs!IInv
    BY <2>1, WorkersFinite, CoordinatorProofs!InitIInv
  <2>. QED
    BY <2>2 DEF CoordinatorProofs!IInv, CoordinatorProofs!TypeOK, Coordinator!TypeOK,
       CoordinatorProofs!Holding, Coordinator!Holding, CoordinatorProofs!Waiting, Coordinator!Waiting
<1>2. TypeOK
  <2>1. /\ runner \in {"enqueue", "spawn", "scan", "heal", "done"}
        /\ caller \in {"idle", "stopping", "forceStopping", "resetting"} /\ operations \in Nat
        /\ softStop \in BOOLEAN /\ stopRequested \in BOOLEAN /\ forceStopped \in BOOLEAN
        /\ queue \in Seq(Tests) /\ pool \subseteq Workers /\ killAsked \subseteq Tests
    BY EmptyQueue DEF Init
  <2>2. numberOfProcesses \in Nat /\ nextWorkerId \in 0 .. MaxWorkers
    BY ConstantsOK DEF Init
  <2>3. worker \in [Workers -> WorkerPoints]
    BY DEF Init, WorkerPoints
  <2>4. /\ inHand \in [Workers -> Tests \cup {None}]
        /\ process \in [Workers -> Tests \cup {None}]
        /\ signals \in [Workers -> SUBSET {"stop", "retire", "force"}]
    BY DEF Init
  <2>5. /\ proc \in [Tests -> {"none", "starting", "running", "reported", "dead"}]
        /\ state \in [Tests -> Terminal \cup {"absent", "QUEUED", "RUNNING"}]
    BY DEF Init
  <2>. QED
    BY <1>1, <2>1, <2>2, <2>3, <2>4, <2>5 DEF TypeOK
<1>3. HandInv /\ SlotInv
  BY DEF Init, HandInv, SlotInv, Waits, Busy, Coordinator!Init
<1>4. ProcInv /\ PoolInv
  BY DEF Init, ProcInv, PoolInv, Running, Started
<1>5. OneOwner
  BY EmptyQueue DEF Init, OneOwner
<1>. QED
  BY <1>1, <1>2, <1>3, <1>4, <1>5 DEF IInv

-----------------------------------------------------------------------------
(* The worker threads                                                      *)

(* Moving on within the same part of the loop.  Leaving the watch over a   *)
(* process is only possible when the process is gone.                      *)
LEMMA LocalMove ==
  ASSUME IInv, TypeOK', NEW w \in Workers, NEW p,
         worker' = [worker EXCEPT ![w] = p],
         UNCHANGED <<runner, nextWorkerId, queue, coordVars, inHand, proc>>,
         worker[w] \notin {"unborn", "acquire", "launch"},
         worker[w] \in Waits <=> p \in Waits,
         worker[w] \in Busy <=> p \in Busy,
         p # "launch",
         p \in {"watch", "kill"} => worker[w] \in {"watch", "kill"},
         worker[w] \in {"watch", "kill"} => p \in {"watch", "kill"} \/ ~Running(inHand[w])
  PROVE  IInv'
<1>1. CoordinatorProofs!IInv'
  BY CoordinatorStep
<1>2. HandInv' /\ SlotInv'
  BY DEF IInv, TypeOK, HandInv, SlotInv
<1>3. ProcInv'
  BY DEF IInv, TypeOK, ProcInv, Running, Busy
<1>4. PoolInv'
  BY DEF IInv, TypeOK, PoolInv, Started
<1>5. OneOwner'
  BY DEF IInv, TypeOK, OneOwner, Busy
<1>. QED
  BY <1>1, <1>2, <1>3, <1>4, <1>5 DEF IInv

(* Every worker step keeps the coordinator's invariant: it is one of the   *)
(* coordinator's own steps or leaves it alone.                             *)
LEMMA WorkerCoordinator ==
  ASSUME IInv, NEW w \in Workers, WorkerStep(w)
  PROVE  CoordinatorProofs!IInv' /\ Coordinator!TypeOK'
<1>1. CASE Acquire(w)
  <2>1. Coordinator!Next
    BY <1>1 DEF Acquire, Coordinator!Next, Coordinator!AcquireNormal, Coordinator!AcquireSingleton
  <2>. QED
    BY <2>1, CoordinatorStep
<1>2. CASE LaunchFails(w) \/ ReleaseSlot(w)
  <2>1. Coordinator!Next
    BY <1>2 DEF LaunchFails, ReleaseSlot, Coordinator!Next
  <2>. QED
    BY <2>1, CoordinatorStep
<1>3. CASE ~(Acquire(w) \/ LaunchFails(w) \/ ReleaseSlot(w))
  <2>1. UNCHANGED coordVars
    BY <1>3 DEF WorkerStep, OwnStep, CheckAbort, GetTest, AwaitAdmission, GatesPass, GatesFail,
       HandleNotAcquired, Launch, Watch, Kill, Finish, WorkerExit
  <2>. QED
    BY <2>1, CoordinatorStep
<1>. QED
  BY <1>1, <1>2, <1>3

(* A worker's step keeps the types.                                        *)
LEMMA WorkerTypes ==
  ASSUME IInv, NEW w \in Workers, WorkerStep(w)
  PROVE  TypeOK'
<1>. USE DEF WorkerPoints, Terminal, Goto
<1>1. Coordinator!TypeOK' /\ TypeOK
  BY WorkerCoordinator DEF IInv
<1>2. CASE CheckAbort(w) \/ AwaitAdmission(w) \/ GatesPass(w) \/ GatesFail(w) \/ Watch(w)
           \/ WorkerExit(w)
  <2>1. worker' \in [Workers -> WorkerPoints]
    BY <1>1, <1>2 DEF TypeOK, CheckAbort, AwaitAdmission, GatesPass, GatesFail, Watch, WorkerExit
  <2>2. UNCHANGED <<runnerVars, queue, inHand, process, signals, testVars>>
    BY <1>2 DEF CheckAbort, AwaitAdmission, GatesPass, GatesFail, Watch, WorkerExit
  <2>. QED
    BY <1>1, <2>1, <2>2 DEF TypeOK
<1>3. CASE GetTest(w)
  <2>1. CASE queue = <<>>
    BY <1>1, <1>3, <2>1 DEF TypeOK, GetTest
  <2>2. CASE queue # <<>>
    <3>1. Tail(queue) \in Seq(Tests) /\ Head(queue) \in Tests
      BY <1>1, <2>2 DEF TypeOK
    <3>. QED
      BY <1>1, <1>3, <2>2, <3>1 DEF TypeOK, GetTest, Dequeued
  <2>. QED
    BY <2>1, <2>2
<1>4. CASE Acquire(w)
  BY <1>1, <1>4 DEF TypeOK, Acquire
<1>5. CASE HandleNotAcquired(w)
  <2>1. inHand[w] \in Tests
    BY <1>1, <1>5 DEF IInv, HandInv, Waits, HandleNotAcquired, TypeOK
  <2>2. Append(queue, inHand[w]) \in Seq(Tests)
    BY <1>1, <2>1 DEF TypeOK
  <2>3. queue' \in Seq(Tests)
    BY <1>1, <1>5, <2>2 DEF TypeOK, HandleNotAcquired, HandedBack
  <2>4. state' \in [Tests -> Terminal \cup {"absent", "QUEUED", "RUNNING"}]
    BY <1>1, <1>5 DEF TypeOK, HandleNotAcquired
  <2>. QED
    BY <1>1, <1>5, <2>3, <2>4 DEF TypeOK, HandleNotAcquired
<1>6. CASE Launch(w)
  BY <1>1, <1>6 DEF TypeOK, Launch
<1>7. CASE LaunchFails(w)
  BY <1>1, <1>7 DEF TypeOK, LaunchFails
<1>8. CASE Kill(w)
  BY <1>1, <1>8 DEF TypeOK, Kill
<1>9. CASE Finish(w)
  BY <1>1, <1>9 DEF TypeOK, Finish
<1>10. CASE ReleaseSlot(w)
  BY <1>1, <1>10 DEF TypeOK, ReleaseSlot
<1>. QED
  BY <1>2, <1>3, <1>4, <1>5, <1>6, <1>7, <1>8, <1>9, <1>10 DEF WorkerStep, OwnStep

(* The steps that move a worker on without touching its test.              *)
LEMMA MoveIInv ==
  ASSUME IInv, NEW w \in Workers,
         CheckAbort(w) \/ AwaitAdmission(w) \/ GatesPass(w) \/ GatesFail(w)
           \/ Watch(w) \/ Finish(w) \/ WorkerExit(w)
  PROVE  IInv'
<1>. USE DEF Goto
<1>1. TypeOK'
  BY WorkerTypes DEF WorkerStep, OwnStep
<1>2. UNCHANGED <<runner, nextWorkerId, queue, coordVars, inHand, proc>>
  BY DEF CheckAbort, AwaitAdmission, GatesPass, GatesFail, Watch, Finish, WorkerExit
<1>3. CASE CheckAbort(w) \/ AwaitAdmission(w) \/ GatesPass(w) \/ GatesFail(w) \/ Finish(w)
           \/ WorkerExit(w)
  <2>1. PICK p \in WorkerPoints :
          /\ worker' = [worker EXCEPT ![w] = p]
          /\ worker[w] \notin {"unborn", "acquire", "launch", "watch", "kill"}
          /\ worker[w] \in Waits <=> p \in Waits
          /\ worker[w] \in Busy <=> p \in Busy
          /\ p \notin {"launch", "watch", "kill"}
    BY <1>3 DEF CheckAbort, AwaitAdmission, GatesPass, GatesFail, Finish, WorkerExit, Waits, Busy,
       WorkerPoints
  <2>. QED
    BY <1>1, <1>2, <2>1, LocalMove
<1>4. CASE Watch(w)
  <2>1. PICK p \in {"finish", "kill"} :
          /\ worker' = [worker EXCEPT ![w] = p]
          /\ worker[w] = "watch"
          /\ p = "kill" \/ ~Running(inHand[w])
    BY <1>4 DEF Watch, Running
  <2>. QED
    BY <1>1, <1>2, <2>1, LocalMove DEF Waits, Busy
<1>. QED
  BY <1>3, <1>4

(* A worker takes the head of the queue in hand, or finds the queue empty. *)
LEMMA GetTestIInv ==
  ASSUME IInv, NEW w \in Workers, GetTest(w)
  PROVE  IInv'
<1>. USE DEF Goto, GetTest
<1>1. TypeOK' /\ TypeOK /\ OneOwner
  BY WorkerTypes DEF WorkerStep, OwnStep, IInv
<1>2. CASE queue = <<>>
  <2>1. UNCHANGED <<runner, nextWorkerId, queue, coordVars, inHand, proc>>
    BY <1>2
  <2>2. worker' = [worker EXCEPT ![w] = "exiting"] /\ worker[w] = "get"
    BY <1>2
  <2>. QED
    BY <1>1, <2>1, <2>2, LocalMove DEF Waits, Busy
<1>3. CASE queue # <<>>
  <2>1. /\ Head(queue) \in Tests /\ Head(queue) \in Range(queue)
        /\ Tail(queue) \in Seq(Tests) /\ IsInjective(Tail(queue))
        /\ Range(Tail(queue)) = Range(queue) \ {Head(queue)}
    BY <1>1, <1>3, QueueGet DEF TypeOK, OneOwner
  <2>2. /\ queue' = Tail(queue)
        /\ inHand' = [inHand EXCEPT ![w] = Head(queue)]
        /\ worker[w] = "get"
        /\ worker' = [worker EXCEPT ![w] = "admit"] \/ worker' = [worker EXCEPT ![w] = "acquire"]
        /\ UNCHANGED <<runnerVars, coordVars, proc>>
    BY <1>3 DEF Dequeued
  <2>3. CoordinatorProofs!IInv'
    BY <2>2, CoordinatorStep
  <2>4. HandInv'
    BY <1>1, <2>1, <2>2, ConstantsOK DEF IInv, TypeOK, HandInv, Waits, Busy
  <2>5. SlotInv' /\ ProcInv' /\ PoolInv'
    <3>1. SlotInv'
      BY <1>1, <2>2 DEF IInv, TypeOK, SlotInv, Waits, Busy
    <3>2. ProcInv'
      <4>1. \A v \in Workers : worker'[v] \in {"watch", "kill", "finish", "release"}
              => worker[v] = worker'[v] /\ v # w /\ inHand'[v] = inHand[v]
        BY <1>1, <2>2 DEF TypeOK
      <4>2. \A v \in Workers : worker[v] \in {"watch", "kill"} => worker'[v] = worker[v] /\ inHand'[v] = inHand[v]
        BY <1>1, <2>2 DEF TypeOK
      <4>. QED
        BY <2>2, <4>1, <4>2 DEF IInv, ProcInv, Running
    <3>3. PoolInv'
      BY <1>1, <2>2 DEF IInv, TypeOK, PoolInv, Started
    <3>. QED
      BY <3>1, <3>2, <3>3
  <2>6. inHand[w] = None /\ None \notin Tests
    BY <2>2, ConstantsOK DEF IInv, HandInv, Waits, Busy
  <2>7. OneOwner'
    BY <1>1, <2>1, <2>2, <2>6 DEF TypeOK, OneOwner
  <2>. QED
    BY <1>1, <2>3, <2>4, <2>5, <2>7 DEF IInv
<1>. QED
  BY <1>2, <1>3

(* Within acquire_normal and acquire_singleton.                            *)
LEMMA AcquireIInv ==
  ASSUME IInv, NEW w \in Workers, Acquire(w)
  PROVE  IInv'
<1>. USE DEF Goto, Acquire, IsSingleton, Coordinator!ClaimNormal, Coordinator!WaitNormal,
         Coordinator!RefuseNormal, Coordinator!ClaimSingleton, Coordinator!WaitSingleton,
         Coordinator!RefuseSingleton
<1>1. TypeOK' /\ CoordinatorProofs!IInv'
  BY WorkerTypes, WorkerCoordinator DEF WorkerStep, OwnStep
<1>2. HandInv'
  BY DEF IInv, TypeOK, HandInv, Waits, Busy
<1>3. SlotInv'
  BY DEF IInv, TypeOK, SlotInv, Waits, Busy, Coordinator!TypeOK, Coordinator!Holding
<1>4. ProcInv' /\ PoolInv'
  BY DEF IInv, TypeOK, ProcInv, PoolInv, Running, Started
<1>5. OneOwner'
  BY DEF IInv, TypeOK, OneOwner
<1>. QED
  BY <1>1, <1>2, <1>3, <1>4, <1>5 DEF IInv

(* Letting go of a test that got no slot, whichever way.                   *)
LEMMA HandleNotAcquiredIInv ==
  ASSUME IInv, NEW w \in Workers, HandleNotAcquired(w)
  PROVE  IInv'
<1>. USE DEF Goto, HandleNotAcquired
<1>1. TypeOK' /\ CoordinatorProofs!IInv' /\ TypeOK
  BY WorkerTypes, WorkerCoordinator DEF WorkerStep, OwnStep, IInv
<1>2. inHand[w] \in Tests /\ inHand[w] \notin Range(queue)
  BY ConstantsOK DEF IInv, TypeOK, HandInv, Waits, OneOwner
<1>3. HandInv' /\ SlotInv'
  BY DEF IInv, TypeOK, HandInv, SlotInv, Waits, Busy
<1>4. ProcInv' /\ PoolInv'
  BY DEF IInv, TypeOK, ProcInv, PoolInv, Running, Started
<1>5. OneOwner'
  <2>0. None \notin Tests /\ None \notin Range(queue)
    BY <1>1, ConstantsOK, QueuedAreTests
  <2>1. CASE queue' = queue
    BY <1>1, <2>0, <2>1 DEF IInv, TypeOK, OneOwner
  <2>2. CASE queue' = Append(queue, inHand[w])
    <3>1. /\ IsInjective(queue')
          /\ Range(queue') = Range(queue) \cup {inHand[w]}
      BY <1>1, <1>2, <2>2, QueuePut DEF IInv, TypeOK, OneOwner
    <3>2. proc[inHand[w]] = "none"
      BY <1>2 DEF IInv, TypeOK, OneOwner
    <3>. QED
      BY <1>1, <1>2, <2>0, <3>1, <3>2 DEF IInv, TypeOK, OneOwner
  <2>. QED
    BY <2>1, <2>2 DEF HandedBack
<1>. QED
  BY <1>1, <1>3, <1>4, <1>5 DEF IInv

(* Starting a test's process and killing it.                               *)
LEMMA LaunchKillIInv ==
  ASSUME IInv, NEW w \in Workers, Launch(w) \/ Kill(w)
  PROVE  IInv'
<1>. USE DEF Goto, Launch, Kill
<1>1. TypeOK' /\ CoordinatorProofs!IInv' /\ TypeOK
  BY WorkerTypes, WorkerCoordinator DEF WorkerStep, OwnStep, IInv
<1>2. HandInv' /\ SlotInv'
  BY DEF IInv, TypeOK, HandInv, SlotInv, Waits, Busy
<1>3. ProcInv'
  <2>1. inHand[w] \in Tests /\ UNCHANGED inHand
    BY ConstantsOK DEF IInv, TypeOK, HandInv, Busy
  <2>2. \A v \in Workers : v # w => worker'[v] = worker[v] /\ inHand[v] # inHand[w]
    BY <2>1, ConstantsOK DEF IInv, TypeOK, OneOwner
  <2>3. \A v \in Workers :
          worker'[v] \in {"watch", "kill", "finish", "release"} => proc'[inHand[v]] # "none"
    <3>1. proc'[inHand[w]] # "none"
      BY <2>1 DEF IInv, TypeOK
    <3>2. \A v \in Workers : v # w /\ worker[v] \in {"watch", "kill", "finish", "release"}
            => proc[inHand[v]] # "none" /\ inHand[v] \in Tests
      BY DEF IInv, ProcInv, TypeOK, HandInv, Busy
    <3>. QED
      BY <2>2, <3>1, <3>2 DEF IInv, TypeOK
  <2>4. \A t \in Tests : proc'[t] \in {"starting", "running", "reported"} =>
          \E v \in Workers : inHand[v] = t /\ worker'[v] \in {"watch", "kill"}
    BY <2>1, <2>2 DEF IInv, TypeOK, ProcInv, Running
  <2>. QED
    BY <2>1, <2>3, <2>4 DEF ProcInv, Running
<1>4. PoolInv'
  BY ConstantsOK DEF IInv, TypeOK, PoolInv, Started, Workers
<1>5. inHand[w] # None
  BY DEF IInv, HandInv, Busy
<1>6. OneOwner'
  BY <1>5 DEF IInv, TypeOK, OneOwner
<1>. QED
  BY <1>1, <1>2, <1>3, <1>4, <1>6 DEF IInv

(* Giving the slot back, after a test or after a failure to start one.     *)
LEMMA ReleaseIInv ==
  ASSUME IInv, NEW w \in Workers, LaunchFails(w) \/ ReleaseSlot(w)
  PROVE  IInv'
<1>. USE DEF Goto, LaunchFails, ReleaseSlot, Coordinator!Release, Coordinator!ReleaseNormal,
         Coordinator!ReleaseSingleton
<1>1. TypeOK' /\ CoordinatorProofs!IInv' /\ TypeOK
  BY WorkerTypes, WorkerCoordinator DEF WorkerStep, OwnStep, IInv
<1>2. HandInv'
  BY DEF IInv, TypeOK, HandInv, Waits, Busy
<1>3. SlotInv'
  BY DEF IInv, TypeOK, SlotInv, Waits, Busy, Coordinator!TypeOK
<1>4. ProcInv' /\ PoolInv'
  BY DEF IInv, TypeOK, ProcInv, PoolInv, Running, Started
<1>5. None \notin Tests /\ None \notin Range(queue)
  BY <1>1, ConstantsOK, QueuedAreTests
<1>6. OneOwner'
  <2>1. /\ inHand' = [inHand EXCEPT ![w] = None]
        /\ worker' = [worker EXCEPT ![w] = "check"] \/ worker' = [worker EXCEPT ![w] = "exiting"]
        /\ UNCHANGED <<queue, proc>>
    OBVIOUS
  <2>. QED
    BY <1>1, <1>5, <2>1 DEF IInv, TypeOK, OneOwner
<1>. QED
  BY <1>1, <1>2, <1>3, <1>4, <1>6 DEF IInv

(* Every step of a worker thread keeps the invariant.                      *)
LEMMA WorkerIInv ==
  ASSUME IInv, NEW w \in Workers, WorkerStep(w)
  PROVE  IInv'
  BY MoveIInv, GetTestIInv, AcquireIInv, HandleNotAcquiredIInv, LaunchKillIInv, ReleaseIInv
  DEF WorkerStep, OwnStep

-----------------------------------------------------------------------------
(* The test processes                                                      *)

(* Every step of a test process keeps the invariant.                       *)
LEMMA ProcessIInv ==
  ASSUME IInv, NEW t \in Tests, ProcessStep(t) \/ ProcessCrashes(t)
  PROVE  IInv'
<1>. USE DEF ProcessStep, ProcessBegins, ProcessReports, ProcessExits, ProcessCrashes
<1>1. CoordinatorProofs!IInv'
  BY CoordinatorStep
<1>2. TypeOK'
  <2>1. Coordinator!TypeOK'
    BY CoordinatorStep
  <2>. QED
    BY <2>1 DEF IInv, TypeOK, Terminal
<1>3. HandInv' /\ SlotInv' /\ PoolInv'
  BY DEF IInv, HandInv, SlotInv, PoolInv, Started
<1>4. ProcInv'
  BY DEF IInv, TypeOK, ProcInv, Running, HandInv, Busy
<1>5. OneOwner'
  BY DEF IInv, TypeOK, OneOwner
<1>. QED
  BY <1>1, <1>2, <1>3, <1>4, <1>5 DEF IInv

-----------------------------------------------------------------------------
(* The runner thread                                                       *)

(* Enqueueing puts every test in the queue when no worker exists yet.      *)
LEMMA EnqueueIInv ==
  ASSUME IInv, Enqueue
  PROVE  IInv'
<1>. USE DEF Enqueue
<1>1. CoordinatorProofs!IInv'
  BY CoordinatorStep
<1>2. TypeOK'
  <2>1. state' \in [Tests -> Terminal \cup {"absent", "QUEUED", "RUNNING"}]
    OBVIOUS
  <2>2. Coordinator!TypeOK'
    BY CoordinatorStep
  <2>. QED
    BY <2>1, <2>2, ConstantsOK DEF IInv, TypeOK
<1>3. HandInv' /\ SlotInv' /\ PoolInv' /\ ProcInv'
  BY DEF IInv, HandInv, SlotInv, PoolInv, Started, ProcInv, Running
<1>4. /\ \A w \in Workers : inHand[w] = None
      /\ \A t \in Tests : proc[t] = "none"
  BY ConstantsOK DEF IInv, PoolInv, HandInv, Started, Workers, Waits, Busy
<1>5. OneOwner'
  BY <1>4, ConstantsOK DEF OneOwner, Tests
<1>. QED
  BY <1>1, <1>2, <1>3, <1>5 DEF IInv

(* Topping the pool up, whoever does it.                                   *)
LEMMA FillIInv ==
  ASSUME IInv, TypeOK', Started, Started', NEW size \in Nat, NEW kept \in SUBSET Workers,
         FillPool(size, kept),
         UNCHANGED <<queue, coordVars, inHand, proc>>
  PROVE  IInv'
<1>1. CASE \E n \in Nat : SpawnWorkers(n, kept)
  BY <1>1, FreshWorkers
<1>2. CASE NoSpawn(kept)
  <2>1. UNCHANGED <<nextWorkerId, worker>>
    BY <1>2 DEF NoSpawn
  <2>. QED
    BY <2>1, Bystanders DEF Started
<1>. QED
  BY <1>1, <1>2, FillIsSpawn

(* The initial pool: workers with empty hands.                             *)
LEMMA SpawnPoolIInv ==
  ASSUME IInv, SpawnPool
  PROVE  IInv'
<1>. USE DEF SpawnPool
<1>1. numberOfProcesses \in Nat /\ {} \in SUBSET Workers /\ TypeOK
  BY DEF IInv, TypeOK
<1>2. SpawnWorkers(numberOfProcesses, {}) /\ Started'
  BY DEF Started
<1>3. /\ nextWorkerId' \in 0 .. MaxWorkers
      /\ pool' \subseteq Workers
      /\ worker' \in [Workers -> WorkerPoints]
  BY <1>1, <1>2, SpawnTypes
<1>4. Coordinator!TypeOK'
  BY CoordinatorStep
<1>5. TypeOK'
  BY <1>1, <1>3, <1>4 DEF TypeOK
<1>. QED
  BY <1>1, <1>2, <1>5, FreshWorkers

(* Dropping dead workers and finalising a soft stop: a test that is        *)
(* drained from the queue has no other owner.                              *)
LEMMA SuperviseScanIInv ==
  ASSUME IInv, SuperviseScan
  PROVE  IInv'
<1>. USE DEF SuperviseScan
<1>1. TypeOK /\ Coordinator!TypeOK'
  BY CoordinatorStep DEF IInv
<1>2. Started /\ Started' /\ UNCHANGED <<nextWorkerId, coordVars, worker, inHand, proc>>
  BY DEF Started
<1>3. CASE UNCHANGED <<queue, state>>
  <2>1. TypeOK'
    BY <1>1, <1>3, LiveWorkers DEF TypeOK
  <2>. QED
    BY <1>2, <1>3, <2>1, Bystanders
<1>4. CASE queue' = <<>> /\ state' = [t \in Tests |-> FinalState(t)]
  <2>1. TypeOK'
    <3>1. state' \in [Tests -> Terminal \cup {"absent", "QUEUED", "RUNNING"}]
      BY <1>1, <1>4 DEF FinalState, TypeOK, Terminal
    <3>. QED
      BY <1>1, <1>4, <3>1, LiveWorkers, EmptyQueue DEF TypeOK
  <2>2. CoordinatorProofs!IInv'
    BY CoordinatorStep
  <2>3. HandInv' /\ SlotInv' /\ ProcInv' /\ PoolInv'
    BY <1>2 DEF IInv, HandInv, SlotInv, ProcInv, PoolInv, Running
  <2>4. OneOwner'
    BY <1>4, EmptyQueue DEF IInv, OneOwner
  <2>. QED
    BY <2>1, <2>2, <2>3, <2>4 DEF IInv
<1>. QED
  BY <1>3, <1>4

(* Healing the pool.                                                       *)
LEMMA SuperviseHealIInv ==
  ASSUME IInv, SuperviseHeal
  PROVE  IInv'
<1>. USE DEF SuperviseHeal
<1>1. TypeOK /\ Coordinator!TypeOK'
  BY CoordinatorStep DEF IInv
<1>2. Started /\ Started' /\ UNCHANGED <<queue, coordVars, inHand, proc>>
  BY DEF Started
<1>3. CASE UNCHANGED <<pool, nextWorkerId, worker>>
  <2>1. TypeOK'
    BY <1>1, <1>3 DEF TypeOK
  <2>. QED
    BY <1>2, <1>3, <2>1, Bystanders
<1>4. CASE FillPool(numberOfProcesses, pool)
  <2>1. numberOfProcesses \in Nat /\ pool \in SUBSET Workers
    BY <1>1 DEF TypeOK
  <2>2. TypeOK'
    BY <1>1, <1>4, <2>1, FillTypes DEF TypeOK
  <2>. QED
    BY <1>2, <1>4, <2>1, <2>2, FillIInv
<1>. QED
  BY <1>3, <1>4

(* Every step of the runner thread keeps the invariant.                    *)
LEMMA RunnerIInv ==
  ASSUME IInv, RunnerStep
  PROVE  IInv'
  BY EnqueueIInv, SpawnPoolIInv, SuperviseScanIInv, SuperviseHealIInv DEF RunnerStep

-----------------------------------------------------------------------------
(* The calls                                                               *)

(* set_number_of_processes spawns workers or asks some to retire.          *)
LEMMA ResizeIInv ==
  ASSUME IInv, NEW n \in Sizes, SetNumberOfProcesses(n)
  PROVE  IInv'
<1>. USE DEF SetNumberOfProcesses
<1>1. TypeOK /\ Coordinator!TypeOK' /\ n \in Nat /\ operations' \in Nat
  BY ConstantsOK, CoordinatorStep DEF IInv, TypeOK, Call
<1>2. UNCHANGED <<runner, queue, coordVars, inHand, proc>> /\ (Started <=> Started')
  BY DEF Started
<1>3. CASE ~Started
  <2>1. UNCHANGED <<pool, nextWorkerId, worker, signals>>
    BY <1>3
  <2>2. TypeOK'
    BY <1>1, <2>1 DEF TypeOK
  <2>. QED
    BY <1>2, <2>1, <2>2, Bystanders
<1>4. CASE Started
  <2>1. FillPool(n, LivePool) /\ LivePool \in SUBSET Workers
    BY <1>4, LiveWorkers
  <2>2. signals' \in [Workers -> SUBSET {"stop", "retire", "force"}]
    BY <1>1, <1>4 DEF TypeOK
  <2>3. TypeOK'
    BY <1>1, <2>1, <2>2, FillTypes DEF TypeOK
  <2>. QED
    BY <1>1, <1>2, <1>4, <2>1, <2>3, FillIInv
<1>. QED
  BY <1>3, <1>4

(* cancel_soft_stop clears the flag and tops the pool up.                  *)
LEMMA CancelIInv ==
  ASSUME IInv, CancelSoftStop
  PROVE  IInv'
<1>. USE DEF CancelSoftStop
<1>1. TypeOK /\ Coordinator!TypeOK' /\ operations' \in Nat /\ numberOfProcesses \in Nat
  BY CoordinatorStep DEF IInv, TypeOK, Call
<1>2. UNCHANGED <<runner, queue, coordVars, inHand, proc>> /\ (Started <=> Started')
  BY DEF Started
<1>3. CASE ~Started
  <2>1. UNCHANGED <<pool, nextWorkerId, worker>>
    BY <1>3
  <2>2. TypeOK'
    BY <1>1, <2>1 DEF TypeOK
  <2>. QED
    BY <1>2, <2>1, <2>2, Bystanders
<1>4. CASE Started
  <2>1. FillPool(numberOfProcesses, LivePool) /\ LivePool \in SUBSET Workers
    BY <1>4, LiveWorkers
  <2>2. TypeOK'
    BY <1>1, <2>1, FillTypes DEF TypeOK
  <2>. QED
    BY <1>1, <1>2, <1>4, <2>1, <2>2, FillIInv
<1>. QED
  BY <1>3, <1>4

(* The calls that only raise flags, signal workers or write states.        *)
LEMMA FlagIInv ==
  ASSUME IInv,
         \/ SoftStop \/ Stop \/ ForceStopAndReset \/ StopWorkers \/ ResetStates
         \/ \E t \in Tests : ForceStopTest(t)
  PROVE  IInv'
<1>. USE DEF SoftStop, Stop, ForceStopAndReset, StopWorkers, ResetStates, ForceStopTest, Call
<1>1. UNCHANGED <<runner, queue, nextWorkerId, coordVars, worker, inHand, proc>>
  OBVIOUS
<1>2. TypeOK /\ Coordinator!TypeOK'
  BY <1>1, CoordinatorStep DEF IInv
<1>3. TypeOK'
  <2>1. CASE SoftStop \/ Stop \/ ForceStopAndReset
    <3>1. /\ caller' \in {"idle", "stopping", "forceStopping", "resetting"} /\ operations' \in Nat
          /\ softStop' \in BOOLEAN /\ stopRequested' \in BOOLEAN /\ forceStopped' \in BOOLEAN
      <4>1. CASE SoftStop
        BY <1>2, <4>1 DEF TypeOK
      <4>2. CASE Stop
        BY <1>2, <4>2 DEF TypeOK
      <4>3. CASE ForceStopAndReset
        BY <1>2, <4>3 DEF TypeOK
      <4>. QED
        BY <2>1, <4>1, <4>2, <4>3
    <3>2. UNCHANGED <<numberOfProcesses, pool, process, signals, state, killAsked>>
      BY <2>1
    <3>. QED
      BY <1>1, <1>2, <3>1, <3>2 DEF TypeOK
  <2>2. CASE StopWorkers
    <3>1. signals' \in [Workers -> SUBSET {"stop", "retire", "force"}]
      BY <1>2, <2>2 DEF TypeOK
    <3>2. caller' \in {"idle", "stopping", "forceStopping", "resetting"}
      BY <2>2
    <3>. QED
      BY <1>2, <2>2, <3>1, <3>2 DEF TypeOK
  <2>3. CASE ResetStates
    BY <1>2, <2>3 DEF TypeOK, Terminal
  <2>4. CASE \E t \in Tests : ForceStopTest(t)
    <3>1. signals' \in [Workers -> SUBSET {"stop", "retire", "force"}]
      BY <1>2, <2>4 DEF TypeOK
    <3>2. killAsked' \subseteq Tests /\ operations' \in Nat
      BY <1>2, <2>4 DEF TypeOK
    <3>. QED
      BY <1>2, <2>4, <3>1, <3>2 DEF TypeOK
  <2>. QED
    BY <2>1, <2>2, <2>3, <2>4
<1>. QED
  BY <1>1, <1>3, Bystanders DEF Started

-----------------------------------------------------------------------------
(* The inductive invariant and what follows from it                        *)

(* The invariant is inductive.                                             *)
LEMMA NextIInv == IInv /\ [Next]_vars => IInv'
<1>. SUFFICES ASSUME IInv, [Next]_vars PROVE IInv'
  OBVIOUS
<1>1. CASE RunnerStep
  BY <1>1, RunnerIInv
<1>2. CASE \E w \in Workers : WorkerStep(w)
  BY <1>2, WorkerIInv
<1>3. CASE \E t \in Tests : ProcessStep(t) \/ ProcessCrashes(t)
  BY <1>3, ProcessIInv
<1>4. CASE UserCall \/ CallerStep
  BY <1>4, ResizeIInv, CancelIInv, FlagIInv DEF UserCall, CallerStep
<1>5. CASE UNCHANGED vars
  <2>1. TypeOK' /\ UNCHANGED <<runner, queue, nextWorkerId, coordVars, worker, inHand, proc>>
    BY <1>5, CoordinatorStep DEF IInv, TypeOK
  <2>. QED
    BY <2>1, Bystanders DEF Started
<1>. QED
  BY <1>1, <1>2, <1>3, <1>4, <1>5 DEF Next, Over

(* The invariant the theorems below are read off from.                     *)
THEOREM Invariance == Spec => []IInv
  BY InitIInv, NextIInv, PTL DEF Spec

(* Whatever is called and in whatever order the threads run, every         *)
(* variable keeps its type: in particular the coordinator's counters never *)
(* go below zero, so no slot is released that was not acquired.            *)
THEOREM TypeCorrect == Spec => []TypeOK
<1>1. IInv => TypeOK
  BY DEF IInv
<1>. QED
  BY <1>1, Invariance, PTL

(* No test is ever in two places, so none is run twice (the hand-back of   *)
(* _handle_not_acquired and the resizing of the pool included).            *)
THEOREM Ownership == Spec => []OneOwner
<1>1. IInv => OneOwner
  BY DEF IInv
<1>. QED
  BY <1>1, Invariance, PTL

(* Two workers that hold slots, one of them for a singleton test, are one. *)
LEMMA SlotsExclude ==
  ASSUME IInv, NEW v \in Workers, NEW w \in Workers,
         worker[v] \in Busy, worker[w] \in Busy, inHand[v] \in Singletons
  PROVE  v = w
<1>1. slot[v] = "singleton" /\ slot[w] \in {"normal", "singleton"}
  BY DEF IInv, SlotInv
<1>2. CoordinatorProofs!SingletonExclusive
  BY DEF IInv, CoordinatorProofs!IInv
<1>. QED
  BY <1>1, <1>2 DEF CoordinatorProofs!SingletonExclusive, CoordinatorProofs!Holding

(* A singleton test's process is never alive together with another's: the  *)
(* slot outlives the process on every path through _run_single_test.       *)
THEOREM SingletonIsolation == Spec => []SingletonAlone
<1>1. IInv => SingletonAlone
  <2>1. SUFFICES ASSUME IInv, NEW t \in Singletons, NEW u \in Tests, Running(t), Running(u)
                 PROVE  t = u
    BY DEF SingletonAlone
  <2>2. PICK v \in Workers : inHand[v] = t /\ worker[v] \in Busy
    BY <2>1, ConstantsOK DEF IInv, ProcInv, Busy
  <2>3. PICK w \in Workers : inHand[w] = u /\ worker[w] \in Busy
    BY <2>1 DEF IInv, ProcInv, Busy
  <2>. QED
    BY <2>1, <2>2, <2>3, SlotsExclude
<1>. QED
  BY <1>1, Invariance, PTL

-----------------------------------------------------------------------------
(* The runner implements TestDispatch                                      *)

(* No test has been dispatched when the runner is constructed.             *)
LEMMA DispatchInit == Init => Dispatch!Init
  BY DEF Init, Dispatch!Init, Running

(* A process that is started was never started before, and the slots keep  *)
(* singletons apart.                                                       *)
LEMMA LaunchDispatches ==
  ASSUME IInv, NEW w \in Workers, NEW t \in Tests, t = inHand[w], Launch(w)
  PROVE  Dispatch!Start(t)
<1>1. worker[w] = "launch" /\ proc' = [proc EXCEPT ![t] = "starting"]
  BY DEF Launch, IInv, TypeOK, HandInv, Busy
<1>2. proc[t] = "none"
  BY <1>1 DEF IInv, TypeOK, OneOwner
<1>3. \A u \in Tests : Running(u) => u \notin Singletons /\ t \notin Singletons
  <2>1. SUFFICES ASSUME NEW u \in Tests, Running(u)
                 PROVE  u \notin Singletons /\ t \notin Singletons
    OBVIOUS
  <2>2. PICK v \in Workers : inHand[v] = u /\ worker[v] \in {"watch", "kill"}
    BY <2>1 DEF IInv, ProcInv
  <2>3. v # w
    BY <1>1, <2>2
  <2>. QED
    BY <1>1, <2>2, <2>3, SlotsExclude DEF Busy
<1>4. proc \in [Tests -> {"none", "starting", "running", "reported", "dead"}]
  BY DEF IInv, TypeOK
<1>. QED
  BY <1>1, <1>2, <1>3, <1>4 DEF Dispatch!Start, Running

(* Killing a test ends it.                                                 *)
LEMMA KillDispatches ==
  ASSUME IInv, NEW w \in Workers, NEW t \in Tests, t = inHand[w], Kill(w)
  PROVE  Dispatch!End(t) \/ UNCHANGED proc
<1>1. /\ proc' = [proc EXCEPT ![t] = "dead"]
      /\ proc \in [Tests -> {"none", "starting", "running", "reported", "dead"}]
  BY DEF Kill, IInv, TypeOK, HandInv, Busy
<1>2. proc[t] # "none"
  BY DEF IInv, ProcInv, Kill
<1>. QED
  BY <1>1, <1>2 DEF Dispatch!End, Running

(* A test process that begins or reports is invisible to TestDispatch; one *)
(* that exits or crashes ends its test.                                    *)
LEMMA ProcessDispatches ==
  ASSUME IInv, NEW t \in Tests, ProcessStep(t) \/ ProcessCrashes(t)
  PROVE  [Dispatch!Next]_Dispatch!vars
<1>1. proc \in [Tests -> {"none", "starting", "running", "reported", "dead"}]
  BY DEF IInv, TypeOK
<1>2. CASE ProcessBegins(t) \/ ProcessReports(t)
  BY <1>1, <1>2 DEF ProcessBegins, ProcessReports, Dispatch!vars, Running
<1>3. CASE ProcessExits(t) \/ ProcessCrashes(t)
  <2>1. Dispatch!End(t)
    BY <1>1, <1>3 DEF ProcessExits, ProcessCrashes, Dispatch!End, Running
  <2>. QED
    BY <2>1 DEF Dispatch!Next
<1>. QED
  BY <1>2, <1>3 DEF ProcessStep

(* Every step is one of TestDispatch's or leaves it as it is.              *)
LEMMA DispatchNext == IInv /\ [Next]_vars => [Dispatch!Next]_Dispatch!vars
<1>. SUFFICES ASSUME IInv, [Next]_vars PROVE [Dispatch!Next]_Dispatch!vars
  OBVIOUS
<1>1. CASE \E w \in Workers : Launch(w) \/ Kill(w)
  <2>1. PICK w \in Workers : Launch(w) \/ Kill(w)
    BY <1>1
  <2>2. PICK t \in Tests : t = inHand[w]
    BY <2>1 DEF Launch, Kill, IInv, TypeOK, HandInv, Busy
  <2>3. Dispatch!Start(t) \/ Dispatch!End(t) \/ UNCHANGED proc
    BY <2>1, <2>2, LaunchDispatches, KillDispatches
  <2>4. UNCHANGED proc => Dispatch!vars' = Dispatch!vars
    BY DEF Dispatch!vars, Running
  <2>. QED
    BY <2>2, <2>3, <2>4 DEF Dispatch!Next
<1>2. CASE \E t \in Tests : ProcessStep(t) \/ ProcessCrashes(t)
  BY <1>2, ProcessDispatches
<1>3. CASE UNCHANGED proc
  BY <1>3 DEF Dispatch!vars, Running
<1>4. ASSUME NEW w \in Workers, WorkerStep(w), ~Launch(w), ~Kill(w) PROVE UNCHANGED proc
  BY <1>4 DEF WorkerStep, OwnStep, CheckAbort, GetTest, AwaitAdmission, GatesPass, GatesFail,
     Acquire, HandleNotAcquired, LaunchFails, Watch, Finish, ReleaseSlot, WorkerExit
<1>5. RunnerStep => UNCHANGED proc
  BY DEF RunnerStep, Enqueue, SpawnPool, SuperviseScan, SuperviseHeal
<1>6. UserCall \/ CallerStep => UNCHANGED proc
  BY DEF UserCall, CallerStep, SetNumberOfProcesses, SoftStop, CancelSoftStop, Stop,
     ForceStopAndReset, ForceStopTest, StopWorkers, ResetStates
<1>. QED
  BY <1>1, <1>2, <1>3, <1>4, <1>5, <1>6 DEF Next, Over

(* Every behaviour of the runner, its workers and their processes under    *)
(* any sequence of calls is one of TestDispatch: each test's process is    *)
(* started at most once, and singletons run alone.                         *)
THEOREM Refinement == Spec => ImplementsDispatch
<1>1. Init => Dispatch!Init
  BY DispatchInit
<1>2. IInv /\ [Next]_vars => [Dispatch!Next]_Dispatch!vars
  BY DispatchNext
<1>. QED
  BY <1>1, <1>2, Invariance, PTL DEF Spec, ImplementsDispatch, Dispatch!Spec

-----------------------------------------------------------------------------
(* What becomes of a run                                                    *)

(* The supervised pool misses no live worker and holds only ones that were *)
(* started; a pool that is supervised is not empty and not too large.      *)
CrewInv ==
  /\ Alive \subseteq pool
  /\ \A w \in pool : worker[w] # "unborn"
  /\ numberOfProcesses >= 1
  /\ runner \in {"scan", "heal"} => pool # {}
  /\ NoOvercommit

(* Whoever was told to stop was told by a hard stop, and the flags are     *)
(* raised before the workers are signalled.                                *)
SignalInv ==
  /\ caller # "idle" => stopRequested
  /\ caller \in {"forceStopping", "resetting"} => forceStopped
  /\ forceStopped => stopRequested
  /\ \A w \in Workers : "stop" \in signals[w] => stopRequested

(* A result is recorded by a process that has run, and a process that has  *)
(* run has recorded one unless it crashed; what a soft stop marked STOPPED *)
(* was nowhere but in the queue.                                           *)
RecordInv ==
  /\ runner # "enqueue" => \A t \in Tests : state[t] # "absent"
  /\ \A t \in Tests : state[t] \in {"PASS", "FAIL"} => proc[t] \in {"reported", "dead"}
  /\ \A t \in Tests :
       /\ proc[t] = "reported" => state[t] \in Terminal
       /\ proc[t] = "dead" => (state[t] \in Terminal \/ t \in Crashable)
  /\ \A t \in Tests : (state[t] = "STOPPED" /\ ~forceStopped) =>
       /\ proc[t] = "none" /\ t \notin Range(queue)
       /\ \A w \in Workers : inHand[w] # t

OutcomeInv == IInv /\ CrewInv /\ SignalInv /\ RecordInv

-----------------------------------------------------------------------------
(* Without force_stop_test a worker kills its test only for a hard stop.   *)
KillInv ==
  /\ \A w \in Workers : "force" \notin signals[w]
  /\ \A w \in Workers : worker[w] = "kill" => stopRequested
  /\ \A t \in Tests : state[t] = "TERMINATED" => stopRequested

(* A worker that gave up waiting for a slot still has its reason, if a     *)
(* soft stop is never cancelled.                                           *)
RefusedInv ==
  \A w \in Workers : worker[w] = "refused" =>
    softStop \/ signals[w] \cap {"stop", "retire"} # {}

(* Nobody has asked anything of the run that leaves tests in the queue.    *)
Undisturbed == ~stopRequested /\ NobodyRetired

(* In such a run workers leave only an empty queue, and when it is over    *)
(* nothing is left of it, whoever joins the pool afterwards.               *)
WindDownInv ==
  /\ (Undisturbed /\ ~softStop /\ \E w \in Workers : worker[w] \in {"exiting", "dead"})
       => queue = <<>>
  /\ (Undisturbed /\ Finalized) =>
       /\ queue = <<>>
       /\ \A w \in Workers : inHand[w] = None

(* Once stop() has signalled the workers, no live one has missed it.       *)
StopInv ==
  /\ stopRequested => Started
  /\ (stopRequested /\ caller \notin {"stopping", "forceStopping"})
       => \A w \in Alive : "stop" \in signals[w]

(* After a reset a test is not terminal only while its process runs.       *)
ResetInv ==
  /\ stopRequested => Started
  /\ (forceStopped /\ caller \in {"idle", "stopping"})
       => \A t \in Tests : state[t] \in Terminal \/ proc[t] = "running"

USE DEF vars, runnerVars, processVars, poolVars, stopVars, coordVars, threadVars,
        testVars, envVars

-----------------------------------------------------------------------------
(* What the steps of a worker and of a process leave alone                 *)

(* A worker moves itself, and of the signals it only clears its own force  *)
(* stop.                                                                   *)
LEMMA WorkerFrame ==
  ASSUME IInv, NEW w \in Workers, WorkerStep(w)
  PROVE  /\ UNCHANGED runnerVars
         /\ worker[w] \notin {"unborn", "dead"}
         /\ worker'[w] # "unborn"
         /\ \A v \in Workers : v # w => worker'[v] = worker[v] /\ inHand'[v] = inHand[v]
         /\ \A v \in Workers : signals'[v] = signals[v] \/ signals'[v] = signals[v] \ {"force"}
<1>. USE DEF Goto
<1>1. /\ worker \in [Workers -> WorkerPoints] /\ inHand \in [Workers -> Tests \cup {None}]
      /\ signals \in [Workers -> SUBSET {"stop", "retire", "force"}]
  BY DEF IInv, TypeOK
<1>2. CASE CheckAbort(w) \/ GetTest(w) \/ AwaitAdmission(w) \/ GatesPass(w) \/ GatesFail(w)
  BY <1>1, <1>2 DEF CheckAbort, GetTest, AwaitAdmission, GatesPass, GatesFail
<1>3. CASE Acquire(w)
  BY <1>1, <1>3 DEF Acquire
<1>4. CASE HandleNotAcquired(w) \/ Launch(w) \/ LaunchFails(w)
  BY <1>1, <1>4 DEF HandleNotAcquired, Launch, LaunchFails
<1>5. CASE Watch(w) \/ Kill(w) \/ Finish(w) \/ ReleaseSlot(w) \/ WorkerExit(w)
  BY <1>1, <1>5 DEF Watch, Kill, Finish, ReleaseSlot, WorkerExit
<1>. QED
  BY <1>2, <1>3, <1>4, <1>5 DEF WorkerStep, OwnStep

(* A process only changes itself and its test's records.                   *)
LEMMA ProcessFrame ==
  ASSUME NEW t \in Tests, ProcessStep(t) \/ ProcessCrashes(t)
  PROVE  UNCHANGED processVars
  BY DEF ProcessStep, ProcessBegins, ProcessReports, ProcessExits, ProcessCrashes

(* The runner thread and the calls move no worker; they only start fresh   *)
(* ones, which were never used before.                                     *)
LEMMA PoolFrame ==
  ASSUME IInv, RunnerStep \/ UserCall \/ CallerStep
  PROVE  /\ UNCHANGED <<inHand, process, proc>>
         /\ \A w \in Workers : worker'[w] = worker[w]
                               \/ (worker[w] = "unborn" /\ worker'[w] = "check")
<1>1. UNCHANGED <<inHand, process, proc>>
  BY DEF RunnerStep, Enqueue, SpawnPool, SuperviseScan, SuperviseHeal, UserCall,
     SetNumberOfProcesses, SoftStop, CancelSoftStop, Stop, ForceStopAndReset, ForceStopTest,
     CallerStep, StopWorkers, ResetStates
<1>2. TypeOK /\ PoolInv
  BY DEF IInv
<1>3. ASSUME NEW n, NEW kept, SpawnWorkers(n, kept)
      PROVE  \A w \in Workers : worker'[w] = worker[w]
                                \/ (worker[w] = "unborn" /\ worker'[w] = "check")
  BY <1>2, <1>3 DEF SpawnWorkers, PoolInv, Workers, TypeOK
<1>4. CASE UNCHANGED worker
  BY <1>1, <1>4
<1>5. CASE \E size, kept : FillPool(size, kept)
  BY <1>1, <1>3, <1>5 DEF FillPool, NoSpawn
<1>6. CASE SpawnPool
  BY <1>1, <1>3, <1>6 DEF SpawnPool
<1>7. RunnerStep => UNCHANGED worker \/ SpawnPool \/ \E size, kept : FillPool(size, kept)
  BY DEF RunnerStep, Enqueue, SuperviseScan, SuperviseHeal
<1>8. UserCall \/ CallerStep => UNCHANGED worker \/ \E size, kept : FillPool(size, kept)
  BY DEF UserCall, SetNumberOfProcesses, SoftStop, CancelSoftStop, Stop, ForceStopAndReset,
     ForceStopTest, CallerStep, StopWorkers, ResetStates
<1>. QED
  BY <1>4, <1>5, <1>6, <1>7, <1>8

-----------------------------------------------------------------------------
(* Counting workers                                                        *)

(* Sets of workers are finite, and a smaller one has no more members.      *)
LEMMA CrewFinite ==
  ASSUME NEW S \in SUBSET Workers
  PROVE  /\ IsFiniteSet(S) /\ Cardinality(S) \in Nat
         /\ \A T \in SUBSET S : IsFiniteSet(T) /\ Cardinality(T) \in Nat
                                 /\ Cardinality(T) <= Cardinality(S)
<1>1. IsFiniteSet(Workers)
  BY FS_Interval, ConstantsOK DEF Workers
<1>2. IsFiniteSet(S) /\ Cardinality(S) \in Nat
  BY <1>1, FS_Subset, FS_CardinalityType
<1>. QED
  BY <1>2, FS_Subset, FS_CardinalityType

(* Two crews together are at most as many as their sum.                    *)
LEMMA CrewUnion ==
  ASSUME NEW S \in SUBSET Workers, NEW T \in SUBSET Workers
  PROVE  Cardinality(S \cup T) <= Cardinality(S) + Cardinality(T)
<1>1. /\ IsFiniteSet(S) /\ Cardinality(S) \in Nat
      /\ IsFiniteSet(T) /\ Cardinality(T) \in Nat
      /\ Cardinality(S \cap T) \in Nat /\ Cardinality(S \cup T) \in Nat
  BY CrewFinite
<1>2. Cardinality(S \cup T) = Cardinality(S) + Cardinality(T) - Cardinality(S \cap T)
  BY <1>1, FS_Union
<1>. QED
  BY <1>1, <1>2

(* Spawning n workers adds n ids.                                          *)
LEMMA FreshCount ==
  ASSUME NEW a \in Nat, NEW n \in Nat
  PROVE  Cardinality(a .. a + n - 1) = n
<1>1. a \in Int /\ a + n - 1 \in Int
  OBVIOUS
<1>2. Cardinality(a .. a + n - 1) = IF a > a + n - 1 THEN 0 ELSE a + n - 1 - a + 1
  BY <1>1, FS_Interval
<1>. QED
  BY <1>2

(* A set of numbers has a least member.                                    *)
LEMMA LeastNumber ==
  ASSUME NEW T \in SUBSET Nat, T # {}
  PROVE  \E m \in T : \A k \in T : m <= k
<1>1. PICK m \in T : \A k \in T : <<k, m>> \notin OpToRel(<, Nat)
  BY NatLessThanWellFounded, WFMin
<1>2. \A k \in T : ~(k < m)
  BY <1>1 DEF OpToRel
<1>. QED
  BY <1>2

(* So does a set of workers, and it has a greatest one.                    *)
LEMMA LatestWorker ==
  ASSUME NEW T \in SUBSET Workers, T # {}
  PROVE  \E w \in T : \A v \in T : v <= w
<1>. DEFINE U == {MaxWorkers - v : v \in T}
<1>1. U \in SUBSET Nat /\ U # {}
  <2>1. ASSUME NEW v \in T PROVE MaxWorkers - v \in Nat
    <3>1. v \in 0 .. MaxWorkers - 1 /\ MaxWorkers \in Nat
      BY ConstantsOK DEF Workers
    <3>. QED
      BY <3>1
  <2>. QED
    BY <2>1
<1>2. PICK m \in U : \A k \in U : m <= k
  BY <1>1, LeastNumber
<1>3. PICK w \in T : m = MaxWorkers - w
  BY <1>2
<1>4. ASSUME NEW v \in T PROVE v <= w
  <2>1. MaxWorkers - v \in U
    OBVIOUS
  <2>2. v \in Nat /\ w \in Nat /\ MaxWorkers \in Nat
    BY ConstantsOK DEF Workers
  <2>. QED
    BY <1>2, <1>3, <2>1, <2>2
<1>. QED
  BY <1>4

(* Retiring the n workers spawned last leaves n fewer at work, or none.    *)
LEMMA RetiringCount ==
  ASSUME NEW S \in SUBSET Workers, NEW n \in Nat, n <= Cardinality(S)
  PROVE  Cardinality(S \ Largest(n, S)) <= Cardinality(S) - n
<1>. DEFINE T == S \ Largest(n, S)
            Above(w) == {v \in S : v > w}
<1>. SUFFICES Cardinality(T) <= Cardinality(S) - n
  OBVIOUS
<1>1. Cardinality(S) \in Nat
  BY CrewFinite
<1>2. CASE T = {}
  BY <1>1, <1>2, FS_EmptySet
<1>3. CASE T # {}
  <2>1. PICK w \in T : \A v \in T : v <= w
    <3>1. T \in SUBSET Workers
      OBVIOUS
    <3>. QED
      BY <1>3, <3>1, LatestWorker
  <2>2. Above(w) \in SUBSET Workers /\ T \in SUBSET Workers
    OBVIOUS
  <2>3. /\ IsFiniteSet(Above(w)) /\ Cardinality(Above(w)) \in Nat
        /\ IsFiniteSet(T) /\ Cardinality(T) \in Nat
    BY <2>2, CrewFinite
  <2>4. ~(Cardinality(Above(w)) < n)
    BY <2>1 DEF Largest
  <2>5. Above(w) \cap T = {}
    <3>1. ASSUME NEW v \in Above(w), v \in T PROVE FALSE
      <4>1. v \in Nat /\ w \in Nat /\ v > w /\ v <= w
        BY <2>1, <3>1 DEF Workers
      <4>. QED
        BY <4>1
    <3>. QED
      BY <3>1
  <2>6. Cardinality(Above(w) \cup T) = Cardinality(Above(w)) + Cardinality(T)
    <3>1. Cardinality(Above(w) \cap T) = 0
      BY <2>5, FS_EmptySet
    <3>2. Cardinality(Above(w) \cup T) =
            Cardinality(Above(w)) + Cardinality(T) - Cardinality(Above(w) \cap T)
      BY <2>3, FS_Union
    <3>. QED
      BY <2>3, <3>1, <3>2
  <2>7. Cardinality(Above(w) \cup T) <= Cardinality(S)
    <3>1. Above(w) \cup T \in SUBSET S
      OBVIOUS
    <3>. QED
      BY <3>1, CrewFinite
  <2>. HIDE DEF T, Above
  <2>. QED
    BY <1>1, <2>3, <2>4, <2>6, <2>7
<1>. QED
  BY <1>2, <1>3

-----------------------------------------------------------------------------
(* The pool: CrewInv                                                       *)

(* Live workers that move on or exit, and are never asked back, keep the   *)
(* pool within its size.                                                   *)
LEMMA CrewShrinks ==
  ASSUME IInv, CrewInv, UNCHANGED <<runner, numberOfProcesses, pool>>,
         \A v \in Workers : worker'[v] = worker[v]
                             \/ (worker[v] \notin {"unborn", "dead"} /\ worker'[v] # "unborn"),
         \A v \in Workers : "retire" \in signals[v] => "retire" \in signals'[v]
  PROVE  CrewInv'
<1>. DEFINE atWork == NotRetiring(Alive)
<1>0. pool \subseteq Workers /\ numberOfProcesses \in Nat
  BY DEF IInv, TypeOK
<1>1. Alive' \subseteq Alive /\ atWork' \subseteq atWork /\ atWork \in SUBSET Workers
  BY DEF Alive, NotRetiring
<1>2. Started => Cardinality(atWork') <= numberOfProcesses
  <2>1. CASE Started
    <3>1. Cardinality(atWork') <= Cardinality(atWork) /\ Cardinality(atWork') \in Nat
          /\ Cardinality(atWork) \in Nat
      BY <1>1, CrewFinite
    <3>2. Cardinality(atWork) <= numberOfProcesses
      BY <2>1 DEF CrewInv, NoOvercommit
    <3>. HIDE DEF atWork
    <3>. QED
      BY <1>0, <3>1, <3>2
  <2>. QED
    BY <2>1
<1>3. NoOvercommit'
  BY <1>2 DEF NoOvercommit, Started
<1>. QED
  BY <1>0, <1>1, <1>3 DEF CrewInv, Alive

(* Topping the pool up to its size does not exceed it, although dead       *)
(* workers may be counted, and leaves somebody at work.                    *)
LEMMA CrewFills ==
  ASSUME IInv, CrewInv, NEW size \in Nat, size >= 1,
         NEW kept \in SUBSET pool, Alive \subseteq kept, FillPool(size, kept),
         numberOfProcesses' = size, UNCHANGED signals,
         Cardinality(NotRetiring(Alive)) <= size
  PROVE  CrewInv'
<1>. DEFINE atWork  == NotRetiring(Alive)
            counted == NotRetiring(kept)
            deficit == size - Cardinality(counted)
            fresh   == nextWorkerId .. nextWorkerId + deficit - 1
<1>1. kept \in SUBSET Workers /\ atWork \in SUBSET counted /\ counted \in SUBSET Workers
  BY DEF IInv, TypeOK, NotRetiring
<1>2. /\ Cardinality(counted) \in Nat /\ Cardinality(atWork) \in Nat
      /\ Cardinality(atWork) <= Cardinality(counted)
  BY <1>1, CrewFinite
<1>3. nextWorkerId \in Nat /\ worker \in [Workers -> WorkerPoints]
  BY DEF IInv, TypeOK
<1>4. CASE deficit > 0
  <2>1. deficit \in Nat
    BY <1>2, <1>4
  <2>2. SpawnWorkers(deficit, kept)
    BY <1>4 DEF FillPool
  <2>3. /\ fresh \in SUBSET Workers /\ pool' = kept \cup fresh
        /\ worker' = [w \in Workers |-> IF w \in fresh THEN "check" ELSE worker[w]]
    <3>1. nextWorkerId + deficit <= MaxWorkers /\ MaxWorkers \in Nat
      BY <2>2, ConstantsOK DEF SpawnWorkers
    <3>2. fresh \in SUBSET Workers
      <4>. HIDE DEF deficit
      <4>. QED
        BY <1>3, <2>1, <3>1 DEF Workers
    <3>. QED
      BY <2>2, <3>2 DEF SpawnWorkers
  <2>4. Cardinality(fresh) = deficit
    BY <1>3, <2>1, FreshCount
  <2>5. nextWorkerId \in fresh
    <3>. HIDE DEF deficit
    <3>. QED
      BY <1>3, <1>4, <2>1
  <2>. HIDE DEF fresh
  <2>6. /\ Alive' \subseteq Alive \cup fresh /\ atWork' \subseteq atWork \cup fresh
        /\ \A w \in pool' : worker'[w] # "unborn"
        /\ Alive' \subseteq pool' /\ pool' # {}
    BY <1>1, <1>3, <2>3, <2>5 DEF Alive, NotRetiring, CrewInv
  <2>7. Cardinality(atWork') <= size
    <3>1. Cardinality(atWork \cup fresh) <= Cardinality(atWork) + Cardinality(fresh)
      BY <1>1, <2>3, CrewUnion
    <3>2. /\ Cardinality(atWork') \in Nat /\ Cardinality(atWork \cup fresh) \in Nat
          /\ Cardinality(atWork') <= Cardinality(atWork \cup fresh)
      <4>1. atWork \cup fresh \in SUBSET Workers
        BY <1>1, <2>3
      <4>. QED
        BY <4>1, <2>6, CrewFinite
    <3>. HIDE DEF atWork, counted
    <3>. QED
      BY <1>2, <2>4, <3>1, <3>2
  <2>. QED
    BY <2>6, <2>7 DEF CrewInv, NoOvercommit
<1>5. CASE ~(deficit > 0)
  <2>1. NoSpawn(kept) /\ Cardinality(counted) >= 1
    BY <1>2, <1>5 DEF FillPool
  <2>2. kept # {}
    <3>1. counted # {}
      <4>. HIDE DEF counted
      <4>. QED
        BY <2>1, FS_EmptySet
    <3>. QED
      BY <3>1 DEF NotRetiring
  <2>3. pool' = kept /\ worker' = worker
    BY <2>1 DEF NoSpawn
  <2>. QED
    BY <2>2, <2>3 DEF CrewInv, NoOvercommit, Alive, NotRetiring
<1>. QED
  BY <1>4, <1>5

(* The pool is the one the runner was constructed with.                    *)
LEMMA CrewInit == Init => CrewInv
  BY ConstantsOK DEF Init, CrewInv, Alive, NoOvercommit, Started

(* The supervision loop drops only dead workers; when it leaves the pool   *)
(* empty the run is over.                                                  *)
LEMMA CrewScan ==
  ASSUME IInv, CrewInv, SuperviseScan
  PROVE  CrewInv'
<1>1. /\ pool' = LivePool /\ UNCHANGED <<worker, signals, numberOfProcesses>> /\ Started
      /\ pool' = {} => runner' = "done"
  BY DEF SuperviseScan, Started
<1>2. NoOvercommit'
  BY <1>1 DEF CrewInv, NoOvercommit, NotRetiring, Alive
<1>. QED
  BY <1>1, <1>2 DEF CrewInv, LivePool, Alive

(* The initial pool has its size.                                          *)
LEMMA CrewSpawn ==
  ASSUME IInv, CrewInv, SpawnPool
  PROVE  CrewInv'
<1>. DEFINE atWork == NotRetiring(Alive)
            fresh  == nextWorkerId .. nextWorkerId + numberOfProcesses - 1
<1>1. nextWorkerId \in Nat /\ numberOfProcesses \in Nat /\ worker \in [Workers -> WorkerPoints]
  BY DEF IInv, TypeOK
<1>2. \A w \in Workers : worker[w] = "unborn"
  BY <1>1, ConstantsOK DEF IInv, PoolInv, SpawnPool, Started, Workers
<1>3. /\ fresh \in SUBSET Workers /\ pool' = fresh
      /\ worker' = [w \in Workers |-> IF w \in fresh THEN "check" ELSE worker[w]]
  BY <1>1, ConstantsOK DEF SpawnPool, SpawnWorkers, Workers
<1>4. Cardinality(fresh) = numberOfProcesses /\ nextWorkerId \in fresh
  BY <1>1, FreshCount DEF CrewInv
<1>5. numberOfProcesses' = numberOfProcesses
  BY DEF SpawnPool
<1>. HIDE DEF fresh
<1>6. Alive' \subseteq fresh /\ atWork' \subseteq fresh /\ \A w \in fresh : worker'[w] # "unborn"
  BY <1>2, <1>3 DEF Alive, NotRetiring
<1>7. NoOvercommit'
  BY <1>3, <1>4, <1>5, <1>6, CrewFinite DEF NoOvercommit
<1>. QED
  BY <1>3, <1>4, <1>5, <1>6, <1>7 DEF CrewInv

(* Healing: the scan has just left every live worker in the pool.          *)
LEMMA CrewHeal ==
  ASSUME IInv, CrewInv, SuperviseHeal
  PROVE  CrewInv'
<1>1. numberOfProcesses \in Nat /\ numberOfProcesses >= 1
  BY DEF IInv, TypeOK, CrewInv
<1>2. UNCHANGED <<numberOfProcesses, signals>>
  BY DEF SuperviseHeal
<1>3. CASE FillPool(numberOfProcesses, pool)
  <2>1. Cardinality(NotRetiring(Alive)) <= numberOfProcesses
    BY DEF CrewInv, NoOvercommit, SuperviseHeal, Started
  <2>. QED
    BY <1>1, <1>2, <1>3, <2>1, CrewFills DEF CrewInv
<1>4. CASE UNCHANGED <<pool, nextWorkerId, worker>>
  BY <1>2, <1>4 DEF CrewInv, NoOvercommit, Started, Alive, NotRetiring, SuperviseHeal
<1>. QED
  BY <1>3, <1>4 DEF SuperviseHeal

(* Resizing: the pool grows to the new size, or those spawned last retire  *)
(* until no more than that are left at work.                               *)
LEMMA CrewResize ==
  ASSUME IInv, CrewInv, NEW n \in Sizes, SetNumberOfProcesses(n)
  PROVE  CrewInv'
<1>1. n \in Nat /\ n >= 1 /\ numberOfProcesses' = n /\ runner' = runner
  BY ConstantsOK DEF SetNumberOfProcesses
<1>2. CASE ~Started
  BY <1>1, <1>2 DEF SetNumberOfProcesses, CrewInv, NoOvercommit, Started, Alive
<1>3. CASE Started
  <2>. DEFINE current == NotRetiring(LivePool)
              surplus == Cardinality(current) - n
              retired == Largest(surplus, current)
  <2>1. LivePool = Alive /\ LivePool \in SUBSET pool /\ current \in SUBSET Workers
    BY DEF CrewInv, LivePool, Alive, NotRetiring
  <2>2. Cardinality(current) \in Nat
    BY <2>1, CrewFinite
  <2>3. /\ FillPool(n, LivePool)
        /\ signals' = [w \in Workers |-> IF surplus > 0 /\ w \in retired
                                          THEN signals[w] \cup {"retire"} ELSE signals[w]]
    BY <1>3 DEF SetNumberOfProcesses
  <2>4. CASE surplus > 0
    <3>1. NoSpawn(LivePool)
      <4>1. ~(n - Cardinality(current) > 0)
        BY <1>1, <2>2, <2>4
      <4>. QED
        BY <2>3, <4>1 DEF FillPool
    <3>2. pool' = Alive /\ worker' = worker /\ Alive' = Alive
      BY <2>1, <3>1 DEF NoSpawn, Alive
    <3>3. NotRetiring(Alive)' \subseteq current \ retired
      BY <2>1, <2>3, <2>4, <3>2 DEF NotRetiring, Alive
    <3>4. Cardinality(current \ retired) <= Cardinality(current) - surplus
      <4>1. surplus \in Nat /\ surplus <= Cardinality(current)
        BY <1>1, <2>2, <2>4
      <4>. QED
        BY <2>1, <4>1, RetiringCount
    <3>5. Cardinality(NotRetiring(Alive)') <= Cardinality(current \ retired)
          /\ Cardinality(NotRetiring(Alive)') \in Nat /\ Cardinality(current \ retired) \in Nat
      <4>1. current \ retired \in SUBSET Workers
        BY <2>1
      <4>. QED
        BY <3>3, <4>1, CrewFinite
    <3>6. NoOvercommit'
      <4>. HIDE DEF current, retired
      <4>. QED
        BY <1>1, <2>2, <3>4, <3>5 DEF NoOvercommit
    <3>7. Alive # {}
      <4>1. current # {}
        <5>1. Cardinality(current) # 0
          BY <1>1, <2>2, <2>4
        <5>. QED
          BY <5>1, FS_EmptySet
      <4>. QED
        BY <2>1, <4>1 DEF NotRetiring
    <3>. QED
      BY <1>1, <3>2, <3>6, <3>7 DEF CrewInv, Alive
  <2>5. CASE ~(surplus > 0)
    <3>1. UNCHANGED signals
      BY <2>3, <2>5 DEF IInv, TypeOK
    <3>2. Cardinality(NotRetiring(Alive)) <= n
      BY <1>1, <2>1, <2>2, <2>5
    <3>. QED
      BY <1>1, <2>1, <2>3, <3>1, <3>2, CrewFills
  <2>. QED
    BY <2>4, <2>5
<1>. QED
  BY <1>2, <1>3

(* Cancelling a soft stop tops the pool up.                                *)
LEMMA CrewCancel ==
  ASSUME IInv, CrewInv, CancelSoftStop
  PROVE  CrewInv'
<1>1. /\ UNCHANGED <<runner, numberOfProcesses, signals>> /\ numberOfProcesses \in Nat
      /\ numberOfProcesses >= 1
  BY DEF CancelSoftStop, IInv, TypeOK, CrewInv
<1>2. CASE Started
  <2>1. LivePool \in SUBSET pool /\ Alive \subseteq LivePool /\ FillPool(numberOfProcesses, LivePool)
    BY <1>2 DEF LivePool, CrewInv, CancelSoftStop
  <2>2. Cardinality(NotRetiring(Alive)) <= numberOfProcesses
    BY <1>2 DEF CrewInv, NoOvercommit
  <2>. QED
    BY <1>1, <2>1, <2>2, CrewFills
<1>3. CASE ~Started
  BY <1>1, <1>3 DEF CancelSoftStop, CrewInv, NoOvercommit, Started, Alive
<1>. QED
  BY <1>2, <1>3

(* No step overcommits the pool or loses a live worker from it.            *)
LEMMA CrewNext ==
  ASSUME IInv, CrewInv, [Next]_vars
  PROVE  CrewInv'
<1>. USE CrewShrinks
<1>1. CASE RunnerStep
  <2>1. CASE Enqueue
    BY <2>1 DEF Enqueue, CrewInv, NoOvercommit, Started, Alive
  <2>. QED
    BY <1>1, <2>1, CrewSpawn, CrewScan, CrewHeal DEF RunnerStep
<1>2. CASE \E w \in Workers : WorkerStep(w)
  BY <1>2, WorkerFrame
<1>3. CASE \E t \in Tests : ProcessStep(t) \/ ProcessCrashes(t)
  BY <1>3, ProcessFrame
<1>4. CASE UserCall
  <2>1. CASE SoftStop \/ Stop \/ ForceStopAndReset
    BY <2>1 DEF SoftStop, Stop, ForceStopAndReset
  <2>2. CASE \E t \in Tests : ForceStopTest(t)
    BY <2>2 DEF ForceStopTest
  <2>. QED
    BY <1>4, <2>1, <2>2, CrewResize, CrewCancel DEF UserCall
<1>5. CASE CallerStep
  BY <1>5 DEF CallerStep, StopWorkers, ResetStates
<1>6. CASE UNCHANGED vars
  BY <1>6
<1>. QED
  BY <1>1, <1>2, <1>3, <1>4, <1>5, <1>6 DEF Next, Over

-----------------------------------------------------------------------------
(* The signals: SignalInv                                                  *)

(* Only a hard stop signals "stop".                                        *)
LEMMA SignalNext ==
  ASSUME IInv, SignalInv, [Next]_vars
  PROVE  SignalInv'
<1>0. signals \in [Workers -> SUBSET {"stop", "retire", "force"}]
  BY DEF IInv, TypeOK
<1>1. CASE RunnerStep
  BY <1>1 DEF SignalInv, RunnerStep, Enqueue, SpawnPool, SuperviseScan, SuperviseHeal
<1>2. CASE \E w \in Workers : WorkerStep(w)
  BY <1>2, WorkerFrame DEF SignalInv
<1>3. CASE \E t \in Tests : ProcessStep(t) \/ ProcessCrashes(t)
  BY <1>3, ProcessFrame DEF SignalInv
<1>4. CASE UserCall
  <2>1. CASE \E n \in Sizes : SetNumberOfProcesses(n)
    BY <1>0, <2>1 DEF SetNumberOfProcesses, SignalInv
  <2>2. CASE SoftStop \/ CancelSoftStop \/ Stop \/ ForceStopAndReset
    BY <2>2 DEF SoftStop, CancelSoftStop, Stop, ForceStopAndReset, SignalInv, Call
  <2>3. CASE \E t \in Tests : ForceStopTest(t)
    BY <1>0, <2>3 DEF ForceStopTest, SignalInv
  <2>. QED
    BY <1>4, <2>1, <2>2, <2>3 DEF UserCall
<1>5. CASE CallerStep
  BY <1>0, <1>5 DEF CallerStep, StopWorkers, ResetStates, SignalInv
<1>6. CASE UNCHANGED vars
  BY <1>6 DEF SignalInv
<1>. QED
  BY <1>1, <1>2, <1>3, <1>4, <1>5, <1>6 DEF Next, Over

-----------------------------------------------------------------------------
(* Records and processes: RecordInv                                        *)

(* A test some thread may still start, or has started.                     *)
Claimed(t) == t \in Range(queue) \/ \E w \in Workers : inHand[w] = t

(* Nothing is written while no record, no process and no claim is added.   *)
LEMMA RecordStays ==
  ASSUME RecordInv, UNCHANGED <<proc, state>>,
         runner' # "enqueue" => runner # "enqueue", forceStopped => forceStopped',
         \A t \in Tests : Claimed(t)' => Claimed(t)
  PROVE  RecordInv'
  BY DEF RecordInv, Claimed

(* A test that is queued or in hand before its launch was never started.   *)
LEMMA UnstartedTests ==
  ASSUME IInv
  PROVE  /\ \A t \in Range(queue) : t \in Tests /\ proc[t] = "none"
         /\ \A w \in Workers : worker[w] \in Waits \cup {"launch"} =>
              inHand[w] \in Tests /\ proc[inHand[w]] = "none"
<1>1. TypeOK /\ OneOwner /\ HandInv
  BY DEF IInv
<1>2. Range(queue) \subseteq Tests
  BY <1>1, QueuedAreTests
<1>3. \A w \in Workers : worker[w] \in Waits \cup {"launch"} => inHand[w] \in Tests
  BY <1>1 DEF HandInv, TypeOK, Busy
<1>. QED
  BY <1>1, <1>2, <1>3 DEF OneOwner, Waits

(* When no worker is alive no test is in hand, and no process runs.        *)
LEMMA NobodyHolds ==
  ASSUME IInv, Alive = {}
  PROVE  /\ \A w \in Workers : inHand[w] = None
         /\ \A t \in Tests : proc[t] \in {"none", "dead"}
<1>1. \A w \in Workers : worker[w] \notin Waits \cup Busy
  BY DEF Alive, Waits, Busy
<1>2. \A t \in Tests : ~Running(t)
  BY <1>1 DEF IInv, ProcInv, Busy
<1>. QED
  BY <1>1, <1>2 DEF IInv, HandInv, TypeOK, Running

(* What the runner thread writes: QUEUED for all, then STOPPED for what is *)
(* left in the queue when nobody works any more.                           *)
LEMMA RecordRunner ==
  ASSUME IInv, CrewInv, RecordInv, RunnerStep
  PROVE  RecordInv'
<1>1. CASE Enqueue
  <2>1. \A t \in Tests : proc[t] = "none" /\ proc'[t] = "none" /\ state'[t] = "QUEUED"
    BY <1>1 DEF Enqueue, IInv, PoolInv, Started
  <2>. QED
    BY <2>1 DEF RecordInv
<1>2. CASE SpawnPool \/ SuperviseHeal
  BY <1>2, RecordStays DEF SpawnPool, SuperviseHeal, Claimed
<1>3. CASE SuperviseScan
  <2>1. CASE UNCHANGED <<queue, state>>
    BY <1>3, <2>1, RecordStays DEF SuperviseScan, Claimed
  <2>2. CASE pool' = {} /\ softStop /\ ~forceStopped /\ queue' = <<>>
             /\ state' = [t \in Tests |-> FinalState(t)]
    <3>1. Alive = {}
      BY <1>3, <2>2 DEF SuperviseScan, LivePool, CrewInv
    <3>2. \A t \in Range(queue) : t \in Tests /\ proc[t] = "none"
      BY UnstartedTests
    <3>3. \A w \in Workers : inHand[w] = None
      BY <3>1, NobodyHolds
    <3>4. UNCHANGED <<proc, inHand, forceStopped>> /\ runner # "enqueue"
      BY <1>3 DEF SuperviseScan
    <3>5. \A t \in Tests : state'[t] = state[t] \/ (t \in Range(queue) /\ state'[t] = "STOPPED")
      BY <2>2 DEF FinalState
    <3>6. Range(queue') = {} /\ None \notin Tests
      BY <2>2, EmptyQueue, ConstantsOK
    <3>. QED
      BY <3>2, <3>3, <3>4, <3>5, <3>6 DEF RecordInv, Terminal
  <2>. QED
    BY <1>3, <2>1, <2>2 DEF SuperviseScan
<1>. QED
  BY <1>1, <1>2, <1>3 DEF RunnerStep

(* Writing TERMINATED, over a test that is in hand.                        *)
LEMMA RecordTerminated ==
  ASSUME IInv, RecordInv, NEW t \in Tests, Claimed(t),
         state' = [state EXCEPT ![t] = "TERMINATED"],
         proc' = proc \/ proc' = [proc EXCEPT ![t] = "dead"],
         UNCHANGED runnerVars, \A u \in Tests : Claimed(u)' => Claimed(u)
  PROVE  RecordInv'
<1>1. /\ state \in [Tests -> Terminal \cup {"absent", "QUEUED", "RUNNING"}]
      /\ proc \in [Tests -> {"none", "starting", "running", "reported", "dead"}]
  BY DEF IInv, TypeOK
<1>2. \A u \in Tests : IF u = t THEN state'[u] = "TERMINATED" /\ proc'[u] \in {proc[u], "dead"}
                                  ELSE state'[u] = state[u] /\ proc'[u] = proc[u]
  BY <1>1
<1>. QED
  BY <1>2 DEF RecordInv, Claimed, Terminal

(* A worker writes TERMINATED for the test it holds, or nothing.           *)
LEMMA RecordWorker ==
  ASSUME IInv, RecordInv, NEW w \in Workers, WorkerStep(w)
  PROVE  RecordInv'
<1>1. /\ queue \in Seq(Tests) /\ IsInjective(queue) /\ inHand \in [Workers -> Tests \cup {None}]
      /\ None \notin Tests
  BY ConstantsOK DEF IInv, TypeOK, OneOwner
<1>2. CASE CheckAbort(w) \/ AwaitAdmission(w) \/ GatesPass(w) \/ GatesFail(w) \/ Acquire(w)
           \/ Watch(w) \/ Finish(w) \/ WorkerExit(w)
  BY <1>2, RecordStays DEF CheckAbort, AwaitAdmission, GatesPass, GatesFail, Acquire,
     Watch, Finish, WorkerExit, Claimed
<1>3. CASE LaunchFails(w) \/ ReleaseSlot(w)
  <2>1. inHand' = [inHand EXCEPT ![w] = None] /\ UNCHANGED <<proc, state, queue, runnerVars>>
    BY <1>3 DEF LaunchFails, ReleaseSlot
  <2>. QED
    BY <1>1, <2>1, RecordStays DEF Claimed
<1>4. CASE GetTest(w)
  <2>1. CASE queue = <<>>
    BY <1>4, <2>1, RecordStays DEF GetTest, Claimed
  <2>2. CASE queue # <<>>
    <3>1. inHand' = [inHand EXCEPT ![w] = Head(queue)] /\ queue' = Tail(queue)
      BY <1>4, <2>2 DEF GetTest, Dequeued
    <3>2. Head(queue) \in Range(queue) /\ Range(queue') \subseteq Range(queue)
      BY <1>1, <2>2, <3>1, QueueGet
    <3>3. \A t \in Tests : Claimed(t)' => Claimed(t)
      BY <1>1, <3>1, <3>2 DEF Claimed
    <3>. QED
      BY <1>4, <3>3, RecordStays DEF GetTest
  <2>. QED
    BY <2>1, <2>2
<1>5. CASE HandleNotAcquired(w)
  <2>1. /\ inHand[w] \in Tests /\ inHand' = [inHand EXCEPT ![w] = None]
        /\ UNCHANGED <<proc, runnerVars>>
    BY <1>5, UnstartedTests DEF HandleNotAcquired, Waits
  <2>2. \A t \in Tests : Claimed(t)' => Claimed(t)
    <3>1. UNCHANGED queue \/ queue' = Append(queue, inHand[w])
      BY <1>5 DEF HandleNotAcquired, HandedBack
    <3>2. Range(queue') \subseteq Range(queue) \cup {inHand[w]}
      <4>1. CASE queue' = Append(queue, inHand[w])
        <5>1. inHand[w] \notin Range(queue)
          BY DEF IInv, OneOwner
        <5>. QED
          BY <1>1, <2>1, <4>1, <5>1, QueuePut
      <4>. QED
        BY <3>1, <4>1
    <3>. QED
      BY <1>1, <2>1, <3>2 DEF Claimed
  <2>3. CASE UNCHANGED state
    BY <2>1, <2>2, <2>3, RecordStays
  <2>4. CASE state' = [state EXCEPT ![inHand[w]] = "TERMINATED"]
    BY <2>1, <2>2, <2>4, RecordTerminated DEF Claimed
  <2>. QED
    BY <1>5, <2>3, <2>4 DEF HandleNotAcquired
<1>6. CASE Launch(w)
  <2>1. /\ inHand[w] \in Tests /\ proc[inHand[w]] = "none"
        /\ proc' = [proc EXCEPT ![inHand[w]] = "starting"]
        /\ UNCHANGED <<runnerVars, queue, inHand, state>>
        /\ proc \in [Tests -> {"none", "starting", "running", "reported", "dead"}]
    BY <1>6, UnstartedTests DEF Launch, IInv, TypeOK
  <2>2. \A t \in Tests : state[t] = "STOPPED" /\ ~forceStopped => t # inHand[w]
    BY DEF RecordInv
  <2>. QED
    BY <2>1, <2>2 DEF RecordInv
<1>7. CASE Kill(w)
  <2>1. inHand[w] \in Tests
    BY <1>1, <1>7 DEF Kill, IInv, HandInv, Busy
  <2>. QED
    BY <1>7, <2>1, RecordTerminated DEF Kill, Claimed
<1>. QED
  BY <1>2, <1>3, <1>4, <1>5, <1>6, <1>7 DEF WorkerStep, OwnStep

(* A process records its own test, and is gone only after that or by       *)
(* crashing.                                                               *)
LEMMA RecordProcess ==
  ASSUME IInv, RecordInv, NEW t \in Tests, ProcessStep(t) \/ ProcessCrashes(t)
  PROVE  RecordInv'
<1>1. /\ proc \in [Tests -> {"none", "starting", "running", "reported", "dead"}]
      /\ state \in [Tests -> Terminal \cup {"absent", "QUEUED", "RUNNING"}]
      /\ UNCHANGED processVars
  BY ProcessFrame DEF IInv, TypeOK
<1>2. CASE ProcessBegins(t)
  BY <1>1, <1>2 DEF ProcessBegins, RecordInv, Terminal
<1>3. CASE ProcessReports(t)
  BY <1>1, <1>3 DEF ProcessReports, RecordInv, Terminal
<1>4. CASE ProcessExits(t)
  BY <1>1, <1>4 DEF ProcessExits, RecordInv
<1>5. CASE ProcessCrashes(t)
  BY <1>1, <1>5 DEF ProcessCrashes, RecordInv
<1>. QED
  BY <1>2, <1>3, <1>4, <1>5 DEF ProcessStep

(* Records and processes agree after every step.                           *)
LEMMA RecordNext ==
  ASSUME IInv, CrewInv, SignalInv, RecordInv, [Next]_vars
  PROVE  RecordInv'
<1>1. CASE UserCall \/ StopWorkers \/ UNCHANGED vars
  <2>1. UNCHANGED <<runner, queue, inHand, proc, state>> /\ (forceStopped => forceStopped')
    BY <1>1 DEF UserCall, SetNumberOfProcesses, SoftStop, CancelSoftStop, Stop,
       ForceStopAndReset, ForceStopTest, StopWorkers
  <2>. QED
    BY <2>1, RecordStays DEF Claimed
<1>2. CASE ResetStates
  <2>1. forceStopped /\ UNCHANGED <<runner, forceStopped, proc>>
    BY <1>2 DEF ResetStates, SignalInv
  <2>2. \A t \in Tests : state'[t] = state[t] \/ (state[t] \in {"QUEUED", "RUNNING"} /\ state'[t] = "STOPPED")
    BY <1>2 DEF ResetStates, Unfinished
  <2>. QED
    BY <2>1, <2>2 DEF RecordInv, Terminal
<1>3. CASE \E t \in Tests : ProcessStep(t) \/ ProcessCrashes(t)
  BY <1>3, RecordProcess
<1>. QED
  BY <1>1, <1>2, <1>3, RecordRunner, RecordWorker DEF Next, Over, CallerStep

-----------------------------------------------------------------------------
(* The invariant on top of IInv, and what follows from it whatever is      *)
(* called                                                                  *)

(* It holds when the runner is constructed.                                *)
LEMMA OutcomeInit == Init => OutcomeInv
<1>. SUFFICES ASSUME Init PROVE OutcomeInv
  OBVIOUS
<1>1. IInv /\ CrewInv
  BY InitIInv, CrewInit
<1>2. SignalInv /\ RecordInv
  BY EmptyQueue DEF Init, SignalInv, RecordInv
<1>. QED
  BY <1>1, <1>2 DEF OutcomeInv

(* It is inductive.                                                        *)
LEMMA OutcomeNext == OutcomeInv /\ [Next]_vars => OutcomeInv'
  BY NextIInv, CrewNext, SignalNext, RecordNext DEF OutcomeInv

(* The invariant the theorems of this module rest on.                      *)
THEOREM OutcomeInvariance == Spec => []OutcomeInv
  BY OutcomeInit, OutcomeNext, PTL DEF Spec

(* Healing, cancelling and resizing, in any order and whoever has died in  *)
(* between, never leave more working threads than the user asked for.      *)
THEOREM PoolSize == Spec => []NoOvercommit
<1>1. OutcomeInv => NoOvercommit
  BY DEF OutcomeInv, CrewInv
<1>. QED
  BY <1>1, OutcomeInvariance, PTL

(* A test a soft stop marked STOPPED was never started and never will be.  *)
THEOREM StoppedUnstarted == Spec => []StoppedNeverRan
<1>1. OutcomeInv => StoppedNeverRan
  BY DEF OutcomeInv, RecordInv, StoppedNeverRan
<1>. QED
  BY <1>1, OutcomeInvariance, PTL

-----------------------------------------------------------------------------
(* What is killed: KillInv, when no single test is force-stopped           *)

(* A worker that kills has been told to stop.                              *)
LEMMA KillWorker ==
  ASSUME IInv, SignalInv, KillInv, NEW w \in Workers, WorkerStep(w)
  PROVE  KillInv'
<1>. USE DEF Goto
<1>1. /\ worker \in [Workers -> WorkerPoints] /\ inHand \in [Workers -> Tests \cup {None}]
      /\ state \in [Tests -> Terminal \cup {"absent", "QUEUED", "RUNNING"}]
  BY DEF IInv, TypeOK
<1>2. /\ UNCHANGED stopRequested
      /\ \A v \in Workers : v # w => worker'[v] = worker[v]
      /\ \A v \in Workers : "force" \notin signals'[v]
  BY WorkerFrame DEF KillInv
<1>3. worker'[w] = "kill" => stopRequested
  <2>1. CASE Watch(w)
    BY <1>1, <2>1 DEF Watch, Interrupts, KillInv, SignalInv
  <2>2. CASE Acquire(w)
    BY <1>1, <2>2 DEF Acquire
  <2>3. CASE CheckAbort(w) \/ GetTest(w) \/ AwaitAdmission(w) \/ GatesPass(w) \/ GatesFail(w)
             \/ HandleNotAcquired(w) \/ Launch(w) \/ LaunchFails(w) \/ Kill(w) \/ Finish(w)
             \/ ReleaseSlot(w) \/ WorkerExit(w)
    BY <1>1, <2>3 DEF CheckAbort, GetTest, AwaitAdmission, GatesPass, GatesFail,
       HandleNotAcquired, Launch, LaunchFails, Kill, Finish, ReleaseSlot, WorkerExit
  <2>. QED
    BY <2>1, <2>2, <2>3 DEF WorkerStep, OwnStep
<1>4. UNCHANGED state \/ stopRequested
  <2>1. CASE Kill(w)
    BY <2>1 DEF Kill, KillInv
  <2>2. CASE HandleNotAcquired(w)
    BY <2>2 DEF HandleNotAcquired, SignalInv
  <2>3. CASE ~Kill(w) /\ ~HandleNotAcquired(w)
    BY <2>3 DEF WorkerStep, OwnStep, CheckAbort, GetTest, AwaitAdmission, GatesPass, GatesFail,
       Acquire, Launch, LaunchFails, Watch, Finish, ReleaseSlot, WorkerExit
  <2>. QED
    BY <2>1, <2>2, <2>3
<1>. QED
  BY <1>2, <1>3, <1>4 DEF KillInv

(* Nothing else raises the force-stop signal or terminates a test.         *)
LEMMA KillNext ==
  ASSUME "forceTest" \notin Operations, IInv, SignalInv, KillInv, [Next]_vars
  PROVE  KillInv'
<1>0. /\ signals \in [Workers -> SUBSET {"stop", "retire", "force"}]
      /\ state \in [Tests -> Terminal \cup {"absent", "QUEUED", "RUNNING"}]
  BY DEF IInv, TypeOK
<1>1. CASE RunnerStep \/ UserCall \/ CallerStep
  <2>1. stopRequested => stopRequested'
    BY <1>1 DEF RunnerStep, Enqueue, SpawnPool, SuperviseScan, SuperviseHeal, UserCall,
       SetNumberOfProcesses, SoftStop, CancelSoftStop, Stop, ForceStopAndReset, ForceStopTest,
       CallerStep, StopWorkers, ResetStates
  <2>2. \A w \in Workers : "force" \notin signals'[w]
    <3>1. CASE RunnerStep \/ SoftStop \/ CancelSoftStop \/ Stop \/ ForceStopAndReset \/ ResetStates
      BY <3>1 DEF RunnerStep, Enqueue, SpawnPool, SuperviseScan, SuperviseHeal, SoftStop,
         CancelSoftStop, Stop, ForceStopAndReset, ResetStates, KillInv
    <3>2. CASE \E n \in Sizes : SetNumberOfProcesses(n)
      BY <1>0, <3>2 DEF SetNumberOfProcesses, KillInv
    <3>3. CASE StopWorkers
      BY <1>0, <3>3 DEF StopWorkers, KillInv
    <3>4. ~ \E t \in Tests : ForceStopTest(t)
      BY DEF ForceStopTest, Call
    <3>. QED
      BY <1>1, <3>1, <3>2, <3>3, <3>4 DEF UserCall, CallerStep
  <2>3. \A t \in Tests : state'[t] = "TERMINATED" => state[t] = "TERMINATED"
    <3>1. CASE UNCHANGED state
      BY <3>1
    <3>2. CASE Enqueue
      BY <3>2 DEF Enqueue
    <3>3. CASE SuperviseScan
      BY <3>3 DEF SuperviseScan, FinalState
    <3>4. CASE ResetStates
      BY <3>4 DEF ResetStates
    <3>5. CASE SpawnPool \/ SuperviseHeal \/ UserCall \/ StopWorkers
      BY <3>1, <3>5 DEF SpawnPool, SuperviseHeal, UserCall,
         SetNumberOfProcesses, SoftStop, CancelSoftStop, Stop, ForceStopAndReset, ForceStopTest,
         StopWorkers
    <3>. QED
      BY <1>1, <3>2, <3>3, <3>4, <3>5 DEF RunnerStep, CallerStep
  <2>. QED
    BY <1>1, <2>1, <2>2, <2>3, PoolFrame DEF KillInv
<1>2. CASE \E w \in Workers : WorkerStep(w)
  BY <1>2, KillWorker
<1>3. CASE \E t \in Tests : ProcessStep(t) \/ ProcessCrashes(t)
  <2>1. PICK t \in Tests : ProcessStep(t) \/ ProcessCrashes(t)
    BY <1>3
  <2>2. UNCHANGED processVars
    BY <2>1, ProcessFrame
  <2>3. \A u \in Tests : state'[u] = "TERMINATED" => state[u] = "TERMINATED"
    BY <1>0, <2>1 DEF ProcessStep, ProcessBegins, ProcessReports, ProcessExits, ProcessCrashes
  <2>. QED
    BY <2>2, <2>3 DEF KillInv
<1>4. CASE UNCHANGED vars
  BY <1>4 DEF KillInv
<1>. QED
  BY <1>1, <1>2, <1>3, <1>4 DEF Next, Over

(* The kills of a run in which no single test is force-stopped.            *)
LEMMA KillInvariance ==
  ASSUME "forceTest" \notin Operations
  PROVE  Spec => [](OutcomeInv /\ KillInv)
<1>1. Init => KillInv
  BY DEF Init, KillInv
<1>2. OutcomeInv /\ KillInv /\ [Next]_vars => KillInv'
  BY KillNext DEF OutcomeInv
<1>. QED
  BY <1>1, <1>2, OutcomeInvariance, PTL DEF Spec

(* Retiring, soft stop, resizing and healing terminate no test: as long as *)
(* nobody force-stops a single test, only a hard stop of the run does.     *)
THEOREM OnlyHardStopTerminates ==
  ASSUME "forceTest" \notin Operations
  PROVE  Spec => []TerminatedOnRequest
<1>1. KillInv => TerminatedOnRequest
  BY DEF KillInv, TerminatedOnRequest
<1>. QED
  BY <1>1, KillInvariance, PTL

(* PASS and FAIL are final until the run is stopped hard.                  *)
THEOREM FinalResults ==
  ASSUME "forceTest" \notin Operations
  PROVE  Spec => ResultsStick
<1>1. ASSUME OutcomeInv, KillInv, [Next]_vars, NEW t \in Tests, state[t] \in {"PASS", "FAIL"}
      PROVE  state'[t] = state[t] \/ stopRequested
  <2>1. /\ proc[t] \in {"reported", "dead"} /\ t \notin Range(queue)
        /\ state \in [Tests -> Terminal \cup {"absent", "QUEUED", "RUNNING"}]
    BY <1>1, UnstartedTests DEF OutcomeInv, RecordInv, IInv, TypeOK
  <2>2. CASE Enqueue
    BY <2>1, <2>2, <1>1 DEF Enqueue, OutcomeInv, IInv, PoolInv, Started
  <2>3. CASE SuperviseScan
    BY <2>1, <2>3 DEF SuperviseScan, FinalState
  <2>4. CASE \E w \in Workers : HandleNotAcquired(w) \/ Kill(w)
    BY <1>1, <2>4 DEF HandleNotAcquired, Kill, OutcomeInv, SignalInv, KillInv
  <2>5. CASE \E u \in Tests : ProcessStep(u) \/ ProcessCrashes(u)
    BY <2>1, <2>5 DEF ProcessStep, ProcessBegins, ProcessReports, ProcessExits, ProcessCrashes
  <2>6. CASE ResetStates
    BY <1>1, <2>6 DEF ResetStates, Unfinished
  <2>7. CASE UNCHANGED state
    BY <2>7
  <2>8. SpawnPool \/ SuperviseHeal \/ UserCall \/ StopWorkers \/ UNCHANGED vars => UNCHANGED state
    BY DEF SpawnPool, SuperviseHeal, UserCall, SetNumberOfProcesses, SoftStop, CancelSoftStop,
       Stop, ForceStopAndReset, ForceStopTest, StopWorkers
  <2>9. ASSUME NEW w \in Workers, WorkerStep(w), ~HandleNotAcquired(w), ~Kill(w)
        PROVE  UNCHANGED state
    BY <2>9 DEF WorkerStep, OwnStep, CheckAbort, GetTest, AwaitAdmission, GatesPass, GatesFail,
       Acquire, Launch, LaunchFails, Watch, Finish, ReleaseSlot, WorkerExit
  <2>. QED
    BY <1>1, <2>2, <2>3, <2>4, <2>5, <2>6, <2>7, <2>8, <2>9 DEF Next, Over, RunnerStep, CallerStep
<1>2. OutcomeInv /\ KillInv /\ [Next]_vars =>
        [\A t \in Tests : state[t] \in {"PASS", "FAIL"} =>
           (state'[t] = state[t] \/ stopRequested \/ t \in killAsked)]_vars
  BY <1>1
<1>. QED
  BY <1>2, KillInvariance, PTL DEF Spec, ResultsStick

-----------------------------------------------------------------------------
(* A hard stop: StopInv, when nothing is called before the pool is spawned *)
(* and the pool is not resized                                             *)

(* Healing and cancelling are off once a stop is requested, so no worker   *)
(* is born that was not told to stop.                                      *)
LEMMA StopNext ==
  ASSUME ~EarlyCalls, "resize" \notin Operations, OutcomeInv, StopInv, [Next]_vars
  PROVE  StopInv'
<1>0. /\ IInv /\ CrewInv /\ SignalInv
      /\ signals \in [Workers -> SUBSET {"stop", "retire", "force"}]
      /\ pool \subseteq Workers
  BY DEF OutcomeInv, IInv, TypeOK
<1>1. CASE RunnerStep
  <2>1. UNCHANGED <<stopRequested, caller, signals>> /\ (Started => Started')
    BY <1>1 DEF RunnerStep, Enqueue, SpawnPool, SuperviseScan, SuperviseHeal, Started
  <2>2. stopRequested => UNCHANGED worker
    BY <1>1 DEF RunnerStep, Enqueue, SpawnPool, SuperviseScan, SuperviseHeal, StopInv, Started,
       HealingSuppressed
  <2>. QED
    BY <2>1, <2>2 DEF StopInv, Alive
<1>2. CASE \E w \in Workers : WorkerStep(w)
  BY <1>0, <1>2, WorkerFrame DEF StopInv, Alive, Started
<1>3. CASE \E t \in Tests : ProcessStep(t) \/ ProcessCrashes(t)
  BY <1>3, ProcessFrame DEF StopInv, Alive, Started
<1>4. CASE UserCall
  <2>1. CASE SoftStop
    BY <2>1 DEF SoftStop, Call, StopInv, Alive, Started
  <2>2. CASE CancelSoftStop
    BY <2>2 DEF CancelSoftStop, CancelTooLate, StopInv
  <2>3. CASE Stop \/ ForceStopAndReset
    BY <2>3 DEF Stop, ForceStopAndReset, Call, StopInv, Started
  <2>4. CASE \E t \in Tests : ForceStopTest(t)
    BY <1>0, <2>4 DEF ForceStopTest, StopInv, Alive, Started
  <2>5. ~ \E n \in Sizes : SetNumberOfProcesses(n)
    BY DEF SetNumberOfProcesses, Call
  <2>. QED
    BY <1>4, <2>1, <2>2, <2>3, <2>4, <2>5 DEF UserCall
<1>5. CASE StopWorkers
  <2>1. \A w \in pool : "stop" \in signals'[w]
    BY <1>0, <1>5 DEF StopWorkers, StoppableWorkers
  <2>2. Alive' = Alive /\ Alive \subseteq pool /\ Started' = Started
        /\ UNCHANGED stopRequested
    BY <1>0, <1>5 DEF StopWorkers, Alive, CrewInv, Started
  <2>. QED
    BY <2>1, <2>2 DEF StopInv
<1>6. CASE ResetStates \/ UNCHANGED vars
  BY <1>6 DEF ResetStates, StopInv, Alive, Started
<1>. QED
  BY <1>1, <1>2, <1>3, <1>4, <1>5, <1>6 DEF Next, Over, CallerStep

(* When stop() has returned every live worker has been told to stop, and   *)
(* healing or cancelling never adds one that was not.                      *)
THEOREM StopIsFinal ==
  ASSUME ~EarlyCalls, "resize" \notin Operations
  PROVE  Spec => []StopReachesEveryWorker
<1>1. Init => StopInv
  BY DEF Init, StopInv
<1>2. OutcomeInv /\ StopInv /\ [Next]_vars => StopInv'
  BY StopNext
<1>3. StopInv => StopReachesEveryWorker
  BY DEF StopInv, StopReachesEveryWorker
<1>. QED
  BY <1>1, <1>2, <1>3, OutcomeInvariance, PTL DEF Spec

-----------------------------------------------------------------------------
(* Force stop and reset: ResetInv, when nothing is called before the pool  *)
(* is spawned and no process dies without a record                         *)

(* After the reset only a process that is already running reopens its      *)
(* test's record, and it records a result before it goes.                  *)
LEMMA ResetNext ==
  ASSUME ~EarlyCalls, Crashable = {}, OutcomeInv, ResetInv, [Next]_vars
  PROVE  ResetInv'
<1>0. /\ IInv /\ SignalInv /\ RecordInv
      /\ proc \in [Tests -> {"none", "starting", "running", "reported", "dead"}]
      /\ state \in [Tests -> Terminal \cup {"absent", "QUEUED", "RUNNING"}]
      /\ inHand \in [Workers -> Tests \cup {None}]
  BY DEF OutcomeInv, IInv, TypeOK
<1>1. CASE RunnerStep
  <2>1. UNCHANGED <<stopRequested, forceStopped, caller, proc>> /\ (Started => Started')
    BY <1>1 DEF RunnerStep, Enqueue, SpawnPool, SuperviseScan, SuperviseHeal, Started
  <2>2. forceStopped => UNCHANGED state
    BY <1>0, <1>1 DEF RunnerStep, Enqueue, SpawnPool, SuperviseScan, SuperviseHeal, ResetInv,
       SignalInv, Started
  <2>. QED
    BY <2>1, <2>2 DEF ResetInv
<1>2. ASSUME NEW w \in Workers, WorkerStep(w) PROVE ResetInv'
  <2>1. UNCHANGED runnerVars
    BY <1>0, <1>2, WorkerFrame
  <2>2. ASSUME NEW t \in Tests, state[t] \in Terminal \/ proc[t] = "running"
        PROVE  state'[t] \in Terminal \/ proc'[t] = "running"
    <3>1. CASE Launch(w)
      <4>1. proc[inHand[w]] = "none"
        BY <1>0, <3>1, UnstartedTests DEF Launch
      <4>. QED
        BY <1>0, <2>2, <3>1, <4>1 DEF Launch
    <3>2. CASE Kill(w)
      BY <1>0, <2>2, <3>2 DEF Kill, Terminal
    <3>3. CASE HandleNotAcquired(w)
      BY <1>0, <2>2, <3>3 DEF HandleNotAcquired, Terminal
    <3>4. CASE ~Launch(w) /\ ~Kill(w) /\ ~HandleNotAcquired(w)
      BY <1>2, <2>2, <3>4 DEF WorkerStep, OwnStep, CheckAbort, GetTest, AwaitAdmission, GatesPass,
         GatesFail, Acquire, LaunchFails, Watch, Finish, ReleaseSlot, WorkerExit
    <3>. QED
      BY <3>1, <3>2, <3>3, <3>4
  <2>. QED
    BY <2>1, <2>2 DEF ResetInv, Started
<1>3. ASSUME NEW u \in Tests, ProcessStep(u) \/ ProcessCrashes(u) PROVE ResetInv'
  <2>1. UNCHANGED processVars /\ ~ProcessCrashes(u)
    BY <1>3, ProcessFrame DEF ProcessCrashes
  <2>2. ASSUME NEW t \in Tests, state[t] \in Terminal \/ proc[t] = "running"
        PROVE  state'[t] \in Terminal \/ proc'[t] = "running"
    BY <1>0, <1>3, <2>1, <2>2
       DEF ProcessStep, ProcessBegins, ProcessReports, ProcessExits, RecordInv, Terminal
  <2>. QED
    BY <2>1, <2>2 DEF ResetInv, Started
<1>4. CASE UserCall \/ StopWorkers \/ UNCHANGED vars
  <2>1. CASE Stop \/ ForceStopAndReset
    BY <2>1 DEF Stop, ForceStopAndReset, Call, ResetInv, Started
  <2>2. CASE StopWorkers
    BY <1>0, <2>2 DEF StopWorkers, SignalInv, ResetInv, Started
  <2>3. CASE UNCHANGED <<runner, stopRequested, forceStopped, caller, proc, state>>
    BY <2>3 DEF ResetInv, Started
  <2>. QED
    BY <1>4, <2>1, <2>2, <2>3 DEF UserCall, SetNumberOfProcesses, SoftStop, CancelSoftStop,
       ForceStopTest
<1>5. CASE ResetStates
  <2>1. Started /\ \A t \in Tests : state[t] # "absent"
    BY <1>0, <1>5 DEF ResetStates, SignalInv, RecordInv, ResetInv, Started
  <2>2. \A t \in Tests : state'[t] \in Terminal
    BY <1>0, <1>5, <2>1 DEF ResetStates, Unfinished, Terminal
  <2>. QED
    BY <1>5, <2>1, <2>2 DEF ResetInv, ResetStates, Started
<1>. QED
  BY <1>1, <1>2, <1>3, <1>4, <1>5 DEF Next, Over, CallerStep

(* force_stop_and_reset leaves every test with a terminal state, once the  *)
(* workers it stopped are gone.                                            *)
THEOREM ResetCompletes ==
  ASSUME ~EarlyCalls, Crashable = {}
  PROVE  Spec => []ResetSettlesEveryTest
<1>1. Init => ResetInv
  BY DEF Init, ResetInv
<1>2. OutcomeInv /\ ResetInv /\ [Next]_vars => ResetInv'
  BY ResetNext
<1>3. OutcomeInv /\ ResetInv => ResetSettlesEveryTest
  BY NobodyHolds DEF OutcomeInv, ResetInv, ResetSettlesEveryTest
<1>. QED
  BY <1>1, <1>2, <1>3, OutcomeInvariance, PTL DEF Spec

-----------------------------------------------------------------------------
(* Tests between the threads: RefusedInv, when a soft stop is never        *)
(* cancelled and every process can be started                              *)

(* No call, and nothing the runner thread does, clears a signal or a stop  *)
(* request.                                                                *)
LEMMA CallsRaise ==
  ASSUME "cancel" \notin Operations, IInv, RunnerStep \/ UserCall \/ CallerStep
  PROVE  /\ stopRequested => stopRequested'
         /\ softStop => softStop'
         /\ \A w \in Workers : signals[w] \subseteq signals'[w]
<1>0. signals \in [Workers -> SUBSET {"stop", "retire", "force"}]
  BY DEF IInv, TypeOK
<1>1. (stopRequested => stopRequested') /\ (softStop => softStop')
  BY DEF RunnerStep, Enqueue, SpawnPool, SuperviseScan, SuperviseHeal, UserCall,
     SetNumberOfProcesses, SoftStop, CancelSoftStop, Stop, ForceStopAndReset, ForceStopTest,
     CallerStep, StopWorkers, ResetStates, Call
<1>2. \A w \in Workers : signals[w] \subseteq signals'[w]
  <2>1. CASE UNCHANGED signals
    BY <2>1
  <2>2. CASE \E n \in Sizes : SetNumberOfProcesses(n)
    BY <1>0, <2>2 DEF SetNumberOfProcesses
  <2>3. CASE StopWorkers
    BY <1>0, <2>3 DEF StopWorkers
  <2>4. CASE \E t \in Tests : ForceStopTest(t)
    BY <1>0, <2>4 DEF ForceStopTest
  <2>5. RunnerStep \/ SoftStop \/ CancelSoftStop \/ Stop \/ ForceStopAndReset \/ ResetStates
          => UNCHANGED signals
    BY DEF RunnerStep, Enqueue, SpawnPool, SuperviseScan, SuperviseHeal, SoftStop,
       CancelSoftStop, Stop, ForceStopAndReset, ResetStates
  <2>. QED
    BY <2>1, <2>2, <2>3, <2>4, <2>5 DEF UserCall, CallerStep
<1>. QED
  BY <1>1, <1>2

(* A worker that was refused a slot keeps its reason to hand its test back.*)
LEMMA RefusedNext ==
  ASSUME "cancel" \notin Operations, IInv, RefusedInv, [Next]_vars
  PROVE  RefusedInv'
<1>. USE DEF Goto
<1>0. worker \in [Workers -> WorkerPoints]
  BY DEF IInv, TypeOK
<1>1. CASE RunnerStep \/ UserCall \/ CallerStep
  <2>1. \A w \in Workers : worker'[w] = "refused" => worker[w] = "refused"
    BY <1>1, PoolFrame
  <2>2. (softStop => softStop') /\ \A w \in Workers : signals[w] \subseteq signals'[w]
    BY <1>1, CallsRaise
  <2>. QED
    BY <2>1, <2>2 DEF RefusedInv
<1>2. ASSUME NEW w \in Workers, WorkerStep(w) PROVE RefusedInv'
  <2>1. /\ UNCHANGED softStop
        /\ \A v \in Workers : v # w => worker'[v] = worker[v]
        /\ \A v \in Workers : signals'[v] \cap {"stop", "retire"} = signals[v] \cap {"stop", "retire"}
    BY <1>2, WorkerFrame
  <2>2. worker'[w] = "refused" => ShouldAbort(w)
    <3>1. CASE Acquire(w)
      BY <1>0, <3>1 DEF Acquire
    <3>2. CASE AwaitAdmission(w)
      BY <1>0, <3>2 DEF AwaitAdmission
    <3>3. CASE ~Acquire(w) /\ ~AwaitAdmission(w)
      BY <1>0, <1>2, <3>3 DEF WorkerStep, OwnStep, CheckAbort, GetTest, GatesPass, GatesFail,
         HandleNotAcquired, Launch, LaunchFails, Watch, Kill, Finish, ReleaseSlot, WorkerExit
    <3>. QED
      BY <3>1, <3>2, <3>3
  <2>. QED
    BY <2>1, <2>2 DEF RefusedInv, ShouldAbort
<1>3. CASE \E t \in Tests : ProcessStep(t) \/ ProcessCrashes(t)
  BY <1>3, ProcessFrame DEF RefusedInv
<1>4. CASE UNCHANGED vars
  BY <1>4 DEF RefusedInv
<1>. QED
  BY <1>1, <1>2, <1>3, <1>4 DEF Next, Over

(* A test is somewhere: queued, in hand, or started.                       *)
Placed(t) == t \in Range(queue) \/ proc[t] # "none" \/ \E w \in Workers : inHand[w] = t

(* A worker passes its test on: to a process or back to the queue.         *)
LEMMA WorkerPasses ==
  ASSUME Unstartable = {}, IInv, SignalInv, RefusedInv, ~stopRequested,
         NEW w \in Workers, WorkerStep(w), NEW t \in Tests, Placed(t)
  PROVE  Placed(t)'
<1>1. /\ queue \in Seq(Tests) /\ IsInjective(queue) /\ inHand \in [Workers -> Tests \cup {None}]
      /\ proc \in [Tests -> {"none", "starting", "running", "reported", "dead"}] /\ None \notin Tests
  BY ConstantsOK DEF IInv, TypeOK, OneOwner
<1>2. CASE CheckAbort(w) \/ AwaitAdmission(w) \/ GatesPass(w) \/ GatesFail(w) \/ Acquire(w)
           \/ Watch(w) \/ Finish(w) \/ WorkerExit(w)
  BY <1>2 DEF CheckAbort, AwaitAdmission, GatesPass, GatesFail, Acquire, Watch, Finish,
     WorkerExit, Placed
<1>3. CASE GetTest(w)
  <2>1. CASE queue = <<>>
    BY <1>3, <2>1 DEF GetTest, Placed
  <2>2. CASE queue # <<>>
    <3>1. inHand' = [inHand EXCEPT ![w] = Head(queue)] /\ queue' = Tail(queue) /\ UNCHANGED proc
      BY <1>3, <2>2 DEF GetTest, Dequeued
    <3>2. Range(queue') = Range(queue) \ {Head(queue)} /\ inHand'[w] = Head(queue)
      BY <1>1, <2>2, <3>1, QueueGet
    <3>3. inHand[w] = None
      BY <1>3 DEF GetTest, IInv, HandInv, Waits, Busy
    <3>. QED
      BY <1>1, <3>1, <3>2, <3>3 DEF Placed
  <2>. QED
    BY <2>1, <2>2
<1>4. CASE HandleNotAcquired(w)
  <2>1. queue' = Append(queue, inHand[w]) /\ UNCHANGED proc
        /\ inHand' = [inHand EXCEPT ![w] = None]
    BY <1>4 DEF HandleNotAcquired, SignalInv, RefusedInv, HandsBack, HandedBack
  <2>2. inHand[w] \in Tests /\ inHand[w] \notin Range(queue)
    BY <1>4, UnstartedTests DEF HandleNotAcquired, Waits, IInv, OneOwner
  <2>3. Range(queue') = Range(queue) \cup {inHand[w]}
    BY <1>1, <2>1, <2>2, QueuePut
  <2>. QED
    BY <1>1, <2>1, <2>3 DEF Placed
<1>5. CASE Launch(w) \/ Kill(w)
  BY <1>1, <1>5 DEF Launch, Kill, Placed
<1>6. CASE ReleaseSlot(w)
  <2>1. proc[inHand[w]] # "none"
    BY <1>6 DEF ReleaseSlot, IInv, ProcInv
  <2>. QED
    BY <1>1, <1>6, <2>1 DEF ReleaseSlot, Placed
<1>7. ~LaunchFails(w)
  BY DEF LaunchFails
<1>. QED
  BY <1>2, <1>3, <1>4, <1>5, <1>6, <1>7 DEF WorkerStep, OwnStep

(* Every step keeps each test somewhere.                                   *)
LEMMA NoTestLostNext ==
  ASSUME "cancel" \notin Operations, Unstartable = {}, OutcomeInv, RefusedInv, NoTestLost,
         [Next]_vars
  PROVE  NoTestLost'
<1>0. /\ IInv /\ SignalInv
      /\ proc \in [Tests -> {"none", "starting", "running", "reported", "dead"}]
      /\ state \in [Tests -> Terminal \cup {"absent", "QUEUED", "RUNNING"}]
  BY DEF OutcomeInv, IInv, TypeOK
<1>1. CASE RunnerStep
  <2>1. CASE Enqueue
    <3>1. Tests = Range(queue')
      BY <2>1 DEF Enqueue, Tests
    <3>. QED
      BY <3>1 DEF NoTestLost
  <2>2. CASE SpawnPool \/ SuperviseHeal
    BY <2>2 DEF SpawnPool, SuperviseHeal, NoTestLost
  <2>3. CASE SuperviseScan
    <3>1. CASE UNCHANGED <<queue, state>>
      BY <2>3, <3>1 DEF SuperviseScan, NoTestLost
    <3>2. CASE state' = [t \in Tests |-> FinalState(t)]
      BY <2>3, <3>2 DEF SuperviseScan, FinalState, NoTestLost, Terminal
    <3>. QED
      BY <2>3, <3>1, <3>2 DEF SuperviseScan
  <2>. QED
    BY <1>1, <2>1, <2>2, <2>3 DEF RunnerStep
<1>2. ASSUME NEW w \in Workers, WorkerStep(w) PROVE NoTestLost'
  <2>1. UNCHANGED runnerVars
    BY <1>0, <1>2, WorkerFrame
  <2>2. CASE stopRequested
    BY <2>1, <2>2 DEF NoTestLost
  <2>3. CASE ~stopRequested
    <3>1. \A t \in Tests : Placed(t) => Placed(t)'
      BY <1>0, <1>2, <2>3, WorkerPasses
    <3>2. \A t \in Tests : state'[t] = state[t] \/ state'[t] = "TERMINATED"
      BY <1>0, <1>2 DEF WorkerStep, OwnStep, CheckAbort, GetTest, AwaitAdmission, GatesPass,
         GatesFail, Acquire, HandleNotAcquired, Launch, LaunchFails, Watch, Kill, Finish,
         ReleaseSlot, WorkerExit
    <3>. QED
      BY <2>3, <3>1, <3>2 DEF NoTestLost, Placed, Terminal
  <2>. QED
    BY <2>2, <2>3
<1>3. ASSUME NEW u \in Tests, ProcessStep(u) \/ ProcessCrashes(u) PROVE NoTestLost'
  <2>1. UNCHANGED processVars
    BY <1>3, ProcessFrame
  <2>2. /\ proc'[u] # "none"
        /\ \A t \in Tests : t # u => proc'[t] = proc[t] /\ state'[t] = state[t]
    BY <1>0, <1>3
       DEF ProcessStep, ProcessBegins, ProcessReports, ProcessExits, ProcessCrashes
  <2>. QED
    BY <2>1, <2>2 DEF NoTestLost
<1>4. CASE UserCall \/ CallerStep \/ UNCHANGED vars
  <2>1. UNCHANGED <<queue, inHand, proc>> /\ (stopRequested => stopRequested')
    BY <1>4 DEF UserCall, SetNumberOfProcesses, SoftStop, CancelSoftStop, Stop,
       ForceStopAndReset, ForceStopTest, CallerStep, StopWorkers, ResetStates
  <2>2. \A t \in Tests : state'[t] = state[t] \/ state'[t] = "STOPPED"
    BY <1>4 DEF UserCall, SetNumberOfProcesses, SoftStop, CancelSoftStop, Stop,
       ForceStopAndReset, ForceStopTest, CallerStep, StopWorkers, ResetStates
  <2>. QED
    BY <2>1, <2>2 DEF NoTestLost, Terminal
<1>. QED
  BY <1>1, <1>2, <1>3, <1>4 DEF Next, Over

(* The invariants of a run whose soft stop is not cancelled.               *)
LEMMA LossInvariance ==
  ASSUME "cancel" \notin Operations, Unstartable = {}
  PROVE  Spec => [](OutcomeInv /\ RefusedInv /\ NoTestLost)
<1>1. Init => RefusedInv /\ NoTestLost
  BY DEF Init, RefusedInv, NoTestLost
<1>2. OutcomeInv /\ RefusedInv /\ NoTestLost /\ [Next]_vars => RefusedInv' /\ NoTestLost'
  BY RefusedNext, NoTestLostNext DEF OutcomeInv
<1>. QED
  BY <1>1, <1>2, OutcomeInvariance, PTL DEF Spec

(* No test falls between queue, workers and processes, whatever is         *)
(* resized, retired or stopped.                                            *)
THEOREM NothingLost ==
  ASSUME "cancel" \notin Operations, Unstartable = {}
  PROVE  Spec => []NoTestLost
  BY LossInvariance, PTL

-----------------------------------------------------------------------------
(* The end of a run: WindDownInv, when besides no process dies without a   *)
(* record                                                                  *)

(* What disturbs a run is never taken back.                                *)
LEMMA DisturbedStays ==
  ASSUME "cancel" \notin Operations, IInv, [Next]_vars
  PROVE  (Undisturbed' => Undisturbed) /\ (softStop => softStop')
<1>1. CASE RunnerStep \/ UserCall \/ CallerStep
  BY <1>1, CallsRaise DEF Undisturbed, NobodyRetired
<1>2. CASE \E w \in Workers : WorkerStep(w)
  BY <1>2, WorkerFrame DEF Undisturbed, NobodyRetired
<1>3. CASE \E t \in Tests : ProcessStep(t) \/ ProcessCrashes(t)
  BY <1>3, ProcessFrame DEF Undisturbed, NobodyRetired
<1>4. CASE UNCHANGED vars
  BY <1>4 DEF Undisturbed, NobodyRetired
<1>. QED
  BY <1>1, <1>2, <1>3, <1>4 DEF Next, Over

(* A worker leaves only an empty queue behind.                             *)
LEMMA WindDownWorker ==
  ASSUME Unstartable = {}, IInv, SignalInv, RefusedInv, WindDownInv, Undisturbed,
         NEW w \in Workers, WorkerStep(w)
  PROVE  WindDownInv'
<1>. USE DEF Goto
<1>1. /\ worker \in [Workers -> WorkerPoints] /\ inHand \in [Workers -> Tests \cup {None}]
      /\ None \notin Tests
  BY ConstantsOK DEF IInv, TypeOK
<1>2. /\ UNCHANGED runnerVars
      /\ \A v \in Workers : v # w => worker'[v] = worker[v] /\ inHand'[v] = inHand[v]
  BY WorkerFrame
<1>3. ~LaunchFails(w)
  BY DEF LaunchFails
<1>4. HandleNotAcquired(w) => softStop
  BY DEF HandleNotAcquired, RefusedInv, SignalInv, Undisturbed, NobodyRetired
<1>5. (~softStop /\ worker'[w] \in {"exiting", "dead"})
        => worker[w] = "exiting" \/ queue = <<>>
  <2>1. CASE CheckAbort(w)
    BY <1>1, <2>1 DEF CheckAbort, ShouldAbort, SignalInv, Undisturbed, NobodyRetired
  <2>2. CASE GetTest(w)
    BY <1>1, <2>2 DEF GetTest
  <2>3. CASE Acquire(w)
    BY <1>1, <2>3 DEF Acquire
  <2>4. CASE AwaitAdmission(w) \/ GatesPass(w) \/ GatesFail(w) \/ Launch(w) \/ Watch(w)
             \/ Kill(w) \/ Finish(w) \/ ReleaseSlot(w) \/ WorkerExit(w)
    BY <1>1, <2>4 DEF AwaitAdmission, GatesPass, GatesFail, Launch, Watch, Kill, Finish,
       ReleaseSlot, WorkerExit
  <2>. QED
    BY <1>3, <1>4, <2>1, <2>2, <2>3, <2>4 DEF WorkerStep, OwnStep
<1>6. ~HandleNotAcquired(w) /\ queue = <<>> => queue' = <<>> /\ inHand'[w] \in {inHand[w], None}
  BY <1>1, <1>3 DEF WorkerStep, OwnStep, CheckAbort, GetTest, AwaitAdmission, GatesPass, GatesFail,
     Acquire, Launch, Watch, Kill, Finish, ReleaseSlot, WorkerExit
<1>7. HandleNotAcquired(w) => inHand[w] # None
  BY DEF HandleNotAcquired, IInv, HandInv, Waits
<1>8. (~softStop /\ \E v \in Workers : worker'[v] \in {"exiting", "dead"}) => queue' = <<>>
  BY <1>2, <1>4, <1>5, <1>6 DEF WindDownInv
<1>9. Finalized => queue' = <<>> /\ \A v \in Workers : inHand'[v] = None
  BY <1>2, <1>6, <1>7 DEF WindDownInv
<1>. QED
  BY <1>2, <1>8, <1>9 DEF WindDownInv, Finalized

(* The run is declared over when the last worker has left.                 *)
LEMMA WindDownScan ==
  ASSUME IInv, CrewInv, SignalInv, WindDownInv, Undisturbed, SuperviseScan
  PROVE  WindDownInv'
<1>1. /\ UNCHANGED <<worker, inHand, softStop, stopRequested, signals>>
      /\ queue' = queue \/ queue' = <<>>
  BY DEF SuperviseScan
<1>2. CASE runner' = "done"
  <2>1. LivePool = {} /\ pool # {}
    BY <1>2 DEF SuperviseScan, CrewInv
  <2>2. \A w \in Workers : inHand[w] = None
    BY <2>1, NobodyHolds DEF LivePool, CrewInv
  <2>3. \E w \in Workers : worker[w] = "dead"
    BY <2>1 DEF LivePool, Alive, CrewInv, IInv, TypeOK
  <2>4. queue' = <<>>
    <3>1. CASE softStop
      BY <1>2, <2>1, <3>1 DEF SuperviseScan, SignalInv, Undisturbed
    <3>2. CASE ~softStop
      BY <1>1, <2>3, <3>2 DEF WindDownInv
    <3>. QED
      BY <3>1, <3>2
  <2>. QED
    BY <1>1, <2>2, <2>4 DEF WindDownInv
<1>3. CASE runner' # "done"
  BY <1>1, <1>3 DEF WindDownInv, Undisturbed, NobodyRetired, Finalized
<1>. QED
  BY <1>2, <1>3

(* Every step keeps the queue of a finished run empty.                     *)
LEMMA WindDownNext ==
  ASSUME "cancel" \notin Operations, Unstartable = {}, OutcomeInv, RefusedInv, WindDownInv,
         [Next]_vars
  PROVE  WindDownInv'
<1>0. IInv /\ CrewInv /\ SignalInv
  BY DEF OutcomeInv
<1>1. (Undisturbed' => Undisturbed) /\ (softStop => softStop')
  BY <1>0, DisturbedStays
<1>2. CASE ~Undisturbed'
  BY <1>2 DEF WindDownInv, Undisturbed, NobodyRetired
<1>3. CASE Undisturbed'
  <2>0. Undisturbed
    BY <1>1, <1>3
  <2>1. CASE Enqueue
    <3>1. \A w \in Workers : worker'[w] = "unborn"
      BY <1>0, <2>1 DEF Enqueue, IInv, PoolInv, Started, Workers
    <3>. QED
      BY <2>1, <3>1 DEF Enqueue, WindDownInv, Finalized
  <2>2. CASE SpawnPool \/ SuperviseHeal \/ UserCall \/ CallerStep
    <3>1. UNCHANGED queue /\ (Finalized' => Finalized)
      BY <2>2 DEF SpawnPool, SuperviseHeal, UserCall, SetNumberOfProcesses, SoftStop,
         CancelSoftStop, Stop, ForceStopAndReset, ForceStopTest, CallerStep, StopWorkers,
         ResetStates, Finalized
    <3>2. /\ UNCHANGED inHand
          /\ \A w \in Workers : worker'[w] \in {"exiting", "dead"} => worker[w] \in {"exiting", "dead"}
      BY <1>0, <2>2, PoolFrame DEF RunnerStep
    <3>. QED
      BY <1>1, <2>0, <3>1, <3>2 DEF WindDownInv
  <2>3. CASE \E t \in Tests : ProcessStep(t) \/ ProcessCrashes(t)
    BY <2>0, <2>3, ProcessFrame DEF WindDownInv, Finalized
  <2>4. CASE UNCHANGED vars
    BY <2>0, <2>4 DEF WindDownInv, Finalized
  <2>. QED
    BY <1>0, <2>0, <2>1, <2>2, <2>3, <2>4, WindDownWorker, WindDownScan DEF Next, Over, RunnerStep
<1>. QED
  BY <1>2, <1>3

(* A run no hard stop and no retirement interfered with is complete when   *)
(* it has wound down: every test has a terminal state.                     *)
THEOREM RunCompletes ==
  ASSUME "cancel" \notin Operations, Unstartable = {}, Crashable = {}
  PROVE  Spec => []EveryTestSettled
<1>1. Init => WindDownInv
  BY DEF Init, WindDownInv
<1>2. OutcomeInv /\ RefusedInv /\ WindDownInv /\ [Next]_vars => WindDownInv'
  BY WindDownNext
<1>3. OutcomeInv /\ NoTestLost /\ WindDownInv => EveryTestSettled
  <2>1. SUFFICES ASSUME OutcomeInv, NoTestLost, WindDownInv, Finalized, Undisturbed, NEW t \in Tests
                 PROVE  state[t] \in Terminal
    BY DEF EveryTestSettled, Undisturbed
  <2>2. /\ state[t] # "absent" /\ t \notin Range(queue) /\ t # None
        /\ \A w \in Workers : inHand[w] = None
    BY <2>1, EmptyQueue, ConstantsOK DEF WindDownInv, OutcomeInv, RecordInv, Finalized
  <2>3. CASE proc[t] # "none"
    <3>1. ~Running(t)
      BY <2>1, <2>2 DEF OutcomeInv, IInv, ProcInv
    <3>2. proc[t] = "dead"
      BY <2>1, <2>3, <3>1 DEF Running, OutcomeInv, IInv, TypeOK
    <3>. QED
      BY <2>1, <3>2 DEF OutcomeInv, RecordInv
  <2>4. CASE proc[t] = "none"
    BY <2>1, <2>2, <2>4 DEF NoTestLost, Undisturbed
  <2>. QED
    BY <2>3, <2>4
<1>. QED
  BY <1>1, <1>2, <1>3, LossInvariance, PTL DEF Spec
=============================================================================
