------------------------------ MODULE Throttling ------------------------------
(* The two throttles of a run beside its pool: the admission gates, which   *)
(* workers consult before they start a test, with the CPU sampler they      *)
(* share, and the resource guard, a monitor thread that asks for one        *)
(* cancelable soft stop.                                                    *)
EXTENDS Integers, FiniteSets

CONSTANTS
  Workers,
  NumberOfTests,  \* queued at the start
  MaxCancels      \* bound: how often the user cancels a soft stop

VARIABLES
  waiting,    \* tests in the queue
  poolWorker, \* where each worker thread stands
  softStop,   \* _soft_stop_event
  finalized,  \* _queue_finalized
  sampler,    \* _cpu_sample_*: primed?, how old the measurement is, its fraction
  guard,      \* the ResourceGuard thread
  breaches,   \* _consecutive_breaches
  triggered,  \* _triggered
  wasLow,     \* history: its reading before was low
  asks,       \* history: soft stops it asked for
  hasty,      \* history: it has asked after a single low reading
  cancels     \* soft stops the user cancelled

vars == <<waiting, poolWorker, softStop, finalized, sampler, guard, breaches, triggered,
          wasLow, asks, hasty, cancels>>
poolVars  == <<waiting, poolWorker, softStop, finalized, cancels>>
guardVars == <<guard, breaches, triggered, wasLow, asks, hasty>>

Interval == 2       \* of the sampler's clock: _cpu_sample_min_interval_seconds
Readings == {"unavailable", "below", "strained"}

Init ==
  /\ waiting = NumberOfTests /\ poolWorker = [w \in Workers |-> "next"]
  /\ softStop = FALSE /\ finalized = FALSE /\ cancels = 0
  /\ sampler = [primed |-> FALSE, age |-> 0, fraction |-> "unavailable"]
  /\ guard = "tick" /\ breaches = 0 /\ triggered = FALSE
  /\ wasLow = FALSE /\ asks = 0 /\ hasty = FALSE

-----------------------------------------------------------------------------
(* The admission gates.                                                     *)

(* The cached fraction is old enough to be measured again.                  *)
DueForSample == sampler.age >= Interval

(* system_cpu_fraction: the first call only primes the measurement.         *)
Sampled ==
  \/ ~ sampler.primed /\ sampler' = [sampler EXCEPT !.primed = TRUE, !.age = 0]
  \/ /\ sampler.primed /\ DueForSample
     /\ \E fraction \in Readings \ {"unavailable"} :
          sampler' = [sampler EXCEPT !.age = 0, !.fraction = fraction]
  \/ sampler.primed /\ ~ DueForSample /\ UNCHANGED sampler

CpuAdmits == ~ sampler.primed \/ sampler'.fraction # "strained"

Aborts == softStop

(* A worker takes a test, or leaves.                                        *)
TakeTest(w) ==
  /\ poolWorker[w] = "next"
  /\ IF Aborts \/ waiting = 0
     THEN poolWorker' = [poolWorker EXCEPT ![w] = "left"] /\ UNCHANGED waiting
     ELSE poolWorker' = [poolWorker EXCEPT ![w] = "admission"] /\ waiting' = waiting - 1
  /\ UNCHANGED <<softStop, finalized, cancels, sampler, guardVars>>

(* failing_gates: those on processes and on commit charge read the system   *)
(* each time, and a signal that cannot be read admits.                      *)
ConsultGates(w) ==
  /\ poolWorker[w] = "admission" /\ ~ Aborts
  /\ Sampled
  /\ \E processes, commit \in Readings :
       poolWorker' = [poolWorker EXCEPT ![w] =
         IF processes # "strained" /\ commit # "strained" /\ CpuAdmits THEN "run" ELSE "deferred"]
  /\ UNCHANGED <<waiting, softStop, finalized, cancels, guardVars>>

(* With nothing in flight a test is admitted all the same.                  *)
Defer(w) ==
  /\ poolWorker[w] = "deferred"
  /\ poolWorker' = [poolWorker EXCEPT ![w] =
       IF \A v \in Workers : poolWorker[v] # "run" THEN "run" ELSE "admission"]
  /\ UNCHANGED <<waiting, softStop, finalized, cancels, sampler, guardVars>>

(* A soft stop ends the deferral, and the test is handed back.              *)
HandBack(w) ==
  /\ poolWorker[w] = "admission" /\ Aborts
  /\ poolWorker' = [poolWorker EXCEPT ![w] = "left"] /\ waiting' = waiting + 1
  /\ UNCHANGED <<softStop, finalized, cancels, sampler, guardVars>>

EndTest(w) ==
  /\ poolWorker[w] = "run" /\ poolWorker' = [poolWorker EXCEPT ![w] = "next"]
  /\ UNCHANGED <<waiting, softStop, finalized, cancels, sampler, guardVars>>

TimePasses ==
  /\ sampler.age < Interval /\ sampler' = [sampler EXCEPT !.age = @ + 1]
  /\ UNCHANGED <<poolVars, guardVars>>

-----------------------------------------------------------------------------
(* The pool and the user.                                                   *)

IsRunning == \E w \in Workers : poolWorker[w] # "left"
TopUp == [w \in Workers |-> IF poolWorker[w] = "left" THEN "next" ELSE poolWorker[w]]

(* The supervision loop: finalisation, or a pool that is topped up.         *)
Supervise ==
  /\ ~ finalized
  /\ IF ~ IsRunning
     THEN finalized' = TRUE /\ waiting' = (IF softStop THEN 0 ELSE waiting) /\ UNCHANGED poolWorker
     ELSE /\ ~ softStop /\ waiting > 0 /\ poolWorker' = TopUp
          /\ UNCHANGED <<waiting, finalized>>
  /\ UNCHANGED <<softStop, cancels, sampler, guardVars>>

SoftStop ==
  /\ ~ softStop /\ softStop' = TRUE
  /\ UNCHANGED <<waiting, poolWorker, finalized, cancels, sampler, guardVars>>

CancelSoftStop ==
  /\ softStop /\ ~ finalized /\ cancels < MaxCancels
  /\ softStop' = FALSE /\ cancels' = cancels + 1 /\ poolWorker' = TopUp
  /\ UNCHANGED <<waiting, finalized, sampler, guardVars>>

-----------------------------------------------------------------------------
(* The resource guard.                                                      *)

Trigger == 2    \* consecutive_breaches_to_trigger

(* A slip: a good reading does not clear what was counted.                  *)
BreachesEver(low) == IF low THEN breaches + 1 ELSE breaches

(* _consecutive_breaches; a reading that is unavailable is no breach.       *)
BreachesAfter(low) == IF low THEN breaches + 1 ELSE 0

(* tick, over free disk space and commit charge; a check that is switched   *)
(* off is one that never reads low.                                         *)
GuardTick ==
  /\ guard = "tick" /\ guard' = "alive"
  /\ \E disk, commit \in Readings :
       LET low  == disk = "strained" \/ commit = "strained"
           seenLow == IF BreachesAfter(low) > Trigger THEN Trigger ELSE BreachesAfter(low)
           fire == ~ triggered /\ seenLow >= Trigger
       IN  /\ breaches' = seenLow /\ wasLow' = low
           /\ triggered' = (triggered \/ fire)
           /\ softStop' = (softStop \/ fire)
           /\ asks' = IF fire THEN asks + 1 ELSE asks
           /\ hasty' = (hasty \/ (fire /\ ~ (low /\ wasLow)))
  /\ UNCHANGED <<waiting, poolWorker, finalized, cancels, sampler>>

(* MonitorThread.run: it ends for good when no worker is alive.             *)
GuardGoesOn ==
  /\ guard = "alive" /\ guard' = IF IsRunning THEN "tick" ELSE "over"
  /\ UNCHANGED <<poolVars, sampler, breaches, triggered, wasLow, asks, hasty>>

Next ==
  \/ \E w \in Workers : TakeTest(w) \/ ConsultGates(w) \/ Defer(w) \/ HandBack(w) \/ EndTest(w)
  \/ TimePasses
  \/ Supervise \/ SoftStop \/ CancelSoftStop
  \/ GuardTick \/ GuardGoesOn

Spec == Init /\ [][Next]_vars

-----------------------------------------------------------------------------
(* The guard stops a run at most once, so that what the user cancelled      *)
(* stays cancelled, and a low reading alone never does: the one before was  *)
(* low too.                                                                 *)
GuardStopsOnce == asks <= 1 /\ ~ hasty

(* monitor_thread.py, MonitorThread: "Daemon thread that ticks at a fixed   *)
(* interval for the lifetime of a run."                                     *)
GuardLastsTheRun == guard = "over" => ~ IsRunning
=============================================================================
