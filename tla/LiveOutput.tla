----------------------------- MODULE LiveOutput -----------------------------
(* What the tabs are about: the tests of a run as their records say, and    *)
(* the live output their processes write to one log per test, which is      *)
(* read through a cache.  Logs are left as they are by later runs until     *)
(* their test is started again.                                             *)
EXTENDS Integers, Sequences, FiniteSets, SequencesExt

CONSTANTS
  Tests,      \* numbers, in the order in which a tick lists its tests
  MaxRuns,    \* bound: runs
  MaxSize     \* bound: how long a log grows

VARIABLES
  run,         \* the run that is shown
  record,      \* of each test in it: the state its records say, and has one an output?
  log,         \* live_output/<test>.log: the run that opened it, and its size
  readCache    \* _read_cache: of each test's log, as it was read last, and the text

world == <<run, record, log>>

-----------------------------------------------------------------------------
NoTest   == 0
NoLog    == [run |-> 0, size |-> 0]
Empty    == [of |-> NoTest, run |-> 0, size |-> 0, whole |-> TRUE]   \* the text ""
TailOf   == 1      \* read_live_output reads this much of a log, unless it is told otherwise
Unlimited == 1000  \* the ten million bytes of resolve_test_output

Captured(t, r) == [of |-> t, run |-> r, size |-> MaxSize + 1, whole |-> TRUE]

(* read_live_output: from the cache if the log has not changed.             *)
ReadLive(cache, t, limit) ==
  IF log[t] = NoLog THEN Empty
  ELSE IF cache[t].log = log[t] THEN cache[t].text
  ELSE IF log[t].size = 0 THEN Empty
  ELSE [of |-> t, run |-> log[t].run, size |-> log[t].size, whole |-> log[t].size <= limit]

CacheAfter(cache, t, limit) ==
  [cache EXCEPT ![t] = [log |-> log[t], text |-> ReadLive(cache, t, limit)]]

(* resolve_test_output: the output on record, or else what the log holds.   *)
Output(data, t) ==
  IF t \in DOMAIN data /\ data[t].out THEN Captured(t, data[t].run)
  ELSE ReadLive(readCache, t, Unlimited)

CacheAfterOutput(data, t) ==
  IF t \in DOMAIN data /\ data[t].out THEN readCache ELSE CacheAfter(readCache, t, Unlimited)

(* The place of t among the numbers in S, and these numbers, ascending.     *)
PlaceIn(S, t) == 1 + Cardinality({u \in S : u < t})

Ascending(S) == [k \in 1..Cardinality(S) |-> CHOOSE t \in S : PlaceIn(S, t) = k]

InState(data, states) == Ascending({t \in DOMAIN data : data[t].state \in states})

(* NoTest is none of the tests.                                             *)
LiveConstantsOK == IsFiniteSet(Tests) /\ Tests \subseteq Int \ {NoTest}

WorldInit ==
  /\ run = 1 /\ record = <<>> /\ log = [t \in Tests |-> NoLog]
  /\ readCache = [t \in Tests |-> [log |-> NoLog, text |-> Empty]]

-----------------------------------------------------------------------------
(* The run, as its records and its logs say.                                *)

(* Run is clicked: nothing is on record for the new run.                    *)
NewRun ==
  /\ run < MaxRuns /\ run' = run + 1 /\ record' = <<>>
  /\ UNCHANGED log

(* Its tests are queued; those that a resumed run skips bring their output. *)
Enqueue(tests, kept) ==
  /\ record = <<>>
  /\ record' = [t \in tests |->
       [state |-> IF t \in kept THEN "Pass" ELSE "Queued", out |-> t \in kept, run |-> run]]
  /\ UNCHANGED <<run, log>>

Advance(t, from, to, out) ==
  /\ t \in DOMAIN record /\ record[t].state = from
  /\ record' = [record EXCEPT ![t].state = to, ![t].out = out]
  /\ UNCHANGED <<run, log>>

(* PytestProcess.run: RUNNING is on record before the log is opened, which  *)
(* may fail; the result brings the output, which a terminated test has not. *)
StartTest(t) == Advance(t, "Queued", "Running", FALSE)
EndTest(t) == \E to \in {"Pass", "Fail"} : Advance(t, "Running", to, TRUE)
TerminateTest(t) == Advance(t, "Running", "Terminated", FALSE)

(* _open_live_output truncates what an earlier run has left; then pytest    *)
(* writes.                                                                  *)
WriteLog(t) ==
  /\ t \in DOMAIN record /\ record[t].state = "Running"
  /\ \/ log[t].run # run /\ log' = [log EXCEPT ![t] = [run |-> run, size |-> 0]]
     \/ log[t].run = run /\ log[t].size < MaxSize /\ log' = [log EXCEPT ![t].size = @ + 1]
  /\ UNCHANGED <<run, record>>

RecordsChange ==
  \/ NewRun
  \/ \E tests \in SUBSET Tests \ {{}} : \E kept \in SUBSET tests : Enqueue(tests, kept)
  \/ \E t \in Tests : StartTest(t) \/ EndTest(t) \/ TerminateTest(t)

LogsChange == \E t \in Tests : WriteLog(t)
=============================================================================
