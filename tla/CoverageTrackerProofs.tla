----------------------- MODULE CoverageTrackerProofs -----------------------
(***************************************************************************)
(* Proofs about CoverageTracker.tla, for every set of tests and any number *)
(* of runs: no coverage of files that the preparation of a run removed is  *)
(* ever shown for that run.                                                *)
(*                                                                         *)
(* CoverageOfThisRun is not inductive: what the worker is about to publish *)
(* has to be known.  Files are never older than the run they may date back *)
(* to (FilesInv); what a worker that is still fresh has read is one such   *)
(* set of files (FreshInv); and a tick that turns to another run leaves no *)
(* worker fresh, since generations only grow (TypeOK).                     *)
(***************************************************************************)
EXTENDS CoverageTracker, TLAPS

FilePairs == Tests \X Nat

RunsOK ==
  /\ guid \in Nat /\ guid <= MaxRuns /\ base \in Nat /\ base <= guid
  /\ shown \in Nat /\ shown <= guid /\ lastRun \in Nat /\ lastRun <= shown
  /\ stage \in [Tests -> {"running", "saving", "saved", "over"}]
  /\ completed \in [0..MaxRuns -> SUBSET Tests]
  /\ files \in [Tests -> Nat]

WorkerOK ==
  /\ worker \in [at : {"unborn", "wait", "take", "combine", "tests", "publish"},
                 set : SUBSET Tests, generation : Nat,
                 combined : SUBSET FilePairs, tests : SUBSET FilePairs]
  /\ generation \in Nat /\ worker.generation <= generation

TrackerOK ==
  /\ gui \in {"free", "signal"} /\ signalled \in BOOLEAN /\ failed \in BOOLEAN
  /\ submitted \in SUBSET Tests /\ pending \in SUBSET Tests
  /\ published \in [combined : SUBSET FilePairs, tests : SUBSET FilePairs, history : BOOLEAN]

TypeOK == RunsOK /\ WorkerOK /\ TrackerOK

FilesInv == \A t \in Tests : files[t] # 0 => files[t] >= base

(* Pairs of a test and a run since base.                                   *)
Since(pairs) == \A f \in pairs : f[2] >= base

FreshInv ==
  lastRun = guid /\ worker.generation = generation => Since(worker.combined) /\ Since(worker.tests)

IInv == TypeOK /\ FilesInv /\ FreshInv /\ CoverageOfThisRun

-----------------------------------------------------------------------------
(* The files there are make well-formed pairs, none older than base.       *)
LEMMA FilesAreSince ==
  ASSUME TypeOK, FilesInv
  PROVE  Files \in SUBSET FilePairs /\ Since(Files)
<1>1. ASSUME NEW t \in Tests, files[t] # 0
      PROVE  <<t, files[t]>> \in FilePairs /\ files[t] >= base
  BY <1>1 DEF TypeOK, RunsOK, FilesInv, FilePairs
<1>2. ASSUME NEW f \in Files
      PROVE  f \in FilePairs /\ f[2] >= base
  <2>1. PICK t \in Tests : files[t] # 0 /\ f = <<t, files[t]>>
    BY <1>2 DEF Files
  <2>. QED BY <2>1, <1>1
<1>. QED BY <1>2 DEF Since

LEMMA InitIInv == Init => IInv
<1>. SUFFICES ASSUME Init PROVE IInv
  OBVIOUS
<1>1. RunsOK
  BY TrackerConstantsOK DEF Init, RunsOK
<1>2. worker = [at |-> "unborn", set |-> {}, generation |-> 0, combined |-> {}, tests |-> {}]
  BY DEF Init, Resting, None
<1>3. WorkerOK
  <2>1. worker.generation = 0 /\ generation = 0
    BY <1>2 DEF Init
  <2>2. worker \in [at : {"unborn", "wait", "take", "combine", "tests", "publish"},
                   set : SUBSET Tests, generation : Nat,
                   combined : SUBSET FilePairs, tests : SUBSET FilePairs]
    BY <1>2
  <2>. QED BY <2>1, <2>2 DEF WorkerOK
<1>4. TrackerOK
  BY DEF Init, TrackerOK, None, Nothing
<1>5. FilesInv
  BY DEF Init, FilesInv
<1>6. FreshInv /\ CoverageOfThisRun
  <2>1. worker.combined = {} /\ worker.tests = {} /\ published.combined = {} /\ published.tests = {}
    BY <1>2 DEF Init, Nothing
  <2>. QED BY <2>1 DEF FreshInv, Since, CoverageOfThisRun
<1>. QED BY <1>1, <1>3, <1>4, <1>5, <1>6 DEF IInv, TypeOK

(* A step that leaves the tracker alone, and the files since base there:   *)
(* whatever was read and published stays so.                               *)
LEMMA TrackerRests ==
  ASSUME IInv, UNCHANGED <<guid, base, lastRun, generation, worker, published>>
  PROVE  FreshInv' /\ CoverageOfThisRun'
BY DEF IInv, FreshInv, Since, CoverageOfThisRun

(* A worker that rests has nothing to publish.                             *)
LEMMA RestingIsFresh ==
  ASSUME WorkerOK, worker' = Resting, generation' = generation
  PROVE  WorkerOK' /\ FreshInv'
<1>1. worker' = [at |-> "wait", set |-> {}, generation |-> 0, combined |-> {}, tests |-> {}]
  BY DEF Resting, None
<1>2. worker'.generation = 0 /\ worker'.combined = {} /\ worker'.tests = {}
  BY <1>1
<1>3. worker' \in [at : {"unborn", "wait", "take", "combine", "tests", "publish"},
                  set : SUBSET Tests, generation : Nat,
                  combined : SUBSET FilePairs, tests : SUBSET FilePairs]
  BY <1>1
<1>4. generation' \in Nat /\ worker'.generation <= generation'
  BY <1>2 DEF WorkerOK
<1>. QED BY <1>2, <1>3, <1>4 DEF WorkerOK, FreshInv, Since

-----------------------------------------------------------------------------
(* The runs.                                                               *)

LEMMA StartRunStep ==
  ASSUME IInv, NEW resume \in BOOLEAN, StartRun(resume)
  PROVE  IInv'
<1>1. PICK passed \in IF resume THEN SUBSET completed[guid] ELSE {{}} :
        /\ completed' = [completed EXCEPT ![guid + 1] = passed]
        /\ stage' = [t \in Tests |-> IF t \in passed THEN "over" ELSE "running"]
  BY DEF StartRun
<1>2. guid \in 0..MaxRuns /\ guid + 1 <= MaxRuns /\ guid \in Nat
  BY TrackerConstantsOK DEF IInv, TypeOK, RunsOK, StartRun
<1>3. passed \in SUBSET Tests
  BY <1>1, <1>2 DEF IInv, TypeOK, RunsOK
<1>4. completed' \in [0..MaxRuns -> SUBSET Tests]
  BY <1>1, <1>2, <1>3 DEF IInv, TypeOK, RunsOK
<1>5. guid' = guid + 1 /\ base' \in Nat /\ base' <= guid'
  BY <1>2 DEF IInv, TypeOK, RunsOK, StartRun
<1>6. files' \in [Tests -> Nat] /\ FilesInv'
  BY DEF IInv, TypeOK, RunsOK, FilesInv, StartRun
<1>7. RunsOK'
  BY <1>1, <1>2, <1>4, <1>5, <1>6 DEF IInv, TypeOK, RunsOK, StartRun
<1>8. WorkerOK' /\ TrackerOK'
  BY DEF IInv, TypeOK, WorkerOK, TrackerOK, StartRun
<1>9. lastRun' # guid'
  BY <1>2, <1>5 DEF IInv, TypeOK, RunsOK, StartRun
<1>. QED BY <1>6, <1>7, <1>8, <1>9 DEF IInv, TypeOK, FreshInv, CoverageOfThisRun

LEMMA AdoptStep ==
  ASSUME IInv, Adopt
  PROVE  IInv'
<1>1. RunsOK'
  BY DEF IInv, TypeOK, RunsOK, Adopt
<1>2. WorkerOK' /\ TrackerOK' /\ FilesInv'
  BY DEF IInv, TypeOK, WorkerOK, TrackerOK, FilesInv, Adopt
<1>3. FreshInv' /\ CoverageOfThisRun'
  BY TrackerRests DEF Adopt
<1>. QED BY <1>1, <1>2, <1>3 DEF IInv, TypeOK

LEMMA ProcessStep ==
  ASSUME IInv, NEW t \in Tests, RemoveOldFile(t) \/ MoveFile(t) \/ Report(t) \/ Kill(t)
  PROVE  IInv'
<1>1. FreshInv' /\ CoverageOfThisRun'
  BY TrackerRests DEF RemoveOldFile, MoveFile, Report, Kill
<1>2. WorkerOK' /\ TrackerOK'
  BY DEF IInv, TypeOK, WorkerOK, TrackerOK, RemoveOldFile, MoveFile, Report, Kill
<1>3. RunsOK'
  BY DEF IInv, TypeOK, RunsOK, RemoveOldFile, MoveFile, Report, Kill
<1>4. FilesInv'
  BY DEF IInv, TypeOK, RunsOK, FilesInv, RemoveOldFile, MoveFile, Report, Kill
<1>. QED BY <1>1, <1>2, <1>3, <1>4 DEF IInv, TypeOK

-----------------------------------------------------------------------------
(* The tick: a run that is new leaves no worker fresh.                     *)

LEMMA TickStep ==
  ASSUME IInv, Tick
  PROVE  IInv'
<1>1. RunsOK' /\ FilesInv'
  BY DEF IInv, TypeOK, RunsOK, FilesInv, Tick, run
<1>2. CompletedShown \in SUBSET Tests
  BY TrackerConstantsOK DEF IInv, TypeOK, RunsOK, CompletedShown
<1>3. WorkerOK'
  BY DEF IInv, TypeOK, WorkerOK, Tick, run
<1>4. TrackerOK'
  BY <1>2 DEF IInv, TypeOK, TrackerOK, Tick, SubmittedSoFar, Nothing, None
<1>5. CASE shown = lastRun
  <2>. QED BY <1>5, TrackerRests, <1>1, <1>3, <1>4 DEF Tick, run, IInv, TypeOK
<1>6. CASE shown # lastRun
  <2>1. worker'.generation # generation'
    BY <1>6 DEF IInv, TypeOK, WorkerOK, Tick, run
  <2>2. published'.combined = {} /\ published'.tests = {}
    BY <1>6 DEF Tick, Nothing
  <2>. QED BY <2>1, <2>2, <1>1, <1>3, <1>4 DEF IInv, TypeOK, FreshInv, CoverageOfThisRun
<1>. QED BY <1>5, <1>6

LEMMA SignalStep ==
  ASSUME IInv, Signal
  PROVE  IInv'
<1>1. RunsOK' /\ FilesInv' /\ TrackerOK'
  BY DEF IInv, TypeOK, RunsOK, FilesInv, TrackerOK, Signal, run
<1>2. WorkerOK' /\ FreshInv'
  <2>1. CASE worker' = Resting
    BY <2>1, RestingIsFresh DEF IInv, TypeOK, Signal
  <2>2. CASE worker' = worker
    BY <2>2 DEF IInv, TypeOK, WorkerOK, FreshInv, Since, Signal, run
  <2>. QED BY <2>1, <2>2 DEF Signal
<1>3. CoverageOfThisRun'
  BY DEF IInv, CoverageOfThisRun, Signal, run
<1>. QED BY <1>1, <1>2, <1>3 DEF IInv, TypeOK

-----------------------------------------------------------------------------
(* The worker: what it reads are files since base, and it publishes        *)
(* nothing else while it is fresh.                                         *)

LEMMA WorkerReadsStep ==
  ASSUME IInv, WorkerWakes \/ WorkerTakes \/ WorkerCombines \/ WorkerGivesUp \/ WorkerReadsTests
  PROVE  IInv'
<1>1. RunsOK' /\ FilesInv'
  BY DEF IInv, TypeOK, RunsOK, FilesInv, run,
         WorkerWakes, WorkerTakes, WorkerCombines, WorkerGivesUp, WorkerReadsTests
<1>2. CoverageOfThisRun' /\ guid' = guid /\ base' = base /\ lastRun' = lastRun /\ generation' = generation
  BY DEF IInv, CoverageOfThisRun, run,
         WorkerWakes, WorkerTakes, WorkerCombines, WorkerGivesUp, WorkerReadsTests
<1>3. TrackerOK'
  BY DEF IInv, TypeOK, TrackerOK, None,
         WorkerWakes, WorkerTakes, WorkerCombines, WorkerGivesUp, WorkerReadsTests
<1>. SUFFICES WorkerOK' /\ FreshInv'
  BY <1>1, <1>2, <1>3 DEF IInv, TypeOK
<1>4. CASE WorkerWakes
  <2>1. worker' = [worker EXCEPT !.at = "take"]
    BY <1>4 DEF WorkerWakes
  <2>. QED BY <1>2, <2>1 DEF IInv, TypeOK, WorkerOK, FreshInv, Since
<1>5. CASE WorkerTakes
  <2>1. CASE pending = None
    BY <1>2, <1>5, <2>1, RestingIsFresh DEF IInv, TypeOK, WorkerTakes
  <2>2. CASE pending # None
    <3>1. worker' = [at |-> "combine", set |-> pending, generation |-> generation,
                     combined |-> {}, tests |-> {}]
      BY <1>5, <2>2 DEF WorkerTakes, Resting
    <3>2. worker'.generation = generation /\ worker'.combined = {} /\ worker'.tests = {}
      BY <3>1
    <3>3. WorkerOK'
      BY <1>2, <3>1, <3>2 DEF IInv, TypeOK, WorkerOK, TrackerOK
    <3>. QED BY <3>2, <3>3 DEF FreshInv, Since
  <2>. QED BY <2>1, <2>2
<1>6. CASE WorkerCombines
  <2>1. worker' = [worker EXCEPT !.at = "tests", !.combined = Files]
    BY <1>6 DEF WorkerCombines
  <2>2. Files \in SUBSET FilePairs /\ Since(Files)
    BY FilesAreSince DEF IInv
  <2>3. WorkerOK'
    BY <1>2, <2>1, <2>2 DEF IInv, TypeOK, WorkerOK
  <2>4. /\ worker'.combined = Files /\ worker'.tests = worker.tests
        /\ worker'.generation = worker.generation
    BY <2>1 DEF IInv, TypeOK, WorkerOK
  <2>. QED BY <1>2, <2>2, <2>3, <2>4 DEF IInv, FreshInv, Since
<1>7. CASE WorkerGivesUp
  BY <1>2, <1>7, RestingIsFresh DEF IInv, TypeOK, WorkerGivesUp
<1>8. CASE WorkerReadsTests
  <2>1. PICK read \in SUBSET Files : worker' = [worker EXCEPT !.at = "publish", !.tests = read]
    BY <1>8 DEF WorkerReadsTests
  <2>2. read \in SUBSET FilePairs /\ Since(read)
    BY <2>1, FilesAreSince DEF IInv, Since
  <2>3. WorkerOK'
    BY <1>2, <2>1, <2>2 DEF IInv, TypeOK, WorkerOK
  <2>4. /\ worker'.combined = worker.combined /\ worker'.tests = read
        /\ worker'.generation = worker.generation
    BY <2>1 DEF IInv, TypeOK, WorkerOK
  <2>. QED BY <1>2, <2>2, <2>3, <2>4 DEF IInv, FreshInv, Since
<1>. QED BY <1>4, <1>5, <1>6, <1>7, <1>8

LEMMA WorkerPublishesStep ==
  ASSUME IInv, WorkerPublishes
  PROVE  IInv'
<1>1. /\ RunsOK' /\ FilesInv'
      /\ guid' = guid /\ base' = base /\ lastRun' = lastRun /\ generation' = generation
  BY DEF IInv, TypeOK, RunsOK, FilesInv, WorkerPublishes, run
<1>2. WorkerOK' /\ FreshInv'
  BY RestingIsFresh DEF IInv, TypeOK, WorkerPublishes
<1>3. CASE ~StillFresh(worker.generation)
  <2>1. published' = published
    BY <1>3 DEF WorkerPublishes
  <2>. QED BY <2>1, <1>1, <1>2 DEF IInv, TypeOK, TrackerOK, CoverageOfThisRun, WorkerPublishes
<1>4. CASE StillFresh(worker.generation)
  <2>1. /\ published'.combined = worker.combined
        /\ published'.tests = IF worker.tests # {} THEN worker.tests ELSE published.tests
        /\ published' = [combined |-> worker.combined,
                         tests    |-> IF worker.tests # {} THEN worker.tests ELSE published.tests,
                         history  |-> published.history \/ worker.combined # {}]
    BY <1>4 DEF WorkerPublishes
  <2>2. TrackerOK'
    BY <2>1 DEF IInv, TypeOK, WorkerOK, TrackerOK, WorkerPublishes
  <2>3. CoverageOfThisRun'
    BY <2>1, <1>1, <1>4 DEF IInv, FreshInv, Since, CoverageOfThisRun, StillFresh
  <2>. QED BY <1>1, <1>2, <2>2, <2>3 DEF IInv, TypeOK
<1>. QED BY <1>3, <1>4

-----------------------------------------------------------------------------
LEMMA NextIInv == IInv /\ [Next]_vars => IInv'
<1>. SUFFICES ASSUME IInv, [Next]_vars PROVE IInv'
  OBVIOUS
<1>1. ASSUME NEW resume \in BOOLEAN, StartRun(resume) PROVE IInv'
  BY <1>1, StartRunStep
<1>2. CASE Adopt
  BY <1>2, AdoptStep
<1>3. ASSUME NEW t \in Tests, RemoveOldFile(t) \/ MoveFile(t) \/ Report(t) \/ Kill(t) PROVE IInv'
  BY <1>3, ProcessStep
<1>4. CASE Tick
  BY <1>4, TickStep
<1>5. CASE Signal
  BY <1>5, SignalStep
<1>6. CASE Worker
  BY <1>6, WorkerReadsStep, WorkerPublishesStep DEF Worker
<1>7. CASE UNCHANGED vars
  BY <1>7 DEF vars, IInv, TypeOK, RunsOK, WorkerOK, TrackerOK, FilesInv, FreshInv, Since, CoverageOfThisRun
<1>. QED BY <1>1, <1>2, <1>3, <1>4, <1>5, <1>6, <1>7 DEF Next

(* Whatever the worker is computing when a run is started or adopted: what *)
(* coverage_tracker.py publishes for a run is of its own files and of      *)
(* those it has resumed from, never of files its preparation has removed.  *)
THEOREM ShownCoverageIsOfThisRun == Spec => []CoverageOfThisRun
<1>1. IInv => CoverageOfThisRun
  BY DEF IInv
<1>. QED BY InitIInv, NextIInv, <1>1, PTL DEF Spec
=============================================================================
