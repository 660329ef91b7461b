--------------------------- MODULE CoverageTracker ---------------------------
(* The coverage tracker: every tick submits the set of completed tests if   *)
(* it has changed, a background thread reads the coverage files of the      *)
(* newest set, and the next tick shows what was last published.  Meanwhile  *)
(* test processes go on moving their files into place, and a new run clears *)
(* or keeps the files before the GUI thread hears of it.                    *)
EXTENDS Integers, FiniteSets

CONSTANTS
  Tests,
  MaxRuns    \* bound: run identifiers

ASSUME TrackerConstantsOK == IsFiniteSet(Tests) /\ MaxRuns \in Nat

None == {}   \* nothing pending

VARIABLES
  guid,        \* the newest run
  base,        \* history: the oldest run whose files it may keep
  stage,       \* where each of its tests is
  completed,   \* of every run, the tests whose latest state is PASS or FAIL
  files,       \* the coverage directory: the run each test's file is from, 0 for none
  shown,       \* control.run_guid
  gui,         \* the GUI thread: "free", or between submitting and signalling
  lastRun,     \* _last_run_guid
  generation,
  submitted,
  pending,
  signalled,   \* _work_available
  worker,      \* the thread: its next step and what it has taken and read
  published,   \* files that went into the total and into the tests' shares; is there a history?
  failed       \* history: the last calculation could not read its files

vars == <<guid, base, stage, completed, files, shown, gui, lastRun, generation,
          submitted, pending, signalled, worker, published, failed>>
run == <<guid, base, stage, completed, files, shown>>

-----------------------------------------------------------------------------
Nothing == [combined |-> {}, tests |-> {}, history |-> FALSE]
Resting == [at |-> "wait", set |-> None, generation |-> 0, combined |-> {}, tests |-> {}]

Files == {<<t, files[t]>> : t \in {u \in Tests : files[u] # 0}}

Init ==
  /\ guid = 0 /\ base = 0 /\ shown = 0
  /\ stage = [t \in Tests |-> "over"] /\ completed = [r \in 0..MaxRuns |-> {}] /\ files = [t \in Tests |-> 0]
  /\ gui = "free" /\ lastRun = 0 /\ generation = 0
  /\ submitted = {} /\ pending = None /\ signalled = FALSE
  /\ worker = [Resting EXCEPT !.at = "unborn"]
  /\ published = Nothing /\ failed = FALSE

-----------------------------------------------------------------------------
(* The runs.                                                                *)

(* A run is prepared and started.  RESTART removes the coverage directory;  *)
(* RESUME keeps it, and the passed tests with it.                           *)
StartRun(resume) ==
  /\ guid < MaxRuns /\ shown = guid /\ \A t \in Tests : stage[t] = "over"
  /\ guid' = guid + 1
  /\ \E passed \in IF resume THEN SUBSET completed[guid] ELSE {{}} :
       /\ completed' = [completed EXCEPT ![guid + 1] = passed]
       /\ stage' = [t \in Tests |-> IF t \in passed THEN "over" ELSE "running"]
  /\ base'  = IF resume THEN base ELSE guid + 1
  /\ files' = IF resume THEN files ELSE [t \in Tests |-> 0]
  /\ UNCHANGED <<shown, gui, lastRun, generation, submitted, pending, signalled, worker, published, failed>>

Adopt ==
  /\ gui = "free" /\ shown # guid /\ shown' = guid
  /\ UNCHANGED <<guid, base, stage, completed, files, gui, lastRun, generation, submitted, pending,
                 signalled, worker, published, failed>>

(* A test process has saved its coverage: the file of an earlier run is     *)
(* removed, and the complete new one is moved into its place.               *)
RemoveOldFile(t) ==
  /\ stage[t] = "running" /\ stage' = [stage EXCEPT ![t] = "saving"]
  /\ files' = [files EXCEPT ![t] = 0]
  /\ UNCHANGED <<guid, base, completed, shown, gui, lastRun, generation, submitted, pending, signalled,
                 worker, published, failed>>

MoveFile(t) ==
  /\ stage[t] = "saving" /\ stage' = [stage EXCEPT ![t] = "saved"]
  /\ files' = [files EXCEPT ![t] = guid]
  /\ UNCHANGED <<guid, base, completed, shown, gui, lastRun, generation, submitted, pending, signalled,
                 worker, published, failed>>

(* Only then is its result recorded.                                        *)
Report(t) ==
  /\ stage[t] = "saved" /\ stage' = [stage EXCEPT ![t] = "over"]
  /\ completed' = [completed EXCEPT ![guid] = @ \cup {t}]
  /\ UNCHANGED <<guid, base, files, shown, gui, lastRun, generation, submitted, pending, signalled,
                 worker, published, failed>>

(* It is killed, at any point before.                                       *)
Kill(t) ==
  /\ stage[t] \in {"running", "saving", "saved"} /\ stage' = [stage EXCEPT ![t] = "over"]
  /\ UNCHANGED <<guid, base, completed, files, shown, gui, lastRun, generation, submitted, pending,
                 signalled, worker, published, failed>>

-----------------------------------------------------------------------------
(* The tick.                                                                *)

(* A slip: what was submitted for the run before is not forgotten.           *)
SubmittedOfOldRun(newRun) == submitted

(* handle_new_run.                                                          *)
SubmittedSoFar(newRun) == IF newRun THEN {} ELSE submitted

(* Without a run of its own the tick shows the newest one.                  *)
CompletedShown == completed[IF shown = 0 THEN guid ELSE shown]

(* handle_new_run and the part of update under the lock.                    *)
Tick ==
  LET newRun == shown # lastRun
      before == SubmittedSoFar(newRun)
      submit == CompletedShown # {} /\ CompletedShown # before
  IN  /\ gui = "free"
      /\ lastRun' = shown
      /\ generation' = IF newRun THEN generation + 1 ELSE generation
      /\ published'  = IF newRun THEN Nothing ELSE published
      /\ submitted'  = IF submit THEN CompletedShown ELSE before
      /\ pending'    = IF submit THEN CompletedShown ELSE IF newRun THEN None ELSE pending
      /\ gui'        = IF submit THEN "signal" ELSE "free"
      /\ UNCHANGED <<run, signalled, worker, failed>>

(* _ensure_worker, and the event is set.                                    *)
Signal ==
  /\ gui = "signal" /\ gui' = "free" /\ signalled' = TRUE
  /\ worker' = IF worker.at = "unborn" THEN Resting ELSE worker
  /\ UNCHANGED <<run, lastRun, generation, submitted, pending, published, failed>>

-----------------------------------------------------------------------------
(* The worker.                                                              *)

(* The event is taken, and only then the set that is pending.               *)
WorkerWakes ==
  /\ worker.at = "wait" /\ signalled /\ signalled' = FALSE
  /\ worker' = [worker EXCEPT !.at = "take"]
  /\ UNCHANGED <<run, gui, lastRun, generation, submitted, pending, published, failed>>

WorkerTakes ==
  /\ worker.at = "take"
  /\ worker' = IF pending = None THEN Resting
               ELSE [Resting EXCEPT !.at = "combine", !.set = pending, !.generation = generation]
  /\ pending' = None
  /\ UNCHANGED <<run, gui, lastRun, generation, submitted, signalled, published, failed>>

(* calculate_coverage: all files there are.                                 *)
WorkerCombines ==
  /\ worker.at = "combine"
  /\ worker' = [worker EXCEPT !.at = "tests", !.combined = Files]
  /\ failed' = FALSE
  /\ UNCHANGED <<run, gui, lastRun, generation, submitted, pending, signalled, published>>

(* It raises one of COVERAGE_READ_ERRORS, say because a file has gone since *)
(* the directory was listed: nothing is published.                          *)
WorkerGivesUp ==
  /\ worker.at = "combine" /\ \E t \in Tests : stage[t] = "saving"
  /\ worker' = Resting /\ failed' = TRUE
  /\ UNCHANGED <<run, gui, lastRun, generation, submitted, pending, signalled, published>>

WorkerReadsTests ==
  /\ worker.at = "tests"
  /\ worker' = [worker EXCEPT !.at = "publish",
                  !.tests = IF worker.combined = {} THEN {}
                            ELSE {f \in Files : f[1] \in worker.set}]
  /\ UNCHANGED <<run, gui, lastRun, generation, submitted, pending, signalled, published, failed>>

(* A slip: results are published whatever has happened meanwhile.           *)
AlwaysFresh(g) == TRUE

(* No other run was started while computing.                                *)
StillFresh(g) == g = generation

WorkerPublishes ==
  /\ worker.at = "publish" /\ worker' = Resting
  /\ published' = IF StillFresh(worker.generation)
                  THEN [combined |-> worker.combined,
                        tests    |-> IF worker.tests # {} THEN worker.tests ELSE published.tests,
                        history  |-> published.history \/ worker.combined # {}]
                  ELSE published
  /\ UNCHANGED <<run, gui, lastRun, generation, submitted, pending, signalled, failed>>

Worker == WorkerWakes \/ WorkerTakes \/ WorkerCombines \/ WorkerGivesUp \/ WorkerReadsTests \/ WorkerPublishes

Next ==
  \/ \E resume \in BOOLEAN : StartRun(resume)
  \/ Adopt
  \/ \E t \in Tests : RemoveOldFile(t) \/ MoveFile(t) \/ Report(t) \/ Kill(t)
  \/ Tick \/ Signal
  \/ Worker

(* The refresh timer fires again and again, signals are delivered, and the  *)
(* thread is scheduled.                                                     *)
Spec == Init /\ [][Next]_vars /\ WF_vars(Tick) /\ WF_vars(Signal) /\ WF_vars(Adopt) /\ WF_vars(Worker)

-----------------------------------------------------------------------------
(* What is shown for a run was read from its own files and those it has     *)
(* resumed from, never from files that its preparation removed, whatever    *)
(* the worker was computing when the run was started or adopted.            *)
CoverageOfThisRun ==
  lastRun = guid => \A f \in published.combined \cup published.tests : f[2] >= base

(* Once a run is over the coverage that is shown comes to be that of all    *)
(* its completed tests, and the total contains theirs - unless the files of *)
(* the last set could not be read: nobody tries again.                      *)
Over == shown = guid /\ completed[guid] # {} /\ \A t \in Tests : stage[t] = "over"

GaveUp ==
  failed /\ submitted = completed[guid] /\ pending = None /\ ~signalled /\ gui = "free" /\ worker.at = "wait"

CoverageCatchesUp ==
  Over ~> \/ ~Over
          \/ GaveUp
          \/ /\ published.history
             /\ \A t \in completed[guid] :
                   files[t] # 0 => <<t, files[t]>> \in published.tests \cap published.combined
=============================================================================
