---------------------------- MODULE TestDiscovery ----------------------------
(* Test discovery: a process collects the test modules in two passes and    *)
(* puts them on a queue, whose feeder thread writes to a pipe that holds    *)
(* only so much; the thread that prepares a run waits for the process to    *)
(* end, and only then takes them out.                                       *)
EXTENDS Integers, FiniteSets

CONSTANTS
  TestModules,
  Marked,         \* those with a test marked singleton
  PipeCapacity    \* tests that the pipe holds

VARIABLES
  finder,     \* the GetTests process
  collected,  \* pytest_tests: the modules found so far, with their kind
  buffered,   \* put on the queue and not yet in the pipe
  pipe,
  preparer,   \* the thread in _build_runner
  abort,      \* _run_prep_abort
  tests       \* scheduled_tests

vars == <<finder, collected, buffered, pipe, preparer, abort, tests>>

Scheduled == {<<m, m \in Marked>> : m \in TestModules}   \* each module and whether it runs alone

Init ==
  /\ finder = "firstPass" /\ collected = {} /\ buffered = {} /\ pipe = {}
  /\ preparer = "wait" /\ abort = FALSE /\ tests = {}

FinderOver == finder \in {"ended", "died"}

-----------------------------------------------------------------------------
(* GetTests.run.                                                            *)

(* Everything is collected, marked or not.                                  *)
FirstPass ==
  /\ finder = "firstPass" /\ finder' = "singletonPass"
  /\ collected' = {<<m, FALSE>> : m \in TestModules}
  /\ UNCHANGED <<buffered, pipe, preparer, abort, tests>>

(* A slip: a module that was found before keeps its kind.                   *)
KeepFirst(found) == collected \cup {f \in found : <<f[1], FALSE>> \notin collected}

(* A module with one marked test runs alone altogether.                     *)
Merged(found) == {f \in collected : <<f[1], TRUE>> \notin found} \cup found

SingletonPass ==
  /\ finder = "singletonPass" /\ finder' = "put"
  /\ collected' = Merged({<<m, TRUE>> : m \in Marked})
  /\ UNCHANGED <<buffered, pipe, preparer, abort, tests>>

PutAll ==
  /\ finder = "put" /\ finder' = "exit" /\ buffered' = collected
  /\ UNCHANGED <<collected, pipe, preparer, abort, tests>>

(* The queue's feeder thread, which blocks while the pipe is full.          *)
Feed ==
  /\ ~ FinderOver /\ Cardinality(pipe) < PipeCapacity
  /\ \E t \in buffered : buffered' = buffered \ {t} /\ pipe' = pipe \cup {t}
  /\ UNCHANGED <<finder, collected, preparer, abort, tests>>

(* The process ends when its feeder has written everything.                 *)
FinderEnds ==
  /\ finder = "exit" /\ buffered = {} /\ finder' = "ended"
  /\ UNCHANGED <<collected, buffered, pipe, preparer, abort, tests>>

(* Importing a test module may take the process down.                       *)
FinderDies ==
  /\ finder \in {"firstPass", "singletonPass"} /\ finder' = "died"
  /\ UNCHANGED <<collected, buffered, pipe, preparer, abort, tests>>

-----------------------------------------------------------------------------
(* ControlWindow._build_runner.                                             *)

(* The window is closed.                                                    *)
Abort ==
  /\ ~ abort /\ abort' = TRUE
  /\ UNCHANGED <<finder, collected, buffered, pipe, preparer, tests>>

AbortDiscovery ==
  /\ preparer = "wait" /\ abort /\ preparer' = "aborted"
  /\ finder' = IF FinderOver THEN finder ELSE "died"
  /\ UNCHANGED <<collected, buffered, pipe, abort, tests>>

(* A slip: the queue is read as soon as there is something in it.           *)
SomethingThere == pipe # {}

WaitOver == FinderOver

(* The wait is over, and get_tests takes what is in the pipe.               *)
TakeTests ==
  /\ preparer = "wait" /\ WaitOver /\ preparer' = "over"
  /\ tests' = pipe /\ pipe' = {}
  /\ UNCHANGED <<finder, collected, buffered, abort>>

Next ==
  \/ FirstPass \/ SingletonPass \/ PutAll \/ Feed \/ FinderEnds \/ FinderDies
  \/ Abort \/ AbortDiscovery \/ TakeTests

(* Both processes and the feeder thread are scheduled.                      *)
Spec ==
  /\ Init /\ [][Next]_vars
  /\ WF_vars(FirstPass \/ SingletonPass \/ PutAll \/ FinderEnds) /\ WF_vars(Feed)
  /\ WF_vars(AbortDiscovery \/ TakeTests)

-----------------------------------------------------------------------------
(* What a run is prepared with is every test module there is, and those     *)
(* with a singleton test run alone - unless collecting them took the        *)
(* process down, which nobody looks at.                                     *)
DiscoveryComplete == preparer = "over" => tests = Scheduled \/ finder = "died"

(* control_window.py, _prepare_run: "The finally guarantees the finished    *)
(* signal is emitted even if preparation raises, so the GUI always recovers *)
(* its controls instead of staying disabled."                               *)
ControlsRecover == <>(preparer # "wait")
=============================================================================
