----------------------------- MODULE TestProcess -----------------------------
(* One test's process and everything it leaves behind: the test process     *)
(* with its monitor and the children its test starts, the worker thread     *)
(* that polls it and remembers its descendants, the tree kill of a stopped  *)
(* test, and the reaping of a finished one's orphans by (pid, create time). *)
(* The operating system reuses pids, for strangers too.                     *)
EXTENDS Integers, FiniteSets

CONSTANTS
  Pids,        \* what the operating system gives to all but the test process
  MaxBirths    \* bound: processes started

VARIABLES
  test,      \* where the test process stands
  monitor,   \* its ProcessMonitor: [pid, born]; born 0 before it is started
  asked,     \* the monitor's _stop_event
  record,    \* the test's latest record in the database
  table,     \* the operating system's processes: what each pid is
  births,    \* their create times
  stop,      \* _stop_event or _force_stop_current_event
  watcher,    \* where _run_single_test stands
  snapshot,  \* descendant_snapshot
  targets,   \* the processes a kill or a reaping is about
  seen,      \* history: descendants a poll has listed
  reaped,    \* history: the worker has reaped
  hit        \* history: the kinds of processes that were signalled

vars == <<test, monitor, asked, record, table, births, stop, watcher, snapshot, targets, seen, reaped, hit>>
testVars   == <<test, monitor, asked, record>>
osVars     == <<table, births>>
watcherVars == <<watcher, snapshot, targets, seen, reaped, hit>>

-----------------------------------------------------------------------------
Free == [kind |-> "free", born |-> 0, parent |-> 0]
Root == -1      \* the parent of what the test process itself starts

LivePids == {p \in Pids : table[p].kind # "free"}
IsAlive(h) == h[1] \in Pids /\ table[h[1]].born = h[2]
TestRuns == test \notin {"absent", "zombie", "gone"}

(* psutil finds descendants by their parents: what an ancestor left behind  *)
(* when it died has no parent here any more.                                *)
ChildrenOf(born) == {p \in LivePids : table[p].parent = born}

(* Themselves and their descendants: the least set of processes that holds  *)
(* these and the children of its members.                                   *)
Below(generation) ==
  {p \in LivePids : \A S \in SUBSET LivePids :
     (generation \subseteq S /\ \A q \in S : ChildrenOf(table[q].born) \subseteq S) => p \in S}

Handles(ps) == {<<p, table[p].born>> : p \in ps}
Descendants == IF TestRuns THEN Handles(Below(ChildrenOf(Root))) ELSE {}

(* Processes end: what they started lives on without them.                  *)
Without(dead) ==
  [p \in Pids |->
     IF p \in dead THEN Free
     ELSE IF table[p].parent \in {table[q].born : q \in dead} THEN [table[p] EXCEPT !.parent = 0]
     ELSE table[p]]

(* So do the test process's own children when it ends.                      *)
WithoutTest(dead) ==
  [p \in Pids |-> IF Without(dead)[p].parent = Root THEN [Without(dead)[p] EXCEPT !.parent = 0]
                  ELSE Without(dead)[p]]

Born(kind, parent, p) ==
  /\ births < MaxBirths /\ p \in Pids \ LivePids
  /\ births' = births + 1
  /\ table' = [table EXCEPT ![p] = [kind |-> kind, born |-> births + 1, parent |-> parent]]

Init ==
  /\ test = "absent" /\ monitor = <<0, 0>> /\ asked = FALSE /\ record = "QUEUED"
  /\ table = [p \in Pids |-> Free] /\ births = 0
  /\ stop = FALSE
  /\ watcher = "start" /\ snapshot = {} /\ targets = {} /\ seen = {} /\ reaped = FALSE /\ hit = {}

-----------------------------------------------------------------------------
(* The test process: PytestProcess.run.                                     *)

StartMonitor ==
  /\ test = "started"
  /\ \E p \in Pids : Born("monitor", Root, p) /\ monitor' = <<p, births + 1>>
  /\ test' = "monitored"
  /\ UNCHANGED <<asked, record, stop, watcherVars>>

RecordRunning ==
  /\ test = "monitored" /\ test' = "pytest" /\ record' = "RUNNING"
  /\ UNCHANGED <<monitor, asked, osVars, stop, watcherVars>>

(* pytest.main returns, or raises and is an internal error, and the         *)
(* coverage file is moved into its place.                                   *)
PytestReturns ==
  /\ test = "pytest" /\ test' = "returned"
  /\ UNCHANGED <<monitor, asked, record, osVars, stop, watcherVars>>

RequestMonitorStop ==
  /\ test = "returned" /\ test' = "drain" /\ asked' = TRUE
  /\ UNCHANGED <<monitor, record, osVars, stop, watcherVars>>

(* A slip: the queue is drained for as long as the monitor is alive.        *)
DrainsWhileAlive == ~ IsAlive(monitor)

(* The queue is drained until its producer has exited, or the deadline.     *)
DrainOver == TRUE

DrainMonitor ==
  /\ test = "drain" /\ DrainOver /\ test' = "drained"
  /\ UNCHANGED <<monitor, asked, record, osVars, stop, watcherVars>>

(* A monitor that is still there after join(5.0) is killed.                 *)
EndMonitor ==
  /\ test = "drained" /\ test' = "record"
  /\ table' = IF IsAlive(monitor) THEN Without({monitor[1]}) ELSE table
  /\ UNCHANGED <<monitor, asked, record, births, stop, watcherVars>>

RecordResult ==
  /\ test = "record" /\ test' = "exit" /\ record' = "RESULT"
  /\ UNCHANGED <<monitor, asked, osVars, stop, watcherVars>>

(* An error that is not caught ends run(), for instance in the database, in *)
(* opening the live output or in moving the coverage file.                  *)
RunRaises ==
  /\ test \in {"monitored", "pytest", "record"} /\ test' = "exit"
  /\ UNCHANGED <<monitor, asked, record, osVars, stop, watcherVars>>

(* The interpreter's exit joins children that are not daemons: the monitor. *)
Exit ==
  /\ test = "exit" /\ ~ IsAlive(monitor)
  /\ test' = "zombie" /\ table' = WithoutTest({})
  /\ UNCHANGED <<monitor, asked, record, births, stop, watcherVars>>

(* It dies where it stands: os._exit, a segmentation fault, the OOM killer. *)
Crash ==
  /\ TestRuns /\ test' = "zombie" /\ table' = WithoutTest({})
  /\ UNCHANGED <<monitor, asked, record, births, stop, watcherVars>>

TestStep ==
  \/ StartMonitor \/ RecordRunning \/ PytestReturns \/ RequestMonitorStop
  \/ DrainMonitor \/ EndMonitor \/ RecordResult \/ Exit

-----------------------------------------------------------------------------
(* The other processes.                                                     *)

(* The test starts a child, and so does the child.                          *)
Fork ==
  /\ \E parent \in (IF test = "pytest" THEN {Root} ELSE {})
                     \cup {table[q].born : q \in {r \in Pids : table[r].kind = "child"}} :
       \E p \in Pids : Born("child", parent, p)
  /\ UNCHANGED <<testVars, stop, watcherVars>>

(* A stranger gets a pid that was used before.                              *)
StartStranger ==
  /\ \E p \in {h[1] : h \in seen} : Born("stranger", 0, p)
  /\ UNCHANGED <<testVars, stop, watcherVars>>

EndChild ==
  /\ \E p \in Pids : table[p].kind = "child" /\ table' = Without({p})
  /\ UNCHANGED <<testVars, births, stop, watcherVars>>

(* The monitor ends when it is asked to and is not stuck in a reading; that *)
(* the process it watches has gone does not end it.                         *)
MonitorEnds ==
  /\ asked /\ IsAlive(monitor) /\ table' = Without({monitor[1]})
  /\ UNCHANGED <<testVars, births, stop, watcherVars>>

RequestStop ==
  /\ ~ stop /\ watcher # "over" /\ stop' = TRUE
  /\ UNCHANGED <<testVars, osVars, watcherVars>>

-----------------------------------------------------------------------------
(* The worker: _run_single_test.                                            *)

StartProcess ==
  /\ watcher = "start" /\ watcher' = "poll" /\ test' = "started"
  /\ UNCHANGED <<monitor, asked, record, osVars, stop, snapshot, targets, seen, reaped, hit>>

(* is_alive collects the process, and then there is nothing to stop.        *)
PollEnded ==
  /\ watcher = "poll" /\ test = "zombie" /\ test' = "gone" /\ watcher' = "finally"
  /\ UNCHANGED <<monitor, asked, record, osVars, stop, snapshot, targets, seen, reaped, hit>>

PollStop ==
  /\ watcher = "poll" /\ TestRuns /\ stop /\ watcher' = "enumerate"
  /\ UNCHANGED <<testVars, osVars, stop, snapshot, targets, seen, reaped, hit>>

PollOn ==
  /\ watcher = "poll" /\ TestRuns /\ ~ stop /\ watcher' = "snapshot"
  /\ UNCHANGED <<testVars, osVars, stop, snapshot, targets, seen, reaped, hit>>

(* A slip: the snapshot is the last one taken.                              *)
LastSnapshot == Descendants

(* _refresh_descendant_snapshot: it accumulates.                            *)
Refreshed == snapshot \cup Descendants

RefreshSnapshot ==
  /\ watcher = "snapshot" /\ watcher' = "poll"
  /\ snapshot' = Refreshed /\ seen' = seen \cup Descendants
  /\ UNCHANGED <<testVars, osVars, stop, targets, reaped, hit>>

(* A signal takes effect on the processes the handles are for, if they live *)
(* (psutil refuses a handle whose pid was reused); spared ones ignore it.   *)
Signalled(handles) == {p \in LivePids : <<p, table[p].born>> \in handles}
Kinds(handles) == {table[p].kind : p \in Signalled(handles)}

(* terminate_process_tree.                                                  *)
EnumerateTree ==
  /\ watcher = "enumerate" /\ watcher' = "terminate"
  /\ targets' = Descendants
  /\ UNCHANGED <<testVars, osVars, stop, snapshot, seen, reaped, hit>>

(* SIGTERM, to the children first; the test may have a handler for it.      *)
TerminateTree ==
  /\ watcher = "terminate" /\ watcher' = "rescan"
  /\ \E spared \in SUBSET Signalled(targets), testSpared \in BOOLEAN :
       LET dead == Signalled(targets) \ spared
       IN  IF TestRuns /\ ~ testSpared
           THEN test' = "zombie" /\ table' = WithoutTest(dead)
           ELSE test' = test /\ table' = Without(dead)
  /\ hit' = hit \cup Kinds(targets)
  /\ UNCHANGED <<monitor, asked, record, births, stop, snapshot, targets, seen, reaped>>

(* Those that are left, and those that are new.                             *)
RescanTree ==
  /\ watcher = "rescan" /\ watcher' = "killParent"
  /\ targets' = Handles(Signalled(targets)) \cup Descendants
  /\ UNCHANGED <<testVars, osVars, stop, snapshot, seen, reaped, hit>>

KillParent ==
  /\ watcher = "killParent" /\ watcher' = "kill"
  /\ IF TestRuns THEN test' = "zombie" /\ table' = WithoutTest({}) ELSE UNCHANGED <<test, table>>
  /\ UNCHANGED <<monitor, asked, record, births, stop, snapshot, targets, seen, reaped, hit>>

KillSurvivors ==
  /\ watcher = "kill" /\ watcher' = "record"
  /\ table' = Without(Signalled(targets)) /\ hit' = hit \cup Kinds(targets)
  /\ UNCHANGED <<testVars, births, stop, snapshot, targets, seen, reaped>>

(* _terminate_process: join, and the record, whatever there was before.     *)
RecordTerminated ==
  /\ watcher = "record" /\ watcher' = "finally"
  /\ test' = "gone" /\ record' = "TERMINATED"
  /\ UNCHANGED <<monitor, asked, osVars, stop, snapshot, targets, seen, reaped, hit>>

(* A slip: what has the pid is taken for what had it.                       *)
HasPid(h) == table[h[1]].kind # "free"

(* The create time must match.                                              *)
SameProcess(h) == IsAlive(h)

(* The finally clause: nothing is reaped once a stop was asked for.          *)
SkipReaping ==
  /\ watcher = "finally" /\ stop /\ watcher' = "over"
  /\ UNCHANGED <<testVars, osVars, stop, snapshot, targets, seen, reaped, hit>>

(* reap_pids.                                                               *)
ResolveSnapshot ==
  /\ watcher = "finally" /\ ~ stop /\ watcher' = "reap"
  /\ targets' = Handles({h[1] : h \in {g \in snapshot : SameProcess(g)}})
  /\ UNCHANGED <<testVars, osVars, stop, snapshot, seen, reaped, hit>>

TerminateOrphans ==
  /\ watcher = "reap" /\ watcher' = "killOrphans"
  /\ \E spared \in SUBSET Signalled(targets) : table' = Without(Signalled(targets) \ spared)
  /\ hit' = hit \cup Kinds(targets)
  /\ UNCHANGED <<testVars, births, stop, snapshot, targets, seen, reaped>>

KillOrphans ==
  /\ watcher = "killOrphans" /\ watcher' = "over"
  /\ table' = Without(Signalled(targets)) /\ hit' = hit \cup Kinds(targets) /\ reaped' = TRUE
  /\ UNCHANGED <<testVars, births, stop, snapshot, targets, seen>>

WorkerStep ==
  \/ StartProcess \/ PollEnded \/ PollStop \/ PollOn \/ RefreshSnapshot
  \/ EnumerateTree \/ TerminateTree \/ RescanTree \/ KillParent \/ KillSurvivors \/ RecordTerminated
  \/ SkipReaping \/ ResolveSnapshot \/ TerminateOrphans \/ KillOrphans

Next ==
  \/ TestStep \/ RunRaises \/ Crash
  \/ Fork \/ StartStranger \/ EndChild \/ MonitorEnds
  \/ RequestStop
  \/ WorkerStep

(* The test process and the worker are scheduled; its pytest, its children  *)
(* and its monitor owe nothing.                                             *)
Fairness == WF_vars(TestStep /\ test # "pytest") /\ WF_vars(WorkerStep)

Spec == Init /\ [][Next]_vars /\ Fairness

-----------------------------------------------------------------------------
(* Whatever pids are reused while a test runs and is cleaned up after, no   *)
(* process that is not the test's is ever signalled.                        *)
NoForeignSignalled == "stranger" \notin hit

(* When a test that nobody stopped is over, no descendant that some poll    *)
(* saw is left, however much later its parents had died.                    *)
SeenOrphansReaped == reaped => \A h \in seen : ~ IsAlive(h)

(* Once pytest has returned, a monitor that hangs cannot keep the result    *)
(* from being recorded: the process gets there, or it dies or is killed.    *)
ResultDespiteMonitor == test = "returned" ~> \/ record = "RESULT" \/ ~ TestRuns \/ test = "exit"

(* docs/pytest-fly-liveness-recovery-spec.md, Part A: "when a test process  *)
(* exits, guarantee none of its descendants survive - regardless of how the *)
(* test ended."                                                             *)
NoDescendantOutlivesTest == watcher = "over" => \A p \in Pids : table[p].kind \in {"free", "stranger"}
=============================================================================
