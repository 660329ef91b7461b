---------------------------- MODULE ServicesProofs ----------------------------
(***************************************************************************)
(* Proofs about components of MCServices.tla: the processes of a test, for *)
(* every set of pids and any number of births; the resource guard, for any *)
(* pool, queue and number of cancellations; test discovery, for any suite  *)
(* and any pipe; the settings, for any values, paths and series of edits;  *)
(* and the list of ordering aspects, for any aspects and seed.             *)
(*                                                                         *)
(* Processes.  Only processes of the test are ever signalled, and when a   *)
(* test that nobody stopped has been reaped nothing that was seen is left. *)
(* Both rest on what a (pid, create time) pair is good for.  Create times  *)
(* only grow, so a pair that was taken from the table never comes to mean  *)
(* another process (TableAges), and what a walk from the test process      *)
(* finds is not a stranger (FoundIsOwn).  Neither NoForeignSignalled nor   *)
(* SeenOrphansReaped is inductive: the first needs to know it of every     *)
(* pair the worker keeps (HandleInv), the second that between resolving    *)
(* the snapshot and the last kill no living pair is missing from the       *)
(* targets (SeenInv).                                                      *)
(*                                                                         *)
(* The guard.  asks and hasty are only written when it fires, and the      *)
(* inductive invariant relates them to the latch and the count it fires    *)
(* on: the latch is set by the first stop and never cleared, not by a      *)
(* cancel either, and a count above zero means that the reading before was *)
(* low.                                                                    *)
(*                                                                         *)
(* Discovery.  That what is taken is everything follows from where the     *)
(* modules are at each step: once they were put, the buffer and the pipe   *)
(* together hold them all, whichever the feeder has written so far, and    *)
(* the process has not ended while the buffer holds one.                   *)
(*                                                                         *)
(* Settings.  A handler that runs has a list of steps to go, and the       *)
(* invariant says that whatever is not as it should be yet is settled by   *)
(* one of them: SkipInv for the mode that is forced, RestoredInv for       *)
(* Restore Defaults.  That a slot which returns early drops no step that   *)
(* is needed rests on the order of the steps (WellFormed).                 *)
(*                                                                         *)
(* Aspects.  The saved list is the checked rows from the top, or is about  *)
(* to be; rows that are built from a saved list give it back.              *)
(***************************************************************************)
EXTENDS MCServices, TLAPS, FiniteSetTheorems

-----------------------------------------------------------------------------
(* Side by side: a behaviour of the composition is one of each component,  *)
(* so what a component promises holds in the composition too.              *)
LEMMA ComponentsStep ==
  ASSUME [ServicesNext]_allVars
  PROVE  /\ [Next]_vars
         /\ [Throttles!Next]_(Throttles!vars)
         /\ [Discovery!Next]_(Discovery!vars)
         /\ [Config!Next]_(Config!vars)
         /\ [Ordering!Next]_(Ordering!vars)
<1>1. CASE ProcessStep
  BY <1>1 DEF ProcessStep, throttlesVars, discoveryVars, settingsVars, orderingVars,
              Throttles!vars, Discovery!vars, Config!vars, Ordering!vars
<1>2. CASE ThrottlesStep
  BY <1>2 DEF ThrottlesStep, discoveryVars, settingsVars, orderingVars,
              Discovery!vars, Config!vars, Ordering!vars
<1>3. CASE DiscoveryStep
  BY <1>3 DEF DiscoveryStep, throttlesVars, settingsVars, orderingVars,
              Throttles!vars, Config!vars, Ordering!vars
<1>4. CASE SettingsStep
  BY <1>4 DEF SettingsStep, throttlesVars, discoveryVars, orderingVars,
              Throttles!vars, Discovery!vars, Ordering!vars
<1>5. CASE OrderingStep
  BY <1>5 DEF OrderingStep, throttlesVars, discoveryVars, settingsVars,
              Throttles!vars, Discovery!vars, Config!vars
<1>6. CASE UNCHANGED allVars
  BY <1>6 DEF allVars, throttlesVars, discoveryVars, settingsVars, orderingVars,
              Throttles!vars, Discovery!vars, Config!vars, Ordering!vars
<1>. QED BY <1>1, <1>2, <1>3, <1>4, <1>5, <1>6 DEF ServicesNext

-----------------------------------------------------------------------------
(* The processes of a test                                                 *)

(* A process is free or has a create time; a stranger is nobody's child.   *)
TableInv ==
  /\ births \in Nat
  /\ table \in [Pids -> [kind : {"free", "monitor", "child", "stranger"}, born : Nat, parent : Int]]
  /\ \A p \in Pids :
       /\ table[p].born <= births
       /\ table[p].kind = "free" <=> table[p].born = 0
       /\ table[p].kind = "stranger" => table[p].parent = 0

(* A handle was taken from the table, and while its process lives that is  *)
(* one of the test's.                                                      *)
OwnHandles(handles) ==
  \A h \in handles : \E p \in Pids, b \in 1..births :
    h = <<p, b>> /\ (table[p].born = b => table[p].kind \in {"monitor", "child"})

HandleInv ==
  /\ OwnHandles(snapshot) /\ OwnHandles(targets)
  /\ hit \subseteq {"monitor", "child"}

(* The snapshot forgets nothing, the targets of a reaping are what is left *)
(* of it, and in the end that is nothing.                                  *)
SeenInv ==
  /\ seen = snapshot
  /\ watcher \in {"reap", "killOrphans"} => \A h \in seen : IsAlive(h) => h \in targets
  /\ reaped => watcher = "over" /\ \A h \in seen : ~ IsAlive(h)

IInv == TableInv /\ HandleInv /\ SeenInv

USE DEF vars, testVars, osVars, watcherVars

-----------------------------------------------------------------------------
(* What a step makes of the operating system's table                       *)

(* Create times only grow: a pid keeps its process, loses it, or has a new *)
(* one, younger than all before.                                           *)
TableAges ==
  /\ births' >= births
  /\ \A p \in Pids : \/ table'[p].born = table[p].born /\ table'[p].kind = table[p].kind
                     \/ table'[p].born = 0
                     \/ table'[p].born > births

(* The end of processes takes them, and the parents of their children, out *)
(* of the table.                                                           *)
LEMMA WithoutTable ==
  ASSUME TableInv, NEW dead, UNCHANGED births,
         table' = Without(dead) \/ table' = WithoutTest(dead)
  PROVE  /\ TableInv' /\ TableAges
         /\ \A p \in Pids : p \in dead => table'[p].born = 0
<1>. DEFINE Entry == [kind : {"free", "monitor", "child", "stranger"}, born : Nat, parent : Int]
            Left(p, e) == /\ e \in Entry
                          /\ p \in dead => e = Free
                          /\ p \notin dead => /\ e.kind = table[p].kind /\ e.born = table[p].born
                                             /\ e.parent \in {table[p].parent, 0}
<1>0. Free \in Entry /\ Free.kind = "free" /\ Free.born = 0 /\ Free.parent = 0
  BY DEF Free
<1>1. ASSUME NEW p \in Pids PROVE Left(p, table'[p])
  <2>1. table[p] \in Entry
    BY DEF TableInv
  <2>2. Left(p, Without(dead)[p])
    <3>. DEFINE gone == table[p].parent \in {table[q].born : q \in dead}
    <3>1. Without(dead)[p] = IF p \in dead THEN Free
                             ELSE IF gone THEN [table[p] EXCEPT !.parent = 0] ELSE table[p]
      BY DEF Without
    <3>. HIDE DEF gone
    <3>. QED
      BY <1>0, <2>1, <3>1
  <2>3. Left(p, WithoutTest(dead)[p])
    <3>1. WithoutTest(dead)[p] = IF Without(dead)[p].parent = Root
                                 THEN [Without(dead)[p] EXCEPT !.parent = 0] ELSE Without(dead)[p]
      BY DEF WithoutTest
    <3>. QED
      BY <1>0, <2>2, <3>1 DEF Root
  <2>. QED
    BY <2>2, <2>3
<1>2. \A p \in Pids :
        /\ table'[p] \in Entry
        /\ table'[p].born \in {0, table[p].born}
        /\ table'[p].kind = "free" <=> table'[p].born = 0
        /\ table'[p].born # 0 => table'[p].born = table[p].born /\ table'[p].kind = table[p].kind
        /\ table'[p].kind = "stranger" => table'[p].parent = 0
        /\ p \in dead => table'[p].born = 0
  BY <1>0, <1>1 DEF TableInv
<1>3. table' = [p \in Pids |-> table'[p]]
  BY DEF Without, WithoutTest
<1>. QED
  BY <1>2, <1>3 DEF TableInv, TableAges

(* A new process gets a free pid and a create time of its own.             *)
LEMMA BornTable ==
  ASSUME TableInv, NEW kind \in {"monitor", "child", "stranger"}, NEW parent \in Int,
         kind = "stranger" => parent = 0, NEW p, Born(kind, parent, p)
  PROVE  TableInv' /\ TableAges
  BY DEF Born, TableInv, TableAges, LivePids

(* A walk from the test process meets only what it or its descendants      *)
(* started: the processes that are no strangers are closed under it.       *)
LEMMA FoundIsOwn ==
  ASSUME TableInv
  PROVE  OwnHandles(Descendants)
<1>. DEFINE own == {p \in LivePids : table[p].kind # "stranger"}
<1>1. own \in SUBSET LivePids
  OBVIOUS
<1>2. ChildrenOf(Root) \subseteq own
  BY DEF ChildrenOf, Root, LivePids, TableInv
<1>3. ASSUME NEW q \in own PROVE ChildrenOf(table[q].born) \subseteq own
  BY DEF ChildrenOf, LivePids, TableInv
<1>4. Below(ChildrenOf(Root)) \subseteq own
  <2>. HIDE DEF own
  <2>. QED
    BY <1>1, <1>2, <1>3 DEF Below
<1>5. \A p \in own : p \in Pids /\ table[p].born \in 1..births
                    /\ table[p].kind \in {"monitor", "child"}
  BY DEF LivePids, TableInv
<1>. QED
  BY <1>4, <1>5 DEF Descendants, Handles, OwnHandles

(* Handles are for the same processes for ever.                            *)
LEMMA HandlesStay ==
  ASSUME TableInv, TableAges, TableInv', NEW handles, OwnHandles(handles)
  PROVE  /\ \A h \in handles : \E p \in Pids, b \in 1..births' :
              h = <<p, b>> /\ (table'[p].born = b => table'[p].kind \in {"monitor", "child"})
         /\ \A h \in handles : IsAlive(h)' => IsAlive(h)
<1>1. SUFFICES ASSUME NEW h \in handles
               PROVE  /\ \E p \in Pids, b \in 1..births' :
                           h = <<p, b>> /\ (table'[p].born = b => table'[p].kind \in {"monitor", "child"})
                      /\ IsAlive(h)' => IsAlive(h)
  OBVIOUS
<1>2. PICK p \in Pids, b \in 1..births :
        h = <<p, b>> /\ (table[p].born = b => table[p].kind \in {"monitor", "child"})
  BY DEF OwnHandles
<1>3. b \in 1..births' /\ b # 0 /\ b <= births
  BY <1>2 DEF TableInv, TableAges
<1>4. table'[p].born = b => table[p].born = b /\ table'[p].kind = table[p].kind
  BY <1>3 DEF TableInv, TableAges
<1>. QED
  BY <1>2, <1>3, <1>4 DEF IsAlive

(* What is signalled is the test's.                                        *)
LEMMA SignalledIsOwn ==
  ASSUME NEW handles, OwnHandles(handles)
  PROVE  Kinds(handles) \subseteq {"monitor", "child"}
  BY DEF Kinds, Signalled, OwnHandles

(* Every step only starts processes and ends some.                         *)
LEMMA StepTable ==
  ASSUME TableInv, [Next]_vars
  PROVE  TableInv' /\ TableAges
<1>1. CASE UNCHANGED osVars
  BY <1>1 DEF TableInv, TableAges
<1>2. CASE UNCHANGED births /\ \E dead : table' = Without(dead) \/ table' = WithoutTest(dead)
  BY <1>2, WithoutTable
<1>3. CASE StartMonitor
  BY <1>3, BornTable DEF StartMonitor, Root
<1>4. CASE Fork
  <2>1. \A q \in Pids : table[q].born \in Int
    BY DEF TableInv
  <2>. QED
    BY <1>4, <2>1, BornTable DEF Fork, Root
<1>5. CASE StartStranger
  BY <1>5, BornTable DEF StartStranger
<1>6. TestStep => StartMonitor \/ UNCHANGED osVars
                    \/ (UNCHANGED births /\ \E dead : table' = Without(dead) \/ table' = WithoutTest(dead))
  BY DEF TestStep, RecordRunning, PytestReturns, RequestMonitorStop, DrainMonitor, EndMonitor,
     RecordResult, Exit
<1>7. RunRaises \/ Crash \/ EndChild \/ MonitorEnds \/ RequestStop
        => UNCHANGED osVars
             \/ (UNCHANGED births /\ \E dead : table' = Without(dead) \/ table' = WithoutTest(dead))
  BY DEF RunRaises, Crash, EndChild, MonitorEnds, RequestStop
<1>8. WorkerStep
        => UNCHANGED osVars
             \/ (UNCHANGED births /\ \E dead : table' = Without(dead) \/ table' = WithoutTest(dead))
  BY DEF WorkerStep, StartProcess, PollEnded, PollStop, PollOn, RefreshSnapshot, EnumerateTree,
     TerminateTree, RescanTree, KillParent, KillSurvivors, RecordTerminated, SkipReaping,
     ResolveSnapshot, TerminateOrphans, KillOrphans
<1>. QED
  BY <1>1, <1>2, <1>3, <1>4, <1>5, <1>6, <1>7, <1>8 DEF Next

-----------------------------------------------------------------------------
(* What the worker keeps, and signals                                      *)

(* Its handles come from walks from the test process, or are handles it    *)
(* had already whose process still has the create time.                    *)
LEMMA StepHandles ==
  ASSUME TableInv, HandleInv, [Next]_vars
  PROVE  OwnHandles(snapshot') /\ OwnHandles(targets') /\ hit' \subseteq {"monitor", "child"}
<1>1. OwnHandles(Descendants)
  BY FoundIsOwn
<1>2. Kinds(targets) \subseteq {"monitor", "child"}
  BY SignalledIsOwn DEF HandleInv
<1>3. CASE UNCHANGED <<snapshot, targets, hit>>
  BY <1>3 DEF HandleInv
<1>4. CASE RefreshSnapshot
  BY <1>1, <1>4 DEF RefreshSnapshot, Refreshed, HandleInv, OwnHandles
<1>5. CASE EnumerateTree
  BY <1>1, <1>5 DEF EnumerateTree, HandleInv
<1>6. CASE RescanTree
  <2>1. Handles(Signalled(targets)) \subseteq targets
    BY DEF Handles, Signalled
  <2>. QED
    BY <1>1, <1>6, <2>1 DEF RescanTree, HandleInv, OwnHandles
<1>7. CASE ResolveSnapshot
  <2>1. Handles({h[1] : h \in {g \in snapshot : SameProcess(g)}}) \subseteq snapshot
    <3>1. SUFFICES ASSUME NEW g \in snapshot, SameProcess(g)
                   PROVE  <<g[1], table[g[1]].born>> \in snapshot
      BY DEF Handles
    <3>2. PICK p \in Pids, b \in 1..births : g = <<p, b>>
      BY DEF HandleInv, OwnHandles
    <3>. QED
      BY <3>1, <3>2 DEF SameProcess, IsAlive
  <2>. QED
    BY <1>7, <2>1 DEF ResolveSnapshot, HandleInv, OwnHandles
<1>8. CASE TerminateTree \/ KillSurvivors \/ TerminateOrphans \/ KillOrphans
  BY <1>2, <1>8 DEF TerminateTree, KillSurvivors, TerminateOrphans, KillOrphans, HandleInv
<1>9. TestStep \/ RunRaises \/ Crash \/ Fork \/ StartStranger \/ EndChild \/ MonitorEnds \/ RequestStop
        => UNCHANGED <<snapshot, targets, hit>>
  BY DEF TestStep, StartMonitor, RecordRunning, PytestReturns, RequestMonitorStop, DrainMonitor,
     EndMonitor, RecordResult, Exit, RunRaises, Crash, Fork, StartStranger, EndChild, MonitorEnds,
     RequestStop
<1>10. WorkerStep => \/ UNCHANGED <<snapshot, targets, hit>>
                     \/ RefreshSnapshot \/ EnumerateTree \/ RescanTree \/ ResolveSnapshot
                     \/ TerminateTree \/ KillSurvivors \/ TerminateOrphans \/ KillOrphans
  BY DEF WorkerStep, StartProcess, PollEnded, PollStop, PollOn, KillParent, RecordTerminated,
     SkipReaping
<1>. QED
  BY <1>3, <1>4, <1>5, <1>6, <1>7, <1>8, <1>9, <1>10 DEF Next

(* The handles a walk gives stand for processes that live now, so they are *)
(* the test's after the step, too.                                         *)
LEMMA NextHandleInv ==
  ASSUME TableInv, HandleInv, [Next]_vars
  PROVE  HandleInv'
<1>1. TableInv' /\ TableAges
  BY StepTable
<1>2. OwnHandles(snapshot') /\ OwnHandles(targets') /\ hit' \subseteq {"monitor", "child"}
  BY StepHandles
<1>. QED
  BY <1>1, <1>2, HandlesStay DEF HandleInv, OwnHandles

-----------------------------------------------------------------------------
(* Nothing that was seen is left                                           *)

(* The last kill of a reaping leaves no living handle of the snapshot.     *)
LEMMA NextSeenInv ==
  ASSUME IInv, [Next]_vars
  PROVE  SeenInv'
<1>0. TableInv /\ HandleInv /\ SeenInv /\ TableInv' /\ TableAges
  BY StepTable DEF IInv
<1>1. \A h \in seen : IsAlive(h)' => IsAlive(h)
  BY <1>0, HandlesStay DEF HandleInv, SeenInv
<1>2. CASE UNCHANGED <<seen, snapshot>> /\ watcher' \notin {"reap", "killOrphans"} /\ UNCHANGED reaped
           /\ (watcher = "over" => watcher' = "over")
  BY <1>0, <1>1, <1>2 DEF SeenInv
<1>3. CASE UNCHANGED watcherVars
  <2>1. \A h : IsAlive(h)' = (h[1] \in Pids /\ table'[h[1]].born = h[2])
    BY DEF IsAlive
  <2>. QED
    BY <1>0, <1>1, <1>3 DEF SeenInv
<1>4. CASE RefreshSnapshot
  BY <1>0, <1>4 DEF RefreshSnapshot, Refreshed, SeenInv
<1>5. CASE ResolveSnapshot
  <2>1. \A h \in seen : IsAlive(h) => h \in targets'
    <3>1. SUFFICES ASSUME NEW h \in seen, IsAlive(h)
                   PROVE  h \in Handles({g[1] : g \in {f \in snapshot : SameProcess(f)}})
      BY <1>5 DEF ResolveSnapshot
    <3>2. PICK p \in Pids, b \in 1..births : h = <<p, b>>
      BY <1>0 DEF HandleInv, OwnHandles, SeenInv
    <3>. QED
      BY <1>0, <3>1, <3>2 DEF Handles, SameProcess, IsAlive, SeenInv
  <2>. QED
    BY <1>0, <1>1, <1>5, <2>1 DEF ResolveSnapshot, SeenInv
<1>6. CASE TerminateOrphans
  BY <1>0, <1>1, <1>6 DEF TerminateOrphans, SeenInv
<1>7. CASE KillOrphans
  <2>1. ASSUME NEW h \in seen PROVE ~ IsAlive(h)'
    <3>1. PICK p \in Pids, b \in 1..births : h = <<p, b>>
      BY <1>0 DEF HandleInv, OwnHandles, SeenInv
    <3>2. CASE IsAlive(h)
      <4>1. h \in targets /\ table[p].born = b /\ b # 0
        BY <1>0, <1>7, <3>1, <3>2 DEF KillOrphans, SeenInv, IsAlive, TableInv
      <4>2. p \in Signalled(targets)
        BY <1>0, <3>1, <4>1 DEF Signalled, LivePids, TableInv
      <4>3. table'[p].born = 0
        BY <1>0, <1>7, <4>2, WithoutTable DEF KillOrphans
      <4>. QED
        BY <3>1, <4>1, <4>3 DEF IsAlive
    <3>3. CASE ~ IsAlive(h)
      BY <1>1, <3>3
    <3>. QED
      BY <3>2, <3>3
  <2>. QED
    BY <1>0, <1>7, <2>1 DEF KillOrphans, SeenInv
<1>8. TestStep \/ RunRaises \/ Crash \/ Fork \/ StartStranger \/ EndChild \/ MonitorEnds \/ RequestStop
        => UNCHANGED watcherVars
  BY DEF TestStep, StartMonitor, RecordRunning, PytestReturns, RequestMonitorStop, DrainMonitor,
     EndMonitor, RecordResult, Exit, RunRaises, Crash, Fork, StartStranger, EndChild, MonitorEnds,
     RequestStop
<1>9. ASSUME WorkerStep, ~ RefreshSnapshot, ~ ResolveSnapshot, ~ TerminateOrphans, ~ KillOrphans
      PROVE  /\ UNCHANGED <<seen, snapshot>> /\ watcher' \notin {"reap", "killOrphans"} /\ UNCHANGED reaped
             /\ (watcher = "over" => watcher' = "over")
  BY <1>9 DEF WorkerStep, StartProcess, PollEnded, PollStop, PollOn, EnumerateTree, TerminateTree,
     RescanTree, KillParent, KillSurvivors, RecordTerminated, SkipReaping
<1>. QED
  BY <1>2, <1>3, <1>4, <1>5, <1>6, <1>7, <1>8, <1>9 DEF Next

-----------------------------------------------------------------------------
(* Before the test process is started there is nothing to keep.            *)
LEMMA InitIInv == Init => IInv
<1>1. Init => TableInv
  BY DEF Init, TableInv, Free
<1>2. Init => HandleInv /\ SeenInv
  BY DEF Init, HandleInv, SeenInv, OwnHandles
<1>. QED
  BY <1>1, <1>2 DEF IInv

(* The invariant the next two theorems are read off from.                  *)
THEOREM Invariance ==
  /\ Spec => []IInv
  /\ ServicesSpec => []IInv
<1>1. IInv /\ [Next]_vars => IInv'
  BY StepTable, NextHandleInv, NextSeenInv DEF IInv
<1>2. ServicesInit => Init
  BY DEF ServicesInit
<1>3. Spec => []IInv
  BY InitIInv, <1>1, PTL DEF Spec
<1>4. ServicesSpec => []IInv
  BY InitIInv, <1>1, <1>2, ComponentsStep, PTL DEF ServicesSpec
<1>. QED
  BY <1>3, <1>4

(* However often pids are reused, for whatever, and wherever a kill or a   *)
(* reaping stands at that moment, no stranger is signalled.                *)
THEOREM OnlyOwnSignalled ==
  /\ Spec => []NoForeignSignalled
  /\ ServicesSpec => []NoForeignSignalled
<1>1. IInv => NoForeignSignalled
  BY DEF IInv, HandleInv, NoForeignSignalled
<1>. QED
  BY <1>1, Invariance, PTL

(* Every descendant that a poll saw is gone when the reaping is over,      *)
(* whichever of its ancestors died before.                                 *)
THEOREM NothingSeenIsLeft ==
  /\ Spec => []SeenOrphansReaped
  /\ ServicesSpec => []SeenOrphansReaped
<1>1. IInv => SeenOrphansReaped
  BY DEF IInv, SeenInv, SeenOrphansReaped
<1>. QED
  BY <1>1, Invariance, PTL

-----------------------------------------------------------------------------
(* The resource guard                                                      *)

GuardTypeOK ==
  /\ breaches \in 0 .. Throttles!Trigger
  /\ triggered \in BOOLEAN /\ wasLow \in BOOLEAN /\ hasty \in BOOLEAN
  /\ asks \in Nat

(* What the guard has done is what its latch says.                          *)
LatchInv == (triggered => asks = 1) /\ (~ triggered => asks = 0)

(* What it counts were consecutive low readings, up to the last.            *)
CountInv == breaches > 0 => wasLow

GuardInv == GuardTypeOK /\ LatchInv /\ CountInv /\ ~ hasty

-----------------------------------------------------------------------------
LEMMA GuardInit ==
  ASSUME Throttles!Init
  PROVE  GuardInv
<1>1. ~ triggered /\ ~ wasLow /\ ~ hasty
  BY Zenon DEF Throttles!Init
<1>2. triggered \in BOOLEAN /\ wasLow \in BOOLEAN /\ hasty \in BOOLEAN
  BY Zenon DEF Throttles!Init
<1>3. breaches = 0 /\ asks = 0
  BY Zenon DEF Throttles!Init
<1>. QED BY <1>1, <1>2, <1>3 DEF GuardInv, GuardTypeOK, LatchInv, CountInv, Throttles!Trigger

(* Everything but a tick of the guard leaves its variables alone, the user's *)
(* cancel included.                                                         *)
LEMMA OthersLeaveTheGuard ==
  ASSUME Throttles!Next, ~ Throttles!GuardTick
  PROVE  UNCHANGED <<breaches, triggered, wasLow, asks, hasty>>
<1>1. CASE \E w \in Workers : Throttles!TakeTest(w) \/ Throttles!ConsultGates(w) \/ Throttles!Defer(w) \/ Throttles!HandBack(w) \/ Throttles!EndTest(w)
  BY <1>1 DEF Throttles!TakeTest, Throttles!ConsultGates, Throttles!Defer, Throttles!HandBack, Throttles!EndTest, Throttles!guardVars
<1>2. CASE Throttles!TimePasses
  BY <1>2 DEF Throttles!TimePasses, Throttles!guardVars
<1>3. CASE Throttles!Supervise \/ Throttles!SoftStop \/ Throttles!CancelSoftStop
  BY <1>3 DEF Throttles!Supervise, Throttles!SoftStop, Throttles!CancelSoftStop, Throttles!guardVars
<1>4. CASE Throttles!GuardGoesOn
  BY <1>4 DEF Throttles!GuardGoesOn
<1>. QED BY <1>1, <1>2, <1>3, <1>4 DEF Throttles!Next

(* The tick's effect for a reading that is low or not.                      *)
SeenLow(low) == IF Throttles!BreachesAfter(low) > Throttles!Trigger THEN Throttles!Trigger ELSE Throttles!BreachesAfter(low)
Fire(low)    == ~ triggered /\ SeenLow(low) >= Throttles!Trigger
GuardReads(low) ==
  /\ breaches' = SeenLow(low) /\ wasLow' = low
  /\ triggered' = (triggered \/ Fire(low))
  /\ asks' = IF Fire(low) THEN asks + 1 ELSE asks
  /\ hasty' = (hasty \/ (Fire(low) /\ ~ (low /\ wasLow)))

LEMMA TickReads ==
  ASSUME Throttles!GuardTick
  PROVE  \E low \in BOOLEAN : GuardReads(low)
<1>1. PICK disk \in Throttles!Readings, commit \in Throttles!Readings : GuardReads(disk = "strained" \/ commit = "strained")
  BY Zenon DEF Throttles!GuardTick, GuardReads, SeenLow, Fire
<1>. QED BY <1>1, Zenon

(* A tick that fires follows a low reading, and finds the latch open.       *)
LEMMA TickGuardInv ==
  ASSUME GuardInv, Throttles!GuardTick
  PROVE  GuardInv'
<1>1. PICK low \in BOOLEAN : GuardReads(low)
  BY TickReads
<1>2. /\ SeenLow(low) \in 0 .. Throttles!Trigger
      /\ SeenLow(low) > 0 => low
      /\ SeenLow(low) >= Throttles!Trigger => low /\ breaches > 0
  BY DEF GuardInv, GuardTypeOK, SeenLow, Throttles!BreachesAfter, Throttles!Trigger
<1>3. Fire(low) \in BOOLEAN
  BY DEF Fire
<1>4. Fire(low) => low /\ wasLow /\ ~ triggered
  BY <1>2 DEF GuardInv, CountInv, Fire
<1>5. hasty' = FALSE
  BY <1>1, <1>4 DEF GuardInv, GuardReads
<1>6. LatchInv'
  <2>1. CASE Fire(low)
    <3>1. asks = 0
      BY <2>1, <1>4 DEF GuardInv, LatchInv
    <3>2. asks' = 1
      BY <2>1, <3>1, <1>1 DEF GuardReads
    <3>3. triggered' = TRUE
      BY <2>1, <1>1, Zenon DEF GuardReads
    <3>. QED BY <3>2, <3>3 DEF LatchInv
  <2>2. CASE ~ Fire(low)
    BY <2>2, <1>1 DEF GuardInv, LatchInv, GuardReads
  <2>. QED BY <2>1, <2>2
<1>7. GuardTypeOK' /\ CountInv'
  BY <1>1, <1>2, <1>3, <1>5 DEF GuardInv, GuardTypeOK, CountInv, LatchInv, GuardReads
<1>. QED BY <1>5, <1>6, <1>7 DEF GuardInv

LEMMA NextGuardInv ==
  ASSUME GuardInv, [Throttles!Next]_(Throttles!vars)
  PROVE  GuardInv'
<1>1. CASE Throttles!GuardTick
  BY <1>1, TickGuardInv
<1>2. CASE Throttles!Next /\ ~ Throttles!GuardTick
  BY <1>2, OthersLeaveTheGuard DEF GuardInv, GuardTypeOK, LatchInv, CountInv
<1>3. CASE UNCHANGED Throttles!vars
  BY <1>3 DEF Throttles!vars, GuardInv, GuardTypeOK, LatchInv, CountInv
<1>. QED BY <1>1, <1>2, <1>3

(* However often the user cancels what the guard asked for, it does not ask *)
(* a second time, and it never asks on one low reading alone                *)
(* (resource_guard.py, tick: the latch and the consecutive breaches).       *)
THEOREM GuardAsksOnce ==
  /\ Throttles!Spec => []Throttles!GuardStopsOnce
  /\ ServicesSpec => []GuardStopsOnce
<1>1. GuardInv => Throttles!GuardStopsOnce /\ GuardStopsOnce
  BY DEF GuardInv, GuardTypeOK, LatchInv, Throttles!GuardStopsOnce, GuardStopsOnce
<1>2. ServicesInit => Throttles!Init
  BY DEF ServicesInit
<1>3. Throttles!Spec => []Throttles!GuardStopsOnce
  BY GuardInit, NextGuardInv, <1>1, PTL DEF Throttles!Spec
<1>4. ServicesSpec => []GuardStopsOnce
  BY GuardInit, NextGuardInv, ComponentsStep, <1>1, <1>2, PTL DEF ServicesSpec
<1>. QED BY <1>3, <1>4

-----------------------------------------------------------------------------
(* Test discovery                                                          *)

(* What the finder has by now, and where.                                  *)
FoundInv ==
  /\ finder \in {"firstPass", "singletonPass", "put", "exit", "ended", "died"}
  /\ finder = "singletonPass" => collected = {<<m, FALSE>> : m \in TestModules}
  /\ finder \in {"put", "exit"} => collected = Discovery!Scheduled
  /\ finder \in {"firstPass", "singletonPass", "put"} => buffered = {} /\ pipe = {}
  /\ finder = "exit" => buffered \cup pipe = Discovery!Scheduled

(* What the preparation may find and has taken.                            *)
TakenInv ==
  /\ finder = "ended" /\ preparer = "wait" => pipe = Discovery!Scheduled
  /\ preparer = "over" => finder = "died" \/ (finder = "ended" /\ tests = Discovery!Scheduled)
  /\ ~ Discovery!FinderOver => preparer = "wait"

DiscoveryInv == FoundInv /\ TakenInv

LEMMA InitDiscoveryInv ==
  ASSUME Discovery!Init
  PROVE  DiscoveryInv
BY DEF Discovery!Init, DiscoveryInv, FoundInv, TakenInv, Discovery!FinderOver

(* The second pass takes a module that runs alone out of those that do     *)
(* not, so that each module is there once and with its kind.               *)
LEMMA MergedIsScheduled ==
  ASSUME Marked \subseteq TestModules, collected = {<<m, FALSE>> : m \in TestModules}
  PROVE  Discovery!Merged({<<m, TRUE>> : m \in Marked}) = Discovery!Scheduled
<1> DEFINE found  == {<<m, TRUE>> : m \in Marked}
           merged == Discovery!Merged(found)
<1>1. merged = {f \in collected : <<f[1], TRUE>> \notin found} \cup found
  BY Zenon DEF Discovery!Merged
<1>2. ASSUME NEW m
      PROVE  <<m, TRUE>> \in found <=> m \in Marked
  OBVIOUS
<1>3. ASSUME NEW m \in TestModules
      PROVE  <<m, m \in Marked>> \in merged
  <2>1. CASE m \in Marked
    <3>1. (m \in Marked) = TRUE
      BY <2>1
    <3>. QED BY <1>1, <1>2, <2>1, <3>1
  <2>2. CASE m \notin Marked
    <3>1. (m \in Marked) = FALSE
      BY <2>2
    <3>2. <<m, FALSE>> \in collected /\ <<m, FALSE>>[1] = m
      OBVIOUS
    <3>. QED BY <1>1, <1>2, <2>2, <3>1, <3>2
  <2>. QED BY <2>1, <2>2
<1>4. ASSUME NEW f \in merged
      PROVE  f \in Discovery!Scheduled
  <2>1. CASE f \in found
    <3>1. PICK m \in Marked : f = <<m, TRUE>>
      BY <2>1
    <3>2. (m \in Marked) = TRUE /\ m \in TestModules
      BY <3>1
    <3>. QED BY <3>1, <3>2 DEF Discovery!Scheduled
  <2>2. CASE f \notin found
    <3>1. f \in collected /\ <<f[1], TRUE>> \notin found
      BY <1>1, <1>4, <2>2
    <3>2. PICK m \in TestModules : f = <<m, FALSE>>
      BY <3>1
    <3>3. (m \in Marked) = FALSE
      BY <3>1, <3>2, <1>2
    <3>. QED BY <3>2, <3>3 DEF Discovery!Scheduled
  <2>. QED BY <2>1, <2>2
<1>. QED BY <1>3, <1>4 DEF Discovery!Scheduled

LEMMA FinderDiscoveryInv ==
  ASSUME Marked \subseteq TestModules, DiscoveryInv,
         Discovery!FirstPass \/ Discovery!SingletonPass \/ Discovery!PutAll
  PROVE  DiscoveryInv'
<1>1. CASE Discovery!FirstPass
  BY <1>1 DEF Discovery!FirstPass, DiscoveryInv, FoundInv, TakenInv, Discovery!FinderOver
<1>2. CASE Discovery!SingletonPass
  BY <1>2, MergedIsScheduled
     DEF Discovery!SingletonPass, DiscoveryInv, FoundInv, TakenInv, Discovery!FinderOver
<1>3. CASE Discovery!PutAll
  BY <1>3 DEF Discovery!PutAll, DiscoveryInv, FoundInv, TakenInv, Discovery!FinderOver
<1>. QED BY <1>1, <1>2, <1>3

(* The feeder moves one test at a time, and the process waits for it.      *)
LEMMA FeederDiscoveryInv ==
  ASSUME DiscoveryInv, Discovery!Feed \/ Discovery!FinderEnds
  PROVE  DiscoveryInv'
<1>1. CASE Discovery!Feed
  <2>1. PICK t \in buffered : buffered' = buffered \ {t} /\ pipe' = pipe \cup {t}
    BY <1>1 DEF Discovery!Feed
  <2>2. buffered' \cup pipe' = buffered \cup pipe
    BY <2>1
  <2>3. finder = "exit" /\ UNCHANGED <<finder, collected, preparer, tests>>
    BY <1>1, <2>1 DEF Discovery!Feed, Discovery!FinderOver, DiscoveryInv, FoundInv
  <2>. QED BY <2>2, <2>3 DEF DiscoveryInv, FoundInv, TakenInv, Discovery!FinderOver, Discovery!Scheduled
<1>2. CASE Discovery!FinderEnds
  BY <1>2 DEF Discovery!FinderEnds, DiscoveryInv, FoundInv, TakenInv, Discovery!FinderOver,
              Discovery!Scheduled
<1>. QED BY <1>1, <1>2

(* The process dies early, the wait is aborted, or it is over.             *)
LEMMA PreparerDiscoveryInv ==
  ASSUME DiscoveryInv,
         Discovery!FinderDies \/ Discovery!Abort \/ Discovery!AbortDiscovery \/ Discovery!TakeTests
  PROVE  DiscoveryInv'
<1>1. CASE Discovery!FinderDies
  BY <1>1 DEF Discovery!FinderDies, DiscoveryInv, FoundInv, TakenInv, Discovery!FinderOver
<1>2. CASE Discovery!Abort
  BY <1>2 DEF Discovery!Abort, DiscoveryInv, FoundInv, TakenInv, Discovery!FinderOver,
              Discovery!Scheduled
<1>3. CASE Discovery!AbortDiscovery
  BY <1>3 DEF Discovery!AbortDiscovery, DiscoveryInv, FoundInv, TakenInv, Discovery!FinderOver
<1>4. CASE Discovery!TakeTests
  BY <1>4 DEF Discovery!TakeTests, Discovery!WaitOver, DiscoveryInv, FoundInv, TakenInv,
              Discovery!FinderOver, Discovery!Scheduled
<1>. QED BY <1>1, <1>2, <1>3, <1>4

LEMMA NextDiscoveryInv ==
  ASSUME Marked \subseteq TestModules, DiscoveryInv, [Discovery!Next]_(Discovery!vars)
  PROVE  DiscoveryInv'
<1>1. CASE Discovery!Next
  BY <1>1, FinderDiscoveryInv, FeederDiscoveryInv, PreparerDiscoveryInv DEF Discovery!Next
<1>2. CASE UNCHANGED Discovery!vars
  BY <1>2 DEF Discovery!vars, DiscoveryInv, FoundInv, TakenInv, Discovery!FinderOver,
              Discovery!Scheduled
<1>. QED BY <1>1, <1>2

(* What a run is prepared with is every module there is, each with its     *)
(* kind, however the feeder, the pipe and a closing window interleave -    *)
(* unless the process was taken down while it collected (test_list.py,     *)
(* GetTests.run; control_window.py, _build_runner).                        *)
THEOREM EveryModulePrepared ==
  ASSUME Marked \subseteq TestModules
  PROVE  /\ Discovery!Spec => []Discovery!DiscoveryComplete
         /\ ServicesSpec => []DiscoveryComplete
<1>1. DiscoveryInv => Discovery!DiscoveryComplete /\ DiscoveryComplete
  BY DEF DiscoveryInv, TakenInv, Discovery!DiscoveryComplete, DiscoveryComplete
<1>2. ServicesInit => Discovery!Init
  BY DEF ServicesInit
<1>3. Discovery!Spec => []Discovery!DiscoveryComplete
  BY InitDiscoveryInv, NextDiscoveryInv, <1>1, PTL DEF Discovery!Spec
<1>4. ServicesSpec => []DiscoveryComplete
  BY InitDiscoveryInv, NextDiscoveryInv, ComponentsStep, <1>1, <1>2, PTL DEF ServicesSpec
<1>. QED BY <1>3, <1>4

-----------------------------------------------------------------------------
(* The settings                                                            *)

(* A step of a handler is to be done.                                      *)
Has(list, step) == \E i \in DOMAIN list : list[i] = step

Steps == {"store", "default", "show", "couple", "check", "validate"}
           \X (Config!Names \cup {"put", "mode", "windows"})

(* The stall windows, each a number and its unit.                          *)
Windows    == {"warn_value", "kill_value"}
UnitOf(v)  == IF v = "warn_value" THEN "warn_unit" ELSE "kill_unit"

(* What b may not come after: a number is shown once, and before anything  *)
(* that saves it; the path is shown when it has been set.                  *)
Misplaced(a, b) ==
  \/ \E v \in Windows : /\ b = Config!Showing(v)
                        /\ a \in {Config!Showing(v), Config!Showing(UnitOf(v)), Config!Saving(v)}
  \/ a = Config!Showing("put") /\ b = Config!Setting("put")

(* The slot of a window saves both and validates, with nothing between.    *)
WindowAt(list, i, v) ==
  i + 2 \in DOMAIN list /\ list[i + 1] = Config!Saving(UnitOf(v)) /\ list[i + 2] = Config!Validating

WellFormed(list) ==
  /\ list \in Seq(Steps)
  /\ \A i, j \in DOMAIN list : i < j => ~ Misplaced(list[i], list[j])
  /\ \A i \in DOMAIN list, v \in Windows : list[i] = Config!Saving(v) => WindowAt(list, i, v)

(* A preference is at its default or will be; what its widget saves before *)
(* that is set right when the widget is shown.                             *)
RestoredInv ==
  /\ \A n \in Config!Names :
       /\ \/ prefs[n] = Config!Default[n]
          \/ Has(todo, Config!Setting(n)) \/ Has(todo, Config!Saving(n))
          \/ Has(todo, Config!Showing(n)) /\ widgets[n] # Config!Default[n]
       /\ widgets[n] = Config!Default[n] \/ Has(todo, Config!Showing(n))
  /\ put = "" \/ Has(todo, Config!Setting("put"))
  /\ activePut = Config!Workspace \/ Has(todo, Config!Showing("put"))

(* A box that is to be skipped is checked, and so is one that is forced;   *)
(* or it is about to be settled.                                           *)
SkipInv ==
  /\ prefs["skip"] => widgets["skip"] \/ Has(todo, Config!Saving("skip")) \/ Has(todo, Config!Setting("skip"))
  /\ mode = "RESUME" => widgets["skip"] \/ Has(todo, Config!Coupling) \/ Has(todo, Config!Checking)

SettingsInv ==
  /\ WellFormed(todo)
  /\ prefs = [n \in Config!Names |-> prefs[n]] /\ widgets = [n \in Config!Names |-> widgets[n]]
  /\ tab = "none" => todo = <<>> /\ ~ restored
  /\ tab # "none" => SkipInv
  /\ restored => RestoredInv

-----------------------------------------------------------------------------
(* The steps differ.                                                       *)
LEMMA StepsDiffer ==
  /\ \A n, m : /\ Config!Saving(n) = Config!Saving(m) => n = m
               /\ Config!Setting(n) = Config!Setting(m) => n = m
               /\ Config!Showing(n) = Config!Showing(m) => n = m
               /\ Config!Saving(n) # Config!Setting(m) /\ Config!Saving(n) # Config!Showing(m)
               /\ Config!Setting(n) # Config!Showing(m)
  /\ \A n : /\ Config!Coupling \notin {Config!Saving(n), Config!Setting(n), Config!Showing(n)}
            /\ Config!Checking \notin {Config!Saving(n), Config!Setting(n), Config!Showing(n)}
            /\ Config!Validating \notin {Config!Saving(n), Config!Setting(n), Config!Showing(n)}
  /\ Config!Coupling # Config!Checking /\ Config!Coupling # Config!Validating
  /\ Config!Checking # Config!Validating
BY DEF Config!Saving, Config!Setting, Config!Showing, Config!Coupling, Config!Checking, Config!Validating

LEMMA StepsAre ==
  /\ \A n \in Config!Names \cup {"put"} : {Config!Saving(n), Config!Setting(n), Config!Showing(n)} \subseteq Steps
  /\ {Config!Coupling, Config!Checking, Config!Validating} \subseteq Steps
BY DEF Config!Saving, Config!Setting, Config!Showing, Config!Coupling, Config!Checking, Config!Validating, Steps

LEMMA NamesAre ==
  /\ Config!Names = {"skip", "flag", "processes", "warn_value", "warn_unit", "kill_value", "kill_unit"}
  /\ \A v \in Windows : v \in Config!Names /\ UnitOf(v) \in Config!Names
BY DEF Config!Names, Windows, UnitOf

(* What is left to do when the first step is done.                         *)
LEMMA HasTail ==
  ASSUME NEW S, NEW list \in Seq(S), list # <<>>, NEW step
  PROVE  /\ Has(Tail(list), step) => Has(list, step)
         /\ Has(list, step) /\ step # Head(list) => Has(Tail(list), step)
<1>1. /\ Tail(list) \in Seq(S) /\ Len(list) \in Nat /\ Len(Tail(list)) = Len(list) - 1
      /\ DOMAIN list = 1..Len(list) /\ DOMAIN Tail(list) = 1..(Len(list) - 1)
      /\ \A i \in 1..(Len(list) - 1) : Tail(list)[i] = list[i + 1]
      /\ Head(list) = list[1]
  OBVIOUS
<1>2. ASSUME NEW i \in DOMAIN Tail(list), Tail(list)[i] = step PROVE Has(list, step)
  BY <1>1, <1>2 DEF Has
<1>3. ASSUME NEW i \in DOMAIN list, list[i] = step, step # Head(list) PROVE Has(Tail(list), step)
  <2>1. i - 1 \in DOMAIN Tail(list) /\ Tail(list)[i - 1] = step
    BY <1>1, <1>3
  <2>. QED
    BY <2>1 DEF Has
<1>. QED
  BY <1>2, <1>3 DEF Has

LEMMA HasConcat ==
  ASSUME NEW S, NEW a \in Seq(S), NEW b \in Seq(S), NEW step
  PROVE  Has(a \o b, step) <=> Has(a, step) \/ Has(b, step)
<1>1. /\ DOMAIN (a \o b) = 1..(Len(a) + Len(b)) /\ Len(a) \in Nat /\ Len(b) \in Nat
      /\ DOMAIN a = 1..Len(a) /\ DOMAIN b = 1..Len(b)
      /\ \A i \in 1..Len(a) : (a \o b)[i] = a[i]
      /\ \A i \in 1..Len(b) : (a \o b)[Len(a) + i] = b[i]
  OBVIOUS
<1>2. ASSUME NEW i \in DOMAIN (a \o b), (a \o b)[i] = step PROVE Has(a, step) \/ Has(b, step)
  <2>1. CASE i \in 1..Len(a)
    BY <1>1, <1>2, <2>1 DEF Has
  <2>2. CASE i \notin 1..Len(a)
    <3>1. i - Len(a) \in 1..Len(b) /\ i = Len(a) + (i - Len(a))
      BY <1>1, <2>2
    <3>2. b[i - Len(a)] = step
      BY <1>1, <1>2, <3>1
    <3>. QED
      BY <1>1, <3>1, <3>2 DEF Has
  <2>. QED
    BY <2>1, <2>2
<1>3. ASSUME NEW i \in DOMAIN a, a[i] = step PROVE Has(a \o b, step)
  BY <1>1, <1>3 DEF Has
<1>4. ASSUME NEW i \in DOMAIN b, b[i] = step PROVE Has(a \o b, step)
  <2>1. Len(a) + i \in DOMAIN (a \o b) /\ (a \o b)[Len(a) + i] = step
    BY <1>1, <1>4
  <2>. QED
    BY <2>1 DEF Has
<1>. QED
  BY <1>2, <1>3, <1>4 DEF Has

LEMMA TailWellFormed ==
  ASSUME NEW list, WellFormed(list), list # <<>>
  PROVE  WellFormed(Tail(list))
<1>1. list \in Seq(Steps)
  BY DEF WellFormed
<1>2. /\ Tail(list) \in Seq(Steps) /\ Len(list) \in Nat
      /\ DOMAIN list = 1..Len(list) /\ DOMAIN Tail(list) = 1..(Len(list) - 1)
      /\ \A i \in 1..(Len(list) - 1) : Tail(list)[i] = list[i + 1]
  BY <1>1
<1>3. ASSUME NEW i \in DOMAIN Tail(list), NEW j \in DOMAIN Tail(list), i < j
      PROVE  ~ Misplaced(Tail(list)[i], Tail(list)[j])
  BY <1>2, <1>3 DEF WellFormed
<1>4. ASSUME NEW i \in DOMAIN Tail(list), NEW v \in Windows, Tail(list)[i] = Config!Saving(v)
      PROVE  WindowAt(Tail(list), i, v)
  <2>1. i + 1 \in DOMAIN list /\ list[i + 1] = Config!Saving(v)
    BY <1>2, <1>4
  <2>2. WindowAt(list, i + 1, v)
    BY <2>1 DEF WellFormed
  <2>3. /\ i + 3 \in DOMAIN list /\ list[i + 2] = Config!Saving(UnitOf(v))
        /\ list[i + 3] = Config!Validating
    BY <1>2, <2>2 DEF WindowAt
  <2>. QED
    BY <1>2, <2>3 DEF WindowAt
<1>. QED
  BY <1>2, <1>3, <1>4 DEF WellFormed

(* A slot that returns early drops what is its own and nothing else.       *)
LEMMA SlotDropped ==
  ASSUME NEW list, WellFormed(list), list # <<>>, NEW v \in Windows, Head(list) = Config!Saving(v)
  PROVE  /\ WellFormed(SubSeq(list, 4, Len(list)))
         /\ \A step : Has(list, step) =>
              \/ Has(SubSeq(list, 4, Len(list)), step)
              \/ step \in {Config!Saving(v), Config!Saving(UnitOf(v)), Config!Validating}
<1>1. list \in Seq(Steps) /\ Len(list) \in Nat /\ DOMAIN list = 1..Len(list) /\ Len(list) # 0
  BY DEF WellFormed
<1>2. WindowAt(list, 1, v) /\ list[1] = Config!Saving(v)
  BY <1>1 DEF WellFormed
<1>3. Len(list) >= 3 /\ list[2] = Config!Saving(UnitOf(v)) /\ list[3] = Config!Validating
  BY <1>1, <1>2 DEF WindowAt
<1>. DEFINE rest == SubSeq(list, 4, Len(list))
<1>4. /\ rest \in Seq(Steps) /\ DOMAIN rest = 1..(Len(list) - 3)
      /\ \A i \in 1..(Len(list) - 3) : rest[i] = list[i + 3]
  BY <1>1, <1>3
<1>. HIDE DEF rest
<1>5. ASSUME NEW i \in DOMAIN rest, NEW j \in DOMAIN rest, i < j
      PROVE  ~ Misplaced(rest[i], rest[j])
  BY <1>1, <1>4, <1>5 DEF WellFormed
<1>6. ASSUME NEW i \in DOMAIN rest, NEW w \in Windows, rest[i] = Config!Saving(w)
      PROVE  WindowAt(rest, i, w)
  <2>1. i + 3 \in DOMAIN list /\ list[i + 3] = Config!Saving(w)
    BY <1>1, <1>4, <1>6
  <2>2. WindowAt(list, i + 3, w)
    BY <2>1 DEF WellFormed
  <2>3. /\ i + 5 \in DOMAIN list /\ list[i + 4] = Config!Saving(UnitOf(w))
        /\ list[i + 5] = Config!Validating
    BY <1>1, <1>4, <2>2 DEF WindowAt
  <2>. QED
    BY <1>1, <1>4, <2>3 DEF WindowAt
<1>7. ASSUME NEW step, NEW i \in DOMAIN list, list[i] = step
      PROVE  Has(rest, step) \/ step \in {Config!Saving(v), Config!Saving(UnitOf(v)), Config!Validating}
  <2>1. CASE i \in 1..3
    BY <1>2, <1>3, <1>7, <2>1
  <2>2. CASE i \notin 1..3
    <3>1. i - 3 \in DOMAIN rest /\ rest[i - 3] = step
      BY <1>1, <1>4, <1>7, <2>2
    <3>. QED
      BY <3>1 DEF Has
  <2>. QED
    BY <2>1, <2>2
<1>8. WellFormed(rest)
  BY <1>4, <1>5, <1>6 DEF WellFormed
<1>9. \A step : Has(list, step) => Has(rest, step) \/ step \in {Config!Saving(v), Config!Saving(UnitOf(v)), Config!Validating}
  BY <1>7 DEF Has
<1>. QED
  BY <1>8, <1>9 DEF rest

(* What a slot does.                                                       *)
LEMMA SlotsAre ==
  ASSUME NEW n \in Config!Names
  PROVE  /\ Config!Slot(n) \in Seq(Steps)
         /\ \A i \in DOMAIN Config!Slot(n) :
              \/ Config!Slot(n)[i] \in {Config!Coupling, Config!Validating}
              \/ \E m \in Config!Names : Config!Slot(n)[i] = Config!Saving(m)
         /\ \A i \in DOMAIN Config!Slot(n), v \in Windows :
              Config!Slot(n)[i] = Config!Saving(v) =>
                n \in {v, UnitOf(v)} /\ WindowAt(Config!Slot(n), i, v)
         /\ Has(Config!Slot(n), Config!Saving(n))
         /\ n = "skip" => Has(Config!Slot(n), Config!Coupling)
<1>1. CASE n = "skip"
  <2>1. Config!Slot(n) = <<Config!Saving("skip"), Config!Coupling>>
    BY <1>1 DEF Config!Slot
  <2>2. Config!Slot(n) \in Seq(Steps)
    BY <2>1, StepsAre, NamesAre
  <2>3. /\ DOMAIN Config!Slot(n) = {1, 2} /\ Config!Slot(n)[1] = Config!Saving("skip")
        /\ Config!Slot(n)[2] = Config!Coupling
    BY <2>1
  <2>4. \A v \in Windows : v # "skip"
    BY DEF Windows
  <2>5. Has(Config!Slot(n), Config!Saving(n)) /\ Has(Config!Slot(n), Config!Coupling)
    BY <1>1, <2>3 DEF Has
  <2>. QED
    BY <1>1, <2>2, <2>3, <2>4, <2>5, StepsDiffer
<1>2. CASE n \in {"flag", "processes"}
  <2>1. Config!Slot(n) = <<Config!Saving(n)>>
    BY <1>2 DEF Config!Slot
  <2>. QED
    BY <1>2, <2>1, StepsDiffer, StepsAre, NamesAre DEF Has, Windows
<1>3. CASE n \in {"warn_value", "warn_unit"}
  <2>1. Config!Slot(n) = <<Config!Saving("warn_value"), Config!Saving("warn_unit"), Config!Validating>>
    BY <1>3 DEF Config!Slot
  <2>. QED
    BY <1>3, <2>1, StepsDiffer, StepsAre, NamesAre DEF Has, Windows, WindowAt, UnitOf
<1>4. CASE n \in {"kill_value", "kill_unit"}
  <2>1. Config!Slot(n) = <<Config!Saving("kill_value"), Config!Saving("kill_unit"), Config!Validating>>
    BY <1>4 DEF Config!Slot
  <2>. QED
    BY <1>4, <2>1, StepsDiffer, StepsAre, NamesAre DEF Has, Windows, WindowAt, UnitOf
<1>. QED
  BY <1>1, <1>2, <1>3, <1>4, NamesAre

(* Also when a widget's slot runs within a handler.                        *)
LEMMA SlotWellFormed ==
  ASSUME NEW n \in Config!Names
  PROVE  WellFormed(Config!Slot(n))
<1>1. ASSUME NEW i \in DOMAIN Config!Slot(n), NEW j \in DOMAIN Config!Slot(n)
      PROVE  ~ Misplaced(Config!Slot(n)[i], Config!Slot(n)[j])
  BY SlotsAre, StepsDiffer DEF Misplaced
<1>. QED
  BY <1>1, SlotsAre DEF WellFormed

LEMMA SlotWithin ==
  ASSUME NEW list, WellFormed(list), list # <<>>, NEW n \in Config!Names, Head(list) = Config!Showing(n)
  PROVE  WellFormed(Config!Slot(n) \o Tail(list))
<1>. DEFINE a == Config!Slot(n)
            b == Tail(list)
            c == a \o b
<1>1. WellFormed(a) /\ WellFormed(b)
  BY SlotWellFormed, TailWellFormed
<1>2. /\ \A i \in DOMAIN a : \/ a[i] \in {Config!Coupling, Config!Validating}
                             \/ \E m \in Config!Names : a[i] = Config!Saving(m)
      /\ \A i \in DOMAIN a, v \in Windows : a[i] = Config!Saving(v) => n \in {v, UnitOf(v)}
  BY SlotsAre
<1>3. ASSUME NEW j \in DOMAIN b PROVE ~ Misplaced(Config!Showing(n), b[j])
  <2>1. /\ list \in Seq(Steps) /\ 1 \in DOMAIN list /\ list[1] = Config!Showing(n)
        /\ j + 1 \in DOMAIN list /\ 1 < j + 1 /\ b[j] = list[j + 1]
    BY DEF WellFormed
  <2>. QED
    BY <2>1 DEF WellFormed
<1>. HIDE DEF a, b
<1>4. /\ a \in Seq(Steps) /\ b \in Seq(Steps) /\ c \in Seq(Steps)
      /\ Len(a) \in Nat /\ Len(b) \in Nat
      /\ DOMAIN a = 1..Len(a) /\ DOMAIN b = 1..Len(b) /\ DOMAIN c = 1..(Len(a) + Len(b))
      /\ \A i \in 1..Len(a) : c[i] = a[i]
      /\ \A i \in 1..Len(b) : c[Len(a) + i] = b[i]
  BY <1>1 DEF WellFormed
<1>. HIDE DEF c
<1>5. \A i \in DOMAIN c : \/ i \in DOMAIN a /\ c[i] = a[i]
                          \/ /\ i > Len(a) /\ i - Len(a) \in DOMAIN b /\ c[i] = b[i - Len(a)]
  <2>. SUFFICES ASSUME NEW i \in DOMAIN c, i \notin 1..Len(a)
                PROVE  i > Len(a) /\ i - Len(a) \in 1..Len(b) /\ c[i] = b[i - Len(a)]
    BY <1>4
  <2>1. i > Len(a) /\ i - Len(a) \in 1..Len(b) /\ Len(a) + (i - Len(a)) = i
    BY <1>4
  <2>. QED
    BY <1>4, <2>1
<1>6. ASSUME NEW i \in DOMAIN c, NEW j \in DOMAIN c, i < j
      PROVE  ~ Misplaced(c[i], c[j])
  <2>1. CASE j \in DOMAIN a /\ c[j] = a[j]
    <3>1. i \in DOMAIN a /\ c[i] = a[i]
      BY <1>4, <1>6, <2>1
    <3>. QED
      BY <1>1, <1>6, <2>1, <3>1 DEF WellFormed
  <2>2. CASE i \in DOMAIN a /\ c[i] = a[i] /\ j - Len(a) \in DOMAIN b /\ c[j] = b[j - Len(a)]
    <3>. DEFINE k == j - Len(a)
    <3>1. ~ Misplaced(Config!Showing(n), b[k]) /\ c[j] = b[k]
      BY <1>3, <2>2
    <3>2. \/ a[i] \in {Config!Coupling, Config!Validating}
          \/ \E m \in Config!Names : a[i] = Config!Saving(m) /\ (m \in Windows => n \in {m, UnitOf(m)})
      BY <1>2, <2>2
    <3>. HIDE DEF k
    <3>. QED
      BY <2>2, <3>1, <3>2, StepsDiffer DEF Misplaced
  <2>3. CASE /\ i > Len(a) /\ i - Len(a) \in DOMAIN b /\ c[i] = b[i - Len(a)]
             /\ j - Len(a) \in DOMAIN b /\ c[j] = b[j - Len(a)]
    <3>1. i - Len(a) < j - Len(a)
      BY <1>4, <1>6
    <3>. QED
      BY <1>1, <2>3, <3>1 DEF WellFormed
  <2>4. i > Len(a) => j \notin DOMAIN a
    BY <1>4, <1>6
  <2>. QED
    BY <1>4, <1>5, <2>1, <2>2, <2>3, <2>4
<1>7. ASSUME NEW i \in DOMAIN c, NEW v \in Windows, c[i] = Config!Saving(v)
      PROVE  WindowAt(c, i, v)
  <2>1. CASE i \in DOMAIN a /\ c[i] = a[i]
    <3>1. WindowAt(a, i, v)
      BY <1>1, <1>7, <2>1 DEF WellFormed
    <3>. QED
      BY <1>4, <2>1, <3>1 DEF WindowAt
  <2>2. CASE i > Len(a) /\ i - Len(a) \in DOMAIN b /\ c[i] = b[i - Len(a)]
    <3>. DEFINE k == i - Len(a)
    <3>0. k \in DOMAIN b /\ b[k] = Config!Saving(v) /\ i = Len(a) + k
      BY <1>4, <1>7, <2>2
    <3>. HIDE DEF k
    <3>1. k \in 1..Len(b) /\ WindowAt(b, k, v) /\ i = Len(a) + k
      BY <1>1, <1>4, <3>0 DEF WellFormed
    <3>2. k + 2 \in 1..Len(b) /\ k + 1 \in 1..Len(b) /\ b[k + 1] = Config!Saving(UnitOf(v)) /\ b[k + 2] = Config!Validating
      BY <1>4, <3>1 DEF WindowAt
    <3>3. c[Len(a) + (k + 1)] = b[k + 1] /\ c[Len(a) + (k + 2)] = b[k + 2] /\ Len(a) + (k + 2) \in DOMAIN c
      BY <1>4, <3>2
    <3>4. i + 1 = Len(a) + (k + 1) /\ i + 2 = Len(a) + (k + 2)
      BY <1>4, <3>1
    <3>. QED
      BY <3>2, <3>3, <3>4 DEF WindowAt
  <2>. QED
    BY <1>5, <2>1, <2>2
<1>8. WellFormed(c)
  BY <1>4, <1>6, <1>7 DEF WellFormed
<1>. QED
  BY <1>8 DEF a, b, c

(* What Restore Defaults is to do.                                         *)
LEMMA RestoreIs ==
  /\ WellFormed(Config!RestoreOps)
  /\ \A n \in Config!Names \cup {"put"} :
       Has(Config!RestoreOps, Config!Setting(n)) /\ Has(Config!RestoreOps, Config!Showing(n))
  /\ Has(Config!RestoreOps, Config!Checking)
<1>. DEFINE R == Config!RestoreOps
<1>1. /\ R \in Seq(Steps) /\ DOMAIN R = 1..18
      /\ R[1] = Config!Setting("skip") /\ R[2] = Config!Showing("skip")
      /\ R[3] = Config!Setting("flag") /\ R[4] = Config!Showing("flag") /\ R[5] = Config!Checking
      /\ R[6] = Config!Setting("processes") /\ R[7] = Config!Showing("processes")
      /\ R[8] = Config!Setting("warn_value") /\ R[9] = Config!Setting("warn_unit")
      /\ R[10] = Config!Showing("warn_value") /\ R[11] = Config!Showing("warn_unit")
      /\ R[12] = Config!Setting("kill_value") /\ R[13] = Config!Setting("kill_unit")
      /\ R[14] = Config!Showing("kill_value") /\ R[15] = Config!Showing("kill_unit")
      /\ R[16] = Config!Setting("put") /\ R[17] = Config!Showing("put") /\ R[18] = Config!Validating
  BY StepsAre, NamesAre DEF Config!RestoreOps
<1>. HIDE DEF R
<1>2. \A i \in 1..18 : \/ R[i] \in {Config!Checking, Config!Validating}
                       \/ \E n : R[i] = Config!Setting(n) \/ R[i] = Config!Showing(n)
  <2>1. \A i \in 1..18 : \/ i = 1 \/ i = 2 \/ i = 3 \/ i = 4 \/ i = 5 \/ i = 6 \/ i = 7 \/ i = 8 \/ i = 9
                         \/ i = 10 \/ i = 11 \/ i = 12 \/ i = 13 \/ i = 14 \/ i = 15 \/ i = 16 \/ i = 17 \/ i = 18
    OBVIOUS
  <2>. QED
    BY <1>1, <2>1
<1>3. ASSUME NEW i \in 1..18, NEW n \in {"warn_value", "warn_unit", "kill_value", "kill_unit", "put"}, R[i] = Config!Showing(n)
      PROVE  i = CASE n = "warn_value" -> 10 [] n = "warn_unit" -> 11 [] n = "kill_value" -> 14 [] n = "kill_unit" -> 15 [] n = "put" -> 17
  <2>1. \/ i = 1 \/ i = 2 \/ i = 3 \/ i = 4 \/ i = 5 \/ i = 6 \/ i = 7 \/ i = 8 \/ i = 9
        \/ i = 10 \/ i = 11 \/ i = 12 \/ i = 13 \/ i = 14 \/ i = 15 \/ i = 16 \/ i = 17 \/ i = 18
    OBVIOUS
  <2>. QED
    BY <1>1, <1>3, <2>1, StepsDiffer
<1>4. ASSUME NEW i \in 1..18, R[i] = Config!Setting("put") PROVE i = 16
  <2>1. \/ i = 1 \/ i = 2 \/ i = 3 \/ i = 4 \/ i = 5 \/ i = 6 \/ i = 7 \/ i = 8 \/ i = 9
        \/ i = 10 \/ i = 11 \/ i = 12 \/ i = 13 \/ i = 14 \/ i = 15 \/ i = 16 \/ i = 17 \/ i = 18
    OBVIOUS
  <2>. QED
    BY <1>1, <1>4, <2>1, StepsDiffer
<1>5. ASSUME NEW i \in 1..18, NEW j \in 1..18, i < j, Misplaced(R[i], R[j]) PROVE FALSE
  <2>1. CASE R[i] = Config!Showing("put") /\ R[j] = Config!Setting("put")
    BY <1>3, <1>4, <1>5, <2>1
  <2>2. ASSUME NEW v \in Windows, R[j] = Config!Showing(v),
               R[i] \in {Config!Showing(v), Config!Showing(UnitOf(v)), Config!Saving(v)}
        PROVE  FALSE
    <3>1. R[i] # Config!Saving(v)
      BY <1>2, StepsDiffer
    <3>2. CASE v = "warn_value"
      BY <1>3, <1>5, <2>2, <3>1, <3>2 DEF UnitOf
    <3>3. CASE v = "kill_value"
      BY <1>3, <1>5, <2>2, <3>1, <3>3 DEF UnitOf
    <3>. QED
      BY <3>2, <3>3 DEF Windows
  <2>. QED
    BY <1>5, <2>1, <2>2 DEF Misplaced
<1>6. \A i \in DOMAIN R, v \in Windows : R[i] # Config!Saving(v)
  BY <1>1, <1>2, StepsDiffer
<1>7. WellFormed(R)
  BY <1>1, <1>5, <1>6 DEF WellFormed
<1>8. \A k \in 1..18 : Has(R, R[k])
  BY <1>1 DEF Has
<1>9. /\ 1 \in 1..18 /\ 2 \in 1..18 /\ 3 \in 1..18 /\ 4 \in 1..18 /\ 5 \in 1..18 /\ 6 \in 1..18
      /\ 7 \in 1..18 /\ 8 \in 1..18 /\ 9 \in 1..18 /\ 10 \in 1..18 /\ 11 \in 1..18 /\ 12 \in 1..18
      /\ 13 \in 1..18 /\ 14 \in 1..18 /\ 15 \in 1..18 /\ 16 \in 1..18 /\ 17 \in 1..18 /\ 18 \in 1..18
  OBVIOUS
<1>10. /\ Has(R, Config!Setting("skip")) /\ Has(R, Config!Showing("skip"))
       /\ Has(R, Config!Setting("flag")) /\ Has(R, Config!Showing("flag"))
       /\ Has(R, Config!Setting("processes")) /\ Has(R, Config!Showing("processes"))
       /\ Has(R, Config!Setting("warn_value")) /\ Has(R, Config!Showing("warn_value"))
       /\ Has(R, Config!Setting("warn_unit")) /\ Has(R, Config!Showing("warn_unit"))
       /\ Has(R, Config!Setting("kill_value")) /\ Has(R, Config!Showing("kill_value"))
       /\ Has(R, Config!Setting("kill_unit")) /\ Has(R, Config!Showing("kill_unit"))
       /\ Has(R, Config!Setting("put")) /\ Has(R, Config!Showing("put")) /\ Has(R, Config!Checking)
  BY <1>1, <1>8, <1>9
<1>. QED
  BY <1>7, <1>10, NamesAre DEF R

-----------------------------------------------------------------------------
(* What the defaults are, as far as it matters.                            *)
LEMMA DefaultsAre ==
  /\ Config!Default = [n \in Config!Names |-> Config!Default[n]]
  /\ Config!Default["skip"] = FALSE
  /\ \A n \in Config!Texts : Config!Default[n] # Config!NotANumber
  /\ ~ (Config!Default["processes"] < 1)
BY DEF Config!Default, Config!Names, Config!Boxes, Config!Texts, Config!Combos, Config!NotANumber

(* What a widget at its default saves.                                     *)
LEMMA DefaultIsStored ==
  ASSUME NEW n \in Config!Names
  PROVE  /\ widgets[n] = Config!Default[n] => Config!Stored(n) = Config!Default[n]
         /\ n = "skip" => Config!Stored(n) = widgets[n]
BY DefaultsAre DEF Config!Stored, Config!Texts

LEMMA EmptyIsWellFormed == WellFormed(<<>>) /\ \A step : ~ Has(<<>>, step)
BY DEF WellFormed, Has

(* Idle, nothing is to be done.                                            *)
LEMMA IdleIs ==
  ASSUME SettingsInv, todo = <<>>, tab # "none"
  PROVE  /\ prefs["skip"] => widgets["skip"]
         /\ mode = "RESUME" => widgets["skip"]
         /\ restored => /\ prefs = Config!Default /\ widgets = Config!Default
                        /\ put = "" /\ activePut = Config!Workspace
<1>1. \A step : ~ Has(todo, step)
  BY EmptyIsWellFormed
<1>2. SkipInv /\ (restored => RestoredInv)
  BY DEF SettingsInv
<1>3. ASSUME RestoredInv
      PROVE  prefs = Config!Default /\ widgets = Config!Default /\ put = "" /\ activePut = Config!Workspace
  <2>1. \A n \in Config!Names : prefs[n] = Config!Default[n] /\ widgets[n] = Config!Default[n]
    BY <1>1, <1>3 DEF RestoredInv
  <2>2. prefs = Config!Default /\ widgets = Config!Default
    BY <2>1, DefaultsAre DEF SettingsInv
  <2>. QED
    BY <1>1, <1>3, <2>2 DEF RestoredInv
<1>. QED
  BY <1>1, <1>2, <1>3 DEF SkipInv

LEMMA SettingsBegin == Config!Init => SettingsInv
<1>1. Config!Init => /\ todo = <<>> /\ tab = "none" /\ restored = FALSE
                     /\ prefs = Config!Default /\ widgets = Config!Default
  BY DEF Config!Init
<1>. QED
  BY <1>1, EmptyIsWellFormed, DefaultsAre DEF SettingsInv

LEMMA WindowComesAndGoes ==
  ASSUME SettingsInv, Config!Launch \/ Config!End
  PROVE  SettingsInv'
<1>1. CASE Config!Launch
  <2>1. /\ tab' = "run" /\ todo' = <<>> /\ ~ restored' /\ mode' = mode /\ widgets' = prefs'
        /\ prefs' = [prefs EXCEPT !["skip"] = prefs["skip"] \/ mode = "RESUME"]
    BY <1>1 DEF Config!Launch, Config!SkipAtLaunch, SettingsInv
  <2>2. "skip" \in Config!Names
    BY NamesAre
  <2>3. prefs' = [n \in Config!Names |-> prefs'[n]]
    BY <2>1 DEF SettingsInv
  <2>4. mode' = "RESUME" => widgets'["skip"]
    BY <2>1, <2>2 DEF SettingsInv
  <2>. QED
    BY <2>1, <2>3, <2>4, EmptyIsWellFormed DEF SettingsInv, SkipInv
<1>2. CASE Config!End
  BY <1>2, EmptyIsWellFormed DEF Config!End, Config!storeVars, SettingsInv
<1>. QED
  BY <1>1, <1>2

LEMMA UserKeepsSettings ==
  ASSUME SettingsInv,
         \/ \E n \in Config!Names : \E value : Config!EditWidget(n, value)
         \/ Config!ClickRestoreDefaults \/ Config!ChooseParallelism \/ Config!PressRun
         \/ \E resume \in BOOLEAN : Config!ChooseRunMode(resume)
         \/ \E t \in {"run", "configuration"} : Config!ShowTab(t)
         \/ \E text : Config!CommitPut(text)
  PROVE  SettingsInv'
<1>1. todo = <<>> /\ tab # "none" /\ WellFormed(todo) /\ SkipInv
  BY DEF Config!EditWidget, Config!ClickRestoreDefaults, Config!ChooseParallelism, Config!PressRun,
         Config!ChooseRunMode, Config!ShowTab, Config!CommitPut, Config!UserActs, Config!Idle, SettingsInv
<1>2. ASSUME NEW n \in Config!Names, NEW value, Config!EditWidget(n, value) PROVE SettingsInv'
  <2>1. /\ widgets' = [widgets EXCEPT ![n] = value] /\ todo' = Config!Slot(n) /\ ~ restored'
        /\ prefs' = prefs /\ mode' = mode /\ tab' = tab
    BY <1>2 DEF Config!EditWidget, Config!storeVars
  <2>2. WellFormed(todo') /\ widgets' = [m \in Config!Names |-> widgets'[m]]
    BY <2>1, SlotWellFormed DEF SettingsInv
  <2>3. CASE n = "skip"
    BY <1>1, <2>1, <2>2, <2>3, SlotsAre DEF SettingsInv, SkipInv
  <2>4. CASE n # "skip"
    <3>1. widgets'["skip"] = widgets["skip"]
      BY <2>1, <2>4, NamesAre DEF SettingsInv
    <3>. QED
      BY <1>1, <2>1, <2>2, <3>1, IdleIs DEF SettingsInv, SkipInv
  <2>. QED
    BY <2>3, <2>4
<1>3. CASE Config!ClickRestoreDefaults
  <2>1. /\ todo' = Config!RestoreOps /\ restored' /\ UNCHANGED <<prefs, mode, put, widgets, activePut, tab>>
    BY <1>3 DEF Config!ClickRestoreDefaults, Config!RestoreDefaultsOps, Config!storeVars, Config!widgetVars
  <2>2. WellFormed(todo') /\ RestoredInv' /\ SkipInv'
    BY <1>1, <2>1, RestoreIs, IdleIs, NamesAre DEF RestoredInv, SkipInv
  <2>. QED
    BY <1>1, <2>1, <2>2 DEF SettingsInv
<1>4. CASE Config!ChooseParallelism
  BY <1>1, <1>4 DEF Config!ChooseParallelism, Config!widgetVars, SettingsInv, SkipInv, RestoredInv
<1>5. ASSUME NEW resume \in BOOLEAN, Config!ChooseRunMode(resume) PROVE SettingsInv'
  <2>1. /\ UNCHANGED <<prefs, put, widgets, activePut, tab, todo, restored>>
        /\ mode' = "RESUME" => prefs["skip"]
    BY <1>5 DEF Config!ChooseRunMode, Config!widgetVars
  <2>. QED
    BY <1>1, <2>1, IdleIs DEF SettingsInv, SkipInv, RestoredInv
<1>6. ASSUME NEW t \in {"run", "configuration"}, Config!ShowTab(t) PROVE SettingsInv'
  <2>1. /\ UNCHANGED <<prefs, mode, put, widgets, todo, restored>> /\ tab' # "none"
        /\ activePut' \in {activePut, Config!ResolvedPath(put)}
    BY <1>6 DEF Config!ShowTab, Config!storeVars, Config!PutWhenShown
  <2>2. restored => activePut' = Config!Workspace
    BY <1>1, <2>1, IdleIs DEF Config!ResolvedPath
  <2>. QED
    BY <1>1, <2>1, <2>2 DEF SettingsInv, SkipInv, RestoredInv
<1>7. ASSUME NEW text, Config!CommitPut(text) PROVE SettingsInv'
  <2>1. UNCHANGED <<prefs, mode, widgets, tab, todo>> /\ ~ restored'
    BY <1>7 DEF Config!CommitPut
  <2>. QED
    BY <1>1, <2>1 DEF SettingsInv, SkipInv
<1>8. CASE Config!PressRun
  <2>1. /\ UNCHANGED <<prefs, mode, widgets, activePut, tab, todo>>
        /\ restored' => restored /\ put' = put
    BY <1>8 DEF Config!PressRun, Config!DialogChoosesPut, Config!widgetVars
  <2>. QED
    BY <1>1, <2>1 DEF SettingsInv, SkipInv, RestoredInv
<1>. QED
  BY <1>2, <1>3, <1>4, <1>5, <1>6, <1>7, <1>8

(* A widget is saved.                                                      *)
LEMMA StoreKeepsSettings ==
  ASSUME SettingsInv, NEW n \in Config!Names, Config!StoreWidget(n)
  PROVE  SettingsInv'
<1>1. /\ todo # <<>> /\ Head(todo) = Config!Saving(n) /\ WellFormed(todo) /\ todo \in Seq(Steps)
      /\ tab # "none" /\ SkipInv
      /\ prefs' = [prefs EXCEPT ![n] = Config!Stored(n)]
      /\ UNCHANGED <<mode, put, widgets, activePut, tab, restored>>
  BY DEF Config!StoreWidget, Config!Does, Config!widgetVars, SettingsInv, WellFormed
<1>2. /\ WellFormed(todo')
      /\ \A step : Has(todo, step) => \/ Has(todo', step)
                                      \/ step = Config!Saving(n)
                                      \/ \E v \in Windows : /\ n = v /\ widgets[v] = Config!NotANumber
                                                             /\ step \in {Config!Saving(UnitOf(v)), Config!Validating}
  <2>1. CASE Config!SlotReturns(n)
    <3>1. n \in Windows /\ widgets[n] = Config!NotANumber /\ todo' = SubSeq(todo, 4, Len(todo))
      BY <2>1 DEF Config!StoreWidget, Config!SlotReturns, Windows
    <3>. QED
      BY <1>1, <3>1, SlotDropped
  <2>2. CASE ~ Config!SlotReturns(n)
    <3>1. todo' = Tail(todo)
      BY <2>2 DEF Config!StoreWidget
    <3>. QED
      BY <1>1, <3>1, TailWellFormed, HasTail
  <2>. QED
    BY <2>1, <2>2
<1>3. /\ prefs' = [m \in Config!Names |-> prefs'[m]] /\ prefs'[n] = Config!Stored(n)
      /\ \A m \in Config!Names : m # n => prefs'[m] = prefs[m]
  BY <1>1 DEF SettingsInv
<1>4. SkipInv'
  <2>1. "skip" \in Config!Names /\ \A v \in Windows : UnitOf(v) # "skip" /\ v # "skip"
    BY NamesAre DEF Windows, UnitOf
  <2>2. prefs'["skip"] => \/ widgets["skip"] \/ Has(todo', Config!Saving("skip"))
                         \/ Has(todo', Config!Setting("skip"))
    <3>1. CASE n = "skip"
      BY <1>3, <3>1, DefaultIsStored
    <3>2. CASE n # "skip"
      BY <1>1, <1>2, <1>3, <2>1, <3>2, StepsDiffer DEF SkipInv
    <3>. QED
      BY <3>1, <3>2
  <2>3. mode = "RESUME" => widgets["skip"] \/ Has(todo', Config!Coupling) \/ Has(todo', Config!Checking)
    BY <1>1, <1>2, StepsDiffer DEF SkipInv
  <2>. QED
    BY <1>1, <2>2, <2>3 DEF SkipInv
<1>5. ASSUME restored PROVE RestoredInv'
  <2>1. RestoredInv
    BY <1>5 DEF SettingsInv
  <2>2. \A v \in Windows : n = v => widgets[v] # Config!NotANumber
    <3>. SUFFICES ASSUME n \in Windows PROVE widgets[n] # Config!NotANumber
      OBVIOUS
    <3>1. ~ Has(todo, Config!Showing(n))
      <4>. SUFFICES ASSUME NEW i \in DOMAIN todo, todo[i] = Config!Showing(n) PROVE FALSE
        BY DEF Has
      <4>1. 1 \in DOMAIN todo /\ todo[1] = Config!Saving(n) /\ i # 1 /\ 1 < i
        BY <1>1, StepsDiffer
      <4>2. Misplaced(todo[1], todo[i])
        BY <4>1 DEF Misplaced
      <4>. QED
        BY <1>1, <4>1, <4>2 DEF WellFormed
    <3>2. widgets[n] = Config!Default[n]
      BY <2>1, <3>1 DEF RestoredInv
    <3>3. n \in Config!Texts
      BY DEF Windows, Config!Texts
    <3>. QED
      BY <3>2, <3>3, DefaultsAre
  <2>3. \A step : Has(todo, step) /\ step # Config!Saving(n) => Has(todo', step)
    BY <1>2, <2>2
  <2>4. ASSUME NEW m \in Config!Names
        PROVE  /\ \/ prefs'[m] = Config!Default[m]
                  \/ Has(todo', Config!Setting(m)) \/ Has(todo', Config!Saving(m))
                  \/ Has(todo', Config!Showing(m)) /\ widgets[m] # Config!Default[m]
               /\ widgets[m] = Config!Default[m] \/ Has(todo', Config!Showing(m))
    <3>1. widgets[m] = Config!Default[m] \/ Has(todo', Config!Showing(m))
      BY <2>1, <2>3, StepsDiffer DEF RestoredInv
    <3>2. CASE m = n
      BY <1>3, <3>1, <3>2, DefaultIsStored
    <3>3. CASE m # n
      BY <1>3, <2>1, <2>3, <3>1, <3>3, StepsDiffer DEF RestoredInv
    <3>. QED
      BY <3>1, <3>2, <3>3
  <2>5. /\ put = "" \/ Has(todo', Config!Setting("put"))
        /\ activePut = Config!Workspace \/ Has(todo', Config!Showing("put"))
    BY <2>1, <2>3, StepsDiffer DEF RestoredInv
  <2>. QED
    BY <1>1, <2>4, <2>5 DEF RestoredInv
<1>. QED
  BY <1>1, <1>2, <1>3, <1>4, <1>5 DEF SettingsInv

(* A widget is set to its default.                                         *)
LEMMA ShowKeepsSettings ==
  ASSUME SettingsInv, NEW n \in Config!Names, Config!ShowDefault(n)
  PROVE  SettingsInv'
<1>1. /\ todo # <<>> /\ Head(todo) = Config!Showing(n) /\ WellFormed(todo) /\ todo \in Seq(Steps)
      /\ tab # "none" /\ SkipInv
      /\ widgets' = [widgets EXCEPT ![n] = Config!Default[n]]
      /\ UNCHANGED <<prefs, mode, put, activePut, tab, restored>>
  BY DEF Config!ShowDefault, Config!Does, Config!storeVars, SettingsInv, WellFormed
<1>2. /\ WellFormed(todo')
      /\ \A step : Has(todo, step) /\ step # Config!Showing(n) => Has(todo', step)
      /\ widgets[n] # Config!Default[n] => /\ Has(todo', Config!Saving(n))
                                           /\ n = "skip" => Has(todo', Config!Coupling)
  <2>1. CASE widgets[n] = Config!Default[n]
    <3>1. todo' = Tail(todo)
      BY <2>1 DEF Config!ShowDefault
    <3>. QED
      BY <1>1, <2>1, <3>1, TailWellFormed, HasTail
  <2>2. CASE widgets[n] # Config!Default[n]
    <3>1. todo' = Config!Slot(n) \o Tail(todo)
      BY <2>2 DEF Config!ShowDefault
    <3>2. Tail(todo) \in Seq(Steps) /\ Config!Slot(n) \in Seq(Steps)
      BY <1>1, SlotsAre
    <3>3. \A step : Has(todo', step) <=> Has(Config!Slot(n), step) \/ Has(Tail(todo), step)
      BY <3>1, <3>2, HasConcat
    <3>. QED
      BY <1>1, <3>1, <3>3, SlotWithin, SlotsAre, HasTail
  <2>. QED
    BY <2>1, <2>2
<1>3. /\ widgets' = [m \in Config!Names |-> widgets'[m]] /\ widgets'[n] = Config!Default[n]
      /\ \A m \in Config!Names : m # n => widgets'[m] = widgets[m]
  BY <1>1 DEF SettingsInv
<1>4. SkipInv'
  <2>1. "skip" \in Config!Names
    BY NamesAre
  <2>2. CASE n = "skip" /\ widgets[n] # Config!Default[n]
    BY <1>1, <1>2, <2>2 DEF SkipInv
  <2>3. CASE n # "skip" \/ widgets[n] = Config!Default[n]
    <3>1. widgets'["skip"] = widgets["skip"]
      BY <1>3, <2>1, <2>3
    <3>. QED
      BY <1>1, <1>2, <3>1, StepsDiffer DEF SkipInv
  <2>. QED
    BY <2>2, <2>3
<1>5. ASSUME restored PROVE RestoredInv'
  <2>1. RestoredInv
    BY <1>5 DEF SettingsInv
  <2>2. ASSUME NEW m \in Config!Names
        PROVE  /\ \/ prefs[m] = Config!Default[m]
                  \/ Has(todo', Config!Setting(m)) \/ Has(todo', Config!Saving(m))
                  \/ Has(todo', Config!Showing(m)) /\ widgets'[m] # Config!Default[m]
               /\ widgets'[m] = Config!Default[m] \/ Has(todo', Config!Showing(m))
    <3>1. CASE m = n
      BY <1>2, <1>3, <2>1, <3>1, StepsDiffer DEF RestoredInv
    <3>2. CASE m # n
      BY <1>2, <1>3, <2>1, <3>2, StepsDiffer DEF RestoredInv
    <3>. QED
      BY <3>1, <3>2
  <2>3. Config!Showing("put") # Config!Showing(n)
    BY StepsDiffer, NamesAre
  <2>4. /\ put = "" \/ Has(todo', Config!Setting("put"))
        /\ activePut = Config!Workspace \/ Has(todo', Config!Showing("put"))
    BY <1>2, <2>1, <2>3, StepsDiffer DEF RestoredInv
  <2>. QED
    BY <1>1, <2>2, <2>4 DEF RestoredInv
<1>. QED
  BY <1>1, <1>2, <1>3, <1>4, <1>5 DEF SettingsInv

(* The other steps of handlers.                                            *)
LEMMA HandlerKeepsSettings ==
  ASSUME SettingsInv,
         \/ \E n \in Config!Names : Config!SetDefault(n)
         \/ Config!CoupleMode \/ Config!CheckMode \/ Config!DefaultPut \/ Config!ShowPut \/ Config!Validate
  PROVE  SettingsInv'
<1>1. /\ todo # <<>> /\ todo' = Tail(todo) /\ tab' = tab /\ restored' = restored /\ widgets' = widgets
  BY DEF Config!SetDefault, Config!CoupleMode, Config!CheckMode, Config!DefaultPut, Config!ShowPut,
         Config!Validate, Config!Does, Config!Done, Config!widgetVars
<1>2. tab # "none" /\ SkipInv /\ WellFormed(todo) /\ todo \in Seq(Steps) /\ (restored => RestoredInv)
  BY <1>1 DEF SettingsInv, WellFormed
<1>3. /\ WellFormed(todo')
      /\ \A step : Has(todo, step) /\ step # Head(todo) => Has(todo', step)
  BY <1>1, <1>2, TailWellFormed, HasTail
<1>4. ASSUME NEW n \in Config!Names, Config!SetDefault(n) PROVE SettingsInv'
  <2>1. /\ Head(todo) = Config!Setting(n) /\ prefs' = [prefs EXCEPT ![n] = Config!Default[n]]
        /\ UNCHANGED <<mode, put, activePut>>
    BY <1>4 DEF Config!SetDefault, Config!Does, Config!widgetVars
  <2>2. /\ prefs' = [m \in Config!Names |-> prefs'[m]] /\ prefs'[n] = Config!Default[n]
        /\ \A m \in Config!Names : m # n => prefs'[m] = prefs[m]
    BY <2>1 DEF SettingsInv
  <2>3. SkipInv'
    <3>1. "skip" \in Config!Names
      BY NamesAre
    <3>2. prefs'["skip"] => \/ widgets["skip"] \/ Has(todo', Config!Saving("skip"))
                           \/ Has(todo', Config!Setting("skip"))
      <4>1. CASE n = "skip"
        BY <2>2, <4>1, DefaultsAre
      <4>2. CASE n # "skip"
        BY <1>2, <1>3, <2>1, <2>2, <3>1, <4>2, StepsDiffer DEF SkipInv
      <4>. QED
        BY <4>1, <4>2
    <3>. QED
      BY <1>1, <1>2, <1>3, <2>1, <3>2, StepsDiffer DEF SkipInv
  <2>4. ASSUME restored PROVE RestoredInv'
    <3>1. RestoredInv
      BY <1>2, <2>4
    <3>2. ASSUME NEW m \in Config!Names
          PROVE  /\ \/ prefs'[m] = Config!Default[m]
                    \/ Has(todo', Config!Setting(m)) \/ Has(todo', Config!Saving(m))
                    \/ Has(todo', Config!Showing(m)) /\ widgets[m] # Config!Default[m]
                 /\ widgets[m] = Config!Default[m] \/ Has(todo', Config!Showing(m))
      <4>1. CASE m = n
        BY <1>3, <2>1, <2>2, <3>1, <4>1, StepsDiffer DEF RestoredInv
      <4>2. CASE m # n
        <5>1. prefs'[m] = prefs[m] /\ \A k : Config!Setting(k) = Config!Setting(n) => k = n
          BY <2>2, <4>2, StepsDiffer
        <5>2. /\ Has(todo, Config!Setting(m)) => Has(todo', Config!Setting(m))
              /\ Has(todo, Config!Saving(m)) => Has(todo', Config!Saving(m))
              /\ Has(todo, Config!Showing(m)) => Has(todo', Config!Showing(m))
          BY <1>3, <2>1, <4>2, <5>1, StepsDiffer
        <5>. QED
          BY <3>1, <5>1, <5>2 DEF RestoredInv
      <4>. QED
        BY <4>1, <4>2
    <3>3. Config!Setting("put") # Config!Setting(n)
      BY StepsDiffer, NamesAre
    <3>4. /\ put = "" \/ Has(todo', Config!Setting("put"))
          /\ activePut = Config!Workspace \/ Has(todo', Config!Showing("put"))
      BY <1>3, <2>1, <3>1, <3>3, StepsDiffer DEF RestoredInv
    <3>. QED
      BY <1>1, <2>1, <3>2, <3>4 DEF RestoredInv
  <2>. QED
    BY <1>1, <1>2, <1>3, <2>2, <2>3, <2>4 DEF SettingsInv
<1>5. ASSUME UNCHANGED <<prefs, put, activePut>>,
             Head(todo) \in {Config!Coupling, Config!Checking, Config!Validating},
             mode' = "RESUME" => \/ widgets["skip"]
                                 \/ mode = "RESUME" /\ Head(todo) = Config!Validating
      PROVE  SettingsInv'
  <2>1. SkipInv'
    BY <1>1, <1>2, <1>3, <1>5, StepsDiffer DEF SkipInv
  <2>2. restored => RestoredInv'
    BY <1>1, <1>2, <1>3, <1>5, StepsDiffer DEF RestoredInv
  <2>. QED
    BY <1>1, <1>2, <1>3, <1>5, <2>1, <2>2 DEF SettingsInv
<1>6. ASSUME UNCHANGED <<prefs, mode>>, Head(todo) \in {Config!Setting("put"), Config!Showing("put")},
             restored => /\ put' = "" \/ Has(todo', Config!Setting("put"))
                         /\ activePut' = Config!Workspace \/ Has(todo', Config!Showing("put"))
      PROVE  SettingsInv'
  <2>1. \A n \in Config!Names : Head(todo) # Config!Setting(n) /\ Head(todo) # Config!Showing(n)
                                /\ Head(todo) # Config!Saving(n)
    BY <1>6, StepsDiffer, NamesAre
  <2>2. Head(todo) # Config!Coupling /\ Head(todo) # Config!Checking
    BY <1>6, StepsDiffer
  <2>3. SkipInv'
    BY <1>1, <1>2, <1>3, <1>6, <2>1, <2>2, NamesAre DEF SkipInv
  <2>4. restored => RestoredInv'
    BY <1>1, <1>2, <1>3, <1>6, <2>1 DEF RestoredInv
  <2>. QED
    BY <1>1, <1>2, <1>3, <1>6, <2>3, <2>4 DEF SettingsInv
<1>7. CASE Config!CoupleMode
  BY <1>5, <1>7 DEF Config!CoupleMode, Config!Does, Config!widgetVars
<1>8. CASE Config!CheckMode
  BY <1>5, <1>8 DEF Config!CheckMode, Config!Does, Config!widgetVars
<1>9. CASE Config!Validate
  BY <1>5, <1>9 DEF Config!Validate, Config!Does, Config!storeVars
<1>10. CASE Config!DefaultPut
  <2>1. put' = "" /\ activePut' = activePut /\ Head(todo) = Config!Setting("put") /\ UNCHANGED <<prefs, mode>>
    BY <1>10 DEF Config!DefaultPut, Config!Does, Config!widgetVars
  <2>2. restored => activePut = Config!Workspace \/ Has(todo', Config!Showing("put"))
    BY <1>2, <1>3, <2>1, StepsDiffer DEF RestoredInv
  <2>. QED
    BY <1>6, <2>1, <2>2
<1>11. CASE Config!ShowPut
  <2>1. /\ put' = put /\ activePut' = Config!ResolvedPath(put) /\ Head(todo) = Config!Showing("put")
        /\ UNCHANGED <<prefs, mode>>
    BY <1>11 DEF Config!ShowPut, Config!Does, Config!storeVars
  <2>2. ~ Has(todo, Config!Setting("put"))
    <3>. SUFFICES ASSUME NEW i \in DOMAIN todo, todo[i] = Config!Setting("put") PROVE FALSE
      BY DEF Has
    <3>1. 1 \in DOMAIN todo /\ todo[1] = Config!Showing("put") /\ i # 1 /\ 1 < i
      BY <1>1, <1>2, <2>1, StepsDiffer
    <3>2. Misplaced(todo[1], todo[i])
      BY <3>1 DEF Misplaced
    <3>. QED
      BY <1>2, <3>1, <3>2 DEF WellFormed
  <2>3. restored => put = "" /\ activePut' = Config!Workspace
    BY <1>2, <2>1, <2>2 DEF RestoredInv, Config!ResolvedPath
  <2>. QED
    BY <1>6, <2>1, <2>3
<1>. QED
  BY <1>4, <1>7, <1>8, <1>9, <1>10, <1>11

(* Every step keeps the invariant.                                         *)
LEMMA NextSettingsInv ==
  ASSUME SettingsInv, [Config!Next]_(Config!vars)
  PROVE  SettingsInv'
<1>1. CASE Config!Launch \/ Config!End
  BY <1>1, WindowComesAndGoes
<1>2. CASE \/ \E n \in Config!Boxes : Config!EditWidget(n, ~ widgets[n])
           \/ \E n \in Config!Texts, value \in Values \cup {Config!NotANumber} : Config!EditWidget(n, value)
           \/ \E n \in Config!Combos, unit \in Config!Units : Config!EditWidget(n, unit)
  <2>1. Config!Boxes \subseteq Config!Names /\ Config!Texts \subseteq Config!Names /\ Config!Combos \subseteq Config!Names
    BY NamesAre DEF Config!Boxes, Config!Texts, Config!Combos
  <2>. QED
    BY <1>2, <2>1, UserKeepsSettings
<1>3. CASE \/ Config!ClickRestoreDefaults \/ Config!ChooseParallelism \/ Config!PressRun
           \/ \E resume \in BOOLEAN : Config!ChooseRunMode(resume)
           \/ \E t \in {"run", "configuration"} : Config!ShowTab(t)
           \/ \E text \in Paths \cup {"", Config!Workspace} : Config!CommitPut(text)
  BY <1>3, UserKeepsSettings
<1>4. CASE Config!HandlerStep
  BY <1>4, StoreKeepsSettings, ShowKeepsSettings, HandlerKeepsSettings DEF Config!HandlerStep
<1>5. CASE Config!AdoptRun \/ Config!EndRun \/ Config!Reconcile \/ UNCHANGED Config!vars
  <2>1. UNCHANGED <<prefs, mode, put, widgets, activePut, tab, todo, restored>>
    BY <1>5 DEF Config!AdoptRun, Config!EndRun, Config!Reconcile, Config!vars, Config!storeVars, Config!widgetVars
  <2>. QED
    BY <2>1 DEF SettingsInv, SkipInv, RestoredInv
<1>. QED
  BY <1>1, <1>2, <1>3, <1>4, <1>5 DEF Config!Next

-----------------------------------------------------------------------------
(* The list of ordering aspects                                            *)

IsList(list) == \E S : list \in Seq(S)

(* What is saved, or about to be, is what is shown.                        *)
OrderingInv ==
  /\ IsList(saved) /\ IsList(rows)
  /\ rows # <<>> /\ writing = <<>> => saved = Ordering!EnabledOf(rows)
  /\ writing # <<>> => writing[1] = Ordering!EnabledOf(rows)

LEMMA OrderingSizes == \A S : Ordering!Cardinality(S) = Cardinality(S)
BY DEF Cardinality, Ordering!Cardinality

(* A set of numbers has a least.                                           *)
LEMMA LeastNumber ==
  ASSUME NEW T \in SUBSET Nat, T # {}
  PROVE  \E m \in T : \A k \in T : m =< k
<1>1. PICK m \in T : \A k \in T : <<k, m>> \notin OpToRel(<, Nat)
  BY NatLessThanWellFounded, WFMin
<1>2. \A k \in T : ~(k < m)
  BY <1>1 DEF OpToRel
<1>. QED
  BY <1>2

LEMMA ListsAre ==
  ASSUME NEW list, IsList(list)
  PROVE  Len(list) \in Nat /\ DOMAIN list = 1..Len(list) /\ list = [i \in 1..Len(list) |-> list[i]]
BY DEF IsList

LEMMA FunctionsAreLists ==
  ASSUME NEW n \in Nat, NEW list, list = [i \in 1..n |-> list[i]]
  PROVE  IsList(list) /\ Len(list) = n
<1>. DEFINE S == {list[i] : i \in 1..n}
<1>1. list \in [1..n -> S]
  OBVIOUS
<1>2. list \in Seq(S)
  BY <1>1
<1>. HIDE DEF S
<1>. QED
  BY <1>1, <1>2 DEF IsList

(* Lists of any elements are of elements of one set.                       *)
LEMMA ConcatIsList ==
  ASSUME NEW a, NEW b, IsList(a), IsList(b)
  PROVE  /\ IsList(a \o b) /\ Len(a \o b) = Len(a) + Len(b)
         /\ \A i \in 1..Len(a) : (a \o b)[i] = a[i]
         /\ \A i \in 1..Len(b) : (a \o b)[Len(a) + i] = b[i]
<1>1. PICK S : a \in Seq(S)
  BY DEF IsList
<1>2. PICK T : b \in Seq(T)
  BY DEF IsList
<1>. DEFINE U == S \cup T
<1>3. a \in Seq(U) /\ b \in Seq(U)
  BY <1>1, <1>2
<1>. HIDE DEF U
<1>. QED
  BY <1>3 DEF IsList

LEMMA PartIsList ==
  ASSUME NEW list, IsList(list), NEW m \in Nat \ {0}, NEW n \in Nat, n =< Len(list)
  PROVE  IsList(SubSeq(list, m, n)) /\ Len(SubSeq(list, m, n)) = IF m =< n THEN n - m + 1 ELSE 0
<1>1. PICK S : list \in Seq(S)
  BY DEF IsList
<1>. QED
  BY <1>1 DEF IsList

(* Positions from the first on are those there are.                        *)
LEMMA PositionsInOrder ==
  ASSUME NEW n \in Nat
  PROVE  Ordering!Ascending(1..n) = [k \in 1..n |-> k]
<1>1. IsFiniteSet(1..n) /\ Cardinality(1..n) = n /\ 1..n \in SUBSET Int
  BY FS_Interval
<1>2. ASSUME NEW k \in 1..n PROVE Ordering!Cardinality({j \in 1..n : j < k}) = k - 1
  <2>. DEFINE less == {j \in 1..n : j < k}
  <2>1. less = 1..(k - 1)
    OBVIOUS
  <2>2. Cardinality(1..(k - 1)) = k - 1
    BY FS_Interval
  <2>. HIDE DEF less
  <2>3. Ordering!Cardinality(less) = k - 1
    BY <2>1, <2>2, OrderingSizes
  <2>. QED
    BY <2>3 DEF less
<1>3. \A k \in 1..n : (CHOOSE i \in 1..n : Ordering!Cardinality({j \in 1..n : j < i}) = k - 1) = k
  BY <1>2
<1>4. Ordering!Ascending(1..n)
        = [k \in 1..n |-> CHOOSE i \in 1..n : Ordering!Cardinality({j \in 1..n : j < i}) = k - 1]
  BY <1>1, OrderingSizes DEF Ordering!Ascending
<1>. QED
  BY <1>3, <1>4

LEMMA PositionsAreList ==
  ASSUME NEW list, IsList(list), NEW S \in SUBSET (DOMAIN list)
  PROVE  Cardinality(S) \in Nat /\ DOMAIN Ordering!Ascending(S) = 1..Cardinality(S)
<1>1. Len(list) \in Nat /\ DOMAIN list = 1..Len(list)
  BY ListsAre
<1>2. IsFiniteSet(DOMAIN list)
  BY <1>1, FS_Interval
<1>3. Cardinality(S) \in Nat
  BY <1>2, FS_Subset, FS_CardinalityType
<1>4. DOMAIN Ordering!Ascending(S) = 1..Cardinality(S)
  BY OrderingSizes DEF Ordering!Ascending
<1>. QED
  BY <1>3, <1>4

(* The enabled aspects of a list are one.                                  *)
LEMMA EnabledIsList ==
  ASSUME NEW list, IsList(list)
  PROVE  IsList(Ordering!EnabledOf(list))
<1>. DEFINE S == {i \in DOMAIN list : list[i].checked}
            p == Ordering!Ascending(S)
            n == Cardinality(S)
            e == [i \in DOMAIN p |-> list[p[i]].aspect]
<1>1. n \in Nat /\ DOMAIN p = 1..n
  BY PositionsAreList
<1>2. Ordering!EnabledOf(list) = e
  BY DEF Ordering!EnabledOf
<1>. HIDE DEF n, p, S
<1>3. e = [i \in 1..n |-> e[i]]
  BY <1>1
<1>. HIDE DEF e
<1>. QED
  BY <1>1, <1>2, <1>3, FunctionsAreLists

(* What rows are made of shows what they were made from.                   *)
LEMMA EnabledOfRows ==
  ASSUME NEW e, IsList(e)
  PROVE  IsList(Ordering!RowsFor(e)) /\ Ordering!EnabledOf(Ordering!RowsFor(e)) = e
<1>. DEFINE n == Len(e)
            S == {k \in DOMAIN Aspects : Aspects[k] \notin Ordering!ToSet(e)}
            p == Ordering!Ascending(S)
            m == Cardinality(S)
            a == [i \in DOMAIN e |-> Ordering!Row(e[i], TRUE)]
            b == [i \in DOMAIN p |-> Ordering!Row(Aspects[p[i]], FALSE)]
            R == a \o b
<1>1. n \in Nat /\ DOMAIN e = 1..n /\ e = [i \in 1..n |-> e[i]]
  BY ListsAre
<1>2. m \in Nat /\ DOMAIN p = 1..m
  <2>1. IsList(Aspects)
    BY ServicesConstantsOK DEF Ordering!AspectsOK, IsList
  <2>. QED
    BY <2>1, PositionsAreList
<1>3. Ordering!RowsFor(e) = R
  BY DEF Ordering!RowsFor
<1>. HIDE DEF n, S, p, m
<1>4. a = [i \in 1..n |-> a[i]] /\ b = [i \in 1..m |-> b[i]]
  BY <1>1, <1>2
<1>5. /\ \A i \in 1..n : a[i].aspect = e[i] /\ a[i].checked = TRUE
      /\ \A i \in 1..m : b[i].checked = FALSE
  BY <1>1, <1>2 DEF Ordering!Row
<1>. HIDE DEF a, b
<1>6. IsList(a) /\ Len(a) = n /\ IsList(b) /\ Len(b) = m
  BY <1>1, <1>2, <1>4, FunctionsAreLists
<1>7. /\ IsList(R) /\ Len(R) = n + m
      /\ \A i \in 1..n : R[i] = a[i]
      /\ \A i \in 1..m : R[n + i] = b[i]
  BY <1>6, ConcatIsList
<1>8. DOMAIN R = 1..(n + m)
  BY <1>7, ListsAre
<1>. HIDE DEF R
<1>9. {i \in DOMAIN R : R[i].checked} = 1..n
  <2>1. \A i \in 1..n : R[i].checked
    BY <1>5, <1>7
  <2>2. ASSUME NEW i \in 1..(n + m), i \notin 1..n PROVE ~ R[i].checked
    <3>1. i - n \in 1..m /\ n + (i - n) = i
      BY <1>1, <1>2, <2>2
    <3>2. R[i] = b[i - n]
      BY <1>7, <3>1
    <3>. QED
      BY <1>5, <3>1, <3>2
  <2>3. 1..n \subseteq 1..(n + m)
    BY <1>1, <1>2
  <2>. QED
    BY <1>8, <2>1, <2>2, <2>3
<1>. DEFINE c == Ordering!Ascending({i \in DOMAIN R : R[i].checked})
<1>10. c = [k \in 1..n |-> k]
  BY <1>1, <1>9, PositionsInOrder
<1>11. Ordering!EnabledOf(R) = [i \in DOMAIN c |-> R[c[i]].aspect]
  BY DEF Ordering!EnabledOf
<1>. HIDE DEF c
<1>12. [i \in DOMAIN c |-> R[c[i]].aspect] = [i \in 1..n |-> e[i]]
  BY <1>5, <1>7, <1>10
<1>. QED
  BY <1>1, <1>3, <1>7, <1>11, <1>12

(* A moved row leaves a list.                                              *)
LEMMA MovedIsList ==
  ASSUME NEW list, IsList(list), NEW i \in 1..Len(list), NEW j \in 1..Len(list)
  PROVE  IsList(Ordering!Moved(list, i, j))
<1>. DEFINE r == Ordering!RemoveAt(list, i)
<1>1. Len(list) \in Nat /\ i \in Nat \ {0} /\ j \in Nat \ {0} /\ j =< Len(list)
  BY ListsAre
<1>2. IsList(r) /\ Len(r) = Len(list) - 1
  <2>. DEFINE x == SubSeq(list, 1, i - 1)
              y == SubSeq(list, i + 1, Len(list))
  <2>1. IsList(x) /\ Len(x) = i - 1 /\ IsList(y) /\ Len(y) = Len(list) - i
    BY <1>1, PartIsList
  <2>2. r = x \o y
    BY DEF Ordering!RemoveAt
  <2>. HIDE DEF x, y, r
  <2>3. IsList(r) /\ Len(r) = (i - 1) + (Len(list) - i)
    BY <2>1, <2>2, ConcatIsList
  <2>. QED
    BY <1>1, <2>3
<1>3. Ordering!Moved(list, i, j) = Ordering!InsertAt(r, j, list[i])
  BY DEF Ordering!Moved
<1>. HIDE DEF r
<1>. DEFINE x == SubSeq(r, 1, j - 1)
            y == SubSeq(r, j, Len(r))
            z == <<list[i]>>
<1>4. Ordering!InsertAt(r, j, list[i]) = x \o z \o y
  BY DEF Ordering!InsertAt
<1>5. IsList(x) /\ IsList(y)
  BY <1>1, <1>2, PartIsList
<1>6. IsList(z)
  <2>1. z \in Seq({list[i]})
    OBVIOUS
  <2>. QED
    BY <2>1 DEF IsList
<1>. HIDE DEF x, y, z
<1>7. IsList(x \o z \o y)
  BY <1>5, <1>6, ConcatIsList
<1>. QED
  BY <1>3, <1>4, <1>7

(* A row is checked or unchecked, and moved to where it belongs.           *)
LEMMA ToggleIsList ==
  ASSUME IsList(rows), NEW i \in DOMAIN rows, Ordering!Toggle(i)
  PROVE  IsList(rows')
<1>. DEFINE list == [rows EXCEPT ![i].checked = ~ rows[i].checked]
            above == {j \in 1 .. i - 1 : ~ rows[j].checked}
            target == IF ~ list[i].checked THEN Len(rows)
                      ELSE CHOOSE j \in above \cup {i} : \A k \in above : j <= k
<1>1. rows' = Ordering!Moved(list, i, target)
  BY DEF Ordering!Toggle
<1>2. Len(rows) \in Nat /\ DOMAIN rows = 1..Len(rows) /\ i \in 1..Len(rows)
  BY ListsAre
<1>3. IsList(list) /\ Len(list) = Len(rows)
  <2>1. list = [k \in 1..Len(rows) |-> list[k]]
    BY <1>2
  <2>. HIDE DEF list
  <2>. QED
    BY <1>2, <2>1, FunctionsAreLists
<1>4. (CHOOSE j \in above \cup {i} : \A k \in above : j <= k) \in 1..Len(rows)
  <2>1. above \in SUBSET Nat /\ above \subseteq 1..Len(rows)
    BY <1>2
  <2>. HIDE DEF above
  <2>2. \E j \in above \cup {i} : \A k \in above : j <= k
    <3>1. CASE above = {}
      BY <3>1
    <3>2. CASE above # {}
      BY <2>1, <3>2, LeastNumber
    <3>. QED
      BY <3>1, <3>2
  <2>3. (CHOOSE j \in above \cup {i} : \A k \in above : j <= k) \in above \cup {i}
    BY <2>2
  <2>. QED
    BY <1>2, <2>1, <2>3
<1>5. target \in 1..Len(rows)
  BY <1>2, <1>4
<1>. HIDE DEF list, target
<1>. QED
  BY <1>1, <1>2, <1>3, <1>5, MovedIsList

LEMMA OrderingBegin == Ordering!Init => OrderingInv
<1>1. <<>> \in Seq({})
  OBVIOUS
<1>2. IsList(<<>>)
  BY <1>1 DEF IsList
<1>. QED
  BY <1>2 DEF Ordering!Init, OrderingInv

(* Every step keeps it.                                                    *)
LEMMA NextOrderingInv ==
  ASSUME OrderingInv, [Ordering!Next]_(Ordering!vars)
  PROVE  OrderingInv'
<1>1. IsList(Seed)
  BY ServicesConstantsOK DEF Ordering!AspectsOK, IsList
<1>2. CASE Ordering!Open
  <2>1. /\ saved' \in {saved, Seed} /\ rows' = Ordering!RowsFor(saved') /\ writing' = <<>>
    BY <1>2 DEF Ordering!Open
  <2>2. IsList(saved')
    BY <1>1, <2>1 DEF OrderingInv
  <2>. QED
    BY <2>1, <2>2, EnabledOfRows DEF OrderingInv
<1>3. CASE Ordering!Close
  <2>1. <<>> \in Seq({})
    OBVIOUS
  <2>2. IsList(<<>>)
    BY <2>1 DEF IsList
  <2>. QED
    BY <1>3, <2>2 DEF Ordering!Close, OrderingInv
<1>4. CASE Ordering!Write
  <2>1. /\ writing # <<>> /\ saved' = writing[1] /\ writing' = <<>> /\ rows' = rows
    BY <1>4 DEF Ordering!Write
  <2>2. IsList(saved')
    BY <2>1, EnabledIsList DEF OrderingInv
  <2>. QED
    BY <2>1, <2>2 DEF OrderingInv
<1>5. CASE Ordering!ResetToDefaults
  <2>1. /\ saved' = Seed /\ rows' = Ordering!RowsFor(Seed) /\ writing' = writing /\ writing = <<>>
    BY <1>5 DEF Ordering!ResetToDefaults, Ordering!Idle
  <2>. QED
    BY <1>1, <2>1, EnabledOfRows DEF OrderingInv
<1>6. ASSUME writing' = Ordering!Persist(rows'), saved' = saved, IsList(rows') PROVE OrderingInv'
  <2>1. writing' = <<Ordering!EnabledOf(rows')>>
    BY <1>6 DEF Ordering!Persist
  <2>2. writing' # <<>> /\ writing'[1] = Ordering!EnabledOf(rows')
    BY <2>1
  <2>. QED
    BY <1>6, <2>2 DEF OrderingInv
<1>7. ASSUME NEW i \in DOMAIN rows, Ordering!Toggle(i) PROVE OrderingInv'
  BY <1>6, <1>7, ToggleIsList DEF Ordering!Toggle, OrderingInv
<1>8. ASSUME NEW i \in DOMAIN rows, NEW j \in DOMAIN rows, Ordering!Move(i, j) PROVE OrderingInv'
  <2>1. rows' = Ordering!Moved(rows, i, j) /\ writing' = Ordering!Persist(rows') /\ saved' = saved
    BY <1>8 DEF Ordering!Move
  <2>2. IsList(rows')
    BY <2>1, MovedIsList, ListsAre DEF OrderingInv
  <2>. QED
    BY <1>6, <2>1, <2>2
<1>9. CASE UNCHANGED Ordering!vars
  BY <1>9 DEF Ordering!vars, OrderingInv
<1>. QED
  BY <1>2, <1>3, <1>4, <1>5, <1>7, <1>8, <1>9 DEF Ordering!Next

-----------------------------------------------------------------------------
(* What the Configuration tab shows is what is stored, wherever the        *)
(* application ended before and however the slots of widgets run within    *)
(* handlers: a mode of resuming whatever has changed, the defaults that    *)
(* were restored (configuration.py, Configuration._apply_defaults), and    *)
(* the list the tests are ordered by (ordering_aspects_widget.py).         *)
THEOREM ConfigurationIsStored ==
  /\ Config!Spec => [](Config!ForcedResumeShown /\ Config!DefaultsRestored)
  /\ Ordering!Spec => []Ordering!SavedAsShown
  /\ ServicesSpec => []ShownIsStored
<1>1. SettingsInv => Config!ForcedResumeShown /\ Config!DefaultsRestored
  BY IdleIs DEF Config!ForcedResumeShown, Config!DefaultsRestored, Config!Idle
<1>2. OrderingInv => Ordering!SavedAsShown
  BY DEF OrderingInv, Ordering!SavedAsShown, Ordering!Idle
<1>3. SettingsInv /\ OrderingInv => ShownIsStored
  BY <1>1, <1>2 DEF ShownIsStored
<1>4. ServicesInit => Config!Init /\ Ordering!Init
  BY DEF ServicesInit
<1>5. Config!Spec => [](Config!ForcedResumeShown /\ Config!DefaultsRestored)
  BY <1>1, SettingsBegin, NextSettingsInv, PTL DEF Config!Spec
<1>6. Ordering!Spec => []Ordering!SavedAsShown
  BY <1>2, OrderingBegin, NextOrderingInv, PTL DEF Ordering!Spec
<1>7. ServicesSpec => []ShownIsStored
  BY <1>3, <1>4, SettingsBegin, NextSettingsInv, OrderingBegin, NextOrderingInv, ComponentsStep, PTL
     DEF ServicesSpec
<1>. QED
  BY <1>5, <1>6, <1>7
=============================================================================
