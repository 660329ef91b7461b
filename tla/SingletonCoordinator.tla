------------------------ MODULE SingletonCoordinator ------------------------
(***************************************************************************)
(* pytest_runner/singleton_coordinator.py: serialises singleton tests      *)
(* against all other worker threads.                                       *)
(*                                                                         *)
(* Every method holds one threading.Condition, so each critical section is *)
(* one action.  A thread inside cond.wait() has given the lock up: that is *)
(* the state "waitNormal" or "waitSingleton".  The wait has a timeout, so  *)
(* a waiting thread re-evaluates its loop again and again whether or not   *)
(* it is notified; notify_all only makes that sooner and is not modelled.  *)
(* One evaluation of the loop ends in one of three ways: the slot is       *)
(* claimed (True), the stop predicate holds (False), or the thread waits.  *)
(* The stop predicate belongs to the caller: here it may hold at any time, *)
(* in PytestRunner.tla it is the worker's should_abort.                    *)
(***************************************************************************)
EXTENDS Integers, FiniteSets

CONSTANT Threads   \* the worker threads that share the coordinator

ASSUME ThreadsFinite == IsFiniteSet(Threads)

VARIABLES active,             \* _active: the slots in flight
          singletonRunning,   \* _singleton_running
          singletonWaiters,   \* _singleton_waiters
          slot                \* where each thread stands in the protocol

vars == <<active, singletonRunning, singletonWaiters, slot>>

Holding == {"normal", "singleton"}
Waiting == {"waitNormal", "waitSingleton"}

In(kinds) == {t \in Threads : slot[t] \in kinds}

(* The two counters are Python ints that nothing in the code keeps from    *)
(* going below zero; that an acquire precedes every release does.          *)
TypeOK ==
  /\ active \in Nat
  /\ singletonRunning \in BOOLEAN
  /\ singletonWaiters \in Nat
  /\ slot \in [Threads -> Holding \cup Waiting \cup {"none"}]

Init ==
  /\ active = 0
  /\ singletonRunning = FALSE
  /\ singletonWaiters = 0
  /\ slot = [t \in Threads |-> "none"]

-----------------------------------------------------------------------------
(* acquire_normal *)

OvertakingMayEnter == ~singletonRunning      \* mutated form of NormalMayEnter
NormalMayEnter == ~singletonRunning /\ singletonWaiters = 0

ClaimNormal(t) ==
  /\ slot[t] \in {"none", "waitNormal"}
  /\ NormalMayEnter
  /\ active' = active + 1
  /\ slot' = [slot EXCEPT ![t] = "normal"]
  /\ UNCHANGED <<singletonRunning, singletonWaiters>>

WaitNormal(t) ==
  /\ slot[t] = "none"
  /\ ~NormalMayEnter
  /\ slot' = [slot EXCEPT ![t] = "waitNormal"]
  /\ UNCHANGED <<active, singletonRunning, singletonWaiters>>

RefuseNormal(t) ==
  /\ slot[t] \in {"none", "waitNormal"}
  /\ ~NormalMayEnter
  /\ slot' = [slot EXCEPT ![t] = "none"]
  /\ UNCHANGED <<active, singletonRunning, singletonWaiters>>

ReleaseNormal(t) ==
  /\ slot[t] = "normal"
  /\ active' = active - 1
  /\ slot' = [slot EXCEPT ![t] = "none"]
  /\ UNCHANGED <<singletonRunning, singletonWaiters>>

-----------------------------------------------------------------------------
(* acquire_singleton: the waiter is counted on entry and, by the finally   *)
(* clause, discounted on every way out; a thread that does not wait does   *)
(* both within one critical section.                                       *)

JoiningMayEnter == ~singletonRunning         \* mutated form of SingletonMayEnter
SingletonMayEnter == ~singletonRunning /\ active = 0

WaitersKept(t) == singletonWaiters           \* mutated form of WaitersWithout
WaitersDropped(t) == singletonWaiters - 1    \* mutated form of WaitersWithout
WaitersWithout(t) ==
  IF slot[t] = "waitSingleton" THEN singletonWaiters - 1 ELSE singletonWaiters

ClaimSingleton(t) ==
  /\ slot[t] \in {"none", "waitSingleton"}
  /\ SingletonMayEnter
  /\ singletonRunning' = TRUE
  /\ active' = active + 1
  /\ singletonWaiters' = WaitersWithout(t)
  /\ slot' = [slot EXCEPT ![t] = "singleton"]

WaitSingleton(t) ==
  /\ slot[t] = "none"
  /\ ~SingletonMayEnter
  /\ singletonWaiters' = singletonWaiters + 1
  /\ slot' = [slot EXCEPT ![t] = "waitSingleton"]
  /\ UNCHANGED <<active, singletonRunning>>

RefuseSingleton(t) ==
  /\ slot[t] \in {"none", "waitSingleton"}
  /\ ~SingletonMayEnter
  /\ singletonWaiters' = WaitersWithout(t)
  /\ slot' = [slot EXCEPT ![t] = "none"]
  /\ UNCHANGED <<active, singletonRunning>>

ReleaseSingleton(t) ==
  /\ slot[t] = "singleton"
  /\ singletonRunning' = FALSE
  /\ active' = active - 1
  /\ slot' = [slot EXCEPT ![t] = "none"]
  /\ UNCHANGED singletonWaiters

-----------------------------------------------------------------------------
AcquireNormal(t)    == ClaimNormal(t) \/ WaitNormal(t) \/ RefuseNormal(t)
AcquireSingleton(t) == ClaimSingleton(t) \/ WaitSingleton(t) \/ RefuseSingleton(t)
Release(t)          == ReleaseNormal(t) \/ ReleaseSingleton(t)

Next == \E t \in Threads : AcquireNormal(t) \/ AcquireSingleton(t) \/ Release(t)

(***************************************************************************)
(* A claimed slot is released in a finally clause once the test is over,   *)
(* and a waiting thread wakes at every poll interval, so both happen if    *)
(* they stay possible.  Nothing is assumed of a thread outside the         *)
(* coordinator, nor of the stop predicate.                                 *)
(***************************************************************************)
Fairness ==
  \A t \in Threads :
    /\ WF_vars(Release(t))
    /\ WF_vars(slot[t] = "waitNormal" /\ ClaimNormal(t))
    /\ WF_vars(slot[t] = "waitSingleton" /\ ClaimSingleton(t))

Spec == Init /\ [][Next]_vars

FairSpec == Spec /\ Fairness

-----------------------------------------------------------------------------
(* A singleton runs exclusively: while one thread holds the singleton slot *)
(* no other thread holds a slot of either kind (class docstring,           *)
(* singleton_coordinator.py:15).                                           *)
SingletonExclusive ==
  \A t, u \in Threads : (slot[t] = "singleton" /\ slot[u] \in Holding) => t = u

(* The three fields are exact: _active counts the holders - the admission  *)
(* gate reads it as "nothing is in flight" -, _singleton_waiters counts    *)
(* the threads inside acquire_singleton's wait even when they give up, and *)
(* the flag is set exactly while a singleton holds its slot.  A count that *)
(* drifts up blocks every later test, one that drifts down breaks          *)
(* exclusivity.                                                            *)
CountersMatchSlots ==
  /\ active = Cardinality(In(Holding))
  /\ singletonWaiters = Cardinality(In({"waitSingleton"}))
  /\ singletonRunning <=> In({"singleton"}) # {}

(* A normal test never overtakes a waiting singleton: no thread is given a *)
(* normal slot while another sits in acquire_singleton's wait.             *)
NoOvertaking ==
  [][\A t \in Threads :
       (slot[t] # "normal" /\ slot'[t] = "normal") => In({"waitSingleton"}) = {}]_vars

(* Waiting singletons are not starved by a stream of normal tests: once    *)
(* one waits, a singleton runs or all of them give up.                     *)
NormalsDoNotStarveSingletons ==
  (In({"waitSingleton"}) # {}) ~>
     (In({"singleton"}) # {} \/ In({"waitSingleton"}) = {})

(* Once the singletons are over, every blocked normal test gets its slot:  *)
(* neither a finished nor an abandoned singleton leaves the gate shut.     *)
NormalsResume ==
  <>[](In({"singleton", "waitSingleton"}) = {}) =>
     \A t \in Threads : slot[t] = "waitNormal" ~> slot[t] # "waitNormal"

(* The coordinator implements exclusive access.                            *)
Access == INSTANCE ExclusiveAccess
            WITH shared <- In({"normal"}), exclusive <- In({"singleton"})

(* Every behaviour of the coordinator is one of readers and one writer     *)
(* (singleton_coordinator.py:15-16).                                       *)
ImplementsExclusiveAccess == Access!Spec
=============================================================================
