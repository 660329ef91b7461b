--------------------- MODULE SingletonCoordinatorProofs ---------------------
(***************************************************************************)
(* Proofs about SingletonCoordinator.tla, for any finite set of threads.   *)
(*                                                                         *)
(* Exclusivity is not inductive on its own: a singleton enters because     *)
(* active = 0, and that excludes other holders only if active counts them. *)
(* IInv therefore carries the meaning of the three fields.                 *)
(***************************************************************************)
EXTENDS SingletonCoordinator, FiniteSetTheorems, TLAPS

IInv == TypeOK /\ CountersMatchSlots /\ SingletonExclusive

-----------------------------------------------------------------------------
(* The set of threads in some kind of slot after one of them changed slot. *)
LEMMA InAfterUpdate ==
  ASSUME NEW t \in Threads, NEW v, NEW kinds,
         TypeOK, slot' = [slot EXCEPT ![t] = v]
  PROVE  In(kinds)' = IF v \in kinds THEN In(kinds) \cup {t} ELSE In(kinds) \ {t}
  BY DEF In, TypeOK

(* What entering or leaving the set does to its size.                      *)
LEMMA CardinalityAfterUpdate ==
  ASSUME NEW t \in Threads, NEW v, NEW kinds,
         TypeOK, slot' = [slot EXCEPT ![t] = v]
  PROVE  /\ Cardinality(In(kinds)) \in Nat
         /\ (v \in kinds /\ slot[t] \notin kinds) =>
              Cardinality(In(kinds)') = Cardinality(In(kinds)) + 1
         /\ (v \notin kinds /\ slot[t] \in kinds) =>
              Cardinality(In(kinds)') = Cardinality(In(kinds)) - 1
         /\ (v \in kinds <=> slot[t] \in kinds) =>
              Cardinality(In(kinds)') = Cardinality(In(kinds))
<1>. DEFINE S == In(kinds)
            T == In(kinds)'
<1>1. IsFiniteSet(S)
  BY ThreadsFinite, FS_Subset DEF In
<1>2. t \in S <=> slot[t] \in kinds
  BY DEF In
<1>3. T = IF v \in kinds THEN S \cup {t} ELSE S \ {t}
  BY InAfterUpdate
<1>. HIDE DEF S, T
<1>4. Cardinality(S) \in Nat
  BY <1>1, FS_CardinalityType
<1>5. Cardinality(S \cup {t}) = IF t \in S THEN Cardinality(S) ELSE Cardinality(S) + 1
  BY <1>1, FS_AddElement
<1>6. Cardinality(S \ {t}) = IF t \in S THEN Cardinality(S) - 1 ELSE Cardinality(S)
  BY <1>1, FS_RemoveElement
<1>7. /\ Cardinality(S) \in Nat
      /\ (v \in kinds /\ slot[t] \notin kinds) => Cardinality(T) = Cardinality(S) + 1
      /\ (v \notin kinds /\ slot[t] \in kinds) => Cardinality(T) = Cardinality(S) - 1
      /\ (v \in kinds <=> slot[t] \in kinds) => Cardinality(T) = Cardinality(S)
  BY <1>2, <1>3, <1>4, <1>5, <1>6
<1>. QED
  BY <1>7 DEF S, T

(* The same for the threads waiting in acquire_singleton.                  *)
LEMMA WaitersAfterUpdate ==
  ASSUME NEW t \in Threads, NEW v,
         TypeOK, slot' = [slot EXCEPT ![t] = v]
  PROVE  /\ Cardinality(In({"waitSingleton"})) \in Nat
         /\ Cardinality(In({"waitSingleton"})') =
              Cardinality(In({"waitSingleton"}))
                + (IF v = "waitSingleton" THEN 1 ELSE 0)
                - (IF slot[t] = "waitSingleton" THEN 1 ELSE 0)
<1>. DEFINE K == {"waitSingleton"}
            before == Cardinality(In(K))
            after == Cardinality(In(K)')
<1>1. \A x : x \in K <=> x = "waitSingleton"
  OBVIOUS
<1>. HIDE DEF K
<1>2. /\ before \in Nat
      /\ (v \in K /\ slot[t] \notin K) => after = before + 1
      /\ (v \notin K /\ slot[t] \in K) => after = before - 1
      /\ (v \in K <=> slot[t] \in K) => after = before
  BY CardinalityAfterUpdate
<1>. HIDE DEF before, after
<1>3. /\ before \in Nat
      /\ after = before + (IF v = "waitSingleton" THEN 1 ELSE 0)
                        - (IF slot[t] = "waitSingleton" THEN 1 ELSE 0)
  BY <1>1, <1>2
<1>. QED
  BY <1>3 DEF before, after, K

(* active = 0 means what the admission gate and acquire_singleton take it  *)
(* for: nobody holds a slot.                                               *)
LEMMA NoneActive ==
  ASSUME IInv
  PROVE  active = 0 <=> In(Holding) = {}
<1>1. IsFiniteSet(In(Holding))
  BY ThreadsFinite, FS_Subset DEF In
<1>. QED
  BY <1>1, FS_EmptySet DEF IInv, CountersMatchSlots

(* A count of zero waiters means that nobody waits in acquire_singleton.   *)
LEMMA NoneWaiting ==
  ASSUME IInv
  PROVE  singletonWaiters = 0 <=> In({"waitSingleton"}) = {}
<1>1. IsFiniteSet(In({"waitSingleton"}))
  BY ThreadsFinite, FS_Subset DEF In
<1>. QED
  BY <1>1, FS_EmptySet DEF IInv, CountersMatchSlots

-----------------------------------------------------------------------------
(* The invariant holds of a new coordinator.                               *)
LEMMA InitIInv == Init => IInv
<1>. SUFFICES ASSUME Init PROVE IInv
  OBVIOUS
<1>1. In(Holding) = {} /\ In({"waitSingleton"}) = {} /\ In({"singleton"}) = {}
  BY DEF Init, In, Holding
<1>. QED
  BY <1>1, FS_EmptySet
     DEF Init, IInv, TypeOK, CountersMatchSlots, SingletonExclusive, Holding

(* A normal test is let in only when no singleton holds a slot.            *)
LEMMA ClaimNormalIInv ==
  ASSUME IInv, NEW t \in Threads, ClaimNormal(t)
  PROVE  IInv'
<1>. USE DEF IInv
<1>1. slot' = [slot EXCEPT ![t] = "normal"] /\ TypeOK
  BY DEF ClaimNormal
<1>2. slot[t] \notin Holding /\ "normal" \in Holding /\ slot[t] # "waitSingleton"
  BY DEF ClaimNormal, Holding, NormalMayEnter
<1>3. TypeOK'
  BY DEF ClaimNormal, TypeOK, Holding
<1>4. Cardinality(In(Holding)') = Cardinality(In(Holding)) + 1
  BY <1>1, <1>2, CardinalityAfterUpdate
<1>5. In({"waitSingleton"})' = In({"waitSingleton"}) /\ In({"singleton"})' = In({"singleton"})
  BY <1>1, <1>2, InAfterUpdate DEF In, Holding
<1>6. CountersMatchSlots'
  BY <1>4, <1>5 DEF ClaimNormal, CountersMatchSlots
<1>7. \A u \in Threads : slot[u] # "singleton"
  BY DEF ClaimNormal, NormalMayEnter, CountersMatchSlots, In
<1>8. SingletonExclusive'
  BY <1>1, <1>7 DEF SingletonExclusive, TypeOK
<1>. QED
  BY <1>3, <1>6, <1>8

(* A singleton is let in only when nobody holds a slot, and stops waiting. *)
LEMMA ClaimSingletonIInv ==
  ASSUME IInv, NEW t \in Threads, ClaimSingleton(t)
  PROVE  IInv'
<1>. USE DEF IInv
<1>1. slot' = [slot EXCEPT ![t] = "singleton"] /\ TypeOK
  BY DEF ClaimSingleton
<1>2. slot[t] \notin Holding /\ "singleton" \in Holding
  BY DEF ClaimSingleton, Holding
<1>3. In(Holding) = {}
  BY NoneActive DEF ClaimSingleton, SingletonMayEnter
<1>4. /\ Cardinality(In(Holding)') = Cardinality(In(Holding)) + 1
      /\ Cardinality(In({"waitSingleton"})) \in Nat
      /\ Cardinality(In({"waitSingleton"})') =
           Cardinality(In({"waitSingleton"})) - (IF slot[t] = "waitSingleton" THEN 1 ELSE 0)
  <2>1. /\ Cardinality(In(Holding)) \in Nat
        /\ Cardinality(In(Holding)') = Cardinality(In(Holding)) + 1
    BY <1>1, <1>2, CardinalityAfterUpdate
  <2>2. /\ Cardinality(In({"waitSingleton"})) \in Nat
        /\ Cardinality(In({"waitSingleton"})') =
             Cardinality(In({"waitSingleton"}))
               + (IF "singleton" = "waitSingleton" THEN 1 ELSE 0)
               - (IF slot[t] = "waitSingleton" THEN 1 ELSE 0)
    BY <1>1, WaitersAfterUpdate
  <2>. QED
    BY <2>1, <2>2
<1>5. In({"singleton"})' # {}
  BY <1>1 DEF In, TypeOK
<1>6. CountersMatchSlots'
  BY <1>4, <1>5 DEF ClaimSingleton, CountersMatchSlots, WaitersWithout, TypeOK
<1>7. Cardinality(In({"waitSingleton"})') \in Nat
  BY ThreadsFinite, FS_Subset, FS_CardinalityType DEF In
<1>8. TypeOK'
  BY <1>6, <1>7 DEF ClaimSingleton, TypeOK, CountersMatchSlots, Holding
<1>9. SingletonExclusive'
  BY <1>1, <1>3 DEF SingletonExclusive, TypeOK, In
<1>. QED
  BY <1>6, <1>8, <1>9

(* Waiting or giving up changes no holder.                                 *)
LEMMA NotEnteringIInv ==
  ASSUME IInv, NEW t \in Threads,
         WaitNormal(t) \/ RefuseNormal(t) \/ WaitSingleton(t) \/ RefuseSingleton(t)
  PROVE  IInv'
<1>. USE DEF IInv
<1>. DEFINE v == slot'[t]
<1>1. /\ TypeOK
      /\ slot' = [slot EXCEPT ![t] = v]
      /\ v \in {"none", "waitNormal", "waitSingleton"}
      /\ slot[t] \in {"none", "waitNormal", "waitSingleton"}
      /\ UNCHANGED <<active, singletonRunning>>
  BY DEF WaitNormal, RefuseNormal, WaitSingleton, RefuseSingleton, TypeOK
<1>2. singletonWaiters' =
        singletonWaiters + (IF v = "waitSingleton" THEN 1 ELSE 0)
                         - (IF slot[t] = "waitSingleton" THEN 1 ELSE 0)
  BY DEF WaitNormal, RefuseNormal, WaitSingleton, RefuseSingleton, WaitersWithout, TypeOK
<1>. HIDE DEF v
<1>3. /\ Cardinality(In({"waitSingleton"})) \in Nat
      /\ Cardinality(In({"waitSingleton"})') =
           Cardinality(In({"waitSingleton"}))
             + (IF v = "waitSingleton" THEN 1 ELSE 0)
             - (IF slot[t] = "waitSingleton" THEN 1 ELSE 0)
  BY <1>1, WaitersAfterUpdate
<1>4. In(Holding)' = In(Holding) /\ In({"singleton"})' = In({"singleton"})
  BY <1>1 DEF In, Holding, TypeOK
<1>5. CountersMatchSlots'
  BY <1>1, <1>2, <1>3, <1>4 DEF CountersMatchSlots
<1>6. Cardinality(In({"waitSingleton"})') \in Nat
  BY ThreadsFinite, FS_Subset, FS_CardinalityType DEF In
<1>7. TypeOK'
  BY <1>1, <1>5, <1>6 DEF TypeOK, CountersMatchSlots, Waiting
<1>8. SingletonExclusive'
  BY <1>1 DEF SingletonExclusive, TypeOK, Holding
<1>. QED
  BY <1>5, <1>7, <1>8

(* Releasing a slot undoes exactly what claiming it did.                   *)
LEMMA ReleaseIInv ==
  ASSUME IInv, NEW t \in Threads, Release(t)
  PROVE  IInv'
<1>. USE DEF IInv
<1>1. /\ TypeOK
      /\ slot' = [slot EXCEPT ![t] = "none"]
      /\ slot[t] \in Holding /\ "none" \notin Holding
      /\ active' = active - 1
      /\ UNCHANGED singletonWaiters
  BY DEF Release, ReleaseNormal, ReleaseSingleton, Holding
<1>2. /\ Cardinality(In(Holding)) \in Nat
      /\ Cardinality(In(Holding)') = Cardinality(In(Holding)) - 1
  BY <1>1, CardinalityAfterUpdate
<1>3. In({"waitSingleton"})' = In({"waitSingleton"})
  BY <1>1 DEF In, Holding, TypeOK
<1>4. singletonRunning' <=> In({"singleton"})' # {}
  <2>1. CASE slot[t] = "normal"
    BY <1>1, <2>1 DEF Release, ReleaseNormal, ReleaseSingleton, CountersMatchSlots, In, TypeOK
  <2>2. CASE slot[t] = "singleton"
    BY <1>1, <2>2 DEF Release, ReleaseNormal, ReleaseSingleton, SingletonExclusive, In, Holding, TypeOK
  <2>. QED
    BY <1>1, <2>1, <2>2 DEF Holding
<1>5. CountersMatchSlots'
  BY <1>1, <1>2, <1>3, <1>4 DEF CountersMatchSlots
<1>6. Cardinality(In(Holding)') \in Nat
  BY ThreadsFinite, FS_Subset, FS_CardinalityType DEF In
<1>7. TypeOK'
  BY <1>1, <1>5, <1>6
     DEF TypeOK, CountersMatchSlots, Release, ReleaseNormal, ReleaseSingleton
<1>8. SingletonExclusive'
  BY <1>1 DEF SingletonExclusive, TypeOK, Holding
<1>. QED
  BY <1>5, <1>7, <1>8

(* The invariant is inductive.                                             *)
LEMMA NextIInv == IInv /\ [Next]_vars => IInv'
<1>. SUFFICES ASSUME IInv, [Next]_vars PROVE IInv'
  OBVIOUS
<1>1. ASSUME NEW t \in Threads, AcquireNormal(t) PROVE IInv'
  BY <1>1, ClaimNormalIInv, NotEnteringIInv DEF AcquireNormal
<1>2. ASSUME NEW t \in Threads, AcquireSingleton(t) PROVE IInv'
  BY <1>2, ClaimSingletonIInv, NotEnteringIInv DEF AcquireSingleton
<1>3. ASSUME NEW t \in Threads, Release(t) PROVE IInv'
  BY <1>3, ReleaseIInv
<1>4. CASE UNCHANGED vars
  BY <1>4 DEF vars, IInv, TypeOK, CountersMatchSlots, SingletonExclusive, In
<1>. QED
  BY <1>1, <1>2, <1>3, <1>4 DEF Next

(* The invariant the theorems below are read off from.                     *)
THEOREM Invariance == Spec => []IInv
  BY InitIInv, NextIInv, PTL DEF Spec

(* Both counters stay natural and every slot is one of the protocol's.     *)
THEOREM TypeCorrect == Spec => []TypeOK
<1>1. IInv => TypeOK
  BY DEF IInv
<1>. QED
  BY <1>1, Invariance, PTL

(* _active, _singleton_waiters and _singleton_running mean what the code   *)
(* reads them for, whatever order threads acquire, give up and release in. *)
THEOREM CountersExact == Spec => []CountersMatchSlots
<1>1. IInv => CountersMatchSlots
  BY DEF IInv
<1>. QED
  BY <1>1, Invariance, PTL

(* A singleton test shares the pool with no other test.                    *)
THEOREM Exclusivity == Spec => []SingletonExclusive
<1>1. IInv => SingletonExclusive
  BY DEF IInv
<1>. QED
  BY <1>1, Invariance, PTL

(* No normal test is admitted past a waiting singleton.                    *)
THEOREM NeverOvertaken == Spec => NoOvertaking
<1>1. ASSUME IInv, [Next]_vars, NEW t \in Threads, slot[t] # "normal", slot'[t] = "normal"
      PROVE  In({"waitSingleton"}) = {}
  <2>1. ClaimNormal(t)
    BY <1>1 DEF IInv, TypeOK, Next, vars, AcquireNormal, AcquireSingleton, Release,
                ClaimNormal, WaitNormal, RefuseNormal, ReleaseNormal,
                ClaimSingleton, WaitSingleton, RefuseSingleton, ReleaseSingleton
  <2>. QED
    BY <1>1, <2>1, NoneWaiting DEF ClaimNormal, NormalMayEnter
<1>2. IInv /\ [Next]_vars =>
        [\A t \in Threads :
           (slot[t] # "normal" /\ slot'[t] = "normal") => In({"waitSingleton"}) = {}]_vars
  BY <1>1
<1>. QED
  BY <1>2, Invariance, PTL DEF Spec, NoOvertaking

-----------------------------------------------------------------------------
(* A new coordinator grants access to nobody.                              *)
LEMMA RefinementInit == Init => Access!Init
  BY DEF Init, Access!Init, In

(* Claiming is entering, releasing is leaving, and the rest is invisible.  *)
LEMMA RefinementNext == IInv /\ [Next]_vars => [Access!Next]_Access!vars
<1>. SUFFICES ASSUME IInv, [Next]_vars PROVE [Access!Next]_Access!vars
  OBVIOUS
<1>. USE DEF IInv
<1>1. ASSUME NEW t \in Threads, ClaimNormal(t) PROVE Access!EnterShared(t)
  BY <1>1 DEF ClaimNormal, NormalMayEnter, CountersMatchSlots, TypeOK, In, Access!EnterShared
<1>2. ASSUME NEW t \in Threads, ClaimSingleton(t) PROVE Access!EnterExclusive(t)
  <2>1. In(Holding) = {}
    BY <1>2, NoneActive DEF ClaimSingleton, SingletonMayEnter
  <2>. QED
    BY <1>2, <2>1 DEF ClaimSingleton, TypeOK, In, Holding, Access!EnterExclusive
<1>3. ASSUME NEW t \in Threads,
             WaitNormal(t) \/ RefuseNormal(t) \/ WaitSingleton(t) \/ RefuseSingleton(t)
      PROVE  UNCHANGED Access!vars
  BY <1>3 DEF WaitNormal, RefuseNormal, WaitSingleton, RefuseSingleton, TypeOK, In, Access!vars
<1>4. ASSUME NEW t \in Threads, Release(t) PROVE Access!Leave(t)
  BY <1>4 DEF Release, ReleaseNormal, ReleaseSingleton, TypeOK, In, Access!Leave
<1>5. CASE UNCHANGED vars
  BY <1>5 DEF vars, In, Access!vars
<1>. QED
  BY <1>1, <1>2, <1>3, <1>4, <1>5 DEF Next, AcquireNormal, AcquireSingleton, Access!Next

(* The coordinator implements ExclusiveAccess: claiming a slot is entering, *)
(* releasing it is leaving, and waiting or giving up is invisible.          *)
THEOREM Refinement == Spec => ImplementsExclusiveAccess
  BY RefinementInit, RefinementNext, Invariance, PTL
     DEF Spec, ImplementsExclusiveAccess, Access!Spec
=============================================================================
