-------------------------- MODULE RunControlProofs --------------------------
(***************************************************************************)
(* Proofs about RunControl.tla, for any number of runs: type correctness,  *)
(* that a run replaces the one before it, that coverage is not cleared     *)
(* under a runner that is waited for, and that the window takes its run    *)
(* along.                                                                  *)
(*                                                                         *)
(* None of the three is inductive: the one runner that may be going is not *)
(* held by one variable, but handed from the one that is shown to the      *)
(* preparation, from there to the queued signal and back.  IsAwaited says  *)
(* who it is at each point of the preparation; LooseInv that no other goes *)
(* on without having been told, AwaitedInv that no other goes on at all    *)
(* but for those nobody waits for; PhaseInv and ClosingInv hold the parts  *)
(* that make the handing over work.                                        *)
(***************************************************************************)
EXTENDS RunControl, TLAPS

(* TypeOK in three parts.                                                  *)
RunnersOK ==
  /\ life \in [Runs -> {"none", "starting", "live", "over"}]
  /\ told \subseteq stopRequested /\ stopRequested \subseteq Runs
  /\ forceStopped \subseteq stopRequested
  /\ softStop \subseteq Runs /\ complete \subseteq Runs
  /\ overlooked \subseteq Runs /\ gaveUp \subseteq Runs

WindowOK ==
  /\ gui \in {"idle", "refresh", "joinPrep", "deliver", "stopRun", "joinRun", "closed"}
  /\ runGuids \in 0 .. MaxRuns
  /\ runGuid \in {NoRun} \cup Runs /\ shown \in {NoRun} \cup Runs
  /\ prepActive \in BOOLEAN /\ softStopFlag \in BOOLEAN
  /\ runEnabled \in BOOLEAN /\ stopEnabled \in BOOLEAN
  /\ tickComplete \in BOOLEAN

PrepOK ==
  /\ prep \in {"none", "detect", "windDown", "join", "discover", "load", "recheck",
               "start", "started", "emit"}
  /\ prior \in {NoRun} \cup Runs
  /\ result \in {Failed} \cup Runs
  /\ finished \in {NoRun, Failed} \cup Runs
  /\ abort \in BOOLEAN

LEMMA TypeParts ==
  /\ TypeOK <=> RunnersOK /\ WindowOK /\ PrepOK
  /\ TypeOK' <=> RunnersOK' /\ WindowOK' /\ PrepOK'
  BY DEF TypeOK, RunnersOK, WindowOK, PrepOK

IsGoing(r)    == life[r] \in {"starting", "live"}
Loose(r)      == IsGoing(r) /\ r \notin told /\ r \notin overlooked
Unattended(r) == IsGoing(r) /\ r \notin overlooked /\ r \notin gaveUp

IsAwaited(r) ==
  /\ prep \in {"detect", "windDown", "join"} => r = prior
  /\ prep \notin {"discover", "load", "recheck", "start"}
  /\ prep = "started" => r = runGuids
  /\ prep = "emit" => r = IF result = Failed THEN shown ELSE result
  /\ prep = "none" => r = IF finished \in Runs THEN finished ELSE shown

PhaseInv ==
  /\ prep # "none" => prepActive /\ finished = NoRun /\ runGuids \in Runs
  /\ finished # NoRun => prepActive
  /\ prep \in {"detect", "windDown"} => prior = shown
  /\ gui \in {"idle", "refresh"} => ~abort
  /\ gui = "joinPrep" => abort
  /\ stopEnabled => shown # NoRun
  /\ prep = "join" => prior # NoRun
  /\ gui = "joinRun" => shown # NoRun

LooseInv == \A r \in Runs : Loose(r) => IsAwaited(r) /\ prep # "join"

AwaitedInv ==
  (abort /\ prep \in {"emit", "none"}) \/ \A r \in Runs : Unattended(r) => IsAwaited(r)

ClosingInv ==
  /\ gui \in {"deliver", "stopRun", "joinRun", "closed"} /\ prep # "none" =>
       abort /\ prep \notin {"start", "started"} /\ (prep = "emit" => result = Failed)
  /\ gui \in {"stopRun", "joinRun", "closed"} => finished \in {NoRun, Failed}
  /\ gui \in {"joinRun", "closed"} => \A r \in Runs : Loose(r) => r # shown

IInv == TypeOK /\ PhaseInv /\ LooseInv /\ AwaitedInv /\ ClosingInv

USE DEF vars, runnerVars, buttonVars, windowVars, prepVars, historyVars, Alone,
        NoRun, Failed, SetButtons, PrepGoes

-----------------------------------------------------------------------------
LEMMA RunsAreNumbers == Runs \subseteq Nat \ {0} /\ MaxRuns \in Nat \ {0}
  BY ConstantsOK DEF Runs

LEMMA InitIInv == Init => IInv
<1>. SUFFICES ASSUME Init PROVE IInv
  OBVIOUS
<1>1. TypeOK
  <2>1. RunnersOK
    BY TypeParts, RunsAreNumbers DEF RunnersOK, Init
  <2>2. WindowOK
    <3>1. 0 \in 0 .. MaxRuns
      BY RunsAreNumbers
    <3>. QED BY <3>1 DEF WindowOK, Init
  <2>3. PrepOK
    BY TypeParts, RunsAreNumbers DEF PrepOK, Init
  <2>. QED BY TypeParts, <2>1, <2>2, <2>3
<1>2. PhaseInv /\ ClosingInv
  BY DEF Init, PhaseInv, ClosingInv
<1>3. LooseInv /\ AwaitedInv
  BY DEF Init, LooseInv, AwaitedInv, Loose, Unattended, IsGoing
<1>. QED BY <1>1, <1>2, <1>3 DEF IInv

-----------------------------------------------------------------------------
(* The runners: none begins to go, and none is lost sight of.              *)

LEMMA RunnerStepIInv ==
  ASSUME IInv, NEW r \in Runs, RunnerStep(r)
  PROVE  IInv'
<1>. USE DEF IInv, RunnerStep, PoolSpawns, TestsComplete, WorkersLeave, GuardStops
<1>1. TypeOK'
  <2>1. CASE PoolSpawns(r)
    BY <2>1 DEF TypeOK
  <2>2. CASE TestsComplete(r)
    BY <2>2 DEF TypeOK
  <2>3. CASE WorkersLeave(r)
    BY <2>3 DEF TypeOK
  <2>4. CASE GuardStops(r)
    BY <2>4 DEF TypeOK
  <2>. QED BY <2>1, <2>2, <2>3, <2>4
<1>2. \A s \in Runs : (Loose(s)' => Loose(s)) /\ (Unattended(s)' => Unattended(s))
  BY DEF TypeOK, Loose, Unattended, IsGoing
<1>3. PhaseInv'
  BY DEF PhaseInv
<1>4. LooseInv'
  BY <1>2 DEF LooseInv, IsAwaited
<1>5. AwaitedInv'
  BY <1>2 DEF AwaitedInv, IsAwaited
<1>6. ClosingInv'
  BY <1>2 DEF ClosingInv
<1>. QED BY <1>1, <1>3, <1>4, <1>5, <1>6

-----------------------------------------------------------------------------
(* The GUI thread: buttons and ticks.                                      *)

LEMMA ClickRunIInv ==
  ASSUME IInv, ClickRun
  PROVE  IInv'
<1>1. prep = "none" /\ finished = NoRun
  BY DEF IInv, PhaseInv, ClickRun
<1>2. runGuids' \in Runs /\ runGuid' \in Runs /\ runGuids' \in 0 .. MaxRuns
  BY RunsAreNumbers, TypeParts DEF IInv, WindowOK, ClickRun, Runs
<1>3. TypeOK'
  <2>1. RunnersOK'
    BY TypeParts DEF IInv, RunnersOK, ClickRun
  <2>2. WindowOK'
    BY TypeParts, <1>2 DEF IInv, WindowOK, ClickRun
  <2>3. PrepOK'
    BY TypeParts DEF IInv, WindowOK, PrepOK, ClickRun
  <2>. QED BY TypeParts, <2>1, <2>2, <2>3
<1>4. PhaseInv'
  BY <1>1, <1>2 DEF IInv, PhaseInv, ClickRun
<1>5. LooseInv'
  BY <1>1, RunsAreNumbers DEF IInv, LooseInv, IsAwaited, Loose, IsGoing, ClickRun
<1>6. AwaitedInv'
  BY <1>1, RunsAreNumbers DEF IInv, PhaseInv, AwaitedInv, IsAwaited, Unattended, IsGoing, ClickRun
<1>7. ClosingInv'
  BY DEF IInv, ClosingInv, ClickRun
<1>. QED BY <1>3, <1>4, <1>5, <1>6, <1>7 DEF IInv

(* Nothing is handed over, and whoever was told or overlooked stays so.    *)
LEMMA NoHandover ==
  ASSUME IInv, TypeOK',
         UNCHANGED <<life, gui, shown, prepActive, prep, prior, result, finished, runGuids, abort>>,
         stopEnabled' => stopEnabled,
         told \subseteq told', overlooked \subseteq overlooked', gaveUp \subseteq gaveUp'
  PROVE  IInv'
<1>1. \A r \in Runs : (Loose(r)' => Loose(r)) /\ (Unattended(r)' => Unattended(r))
  BY DEF Loose, Unattended, IsGoing
<1>2. PhaseInv'
  BY DEF IInv, PhaseInv
<1>3. LooseInv'
  BY <1>1 DEF IInv, LooseInv, IsAwaited
<1>4. AwaitedInv'
  BY <1>1 DEF IInv, AwaitedInv, IsAwaited
<1>5. ClosingInv'
  BY <1>1 DEF IInv, ClosingInv
<1>. QED BY <1>2, <1>3, <1>4, <1>5 DEF IInv

LEMMA OtherClicksIInv ==
  ASSUME IInv, ClickStop \/ ClickCancelStop \/ ClickForceStop
  PROVE  IInv'
<1>1. CASE ClickStop
  <2>1. TypeOK'
    <3>1. RunnersOK'
      BY <1>1, TypeParts DEF IInv, RunnersOK, PhaseInv, ClickStop, WindowOK
    <3>2. WindowOK'
      BY <1>1, TypeParts DEF IInv, WindowOK, ClickStop
    <3>3. PrepOK'
      BY <1>1, TypeParts DEF IInv, PrepOK, ClickStop
    <3>. QED BY TypeParts, <3>1, <3>2, <3>3
  <2>. QED BY <1>1, <2>1, NoHandover DEF ClickStop
<1>2. CASE ClickCancelStop
  <2>1. TypeOK'
    <3>1. RunnersOK'
      BY <1>2, TypeParts DEF IInv, RunnersOK, ClickCancelStop, WindowOK
    <3>2. WindowOK'
      BY <1>2, TypeParts DEF IInv, WindowOK, ClickCancelStop
    <3>3. PrepOK'
      BY <1>2, TypeParts DEF IInv, PrepOK, ClickCancelStop
    <3>. QED BY TypeParts, <3>1, <3>2, <3>3
  <2>. QED BY <1>2, <2>1, NoHandover DEF ClickCancelStop
<1>3. CASE ClickForceStop
  <2>1. TypeOK'
    <3>1. RunnersOK'
      BY <1>3, TypeParts DEF IInv, RunnersOK, PhaseInv, ClickForceStop, StopRunner, Unspawned, WindowOK
    <3>2. WindowOK'
      BY <1>3, TypeParts DEF IInv, WindowOK, ClickForceStop, StopRunner, Unspawned, WindowOK
    <3>3. PrepOK'
      BY <1>3, TypeParts DEF IInv, PrepOK, ClickForceStop, StopRunner, Unspawned, WindowOK
    <3>. QED BY TypeParts, <3>1, <3>2, <3>3
  <2>. QED BY <1>3, <2>1, NoHandover DEF ClickForceStop, StopRunner, Unspawned
<1>. QED BY <1>1, <1>2, <1>3

LEMMA TickIInv ==
  ASSUME IInv, TickReads \/ TickRefreshes
  PROVE  IInv'
<1>1. TypeOK'
  BY DEF IInv, TypeOK, TickReads, TickRefreshes, StopPending
<1>2. \A r \in Runs : (Loose(r)' => Loose(r)) /\ (Unattended(r)' => Unattended(r))
  BY DEF Loose, Unattended, IsGoing, TickReads, TickRefreshes
<1>3. PhaseInv'
  BY DEF IInv, PhaseInv, TickReads, TickRefreshes, DoneForUser
<1>4. LooseInv'
  BY <1>2 DEF IInv, LooseInv, IsAwaited, TickReads, TickRefreshes
<1>5. AwaitedInv'
  BY <1>2 DEF IInv, AwaitedInv, IsAwaited, TickReads, TickRefreshes
<1>6. ClosingInv'
  BY DEF IInv, ClosingInv, TickReads, TickRefreshes
<1>. QED BY <1>1, <1>3, <1>4, <1>5, <1>6 DEF IInv

-----------------------------------------------------------------------------
(* The preparation.                                                        *)

(* Its typing, step by step.                                               *)
LEMMA PrepTypeOK ==
  ASSUME IInv, PrepStep \/ PrepFails
  PROVE  TypeOK'
<1>1. CASE Detect \/ PriorJoined \/ Discovered \/ DiscoveryAborted \/ Recheck \/ PrepFails
  BY <1>1 DEF IInv, TypeOK, Detect, PriorJoined, Discovered, DiscoveryAborted, Recheck, PrepFails
<1>2. CASE WindDown
  BY <1>2 DEF IInv, TypeOK, WindDown, StopPrior, StopRunner, IsRunning, Unspawned
<1>3. CASE JoinTimesOut
  <2>1. RunnersOK'
    BY <1>3, TypeParts DEF IInv, RunnersOK, PhaseInv, JoinTimesOut, PrepOK
  <2>2. WindowOK'
    BY <1>3, TypeParts DEF IInv, WindowOK, JoinTimesOut
  <2>3. PrepOK'
    BY <1>3, TypeParts DEF IInv, PrepOK, JoinTimesOut
  <2>. QED BY TypeParts, <2>1, <2>2, <2>3
<1>4. CASE Load
  BY <1>4 DEF IInv, TypeOK, PhaseInv, Load
<1>5. CASE StartRunner
  <2>1. RunnersOK'
    BY <1>5, TypeParts DEF IInv, RunnersOK, StartRunner
  <2>2. WindowOK'
    BY <1>5, TypeParts DEF IInv, WindowOK, StartRunner
  <2>3. PrepOK'
    BY <1>5, TypeParts DEF IInv, PrepOK, StartRunner
  <2>. QED BY TypeParts, <2>1, <2>2, <2>3
<1>6. CASE StartedRecheck
  BY <1>6 DEF IInv, TypeOK, PhaseInv, StartedRecheck, StopRunner, Unspawned
<1>7. CASE Emit
  BY <1>7 DEF IInv, TypeOK, Emit, Emitted
<1>. QED BY <1>1, <1>2, <1>3, <1>4, <1>5, <1>6, <1>7 DEF PrepStep

LEMMA PrepPhaseInv ==
  ASSUME IInv, PrepStep \/ PrepFails
  PROVE  PhaseInv'
<1>1. CASE Emit
  BY <1>1 DEF IInv, PhaseInv, Emit
<1>2. CASE ~Emit
  BY <1>2 DEF IInv, PhaseInv, IsRunning, PrepStep, PrepFails, Detect, WindDown, PriorJoined, JoinTimesOut, Discovered,
              DiscoveryAborted, Load, Recheck, StartRunner, StartedRecheck
<1>. QED BY <1>1, <1>2

(* A step of the preparation at which no runner changes hands.             *)
LEMMA PrepGoesOn ==
  ASSUME IInv, UNCHANGED <<life, told, overlooked, shown, runGuids, prior, finished>>,
         gaveUp \subseteq gaveUp',
         Detect \/ PriorJoined \/ JoinTimesOut \/ Discovered \/ DiscoveryAborted \/ Load \/ Recheck \/ PrepFails
  PROVE  LooseInv' /\ AwaitedInv'
<1>1. \A r \in Runs : (Loose(r)' => Loose(r)) /\ (Unattended(r)' => Unattended(r))
  BY DEF Loose, Unattended, IsGoing
<1>2. LooseInv'
  BY <1>1 DEF IInv, PhaseInv, LooseInv, IsAwaited, Detect, PriorJoined, JoinTimesOut, Discovered, DiscoveryAborted,
              Load, Recheck, PrepFails
<1>3. CASE PriorJoined \/ JoinTimesOut
  <2>1. \A r \in Runs : Unattended(r)' => r # prior
    BY <1>3 DEF Unattended, IsGoing, PriorJoined, JoinTimesOut, PriorIsOver
  <2>. QED BY <1>1, <1>2, <1>3, <2>1 DEF IInv, AwaitedInv, IsAwaited, PriorJoined, JoinTimesOut
<1>4. CASE ~(PriorJoined \/ JoinTimesOut)
  BY <1>1, <1>2, <1>4 DEF IInv, PhaseInv, AwaitedInv, IsAwaited, Detect, Discovered, DiscoveryAborted, Load, Recheck, PrepFails
<1>. QED BY <1>2, <1>3, <1>4

(* The steps at which it winds down, starts and hands over a runner.       *)
LEMMA WindDownIsSeen ==
  ASSUME IInv, WindDown
  PROVE  LooseInv' /\ AwaitedInv'
<1>1. \A r \in Runs : Loose(r) => r = prior
  BY DEF IInv, LooseInv, IsAwaited, WindDown
<1>2. \A r \in Runs : Unattended(r) => r = prior
  BY DEF IInv, AwaitedInv, IsAwaited, WindDown
<1>3. CASE IsRunning(prior)
  <2>1. \A r \in Runs : ~Loose(r)' /\ (Unattended(r)' => Unattended(r))
    BY <1>1, <1>3 DEF Loose, Unattended, IsGoing, WindDown, StopPrior, StopRunner, IsRunning
  <2>. QED BY <1>2, <1>3, <2>1 DEF LooseInv, AwaitedInv, IsAwaited, WindDown
<1>4. CASE ~IsRunning(prior)
  <2>1. \A r \in Runs : ~Loose(r)' /\ ~Unattended(r)'
    BY <1>1, <1>2, <1>4, RunsAreNumbers DEF Loose, Unattended, IsGoing, WindDown, IsRunning, Unspawned
  <2>. QED BY <2>1 DEF LooseInv, AwaitedInv
<1>. QED BY <1>3, <1>4

LEMMA StartIsAwaited ==
  ASSUME IInv, StartRunner
  PROVE  LooseInv' /\ AwaitedInv'
<1>1. \A r \in Runs : ~Loose(r) /\ ~Unattended(r)
  BY DEF IInv, LooseInv, AwaitedInv, IsAwaited, StartRunner
<1>2. \A r \in Runs : Loose(r)' \/ Unattended(r)' => r = runGuids
  BY <1>1, TypeParts DEF IInv, RunnersOK, Loose, Unattended, IsGoing, StartRunner
<1>. QED BY <1>2 DEF LooseInv, AwaitedInv, IsAwaited, StartRunner

LEMMA StartedRecheckIsSeen ==
  ASSUME IInv, StartedRecheck
  PROVE  LooseInv' /\ AwaitedInv'
<1>1. \A r \in Runs : Loose(r) \/ Unattended(r) => r = runGuids
  BY DEF IInv, LooseInv, AwaitedInv, IsAwaited, StartedRecheck
<1>2. runGuids \in Runs /\ runGuids # Failed /\ runGuids # NoRun
  BY RunsAreNumbers DEF IInv, PhaseInv, StartedRecheck
<1>3. CASE abort
  <2>1. \A r \in Runs : ~Loose(r)'
    BY <1>1, <1>2, <1>3 DEF Loose, IsGoing, StartedRecheck, StopRunner, Unspawned, IsRunning
  <2>. QED BY <1>3, <2>1 DEF LooseInv, AwaitedInv, StartedRecheck
<1>4. CASE ~abort
  <2>1. \A r \in Runs : (Loose(r)' => Loose(r)) /\ (Unattended(r)' => Unattended(r))
    BY <1>4 DEF Loose, Unattended, IsGoing, StartedRecheck
  <2>. QED BY <1>1, <1>2, <1>4, <2>1 DEF LooseInv, AwaitedInv, IsAwaited, StartedRecheck
<1>. QED BY <1>3, <1>4

LEMMA EmitHandsOver ==
  ASSUME IInv, Emit
  PROVE  LooseInv' /\ AwaitedInv'
<1>1. \A r \in Runs : (Loose(r)' => Loose(r)) /\ (Unattended(r)' => Unattended(r))
  BY DEF Loose, Unattended, IsGoing, Emit
<1>2. finished' = result /\ (result # Failed <=> result \in Runs)
  BY RunsAreNumbers, TypeParts DEF IInv, PrepOK, Emit, Emitted
<1>3. prep = "emit" /\ prep' = "none" /\ shown' = shown /\ abort' = abort
  BY DEF Emit
<1>4. \A r \in Runs : IsAwaited(r) => IsAwaited(r)'
  BY <1>2, <1>3 DEF IsAwaited
<1>. QED BY <1>1, <1>3, <1>4 DEF IInv, LooseInv, AwaitedInv

LEMMA PrepClosingInv ==
  ASSUME IInv, PrepStep \/ PrepFails
  PROVE  ClosingInv'
<1>1. CASE ~StartRunner /\ ~Emit
  <2>1. /\ gui \in {"deliver", "stopRun", "joinRun", "closed"} /\ prep' # "none" =>
             abort /\ prep' \notin {"start", "started"} /\ (prep' = "emit" => result' = Failed)
        /\ gui' = gui /\ abort' = abort /\ finished' = finished /\ shown' = shown
    BY <1>1 DEF IInv, ClosingInv, PrepStep, PrepFails, Detect, WindDown, PriorJoined, JoinTimesOut, Discovered,
                DiscoveryAborted, Load, Recheck, StartedRecheck
  <2>2. \A r \in Runs : Loose(r)' => Loose(r)
    BY <1>1 DEF PrepStep, PrepFails, Detect, WindDown, PriorJoined, JoinTimesOut, Discovered, DiscoveryAborted,
                Load, Recheck, StartedRecheck, StopPrior, StopRunner, Loose, IsGoing
  <2>. QED BY <2>1, <2>2 DEF IInv, ClosingInv
<1>2. CASE StartRunner
  BY <1>2 DEF IInv, ClosingInv, StartRunner
<1>3. CASE Emit
  BY <1>3 DEF IInv, ClosingInv, Emit, Emitted, Loose, IsGoing
<1>. QED BY <1>1, <1>2, <1>3

LEMMA PrepIInv ==
  ASSUME IInv, PrepStep \/ PrepFails
  PROVE  IInv'
<1>1. TypeOK' /\ PhaseInv' /\ ClosingInv'
  BY PrepTypeOK, PrepPhaseInv, PrepClosingInv
<1>2. CASE Detect \/ PriorJoined \/ JoinTimesOut \/ Discovered \/ DiscoveryAborted \/ Load \/ Recheck \/ PrepFails
  <2>1. /\ UNCHANGED <<life, told, overlooked, shown, runGuids, prior, finished>>
        /\ gaveUp \subseteq gaveUp'
    BY <1>2 DEF Detect, PriorJoined, JoinTimesOut, Discovered, DiscoveryAborted, Load, Recheck, PrepFails
  <2>. QED BY <1>1, <1>2, <2>1, PrepGoesOn DEF IInv
<1>. QED BY <1>1, <1>2, WindDownIsSeen, StartIsAwaited, StartedRecheckIsSeen, EmitHandsOver DEF IInv, PrepStep

-----------------------------------------------------------------------------
(* The signal that is delivered, and the window that closes.               *)

(* The runner in the signal becomes the one that is shown.                 *)
LEMMA AdoptIInv ==
  ASSUME IInv, Adopt, gui' = gui \/ (gui = "deliver" /\ gui' = "stopRun"),
         gui \in {"idle", "deliver"}
  PROVE  IInv'
<1>1. prep = "none" /\ prep' = "none" /\ finished' = NoRun /\ abort' = abort /\ runGuids' = runGuids
  BY DEF IInv, PhaseInv, Adopt
<1>2. (finished = Failed /\ shown' = shown) \/ (finished \in Runs /\ shown' = finished)
  <2>1. finished = Failed \/ finished \in Runs
    <3>1. finished \in {NoRun, Failed} \cup Runs
      BY TypeParts DEF IInv, PrepOK
    <3>. QED BY <3>1 DEF Adopt
  <2>2. CASE finished = Failed
    BY <2>2 DEF Adopt
  <2>3. CASE finished \in Runs
    BY <2>3, RunsAreNumbers DEF Adopt
  <2>. QED BY <2>1, <2>2, <2>3
<1>3. TypeOK'
  <2>1. RunnersOK'
    BY TypeParts DEF IInv, RunnersOK, Adopt
  <2>2. WindowOK'
    BY TypeParts, <1>2 DEF IInv, WindowOK, Adopt
  <2>3. PrepOK'
    BY TypeParts DEF IInv, PrepOK, Adopt
  <2>. QED BY TypeParts, <2>1, <2>2, <2>3
<1>4. PhaseInv'
  BY <1>1, <1>2, RunsAreNumbers DEF IInv, PhaseInv, Adopt
<1>5. \A r \in Runs : (Loose(r)' => Loose(r)) /\ (Unattended(r)' => Unattended(r))
  BY DEF Loose, Unattended, IsGoing, Adopt
<1>6. \A r \in Runs : IsAwaited(r) => IsAwaited(r)'
  BY <1>1, <1>2, RunsAreNumbers DEF IsAwaited
<1>7. LooseInv' /\ AwaitedInv'
  BY <1>1, <1>5, <1>6 DEF IInv, LooseInv, AwaitedInv
<1>8. ClosingInv'
  BY <1>1, <1>5 DEF IInv, ClosingInv
<1>. QED BY <1>3, <1>4, <1>7, <1>8 DEF IInv

LEMMA ClosingIInv ==
  ASSUME IInv, Close \/ ClosingStep
  PROVE  IInv'
<1>1. CASE Close
  <2>1. TypeOK'
    BY <1>1 DEF IInv, TypeOK, Close
  <2>2. \A r \in Runs : Loose(r)' = Loose(r) /\ Unattended(r)' = Unattended(r) /\ IsAwaited(r)' = IsAwaited(r)
    BY <1>1 DEF Loose, Unattended, IsGoing, IsAwaited, Close
  <2>3. PhaseInv' /\ ClosingInv'
    BY <1>1 DEF IInv, PhaseInv, ClosingInv, Close
  <2>. QED BY <1>1, <2>1, <2>2, <2>3 DEF IInv, LooseInv, AwaitedInv, Close
<1>2. CASE PrepJoined
  <2>1. TypeOK'
    BY <1>2 DEF IInv, TypeOK, PrepJoined
  <2>2. \A r \in Runs : Loose(r)' = Loose(r) /\ Unattended(r)' = Unattended(r) /\ IsAwaited(r)' = IsAwaited(r)
    BY <1>2 DEF Loose, Unattended, IsGoing, IsAwaited, PrepJoined
  <2>3. PhaseInv' /\ ClosingInv'
    BY <1>2 DEF IInv, PhaseInv, ClosingInv, PrepJoined
  <2>. QED BY <1>2, <2>1, <2>2, <2>3 DEF IInv, LooseInv, AwaitedInv, PrepJoined
<1>3. CASE Deliver
  <2>1. CASE Deliverable
    BY <1>3, <2>1, AdoptIInv DEF Deliver
  <2>2. CASE ~Deliverable
    <3>1. TypeOK'
      BY <1>3, <2>2 DEF IInv, TypeOK, Deliver
    <3>2. \A r \in Runs : Loose(r)' = Loose(r) /\ Unattended(r)' = Unattended(r) /\ IsAwaited(r)' = IsAwaited(r)
      BY <1>3, <2>2 DEF Loose, Unattended, IsGoing, IsAwaited, Deliver
    <3>3. PhaseInv' /\ ClosingInv'
      BY <1>3, <2>2 DEF IInv, PhaseInv, ClosingInv, Deliver, Deliverable
    <3>. QED BY <1>3, <2>2, <3>1, <3>2, <3>3 DEF IInv, LooseInv, AwaitedInv, Deliver
  <2>. QED BY <2>1, <2>2
<1>4. CASE CloseStops
  <2>1. TypeOK'
    <3>1. RunnersOK'
      BY <1>4, TypeParts DEF IInv, RunnersOK, WindowOK, CloseStops, StopRunner, IsRunning, Unspawned
    <3>2. WindowOK' /\ PrepOK'
      BY <1>4, TypeParts DEF IInv, WindowOK, PrepOK, CloseStops
    <3>. QED BY TypeParts, <3>1, <3>2
  <2>2. \A r \in Runs : (Loose(r)' => Loose(r)) /\ (Unattended(r)' => Unattended(r)) /\ IsAwaited(r)' = IsAwaited(r)
    BY <1>4 DEF Loose, Unattended, IsGoing, IsAwaited, CloseStops, StopRunner
  <2>3. \A r \in Runs : Loose(r)' => r # shown'
    BY <1>4, RunsAreNumbers DEF Loose, IsGoing, CloseStops, StopRunner, IsRunning, Unspawned
  <2>4. PhaseInv'
    BY <1>4 DEF IInv, PhaseInv, CloseStops, IsRunning
  <2>5. ClosingInv'
    BY <1>4, <2>3 DEF IInv, ClosingInv, CloseStops
  <2>. QED BY <1>4, <2>1, <2>2, <2>4, <2>5 DEF IInv, LooseInv, AwaitedInv, CloseStops
<1>5. CASE RunJoined
  <2>1. TypeOK'
    <3>1. RunnersOK'
      BY <1>5, TypeParts DEF IInv, RunnersOK, WindowOK, PhaseInv, RunJoined
    <3>2. WindowOK' /\ PrepOK'
      BY <1>5, TypeParts DEF IInv, WindowOK, PrepOK, RunJoined
    <3>. QED BY TypeParts, <3>1, <3>2
  <2>2. \A r \in Runs : Loose(r)' = Loose(r) /\ (Unattended(r)' => Unattended(r)) /\ IsAwaited(r)' = IsAwaited(r)
    BY <1>5 DEF Loose, Unattended, IsGoing, IsAwaited, RunJoined
  <2>3. PhaseInv' /\ ClosingInv'
    BY <1>5, <2>2 DEF IInv, PhaseInv, ClosingInv, RunJoined
  <2>. QED BY <1>5, <2>1, <2>2, <2>3 DEF IInv, LooseInv, AwaitedInv, RunJoined
<1>. QED BY <1>1, <1>2, <1>3, <1>4, <1>5 DEF ClosingStep

-----------------------------------------------------------------------------
LEMMA NextIInv == IInv /\ [Next]_vars => IInv'
<1>. SUFFICES ASSUME IInv, [Next]_vars PROVE IInv'
  OBVIOUS
<1>1. ASSUME NEW r \in Runs, RunnerStep(r) PROVE IInv'
  BY <1>1, RunnerStepIInv
<1>2. CASE Click
  BY <1>2, ClickRunIInv, OtherClicksIInv DEF Click
<1>3. CASE TickReads \/ TickRefreshes
  BY <1>3, TickIInv
<1>4. CASE AdoptWhenIdle
  BY <1>4, AdoptIInv DEF AdoptWhenIdle
<1>5. CASE PrepStep \/ PrepFails
  BY <1>5, PrepIInv
<1>6. CASE Close \/ ClosingStep
  BY <1>6, ClosingIInv
<1>7. CASE UNCHANGED vars
  BY <1>7 DEF IInv, TypeOK, PhaseInv, LooseInv, AwaitedInv, ClosingInv, IsAwaited, Loose, Unattended, IsGoing
<1>. QED BY <1>1, <1>2, <1>3, <1>4, <1>5, <1>6, <1>7 DEF Next, Closed

(* The variables stay within their types.                                  *)
THEOREM TypeCorrect == Spec => []TypeOK
<1>1. IInv => TypeOK
  BY DEF IInv
<1>. QED BY InitIInv, NextIInv, <1>1, PTL DEF Spec

(* control_window.py, _build_runner: of all runners ever started, at most  *)
(* one goes on that was neither told to stop nor overlooked.               *)
THEOREM RunsReplaceEachOther == Spec => []OneRunAtATime
<1>1. IInv => OneRunAtATime
  <2>. SUFFICES ASSUME IInv, NEW r \in Going \ (told \cup overlooked), NEW s \in Going \ (told \cup overlooked)
                PROVE  r = s
    BY DEF OneRunAtATime
  <2>1. r \in Runs /\ s \in Runs /\ Loose(r) /\ Loose(s)
    BY DEF Going, Loose, IsGoing
  <2>2. IsAwaited(r) /\ IsAwaited(s)
    BY <2>1 DEF IInv, LooseInv
  <2>. QED BY <2>2, TypeParts DEF IInv, PrepOK, IsAwaited
<1>. QED BY InitIInv, NextIInv, <1>1, PTL DEF Spec

(* control_window.py:393-396: coverage is cleared when nobody goes on but  *)
(* those that were overlooked or have outlasted their join.                *)
THEOREM CoverageIsLeftAlone == Spec => CoverageNotPulled
<1>1. IInv /\ [Next]_vars => [Load => Going \subseteq overlooked \cup gaveUp]_vars
  <2>. SUFFICES ASSUME IInv, Load, NEW r \in Going PROVE r \in overlooked \cup gaveUp
    OBVIOUS
  <2>. QED BY DEF IInv, AwaitedInv, IsAwaited, Unattended, IsGoing, Going, Load
<1>. QED BY InitIInv, NextIInv, <1>1, PTL DEF Spec, CoverageNotPulled

(* gui_main.py, closeEvent: a window that has closed leaves nobody behind  *)
(* but runners that were told to stop or overlooked.                       *)
THEOREM WindowClosesItsRun == Spec => []WindowTakesRunAlong
<1>1. IInv => WindowTakesRunAlong
  <2>. SUFFICES ASSUME IInv, gui = "closed", prep = "none", NEW r \in Going PROVE r \in told \cup overlooked
    BY DEF WindowTakesRunAlong
  <2>1. r \in Runs /\ finished \notin Runs
    BY RunsAreNumbers DEF IInv, ClosingInv, Going
  <2>2. ~Loose(r)
    BY <2>1 DEF IInv, LooseInv, ClosingInv, IsAwaited
  <2>. QED BY <2>1, <2>2 DEF Loose, IsGoing, Going
<1>. QED BY InitIInv, NextIInv, <1>1, PTL DEF Spec
=============================================================================
