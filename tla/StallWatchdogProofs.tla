------------------------- MODULE StallWatchdogProofs -------------------------
(***************************************************************************)
(* No false alarm and no hasty force stop, for any tests, windows and      *)
(* tick times.                                                             *)
(*                                                                         *)
(* The watchdog knows how long a run was quiet only by a clock it resets   *)
(* when the records have another fingerprint, or a process was seen to     *)
(* work.  Between two ticks the fingerprint could return to what it was:   *)
(* its newest time stamp moves back when the test that owns it is killed.  *)
(* CountInv says why it does not: the tests that are done, and those that  *)
(* are done or running, never become fewer, and each record makes one of   *)
(* the two counts larger.  Hence RecordInv and SnapshotInv, an unchanged   *)
(* fingerprint means no record since and no process that was not sampled,  *)
(* and IdleInv, a process that was sampled and has not worked since has    *)
(* been idle as long as the clock says.                                    *)
(***************************************************************************)
EXTENDS StallWatchdog, FiniteSetTheorems, TLAPS

DoneCount == Cardinality(Tests \ Stuck)
RunCount  == Cardinality(InFlight)
Started   == {t \in Tests : row[t] # "queued"}

RunOK ==
  /\ row \in [Tests -> {"queued", "running", "done"}]
  /\ alive \subseteq Tests /\ worked \subseteq alive
  /\ quiet \in 0 .. Cap /\ idle \in [Tests -> 0 .. Cap]

WatchOK ==
  /\ point \in {"tick", "evaluate", "check", "wait", "done"}
  /\ elapsed \in 0 .. Cap
  /\ sampled \subseteq Started
  /\ forceStops \in Nat

(* A fingerprint that is not of later records than there are.              *)
NotAhead(f, done, running) ==
  \/ f = <<>>
  \/ /\ f[1] \in Nat /\ f[2] \in Nat
     /\ f[1] <= done /\ f[1] + f[2] <= done + running

CountInv ==
  /\ ~workers => alive = {}
  /\ ~stopSignal =>
       /\ \A t \in alive : row[t] = "running"
       /\ NotAhead(fingerprint, DoneCount, RunCount)
       /\ point = "evaluate" => NotAhead(snapshot.fingerprint, DoneCount, RunCount)

RecordInv ==
  ~stopSignal /\ fingerprint = Fingerprint => quiet >= elapsed /\ InFlight \cap alive \subseteq sampled

SnapshotInv ==
  point = "evaluate" =>
    /\ snapshot.quiet \in Nat
    /\ snapshot.running \subseteq Started
    /\ Stuck \subseteq snapshot.stuck
    /\ ~stopSignal /\ snapshot.fingerprint = Fingerprint => InFlight \subseteq snapshot.running
    /\ snapshot.fingerprint = fingerprint =>
         snapshot.quiet >= elapsed /\ snapshot.running \cap alive \subseteq sampled

IdleInv == \A t \in (alive \cap sampled) \ worked : idle[t] >= elapsed

OnceInv == forceStops = 0 \/ escalated

IInv == RunOK /\ WatchOK /\ CountInv /\ RecordInv /\ SnapshotInv /\ IdleInv /\ OnceInv

-----------------------------------------------------------------------------
(* Windows and counts.                                                     *)

LEMMA Windows ==
  /\ Cap \in Nat /\ Warn \in Nat \ {0} /\ Kill \in Nat
  /\ \A n \in Gaps : n \in Nat
  BY ConstantsOK DEF Cap

(* The clock and what it measures go on alike.                             *)
LEMMA LaterMonotone ==
  ASSUME NEW c \in 0 .. Cap, NEW d \in 0 .. Cap, NEW n \in Gaps, c <= d
  PROVE  Later(c, n) \in 0 .. Cap /\ Later(d, n) \in 0 .. Cap /\ Later(c, n) <= Later(d, n)
  BY Windows DEF Later

LEMMA CountsAreNumbers ==
  /\ IsFiniteSet(Tests \ Stuck) /\ IsFiniteSet(InFlight)
  /\ DoneCount \in Nat /\ RunCount \in Nat
<1>1. IsFiniteSet(Tests \ Stuck) /\ IsFiniteSet(InFlight)
  BY ConstantsOK, FS_Subset DEF InFlight
<1>. QED BY <1>1, FS_CardinalityType DEF DoneCount, RunCount

(* A start or an end of a test makes one of the counts larger.             *)
LEMMA StartCounts ==
  ASSUME RunOK, NEW t \in Tests, row[t] = "queued", row' = [row EXCEPT ![t] = "running"]
  PROVE  DoneCount' = DoneCount /\ RunCount' = RunCount + 1
<1>1. (Tests \ Stuck)' = Tests \ Stuck
  BY DEF RunOK, Stuck
<1>2. InFlight' = InFlight \cup {t} /\ t \notin InFlight
  BY DEF RunOK, InFlight
<1>. QED BY <1>1, <1>2, CountsAreNumbers, FS_AddElement DEF DoneCount, RunCount

LEMMA EndCounts ==
  ASSUME RunOK, NEW t \in Tests, row[t] = "running", row' = [row EXCEPT ![t] = "done"]
  PROVE  DoneCount' = DoneCount + 1 /\ RunCount' = RunCount - 1
<1>1. (Tests \ Stuck)' = (Tests \ Stuck) \cup {t} /\ t \notin Tests \ Stuck
  BY DEF RunOK, Stuck
<1>2. InFlight' = InFlight \ {t} /\ t \in InFlight
  BY DEF RunOK, InFlight
<1>3. DoneCount' = DoneCount + 1
  BY <1>1, CountsAreNumbers, FS_AddElement DEF DoneCount
<1>4. RunCount' = RunCount - 1
  BY <1>2, CountsAreNumbers, FS_RemoveElement DEF RunCount
<1>. QED BY <1>3, <1>4

(* What was read before a count became larger does not look like what is   *)
(* read after it.                                                          *)
LEMMA LargerCountShows ==
  ASSUME NEW f, NEW d \in Nat, NEW r \in Nat, NEW e \in Nat, NEW s \in Nat, NEW x,
         NotAhead(f, d, r), (e = d /\ s = r + 1) \/ (e = d + 1 /\ s = r - 1)
  PROVE  NotAhead(f, e, s) /\ f # <<e, s, x>>
<1>1. CASE f = <<>>
  BY <1>1 DEF NotAhead
<1>2. CASE f # <<>>
  <2>1. f[1] \in Nat /\ f[2] \in Nat /\ f[1] <= d /\ f[1] + f[2] <= d + r
    BY <1>2 DEF NotAhead
  <2>2. ~(f[1] = e /\ f[2] = s)
    BY <2>1
  <2>. QED BY <2>1, <2>2 DEF NotAhead
<1>. QED BY <1>1, <1>2

-----------------------------------------------------------------------------
(* The run.                                                                *)

LEMMA InitIInv == Init => IInv
<1>. SUFFICES ASSUME Init PROVE IInv
  OBVIOUS
<1>1. RunOK /\ WatchOK
  BY Windows DEF Init, RunOK, WatchOK
<1>2. CountInv
  BY DEF Init, CountInv, NotAhead
<1>3. RecordInv /\ SnapshotInv /\ IdleInv /\ OnceInv
  BY DEF Init, RecordInv, SnapshotInv, IdleInv, OnceInv
<1>. QED BY <1>1, <1>2, <1>3 DEF IInv

(* A record that is written shows, to the next tick and to this one.       *)
LEMMA WriteShows ==
  ASSUME IInv, ~stopSignal, UNCHANGED watchdogVars,
         \/ DoneCount' = DoneCount /\ RunCount' = RunCount + 1
         \/ DoneCount' = DoneCount + 1 /\ RunCount' = RunCount - 1,
         DoneCount' \in Nat, RunCount' \in Nat
  PROVE  /\ NotAhead(fingerprint', DoneCount', RunCount') /\ fingerprint' # Fingerprint'
         /\ point' = "evaluate" =>
              NotAhead(snapshot'.fingerprint, DoneCount', RunCount') /\ snapshot'.fingerprint # Fingerprint'
<1>1. Fingerprint' = <<DoneCount', RunCount', Latest'>>
  BY DEF Fingerprint, DoneCount, RunCount
<1>2. NotAhead(fingerprint, DoneCount, RunCount)
  BY DEF IInv, CountInv
<1>3. point = "evaluate" => NotAhead(snapshot.fingerprint, DoneCount, RunCount)
  BY DEF IInv, CountInv
<1>4. fingerprint' = fingerprint /\ snapshot' = snapshot /\ point' = point
  BY DEF watchdogVars
<1>5. NotAhead(fingerprint, DoneCount', RunCount') /\ fingerprint # <<DoneCount', RunCount', Latest'>>
  BY <1>2, CountsAreNumbers, LargerCountShows
<1>6. point = "evaluate" =>
        /\ NotAhead(snapshot.fingerprint, DoneCount', RunCount')
        /\ snapshot.fingerprint # <<DoneCount', RunCount', Latest'>>
  BY <1>3, CountsAreNumbers, LargerCountShows
<1>. QED BY <1>1, <1>4, <1>5, <1>6

LEMMA TestStartsIInv ==
  ASSUME IInv, NEW t \in Tests, TestStarts(t)
  PROVE  IInv'
<1>. USE DEF IInv
<1>1. DoneCount' = DoneCount /\ RunCount' = RunCount + 1 /\ ~stopSignal
  BY StartCounts DEF TestStarts
<1>2. /\ NotAhead(fingerprint', DoneCount', RunCount') /\ fingerprint' # Fingerprint'
      /\ point' = "evaluate" =>
           NotAhead(snapshot'.fingerprint, DoneCount', RunCount') /\ snapshot'.fingerprint # Fingerprint'
  BY <1>1, CountsAreNumbers, WriteShows DEF TestStarts
<1>3. RunOK'
  BY Windows DEF TestStarts, RunOK
<1>4. Started' = Started \cup {t} /\ t \notin Started /\ Stuck' = Stuck
  BY DEF TestStarts, RunOK, Started, Stuck
<1>5. UNCHANGED <<point, stopSignal, snapshot, fingerprint, elapsed, sampled, stalled, escalated, forceStops>>
  BY DEF TestStarts, watchdogVars
<1>6. WatchOK'
  BY <1>4, <1>5 DEF WatchOK
<1>7. CountInv'
  BY <1>2 DEF TestStarts, CountInv, RunOK
<1>8. RecordInv'
  BY <1>2 DEF RecordInv
<1>9. SnapshotInv'
  BY <1>2, <1>4, <1>5 DEF TestStarts, SnapshotInv
<1>10. IdleInv'
  BY <1>4, <1>5 DEF TestStarts, IdleInv, RunOK, WatchOK
<1>. QED BY <1>3, <1>5, <1>6, <1>7, <1>8, <1>9, <1>10 DEF OnceInv

LEMMA WorksIInv ==
  ASSUME IInv, NEW t \in Tests, Works(t)
  PROVE  IInv'
<1>. USE DEF IInv
<1>1. UNCHANGED <<point, stopSignal, snapshot, fingerprint, elapsed, sampled, stalled, escalated, forceStops,
                  row, stamp, alive, workers, quiet>>
  BY DEF Works, watchdogVars
<1>2. RunOK'
  BY Windows, <1>1 DEF Works, RunOK
<1>3. Started' = Started /\ Stuck' = Stuck /\ InFlight' = InFlight /\ Fingerprint' = Fingerprint
      /\ DoneCount' = DoneCount /\ RunCount' = RunCount
  BY <1>1 DEF Started, Stuck, InFlight, Fingerprint, Latest, DoneCount, RunCount
<1>4. WatchOK' /\ OnceInv'
  BY <1>1, <1>3 DEF WatchOK, OnceInv
<1>5. CountInv' /\ RecordInv' /\ SnapshotInv'
  BY <1>1, <1>3 DEF CountInv, RecordInv, SnapshotInv
<1>6. IdleInv'
  BY <1>1 DEF Works, IdleInv, RunOK
<1>. QED BY <1>2, <1>4, <1>5, <1>6

(* Nothing that only ends processes and tests makes more of them visible.  *)
LEMMA EndingKeeps ==
  ASSUME IInv, UNCHANGED <<point, snapshot, fingerprint, elapsed, sampled, escalated, forceStops>>,
         RunOK', Started' = Started, Stuck' \subseteq Stuck, InFlight' \subseteq InFlight,
         alive' \subseteq alive, worked \cap alive' \subseteq worked',
         \A t \in alive' : idle'[t] = idle[t],
         stopSignal' \/ (UNCHANGED stopSignal /\
           ((fingerprint # Fingerprint' /\ (point = "evaluate" => snapshot.fingerprint # Fingerprint'))
            \/ (Fingerprint' = Fingerprint /\ UNCHANGED <<quiet, InFlight>>)))
  PROVE  WatchOK' /\ RecordInv' /\ SnapshotInv' /\ IdleInv' /\ OnceInv'
<1>. USE DEF IInv
<1>1. WatchOK' /\ OnceInv'
  BY DEF WatchOK, OnceInv
<1>2. RecordInv'
  BY DEF RecordInv
<1>3. SnapshotInv'
  BY DEF SnapshotInv
<1>4. IdleInv'
  BY DEF IdleInv
<1>. QED BY <1>1, <1>2, <1>3, <1>4

LEMMA TestEndsIInv ==
  ASSUME IInv, NEW t \in Tests, TestEnds(t) \/ TestIsKilled(t)
  PROVE  IInv'
<1>1. UNCHANGED <<point, stopSignal, snapshot, fingerprint, elapsed, sampled, stalled, escalated, forceStops>>
      /\ UNCHANGED workers
  BY DEF TestEnds, TestIsKilled, watchdogVars
<1>2. RunOK'
  BY Windows DEF TestEnds, TestIsKilled, Dies, IInv, RunOK
<1>3. CASE row[t] = "queued"
  <2>1. stopSignal /\ t \in alive /\ row' = [row EXCEPT ![t] = "done"]
    BY <1>3 DEF TestEnds, TestIsKilled, IInv, CountInv
  <2>2. Started \subseteq Started' /\ Stuck' \subseteq Stuck /\ InFlight' = InFlight
    BY <2>1, <1>3 DEF IInv, RunOK, Started, Stuck, InFlight
  <2>3. WatchOK' /\ OnceInv'
    BY <1>1, <2>2 DEF IInv, WatchOK, OnceInv
  <2>4. CountInv' /\ RecordInv'
    BY <1>1, <2>1 DEF IInv, CountInv, RecordInv, TestEnds, TestIsKilled, Dies
  <2>5. SnapshotInv' /\ IdleInv'
    BY <1>1, <2>1, <2>2 DEF IInv, SnapshotInv, IdleInv, RunOK, TestEnds, TestIsKilled, Dies
  <2>. QED BY <1>2, <2>3, <2>4, <2>5 DEF IInv
<1>4. CASE row[t] # "queued"
  <2>1. Started' = Started /\ Stuck' \subseteq Stuck /\ InFlight' \subseteq InFlight
    BY <1>4 DEF TestEnds, TestIsKilled, IInv, RunOK, Started, Stuck, InFlight
  <2>2. alive' \subseteq alive /\ worked \cap alive' \subseteq worked' /\ \A u \in alive' : idle'[u] = idle[u]
    BY DEF TestEnds, TestIsKilled, Dies, IInv, RunOK
  <2>3. ~stopSignal =>
          /\ NotAhead(fingerprint', DoneCount', RunCount') /\ fingerprint' # Fingerprint'
          /\ point' = "evaluate" =>
               NotAhead(snapshot'.fingerprint, DoneCount', RunCount') /\ snapshot'.fingerprint # Fingerprint'
    <3>1. SUFFICES ASSUME ~stopSignal
                   PROVE  DoneCount' = DoneCount + 1 /\ RunCount' = RunCount - 1
                          /\ DoneCount' \in Nat /\ RunCount' \in Nat
      BY <1>1, WriteShows DEF watchdogVars
    <3>2. row[t] = "running" /\ row' = [row EXCEPT ![t] = "done"]
      BY <3>1 DEF TestEnds, TestIsKilled, IInv, CountInv
    <3>3. DoneCount' = DoneCount + 1 /\ RunCount' = RunCount - 1
      BY <3>2, EndCounts DEF IInv
    <3>4. InFlight # {} /\ RunCount # 0
      BY <3>2, CountsAreNumbers, FS_EmptySet DEF InFlight, RunCount
    <3>. QED BY <3>3, <3>4, CountsAreNumbers
  <2>4. WatchOK' /\ RecordInv' /\ SnapshotInv' /\ IdleInv' /\ OnceInv'
    BY <1>1, <1>2, <2>1, <2>2, <2>3, EndingKeeps
  <2>5. CountInv'
    BY <1>1, <2>2, <2>3 DEF IInv, CountInv, RunOK, TestEnds, TestIsKilled, Dies
  <2>. QED BY <1>2, <2>4, <2>5 DEF IInv
<1>. QED BY <1>3, <1>4

LEMMA TestCrashesIInv ==
  ASSUME IInv, NEW t, TestCrashes(t) \/ WorkersLeave
  PROVE  IInv'
<1>1. /\ UNCHANGED <<point, stopSignal, snapshot, fingerprint, elapsed, sampled, stalled, escalated, forceStops>>
      /\ UNCHANGED <<row, stamp, quiet>>
  BY DEF TestCrashes, WorkersLeave, watchdogVars
<1>2. RunOK'
  BY Windows DEF TestCrashes, WorkersLeave, Dies, IInv, RunOK
<1>3. Started' = Started /\ Stuck' = Stuck /\ InFlight' = InFlight /\ Fingerprint' = Fingerprint
      /\ DoneCount' = DoneCount /\ RunCount' = RunCount
  BY <1>1 DEF Started, Stuck, InFlight, Fingerprint, Latest, DoneCount, RunCount
<1>4. alive' \subseteq alive /\ worked \cap alive' \subseteq worked' /\ \A u \in alive' : idle'[u] = idle[u]
  BY DEF TestCrashes, WorkersLeave, Dies, IInv, RunOK
<1>5. WatchOK' /\ RecordInv' /\ SnapshotInv' /\ IdleInv' /\ OnceInv'
  BY <1>1, <1>2, <1>3, <1>4, EndingKeeps
<1>6. CountInv'
  BY <1>1, <1>3, <1>4 DEF IInv, CountInv, TestCrashes, WorkersLeave, Dies
<1>. QED BY <1>2, <1>5, <1>6 DEF IInv

(* What a force stop does to the records.                                  *)
LEMMA ResetEndsAll ==
  ASSUME RunOK, Reset
  PROVE  /\ stopSignal' /\ quiet' = 0
         /\ row' \in [Tests -> {"queued", "running", "done"}]
         /\ Started \subseteq Started' /\ Stuck' = {} /\ InFlight' = {}
  BY DEF RunOK, Reset, Started, Stuck, InFlight

LEMMA UserForceStopsIInv ==
  ASSUME IInv, UserForceStops
  PROVE  IInv'
<1>1. UNCHANGED <<point, snapshot, fingerprint, elapsed, sampled, escalated, forceStops,
                  alive, worked, workers, idle>>
  BY DEF UserForceStops
<1>2. /\ stopSignal' /\ quiet' = 0
      /\ row' \in [Tests -> {"queued", "running", "done"}]
      /\ Started \subseteq Started' /\ Stuck' = {} /\ InFlight' = {}
  BY ResetEndsAll DEF IInv, UserForceStops
<1>3. RunOK' /\ WatchOK'
  BY Windows, <1>1, <1>2 DEF IInv, RunOK, WatchOK
<1>4. CountInv' /\ RecordInv' /\ OnceInv'
  BY <1>1, <1>2 DEF IInv, CountInv, RecordInv, OnceInv
<1>5. SnapshotInv' /\ IdleInv'
  BY <1>1, <1>2 DEF IInv, SnapshotInv, IdleInv
<1>. QED BY <1>3, <1>4, <1>5 DEF IInv

-----------------------------------------------------------------------------
(* The watchdog.                                                           *)

(* What a step that leaves the run alone leaves alone.                     *)
LEMMA RunUnchanged ==
  ASSUME UNCHANGED <<row, stamp>>
  PROVE  /\ Started' = Started /\ Stuck' = Stuck /\ InFlight' = InFlight
         /\ Fingerprint' = Fingerprint
         /\ DoneCount' = DoneCount /\ RunCount' = RunCount
  BY DEF Started, Stuck, InFlight, Fingerprint, Latest, DoneCount, RunCount

LEMMA FingerprintNotAhead == NotAhead(Fingerprint, DoneCount, RunCount)
<1>1. Fingerprint = <<DoneCount, RunCount, Latest>>
  BY DEF Fingerprint, DoneCount, RunCount
<1>. QED BY <1>1, CountsAreNumbers DEF NotAhead

LEMMA ReadRecordsIInv ==
  ASSUME IInv, ReadRecords
  PROVE  IInv'
<1>. USE DEF IInv
<1>1. /\ UNCHANGED <<runVars, stopSignal, fingerprint, elapsed, sampled, escalated, historyVars>>
      /\ ~stopSignal /\ snapshot' = Read /\ point' = "evaluate"
  BY DEF ReadRecords
<1>2. /\ snapshot'.fingerprint = Fingerprint /\ snapshot'.stuck = Stuck
      /\ snapshot'.running = InFlight /\ snapshot'.quiet = quiet
  BY <1>1 DEF Read
<1>3. Started' = Started /\ Stuck' = Stuck /\ InFlight' = InFlight /\ Fingerprint' = Fingerprint
      /\ DoneCount' = DoneCount /\ RunCount' = RunCount
  BY <1>1, RunUnchanged DEF runVars
<1>4. RunOK' /\ WatchOK' /\ OnceInv'
  BY <1>1, <1>3 DEF RunOK, WatchOK, OnceInv, runVars, historyVars
<1>5. CountInv'
  BY <1>1, <1>2, <1>3, FingerprintNotAhead DEF CountInv, runVars
<1>6. RecordInv' /\ IdleInv'
  BY <1>1, <1>3 DEF RecordInv, IdleInv, runVars, historyVars
<1>7. InFlight \subseteq Started
  BY DEF InFlight, Started
<1>8. quiet \in Nat
  BY Windows DEF RunOK
<1>9. SnapshotInv'
  BY <1>1, <1>2, <1>3, <1>7, <1>8 DEF SnapshotInv, RecordInv, runVars
<1>. QED BY <1>4, <1>5, <1>6, <1>9

LEMMA LoopIInv ==
  ASSUME IInv, ReadFails \/ Check \/ Leave
  PROVE  IInv'
<1>. USE DEF IInv
<1>1. /\ UNCHANGED <<runVars, stopSignal, snapshot, fingerprint, elapsed, sampled, escalated, historyVars>>
      /\ point' \in {"check", "wait", "done"}
  BY DEF ReadFails, Check, Leave
<1>2. Started' = Started /\ Stuck' = Stuck /\ InFlight' = InFlight /\ Fingerprint' = Fingerprint
      /\ DoneCount' = DoneCount /\ RunCount' = RunCount
  BY <1>1, RunUnchanged DEF runVars
<1>3. RunOK' /\ WatchOK' /\ OnceInv'
  BY <1>1, <1>2 DEF RunOK, WatchOK, OnceInv, runVars, historyVars
<1>4. CountInv' /\ RecordInv' /\ SnapshotInv' /\ IdleInv'
  BY <1>1, <1>2 DEF CountInv, RecordInv, SnapshotInv, IdleInv, runVars, historyVars
<1>. QED BY <1>3, <1>4

LEMMA WaitIInv ==
  ASSUME IInv, Wait
  PROVE  IInv'
<1>. USE DEF IInv
<1>1. PICK n \in Gaps :
        /\ elapsed' = Later(elapsed, n) /\ quiet' = Later(quiet, n)
        /\ idle' = [t \in Tests |-> IF t \in alive THEN Later(idle[t], n) ELSE 0]
  BY DEF Wait
<1>2. /\ UNCHANGED <<runVars, stopSignal, snapshot, fingerprint, sampled, escalated, forceStops>>
      /\ point' = "tick"
  BY DEF Wait
<1>3. Started' = Started /\ Stuck' = Stuck /\ InFlight' = InFlight /\ Fingerprint' = Fingerprint
      /\ DoneCount' = DoneCount /\ RunCount' = RunCount
  BY <1>2, RunUnchanged DEF runVars
<1>4. elapsed' \in 0 .. Cap /\ quiet' \in 0 .. Cap /\ (quiet >= elapsed => quiet' >= elapsed')
  BY <1>1, LaterMonotone, Windows DEF RunOK, WatchOK, Later
<1>5. \A t \in alive : Later(idle[t], n) \in 0 .. Cap
                       /\ (idle[t] >= elapsed => Later(idle[t], n) >= Later(elapsed, n))
  BY LaterMonotone, Windows DEF RunOK, WatchOK, Later
<1>6. RunOK'
  BY <1>1, <1>2, <1>4, <1>5, Windows DEF RunOK, runVars
<1>7. WatchOK' /\ OnceInv'
  BY <1>2, <1>3, <1>4 DEF WatchOK, OnceInv
<1>8. CountInv' /\ SnapshotInv' /\ RecordInv'
  BY <1>2, <1>3, <1>4 DEF CountInv, SnapshotInv, RecordInv, runVars
<1>9. IdleInv'
  BY <1>1, <1>2, <1>5 DEF IdleInv, RunOK, runVars
<1>. QED BY <1>6, <1>7, <1>8, <1>9

(* Without workers nothing is alive, and with every test over nothing is   *)
(* in flight, so that the new fingerprint hides no process.                *)
LEMMA RunIsNotLiveIInv ==
  ASSUME IInv, RunIsNotLive
  PROVE  IInv'
<1>. USE DEF IInv
<1>1. /\ UNCHANGED <<runVars, stopSignal, sampled, escalated, historyVars>>
      /\ point = "evaluate" /\ point' = "check" /\ elapsed' = 0 /\ fingerprint' = snapshot.fingerprint
  BY DEF RunIsNotLive
<1>2. Started' = Started /\ Stuck' = Stuck /\ InFlight' = InFlight /\ Fingerprint' = Fingerprint
      /\ DoneCount' = DoneCount /\ RunCount' = RunCount
  BY <1>1, RunUnchanged DEF runVars
<1>3. InFlight \cap alive = {}
  BY <1>1 DEF RunIsNotLive, NothingLive, CountInv, SnapshotInv, InFlight, Stuck
<1>4. RunOK' /\ WatchOK' /\ OnceInv'
  BY <1>1, <1>2, Windows DEF RunOK, WatchOK, OnceInv, runVars, historyVars
<1>5. CountInv'
  BY <1>1, <1>2 DEF CountInv, runVars
<1>6. RecordInv'
  BY <1>1, <1>2, <1>3, Windows DEF RecordInv, RunOK, runVars, historyVars
<1>7. SnapshotInv'
  BY <1>1 DEF SnapshotInv
<1>8. IdleInv'
  BY <1>1, Windows DEF IdleInv, RunOK, runVars, historyVars
<1>. QED BY <1>4, <1>5, <1>6, <1>7, <1>8

(* When the clock goes on, the fingerprint is unchanged and every process  *)
(* in flight was sampled and has not worked since.                         *)
LEMMA ClockGoesOn ==
  ASSUME IInv, point = "evaluate", IdleFor # 0
  PROVE  /\ IdleFor = elapsed /\ snapshot.fingerprint = fingerprint
         /\ snapshot.quiet >= elapsed
         /\ snapshot.running \cap alive \subseteq sampled
         /\ \A t \in snapshot.running \cap alive : t \notin worked /\ idle[t] >= elapsed
<1>1. IdleFor = elapsed /\ snapshot.fingerprint = fingerprint /\ ~Active(snapshot.running)
  BY DEF IdleFor, Progressed
<1>2. snapshot.quiet >= elapsed /\ snapshot.running \cap alive \subseteq sampled
  BY <1>1 DEF IInv, SnapshotInv
<1>3. \A t \in snapshot.running \cap alive : t \notin worked
  BY <1>1, <1>2 DEF Active, Readings
<1>. QED BY <1>1, <1>2, <1>3 DEF IInv, IdleInv

LEMMA EvaluateIInv ==
  ASSUME IInv, Evaluate
  PROVE  IInv'
<1>1. /\ point = "evaluate" /\ point' = "check"
      /\ fingerprint' = snapshot.fingerprint /\ elapsed' = IdleFor
      /\ sampled' = (sampled \ snapshot.running) \cup (snapshot.running \cap alive)
      /\ worked' = worked \ snapshot.running
      /\ UNCHANGED <<alive, workers, idle>>
  BY DEF Evaluate
<1>2. \/ UNCHANGED <<row, stamp, stopSignal, quiet, forceStops>> /\ (escalated => escalated')
      \/ Reset /\ escalated'
  BY DEF Evaluate
<1>3. /\ row' \in [Tests -> {"queued", "running", "done"}] /\ Started \subseteq Started'
      /\ quiet' \in 0 .. Cap
  BY <1>2, RunUnchanged, ResetEndsAll, Windows DEF IInv, RunOK
<1>4. elapsed' \in 0 .. Cap
  BY <1>1, Windows DEF IInv, WatchOK, IdleFor
<1>5. RunOK'
  BY <1>1, <1>3 DEF IInv, RunOK
<1>6. sampled' \subseteq Started'
  BY <1>1, <1>3 DEF IInv, WatchOK, SnapshotInv
<1>7. forceStops' \in Nat
  BY DEF Evaluate, IInv, WatchOK
<1>8. WatchOK'
  BY <1>1, <1>4, <1>6, <1>7 DEF WatchOK
<1>9. CountInv' /\ RecordInv'
  <2>1. CASE stopSignal'
    BY <2>1, <1>1 DEF IInv, CountInv, RecordInv
  <2>2. CASE ~stopSignal'
    <3>1. UNCHANGED <<row, stamp, stopSignal, quiet>>
      BY <2>2, <1>2, ResetEndsAll DEF IInv
    <3>2. InFlight' = InFlight /\ Fingerprint' = Fingerprint /\ DoneCount' = DoneCount /\ RunCount' = RunCount
      BY <3>1, RunUnchanged
    <3>3. CountInv'
      BY <1>1, <3>1, <3>2 DEF IInv, CountInv
    <3>4. ASSUME fingerprint' = Fingerprint'
          PROVE  quiet' >= elapsed' /\ (InFlight \cap alive)' \subseteq sampled'
      <4>1. InFlight \subseteq snapshot.running
        BY <3>4, <2>2, <1>1, <3>1, <3>2 DEF IInv, SnapshotInv
      <4>2. CASE IdleFor = 0
        BY <4>1, <4>2, <1>1, <1>5, <3>2, Windows DEF RunOK
      <4>3. CASE IdleFor # 0
        <5>1. elapsed' = elapsed /\ fingerprint = Fingerprint
          BY <4>3, <3>4, <1>1, <3>2, ClockGoesOn
        <5>2. quiet >= elapsed
          BY <5>1, <2>2, <3>1 DEF IInv, RecordInv
        <5>. QED BY <4>1, <5>1, <5>2, <1>1, <3>1, <3>2
      <4>. QED BY <4>2, <4>3
    <3>. QED BY <3>3, <3>4 DEF RecordInv
  <2>. QED BY <2>1, <2>2
<1>10. SnapshotInv'
  BY <1>1 DEF SnapshotInv
<1>11. IdleInv'
  <2>1. CASE IdleFor = 0
    BY <2>1, <1>1, Windows DEF IInv, RunOK, IdleInv
  <2>2. CASE IdleFor # 0
    <3>1. SUFFICES ASSUME NEW t \in (alive \cap sampled') \ worked'
                   PROVE  idle[t] >= elapsed
      BY <2>2, <1>1, ClockGoesOn DEF IdleInv
    <3>2. CASE t \in snapshot.running
      BY <3>1, <3>2, <2>2, <1>1, ClockGoesOn
    <3>3. CASE t \notin snapshot.running
      BY <3>1, <3>3, <1>1 DEF IInv, IdleInv
    <3>. QED BY <3>2, <3>3
  <2>. QED BY <2>1, <2>2
<1>12. OnceInv'
  BY <1>2, Zenon DEF IInv, OnceInv
<1>. QED BY <1>5, <1>8, <1>9, <1>10, <1>11, <1>12 DEF IInv

-----------------------------------------------------------------------------
(* The theorems.                                                           *)

LEMMA NextIInv == IInv /\ [Next]_vars => IInv'
<1>. SUFFICES ASSUME IInv, [Next]_vars PROVE IInv'
  OBVIOUS
<1>1. CASE RunStep
  BY <1>1, TestStartsIInv, WorksIInv, TestEndsIInv, TestCrashesIInv, UserForceStopsIInv DEF RunStep
<1>2. CASE WorkersLeave
  BY <1>2, TestCrashesIInv
<1>3. CASE WatchdogStep \/ ReadFails
  BY <1>3, ReadRecordsIInv, RunIsNotLiveIInv, EvaluateIInv, LoopIInv, WaitIInv DEF WatchdogStep
<1>4. CASE UNCHANGED vars
  <2>1. Started' = Started /\ Stuck' = Stuck /\ InFlight' = InFlight /\ Fingerprint' = Fingerprint
        /\ DoneCount' = DoneCount /\ RunCount' = RunCount
    BY <1>4, RunUnchanged DEF vars, runVars
  <2>2. RunOK' /\ WatchOK' /\ OnceInv'
    BY <1>4, <2>1 DEF IInv, vars, runVars, historyVars, RunOK, WatchOK, OnceInv
  <2>3. CountInv' /\ RecordInv' /\ SnapshotInv' /\ IdleInv'
    BY <1>4, <2>1 DEF IInv, vars, runVars, historyVars, CountInv, RecordInv, SnapshotInv, IdleInv
  <2>. QED BY <2>2, <2>3 DEF IInv
<1>. QED BY <1>1, <1>2, <1>3, <1>4 DEF Next, Over

(* A step that publishes an alarm evaluates a clock that has gone on.      *)
LEMMA OnlyEvaluateFlags ==
  ASSUME IInv, [Next]_vars, point = "evaluate", point' = "check", stalled'
  PROVE  Evaluate /\ IdleFor >= Warn
<1>1. Next
  BY DEF vars
<1>2. Evaluate
  BY <1>1 DEF Next, RunStep, TestStarts, Works, TestEnds, TestIsKilled, TestCrashes, UserForceStops, WorkersLeave,
              WatchdogStep, ReadRecords, ReadFails, RunIsNotLive, WithdrawAlarm, Check, Wait, Leave, Over, vars,
              watchdogVars
<1>. QED BY <1>2 DEF Evaluate

LEMMA OnlyEvaluateForceStops ==
  ASSUME [Next]_vars, forceStops' # forceStops
  PROVE  Evaluate /\ point = "evaluate" /\ IdleFor >= Warn /\ Escalates(IdleFor)
<1>1. Next
  BY DEF vars, historyVars
<1>2. Evaluate
  BY <1>1 DEF Next, RunStep, TestStarts, Works, TestEnds, TestIsKilled, TestCrashes, UserForceStops, WorkersLeave,
              WatchdogStep, ReadRecords, ReadFails, RunIsNotLive, Check, Wait, Leave, Over, vars,
              watchdogVars, historyVars
<1>. QED BY <1>2 DEF Evaluate

(* However late a tick comes, whatever it missed and whatever test was     *)
(* killed in between, a run is flagged only if no record was written and   *)
(* no process in flight worked for warn_seconds (stall_watchdog.py:51-57). *)
THEOREM NoFalseAlarm == Spec => FlagsOnlyQuietRuns
<1>1. ASSUME IInv, [Next]_vars, point = "evaluate", point' = "check", stalled'
      PROVE  snapshot.quiet >= Warn /\ \A t \in snapshot.running \cap alive : idle[t] >= Warn
  <2>1. IdleFor >= Warn /\ IdleFor # 0
    BY <1>1, OnlyEvaluateFlags, Windows
  <2>2. /\ elapsed >= Warn /\ snapshot.quiet >= elapsed
        /\ \A t \in snapshot.running \cap alive : idle[t] >= elapsed
    BY <1>1, <2>1, ClockGoesOn
  <2>3. elapsed \in Nat /\ snapshot.quiet \in Nat /\ \A t \in snapshot.running \cap alive : idle[t] \in Nat
    BY <1>1, Windows DEF IInv, WatchOK, RunOK, SnapshotInv
  <2>. QED BY <2>2, <2>3, Windows
<1>2. IInv /\ [Next]_vars =>
        ((point = "evaluate" /\ point' = "check" /\ stalled') =>
           snapshot.quiet >= Warn /\ \A t \in snapshot.running \cap alive : idle[t] >= Warn)
  BY <1>1
<1>. QED BY InitIInv, NextIInv, <1>2, PTL DEF Spec, FlagsOnlyQuietRuns

(* The run is force-stopped for its stall once at most, and only if it was *)
(* quiet for kill_seconds (:63-64, :176).                                  *)
THEOREM NoHastyForceStop == Spec => EscalatesOnlyWhenIdle
<1>1. ASSUME IInv, [Next]_vars, forceStops' # forceStops
      PROVE  /\ AutoForceStop /\ forceStops = 0
             /\ snapshot.quiet >= Kill
             /\ \A t \in snapshot.running \cap alive : idle[t] >= Kill
  <2>1. point = "evaluate" /\ IdleFor >= Warn /\ IdleFor # 0 /\ Escalates(IdleFor)
    BY <1>1, OnlyEvaluateForceStops, Windows
  <2>2. AutoForceStop /\ forceStops = 0
    BY <1>1, <2>1, Zenon DEF Escalates, IInv, OnceInv
  <2>3. /\ elapsed >= Kill /\ snapshot.quiet >= elapsed
        /\ \A t \in snapshot.running \cap alive : idle[t] >= elapsed
    BY <1>1, <2>1, ClockGoesOn DEF Escalates
  <2>4. elapsed \in Nat /\ snapshot.quiet \in Nat /\ \A t \in snapshot.running \cap alive : idle[t] \in Nat
    BY <1>1, <2>1, Windows DEF IInv, WatchOK, RunOK, SnapshotInv
  <2>. QED BY <2>2, <2>3, <2>4, Windows
<1>2. IInv /\ [Next]_vars =>
        (forceStops' # forceStops =>
           /\ AutoForceStop /\ forceStops = 0
           /\ snapshot.quiet >= Kill
           /\ \A t \in snapshot.running \cap alive : idle[t] >= Kill)
  BY <1>1
<1>. QED BY InitIInv, NextIInv, <1>2, PTL DEF Spec, EscalatesOnlyWhenIdle
=============================================================================
