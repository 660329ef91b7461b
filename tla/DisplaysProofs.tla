--------------------------- MODULE DisplaysProofs ---------------------------
(***************************************************************************)
(* Proofs about GuiTick.tla, for any tests, earlier session and            *)
(* interleaving of writes with the queries of a tick: what it shows is     *)
(* current and each record's own.  TickInv is inductive: for each cache it *)
(* says when what it holds is what the table says, and a transaction of    *)
(* the newest run either leaves that alone or is noticed - by one more     *)
(* pass, by a later row, or because the test had no entry yet.             *)
(*                                                                         *)
(* And about OutputPanes.tla and TestTabs.tla: the pane shows the test     *)
(* that was chosen, and the tabs the last tick, for any tests.  PanesInv   *)
(* says what each part of the pane is about; TabsInv, that the rows and    *)
(* their index are those of the tick, each test in a place of its own.     *)
(***************************************************************************)
EXTENDS RunHistoryProofs

-----------------------------------------------------------------------------
(* The tick                                                                 *)

TickCodes == Endings \cup {"NONE", "TERMINATED", "STOPPED"}

TickRecord == [run : Nat \ {0}, name : Tests, code : TickCodes, out : BOOLEAN, ts : Nat]

(* The tick gathers what is shown; what is gathered from its queries on.    *)
FromPasses == {"passes", "token", "runs", "records", "show"}
FromToken  == {"token", "runs", "records", "show"}
FromRuns   == {"runs", "records", "show"}

(* Stages of a test whose process has not reported in this run.             *)
Unreported == {"planned", "queued", "running", "doomed"}

TickTypeInv ==
  /\ tickRows \in Seq(TickRecord) /\ tickGuid \in Nat
  /\ stage \in [Tests -> Unreported \cup {"dying", "over"}]
  /\ \A t \in Tests : stage[t] # "over" => tickGuid # 0
  /\ waiting \in BOOLEAN /\ shown \in Nat
  /\ pc \in {"idle", "outputs"} \cup FromPasses
  /\ snap \in Nat /\ snap =< Len(tickRows)
  /\ outputs = [run |-> outputs.run, row |-> outputs.row]
  /\ lastPass = [run |-> lastPass.run, count |-> lastPass.count, of |-> lastPass.of]
  /\ lastPass.run \in Nat /\ lastPass.count \in Int
  /\ history = [token |-> history.token, seen |-> history.seen] /\ history.token \in Int
  /\ toRead \subseteq 1..tickGuid

(* A record has the output of the one its time stamp is of, which came no   *)
(* later; a test has one output in a run.                                   *)
TableInv ==
  /\ \A i \in DOMAIN tickRows :
       /\ tickRows[i].run =< tickGuid
       /\ tickRows[i].ts \in 1..i /\ tickRows[tickRows[i].ts].out = tickRows[i].out
       /\ tickRows[i].out => tickRows[i].code # "NONE"
  /\ \A i, j \in DOMAIN tickRows :
       tickRows[i].out /\ tickRows[j].out /\ tickRows[i].run = tickRows[j].run
       /\ tickRows[i].name = tickRows[j].name => i = j

(* Unless the GUI thread has yet to hear of a run, the newest is the one    *)
(* that is shown; and who has not reported has no output in it.             *)
ShownInv ==
  /\ waiting => shown < tickGuid
  /\ ~ waiting => \/ shown # 0 /\ shown = tickGuid
                  \/ shown = 0 /\ \A i \in DOMAIN tickRows : tickRows[i].run = tickGuid
  /\ \A t \in Tests, i \in DOMAIN tickRows :
       stage[t] \in Unreported /\ tickRows[i].run = tickGuid /\ tickRows[i].name = t
       => ~ tickRows[i].out

(* What was found for the run that is shown was found when it had no fewer  *)
(* passes than it was asked for; if it still has no more, it is current.    *)
PassesInv ==
  /\ lastPass.run =< shown
  /\ ~ waiting /\ lastPass.run = shown =>
       /\ lastPass.count =< GuiTable!PassCount(shown, tickRows)
       /\ lastPass.count = GuiTable!PassCount(shown, tickRows) =>
            \A t \in Tests : lastPass.of[t] = GuiTable!LastPassOf(t, tickRows)
  /\ pc \in FromToken =>
       /\ lastPass.run = shown
       /\ lastPass.count = GuiTable!PassCount(shown, GuiTable!Prefix(snap))

SeenIsRight == \A r \in DOMAIN history.seen : history.seen[r] = Cardinality(GuiTable!Query(r, tickRows))

(* If the token is that of the table, what has been read of the history is  *)
(* as it is in the table.                                                   *)
TokenInv ==
  /\ history.token =< Len(tickRows)
  /\ pc \in FromRuns => snap =< history.token
  /\ history.token = Len(tickRows) /\ pc # "runs" =>
       /\ SeenIsRight
       /\ DOMAIN history.seen \cup (IF pc = "records" THEN toRead ELSE {}) = GuiTable!RecentRuns(tickRows)

HasOutput(i, r, t) ==
  i \in DOMAIN tickRows /\ tickRows[i].run = r /\ tickRows[i].name = t /\ tickRows[i].out

(* What is cached of a test is its output in the cache's run, or that there *)
(* was none when it had a result.                                           *)
CachedInv ==
  /\ \A t \in DOMAIN outputs.row :
       \/ outputs.row[t] # 0 /\ HasOutput(outputs.row[t], outputs.run, t)
       \/ /\ outputs.row[t] = 0
          /\ \E j \in DOMAIN tickRows :
               /\ tickRows[j].run = outputs.run /\ tickRows[j].name = t /\ tickRows[j].code # "NONE"
               /\ \A i \in DOMAIN tickRows : HasOutput(i, outputs.run, t) => j < i
  /\ pc \in FromPasses =>
       /\ outputs.run = GuiTable!RunOf(shown, GuiTable!Prefix(snap))
       /\ GuiTable!Completed(shown, GuiTable!Prefix(snap)) \subseteq DOMAIN outputs.row

TickInv == TickTypeInv /\ TableInv /\ ShownInv /\ PassesInv /\ TokenInv /\ CachedInv

(* An instance has cardinalities of its own; they are the same.             *)
LEMMA TickSizes ==
  /\ \A S : GuiTable!Cardinality(S) = Cardinality(S)
  /\ \A S : GuiTable!IsFiniteSet(S) <=> IsFiniteSet(S)
<1>1. \A S : GuiTable!Cardinality(S) = Cardinality(S)
  BY DEF Cardinality, GuiTable!Cardinality
<1>2. \A S : GuiTable!IsFiniteSet(S) <=> IsFiniteSet(S)
  BY DEF IsFiniteSet, GuiTable!IsFiniteSet
<1>. QED
  BY <1>1, <1>2

(* The parts of a record.                                                   *)
LEMMA TickRecordIs ==
  ASSUME NEW list \in Seq(TickRecord), NEW i \in DOMAIN list
  PROVE  /\ i \in Nat /\ i >= 1 /\ i =< Len(list)
         /\ list[i] \in TickRecord /\ list[i].run \in Nat /\ list[i].run >= 1 /\ list[i].name \in Tests
         /\ list[i].code \in TickCodes /\ list[i].out \in BOOLEAN /\ list[i].ts \in Nat
<1>1. list[i] \in TickRecord
  OBVIOUS
<1>. QED
  BY <1>1 DEF TickRecord

(* The first rows of the table.                                             *)
LEMMA PrefixIs ==
  ASSUME tickRows \in Seq(TickRecord), NEW n \in Nat, n =< Len(tickRows)
  PROVE  /\ GuiTable!Prefix(n) \in Seq(TickRecord)
         /\ DOMAIN GuiTable!Prefix(n) = 1..n
         /\ \A i \in 1..n : i \in DOMAIN tickRows /\ GuiTable!Prefix(n)[i] = tickRows[i]
         /\ n = Len(tickRows) => GuiTable!Prefix(n) = tickRows
<1>. DEFINE p == GuiTable!Prefix(n)
<1>1. p = SubSeq(tickRows, 1, n) /\ Len(tickRows) \in Nat
  BY DEF GuiTable!Prefix
<1>2. p \in Seq(TickRecord) /\ Len(p) = n
  BY <1>1
<1>3. \A i \in 1..n : i \in DOMAIN tickRows /\ p[i] = tickRows[i]
  BY <1>1
<1>4. n = Len(tickRows) => p = tickRows
  <2>1. p = [i \in 1..Len(p) |-> p[i]] /\ tickRows = [i \in 1..Len(tickRows) |-> tickRows[i]]
    BY <1>2
  <2>. QED
    BY <1>2, <1>3, <2>1
<1>. QED
  BY <1>2, <1>3, <1>4

(* What a transaction leaves of the table.                                  *)
Written(new) ==
  /\ tickRows' \in Seq(TickRecord)
  /\ DOMAIN tickRows' = 1..(Len(tickRows) + Len(new)) /\ Len(tickRows') = Len(tickRows) + Len(new)
  /\ \A i \in DOMAIN tickRows : i \in DOMAIN tickRows' /\ tickRows'[i] = tickRows[i]
  /\ \A k \in DOMAIN new : Len(tickRows) + k \in DOMAIN tickRows' /\ tickRows'[Len(tickRows) + k] = new[k]
  /\ \A i \in DOMAIN tickRows' : i \in DOMAIN tickRows \/ \E k \in DOMAIN new : i = Len(tickRows) + k

(* A write leaves what was there and adds the new rows behind it.           *)
LEMMA WriteAppends ==
  ASSUME tickRows \in Seq(TickRecord), NEW new \in Seq(TickRecord), GuiTable!Write(new)
  PROVE  Written(new)
<1>0. tickRows' = tickRows \o new
  BY DEF GuiTable!Write
<1>1. Len(tickRows) \in Nat /\ Len(new) \in Nat /\ DOMAIN tickRows = 1..Len(tickRows) /\ DOMAIN new = 1..Len(new)
  OBVIOUS
<1>2. tickRows' \in Seq(TickRecord) /\ DOMAIN tickRows' = 1..(Len(tickRows) + Len(new))
      /\ Len(tickRows') = Len(tickRows) + Len(new)
  BY <1>0
<1>3. \A i \in 1..(Len(tickRows) + Len(new)) :
        tickRows'[i] = IF i =< Len(tickRows) THEN tickRows[i] ELSE new[i - Len(tickRows)]
  BY <1>0
<1>4. \A i \in DOMAIN tickRows : i \in DOMAIN tickRows' /\ tickRows'[i] = tickRows[i]
  BY <1>1, <1>2, <1>3
<1>5. ASSUME NEW k \in DOMAIN new
      PROVE  Len(tickRows) + k \in DOMAIN tickRows' /\ tickRows'[Len(tickRows) + k] = new[k]
  <2>1. Len(tickRows) + k \in DOMAIN tickRows' /\ ~ (Len(tickRows) + k =< Len(tickRows))
        /\ (Len(tickRows) + k) - Len(tickRows) = k
    BY <1>1, <1>2
  <2>. QED
    BY <1>2, <1>3, <2>1
<1>6. ASSUME NEW i \in DOMAIN tickRows', i \notin DOMAIN tickRows
      PROVE  \E k \in DOMAIN new : i = Len(tickRows) + k
  <2>1. i - Len(tickRows) \in DOMAIN new /\ i = Len(tickRows) + (i - Len(tickRows))
    BY <1>1, <1>2, <1>6
  <2>. QED
    BY <2>1
<1>. QED
  BY <1>2, <1>4, <1>5, <1>6 DEF Written

(* What an earlier query saw stays.                                         *)
LEMMA PrefixStays ==
  ASSUME tickRows \in Seq(TickRecord), NEW new \in Seq(TickRecord), Written(new),
         NEW n \in Nat, n =< Len(tickRows)
  PROVE  SubSeq(tickRows', 1, n) = SubSeq(tickRows, 1, n)
<1>1. Len(tickRows) \in Nat /\ Len(new) \in Nat /\ Len(tickRows') = Len(tickRows) + Len(new)
      /\ tickRows' \in Seq(TickRecord)
  BY DEF Written
<1>2. \A i \in 1..n : tickRows'[i] = tickRows[i]
  BY DEF Written
<1>. DEFINE a == SubSeq(tickRows, 1, n)
            b == SubSeq(tickRows', 1, n)
<1>3. a \in Seq(TickRecord) /\ Len(a) = n /\ \A i \in 1..n : a[i] = tickRows[i]
  BY <1>1
<1>4. b \in Seq(TickRecord) /\ Len(b) = n /\ \A i \in 1..n : b[i] = tickRows'[i]
  BY <1>1
<1>5. a = [i \in 1..n |-> a[i]] /\ b = [i \in 1..n |-> b[i]]
  BY <1>3, <1>4
<1>. QED
  BY <1>2, <1>3, <1>4, <1>5

(* The run of records that are all of one run.                              *)
LEMMA OneRun ==
  ASSUME NEW seen \in Seq(TickRecord), NEW g, \A i \in DOMAIN seen : seen[i].run = g, seen # <<>>
  PROVE  GuiTable!RunOf(0, seen) = g
<1>1. {seen[i].run : i \in DOMAIN seen} = {g}
  OBVIOUS
<1>2. g \in Nat
  BY TickRecordIs
<1>3. \A q \in {g} : (\A i \in DOMAIN seen : seen[i].run =< q) <=> q = g
  BY <1>2
<1>. QED
  BY <1>1, <1>3 DEF GuiTable!RunOf

(* Without a run to ask for, it is one of which there are records.          *)
LEMMA RunOfTable ==
  ASSUME TickInv, tickRows # <<>>
  PROVE  \E i \in DOMAIN tickRows : GuiTable!RunOf(0, tickRows) = tickRows[i].run
<1>. DEFINE runs == {tickRows[i].run : i \in DOMAIN tickRows}
<1>1. tickRows \in Seq(TickRecord) /\ tickGuid \in Nat
  BY DEF TickInv, TickTypeInv
<1>2. \A i \in DOMAIN tickRows : tickRows[i].run \in Nat /\ tickRows[i].run =< tickGuid
  BY <1>1, TickRecordIs DEF TickInv, TableInv
<1>3. runs \in SUBSET Nat /\ \A q \in runs : q =< tickGuid
  BY <1>2
<1>4. runs # {}
  <2>1. 1 \in DOMAIN tickRows
    BY <1>1
  <2>. QED
    BY <2>1
<1>. HIDE DEF runs
<1>5. PICK m \in runs : \A q \in runs : q =< m
  BY <1>1, <1>3, <1>4, GreatestNumber
<1>6. \A i \in DOMAIN tickRows : tickRows[i].run =< m
  BY <1>5 DEF runs
<1>7. GuiTable!RunOf(0, tickRows) = CHOOSE q \in runs : \A i \in DOMAIN tickRows : tickRows[i].run =< q
  BY DEF GuiTable!RunOf, runs
<1>8. GuiTable!RunOf(0, tickRows) \in runs
  BY <1>5, <1>6, <1>7
<1>. QED
  BY <1>8 DEF runs

(* The records of a run, when that run is g, or all records are of run g.   *)
LEMMA QueryIs ==
  ASSUME NEW seen \in Seq(TickRecord), NEW r, NEW g,
         \/ r # 0 /\ r = g
         \/ r = 0 /\ \A i \in DOMAIN seen : seen[i].run = g
  PROVE  GuiTable!Query(r, seen) = {i \in DOMAIN seen : seen[i].run = g}
<1>1. CASE r # 0 /\ r = g
  BY <1>1 DEF GuiTable!Query, GuiTable!RunOf
<1>2. CASE r = 0 /\ \A i \in DOMAIN seen : seen[i].run = g
  <2>1. CASE seen = <<>>
    <3>1. DOMAIN seen = {}
      BY <2>1
    <3>. QED
      BY <3>1 DEF GuiTable!Query
  <2>2. CASE seen # <<>>
    <3>1. GuiTable!RunOf(0, seen) = g
      BY <1>2, <2>2, OneRun
    <3>. QED
      BY <1>2, <3>1 DEF GuiTable!Query
  <2>. QED
    BY <2>1, <2>2
<1>. QED
  BY <1>1, <1>2

(* The passes among the records of run g.                                   *)
PassesOf(g, seen) == {i \in DOMAIN seen : seen[i].run = g /\ seen[i].code = "OK"}

(* What the tick counts are the passes of the run that is shown.            *)
LEMMA PassCountIs ==
  ASSUME NEW seen \in Seq(TickRecord), NEW r, NEW g,
         \/ r # 0 /\ r = g
         \/ r = 0 /\ \A i \in DOMAIN seen : seen[i].run = g
  PROVE  /\ GuiTable!PassCount(r, seen) = Cardinality(PassesOf(g, seen))
         /\ IsFiniteSet(PassesOf(g, seen)) /\ Cardinality(PassesOf(g, seen)) \in Nat
<1>0. GuiTable!Query(r, seen) = {i \in DOMAIN seen : seen[i].run = g}
  BY QueryIs
<1>1. GuiTable!PassCount(r, seen) = Cardinality(PassesOf(g, seen))
  <2>1. {i \in GuiTable!Query(r, seen) : seen[i].code = "OK"} = PassesOf(g, seen)
    BY <1>0 DEF PassesOf
  <2>. QED
    BY <2>1, TickSizes DEF GuiTable!PassCount
<1>2. DOMAIN seen = 1..Len(seen) /\ Len(seen) \in Nat
  OBVIOUS
<1>3. IsFiniteSet(DOMAIN seen)
  BY <1>2, FS_Interval
<1>4. PassesOf(g, seen) \subseteq DOMAIN seen
  BY DEF PassesOf
<1>5. IsFiniteSet(PassesOf(g, seen))
  BY <1>3, <1>4, FS_Subset
<1>. QED
  BY <1>1, <1>5, FS_CardinalityType

(* What does not add a pass changes no last pass.                           *)
LEMMA LastPassStays ==
  ASSUME tickRows \in Seq(TickRecord), NEW new \in Seq(TickRecord), Written(new),
         \A i \in DOMAIN tickRows : tickRows[i].run =< tickGuid, tickGuid \in Nat,
         \A k \in DOMAIN new : new[k].code # "OK", NEW t
  PROVE  GuiTable!LastPassOf(t, tickRows') = GuiTable!LastPassOf(t, tickRows)
<1>. DEFINE Ok(seen) == {i \in DOMAIN seen : seen[i].name = t /\ seen[i].code = "OK"}
            LastOnes(seen) == {i \in Ok(seen) : \A j \in Ok(seen) : seen[j].run =< seen[i].run}
<1>1. Ok(tickRows') = Ok(tickRows)
  BY DEF Written
<1>2. \A i \in Ok(tickRows) : tickRows'[i] = tickRows[i]
  BY DEF Written
<1>3. LastOnes(tickRows') = LastOnes(tickRows)
  BY <1>1, <1>2
<1>4. CASE Ok(tickRows) = {}
  BY <1>1, <1>4 DEF GuiTable!LastPassOf
<1>5. CASE Ok(tickRows) # {}
  <2>1. /\ GuiTable!LastPassOf(t, tickRows) = tickRows[CHOOSE i \in LastOnes(tickRows) : TRUE].ts
        /\ GuiTable!LastPassOf(t, tickRows') = tickRows'[CHOOSE i \in LastOnes(tickRows') : TRUE].ts
    BY <1>1, <1>5 DEF GuiTable!LastPassOf
  <2>2. \E i \in Ok(tickRows) : \A j \in Ok(tickRows) : tickRows[j].run =< tickRows[i].run
    <3>. DEFINE runs == {tickRows[i].run : i \in Ok(tickRows)}
    <3>1. runs \in SUBSET Nat /\ runs # {} /\ \A q \in runs : q =< tickGuid
      BY <1>5, TickRecordIs
    <3>2. PICK m \in runs : \A q \in runs : q =< m
      BY <3>1, GreatestNumber
    <3>. QED
      BY <3>2
  <2>. QED
    BY <1>1, <1>2, <1>3, <2>1, <2>2
<1>. QED
  BY <1>4, <1>5

(* A transaction of the run g adds a pass to it, or no pass at all.         *)
LEMMA PassesGrow ==
  ASSUME tickRows \in Seq(TickRecord), NEW new \in Seq(TickRecord), Written(new), NEW g,
         \A k \in DOMAIN new : new[k].run = g
  PROVE  \/ \A k \in DOMAIN new : new[k].code # "OK"
         \/ Cardinality(PassesOf(g, tickRows)) < Cardinality(PassesOf(g, tickRows'))
<1>. SUFFICES ASSUME NEW k \in DOMAIN new, new[k].code = "OK"
              PROVE  Cardinality(PassesOf(g, tickRows)) < Cardinality(PassesOf(g, tickRows'))
  OBVIOUS
<1>. DEFINE P == PassesOf(g, tickRows)
            Q == PassesOf(g, tickRows')
            i == Len(tickRows) + k
<1>1. k \in Nat /\ k >= 1 /\ Len(tickRows) \in Nat /\ DOMAIN tickRows = 1..Len(tickRows)
  OBVIOUS
<1>2. i \in DOMAIN tickRows' /\ tickRows'[i] = new[k] /\ i \notin DOMAIN tickRows
  BY <1>1 DEF Written
<1>3. i \in Q /\ i \notin P
  BY <1>2 DEF PassesOf
<1>4. P \subseteq Q
  BY DEF PassesOf, Written
<1>5. IsFiniteSet(P) /\ IsFiniteSet(Q) /\ Cardinality(P) \in Nat /\ Cardinality(Q) \in Nat
  <2>1. tickRows' \in Seq(TickRecord) /\ Len(tickRows') \in Nat /\ DOMAIN tickRows' = 1..Len(tickRows')
    BY DEF Written
  <2>2. IsFiniteSet(1..Len(tickRows')) /\ Q \subseteq 1..Len(tickRows')
    BY <2>1, FS_Interval DEF PassesOf
  <2>3. IsFiniteSet(Q)
    BY <2>2, FS_Subset
  <2>4. IsFiniteSet(P)
    BY <1>4, <2>3, FS_Subset
  <2>. QED
    BY <2>3, <2>4, FS_CardinalityType
<1>. HIDE DEF P, Q, i
<1>6. Cardinality(P \cup {i}) = Cardinality(P) + 1
  BY <1>3, <1>5, FS_AddElement
<1>7. Cardinality(P \cup {i}) =< Cardinality(Q)
  BY <1>3, <1>4, <1>5, FS_Subset
<1>8. Cardinality(P) < Cardinality(Q)
  BY <1>5, <1>6, <1>7
<1>. QED
  BY <1>8 DEF P, Q

(* A transaction that is in order, with all that may change along with it.  *)
Adds(new) ==
  /\ new \in Seq(TickRecord) /\ GuiTable!Write(new)
  /\ tickGuid' \in Nat /\ tickGuid =< tickGuid'
  /\ \A k \in DOMAIN new :
       /\ new[k].run =< tickGuid'
       /\ \/ new[k].ts = Len(tickRows) + k
          \/ \E i \in DOMAIN tickRows : new[k].ts = tickRows[i].ts /\ new[k].out = tickRows[i].out
       /\ new[k].out => new[k].code # "NONE"
       /\ new[k].out => \A i : ~ HasOutput(i, new[k].run, new[k].name)
       /\ \A l \in DOMAIN new :
            new[k].out /\ new[l].out /\ new[l].run = new[k].run /\ new[l].name = new[k].name => l = k
  /\ waiting' \in BOOLEAN /\ (waiting' => shown < tickGuid')
  /\ ~ waiting' => ~ waiting /\ tickGuid' = tickGuid /\ \A k \in DOMAIN new : new[k].run = tickGuid
  /\ stage' \in [Tests -> Unreported \cup {"dying", "over"}]
  /\ \A t \in Tests : stage'[t] # "over" => tickGuid' # 0
  /\ \A t \in Tests : stage'[t] \in Unreported =>
       /\ tickGuid < tickGuid' \/ (tickGuid' = tickGuid /\ stage[t] \in Unreported)
       /\ \A k \in DOMAIN new : new[k].run = tickGuid' /\ new[k].name = t => ~ new[k].out
  /\ UNCHANGED <<shown, pc, snap, outputs, lastPass, history, toRead>>

(* Each part of the invariant through a transaction of the newest run.      *)
LEMMA AddsKeepsTable ==
  ASSUME TickInv, NEW new, Adds(new)
  PROVE  Written(new) /\ TickTypeInv' /\ TableInv' /\ ShownInv'
<1>0. TickTypeInv /\ TableInv /\ ShownInv
  BY DEF TickInv
<1>1. /\ Written(new) /\ new \in Seq(TickRecord) /\ tickRows \in Seq(TickRecord)
      /\ Len(tickRows) \in Nat /\ Len(new) \in Nat /\ DOMAIN tickRows = 1..Len(tickRows)
      /\ DOMAIN new = 1..Len(new) /\ tickGuid \in Nat /\ tickGuid' \in Nat /\ tickGuid =< tickGuid'
  BY <1>0, WriteAppends DEF Adds, TickTypeInv
<1>2. /\ tickRows' \in Seq(TickRecord) /\ Len(tickRows') = Len(tickRows) + Len(new)
      /\ DOMAIN tickRows' = 1..(Len(tickRows) + Len(new))
      /\ \A i \in DOMAIN tickRows : i \in DOMAIN tickRows' /\ tickRows'[i] = tickRows[i]
      /\ \A k \in DOMAIN new : Len(tickRows) + k \in DOMAIN tickRows' /\ tickRows'[Len(tickRows) + k] = new[k]
      /\ \A i \in DOMAIN tickRows' : i \in DOMAIN tickRows \/ \E k \in DOMAIN new : i = Len(tickRows) + k
  BY <1>1 DEF Written
<1>3. TickTypeInv'
  BY <1>0, <1>1, <1>2 DEF TickTypeInv, Adds
<1>4. ASSUME NEW i \in DOMAIN tickRows'
      PROVE  /\ tickRows'[i].run =< tickGuid'
             /\ tickRows'[i].ts \in 1..i /\ tickRows'[tickRows'[i].ts].out = tickRows'[i].out
             /\ tickRows'[i].out => tickRows'[i].code # "NONE"
  <2>1. CASE i \in DOMAIN tickRows
    <3>1. tickRows'[i] = tickRows[i] /\ tickRows[i].run \in Nat /\ tickRows[i].run =< tickGuid
          /\ tickRows[i].ts \in 1..i /\ tickRows[tickRows[i].ts].out = tickRows[i].out
          /\ (tickRows[i].out => tickRows[i].code # "NONE")
      BY <1>0, <1>1, <1>2, <2>1, TickRecordIs DEF TableInv
    <3>2. tickRows[i].ts \in DOMAIN tickRows
      BY <1>1, <2>1, <3>1
    <3>. QED
      BY <1>1, <1>2, <3>1, <3>2
  <2>2. ASSUME NEW k \in DOMAIN new, i = Len(tickRows) + k
        PROVE  /\ tickRows'[i].run =< tickGuid'
               /\ tickRows'[i].ts \in 1..i /\ tickRows'[tickRows'[i].ts].out = tickRows'[i].out
               /\ tickRows'[i].out => tickRows'[i].code # "NONE"
    <3>1. tickRows'[i] = new[k] /\ new[k].run =< tickGuid' /\ (new[k].out => new[k].code # "NONE")
      BY <1>2, <2>2 DEF Adds
    <3>2. CASE new[k].ts = Len(tickRows) + k
      BY <1>1, <2>2, <3>1, <3>2
    <3>3. ASSUME NEW j \in DOMAIN tickRows, new[k].ts = tickRows[j].ts, new[k].out = tickRows[j].out
          PROVE  tickRows'[i].ts \in 1..i /\ tickRows'[tickRows'[i].ts].out = tickRows'[i].out
      <4>1. tickRows[j].ts \in 1..j /\ tickRows[tickRows[j].ts].out = tickRows[j].out
        BY <1>0 DEF TableInv
      <4>2. tickRows[j].ts \in DOMAIN tickRows /\ tickRows[j].ts \in 1..i
        BY <1>1, <2>2, <4>1
      <4>. QED
        BY <1>2, <3>1, <3>3, <4>1, <4>2
    <3>4. new[k].ts = Len(tickRows) + k
          \/ \E j \in DOMAIN tickRows : new[k].ts = tickRows[j].ts /\ new[k].out = tickRows[j].out
      BY DEF Adds
    <3>. QED
      BY <3>1, <3>2, <3>3, <3>4
  <2>. QED
    BY <1>2, <2>1, <2>2
<1>5. ASSUME NEW i \in DOMAIN tickRows', NEW j \in DOMAIN tickRows',
             tickRows'[i].out, tickRows'[j].out, tickRows'[i].run = tickRows'[j].run,
             tickRows'[i].name = tickRows'[j].name
      PROVE  i = j
  <2>1. CASE i \in DOMAIN tickRows /\ j \in DOMAIN tickRows
    BY <1>0, <1>2, <1>5, <2>1 DEF TableInv
  <2>2. ASSUME NEW k \in DOMAIN new, i = Len(tickRows) + k
        PROVE  i = j
    <3>1. tickRows'[i] = new[k]
      BY <1>2, <2>2
    <3>2. j \notin DOMAIN tickRows
      <4>. SUFFICES ASSUME j \in DOMAIN tickRows PROVE FALSE
        OBVIOUS
      <4>1. HasOutput(j, new[k].run, new[k].name)
        BY <1>2, <1>5, <3>1 DEF HasOutput
      <4>. QED
        BY <1>5, <3>1, <4>1 DEF Adds
    <3>3. PICK l \in DOMAIN new : j = Len(tickRows) + l
      BY <1>2, <3>2
    <3>4. tickRows'[j] = new[l]
      BY <1>2, <3>3
    <3>5. l = k
      BY <1>5, <3>1, <3>4 DEF Adds
    <3>. QED
      BY <2>2, <3>3, <3>5
  <2>3. ASSUME NEW k \in DOMAIN new, j = Len(tickRows) + k, i \in DOMAIN tickRows
        PROVE  i = j
    <3>1. tickRows'[j] = new[k]
      BY <1>2, <2>3
    <3>2. HasOutput(i, new[k].run, new[k].name)
      BY <1>2, <1>5, <2>3, <3>1 DEF HasOutput
    <3>. QED
      BY <1>5, <3>1, <3>2 DEF Adds
  <2>. QED
    BY <1>2, <2>1, <2>2, <2>3
<1>6. TableInv'
  BY <1>4, <1>5 DEF TableInv
<1>7. ASSUME ~ waiting'
      PROVE  \/ shown' # 0 /\ shown' = tickGuid'
             \/ shown' = 0 /\ \A i \in DOMAIN tickRows' : tickRows'[i].run = tickGuid'
  <2>1. ~ waiting /\ tickGuid' = tickGuid /\ (\A k \in DOMAIN new : new[k].run = tickGuid) /\ shown' = shown
    BY <1>7 DEF Adds
  <2>2. CASE shown = 0 /\ \A i \in DOMAIN tickRows : tickRows[i].run = tickGuid
    BY <1>2, <2>1, <2>2
  <2>. QED
    BY <1>0, <2>1, <2>2 DEF ShownInv
<1>8. ASSUME NEW t \in Tests, NEW i \in DOMAIN tickRows', stage'[t] \in Unreported,
             tickRows'[i].run = tickGuid', tickRows'[i].name = t
      PROVE  ~ tickRows'[i].out
  <2>1. /\ tickGuid < tickGuid' \/ (tickGuid' = tickGuid /\ stage[t] \in Unreported)
        /\ \A k \in DOMAIN new : new[k].run = tickGuid' /\ new[k].name = t => ~ new[k].out
    BY <1>8 DEF Adds
  <2>2. CASE i \in DOMAIN tickRows
    <3>1. tickRows'[i] = tickRows[i] /\ tickRows[i].run \in Nat /\ tickRows[i].run =< tickGuid
      BY <1>0, <1>1, <1>2, <2>2, TickRecordIs DEF TableInv
    <3>2. tickGuid' = tickGuid /\ stage[t] \in Unreported
      BY <1>1, <1>8, <2>1, <3>1
    <3>. QED
      BY <1>0, <1>8, <2>2, <3>1, <3>2 DEF ShownInv
  <2>3. ASSUME NEW k \in DOMAIN new, i = Len(tickRows) + k
        PROVE  ~ tickRows'[i].out
    BY <1>2, <1>8, <2>1, <2>3
  <2>. QED
    BY <1>2, <2>2, <2>3
<1>9. ShownInv'
  <2>1. waiting' => shown' < tickGuid'
    BY DEF Adds
  <2>. QED
    BY <1>7, <1>8, <2>1 DEF ShownInv
<1>. QED
  BY <1>1, <1>3, <1>6, <1>9

(* What depends on the rows that have been seen, or on none.                *)
LEMMA SeenStays ==
  ASSUME TickInv, NEW new, Adds(new)
  PROVE  GuiTable!Prefix(snap)' = GuiTable!Prefix(snap)
<1>1. Written(new) /\ new \in Seq(TickRecord) /\ tickRows \in Seq(TickRecord)
      /\ snap \in Nat /\ snap =< Len(tickRows) /\ snap' = snap
  BY AddsKeepsTable DEF Adds, TickInv, TickTypeInv
<1>. QED
  BY <1>1, PrefixStays DEF GuiTable!Prefix

(* A pass that is added is counted, so the cache is no longer current.      *)
LEMMA AddsKeepsPasses ==
  ASSUME TickInv, NEW new, Adds(new)
  PROVE  PassesInv'
<1>1. Written(new) /\ TickTypeInv' /\ TableInv' /\ ShownInv'
  BY AddsKeepsTable
<1>2. TickTypeInv /\ TableInv /\ ShownInv /\ PassesInv
  BY DEF TickInv
<1>3. new \in Seq(TickRecord) /\ tickRows \in Seq(TickRecord) /\ tickRows' \in Seq(TickRecord)
      /\ shown' = shown /\ lastPass' = lastPass /\ pc' = pc /\ snap' = snap
  BY <1>1, <1>2 DEF Adds, TickTypeInv
<1>4. pc' \in FromToken =>
        /\ lastPass'.run = shown'
        /\ lastPass'.count = GuiTable!PassCount(shown', GuiTable!Prefix(snap)')
  BY <1>2, <1>3, SeenStays DEF PassesInv
<1>5. ASSUME ~ waiting', lastPass'.run = shown'
      PROVE  /\ lastPass'.count =< GuiTable!PassCount(shown', tickRows')
             /\ lastPass'.count = GuiTable!PassCount(shown', tickRows') =>
                  \A t \in Tests : lastPass'.of[t] = GuiTable!LastPassOf(t, tickRows')
  <2>. DEFINE g == tickGuid
  <2>1. ~ waiting /\ tickGuid' = g /\ \A k \in DOMAIN new : new[k].run = g
    BY <1>5 DEF Adds
  <2>2. GuiTable!PassCount(shown, tickRows) = Cardinality(PassesOf(g, tickRows))
        /\ Cardinality(PassesOf(g, tickRows)) \in Nat
    BY <1>2, <1>3, <2>1, PassCountIs DEF ShownInv
  <2>3. GuiTable!PassCount(shown, tickRows') = Cardinality(PassesOf(g, tickRows'))
        /\ Cardinality(PassesOf(g, tickRows')) \in Nat
    BY <1>1, <1>3, <1>5, <2>1, PassCountIs DEF ShownInv
  <2>4. /\ lastPass.count =< GuiTable!PassCount(shown, tickRows) /\ lastPass.count \in Int
        /\ lastPass.count = GuiTable!PassCount(shown, tickRows) =>
             \A t \in Tests : lastPass.of[t] = GuiTable!LastPassOf(t, tickRows)
    BY <1>2, <1>3, <1>5, <2>1 DEF PassesInv, TickTypeInv
  <2>5. CASE \A k \in DOMAIN new : new[k].code # "OK"
    <3>1. PassesOf(g, tickRows') = PassesOf(g, tickRows)
      BY <1>1, <2>5 DEF PassesOf, Written
    <3>2. \A t \in Tests : GuiTable!LastPassOf(t, tickRows') = GuiTable!LastPassOf(t, tickRows)
      BY <1>1, <1>2, <1>3, <2>5, LastPassStays DEF TableInv, TickTypeInv
    <3>. QED
      BY <1>3, <2>2, <2>3, <2>4, <3>1, <3>2
  <2>6. CASE Cardinality(PassesOf(g, tickRows)) < Cardinality(PassesOf(g, tickRows'))
    <3>1. lastPass.count < Cardinality(PassesOf(g, tickRows'))
      BY <2>2, <2>3, <2>4, <2>6
    <3>2. lastPass.count =< Cardinality(PassesOf(g, tickRows'))
          /\ lastPass.count # Cardinality(PassesOf(g, tickRows'))
      BY <2>3, <2>4, <3>1
    <3>. QED
      BY <1>3, <2>3, <3>2
  <2>. QED
    BY <1>1, <1>3, <2>1, <2>5, <2>6, PassesGrow
<1>6. lastPass'.run =< shown'
  BY <1>2, <1>3 DEF PassesInv
<1>. QED
  BY <1>4, <1>5, <1>6 DEF PassesInv

(* A transaction moves the token past what has been read.                   *)
LEMMA AddsKeepsToken ==
  ASSUME TickInv, NEW new, Adds(new)
  PROVE  TokenInv'
<1>1. /\ tickRows \in Seq(TickRecord) /\ new \in Seq(TickRecord) /\ tickRows' = tickRows \o new
      /\ Len(tickRows) \in Nat /\ Len(new) \in Nat /\ history.token \in Int
      /\ history.token =< Len(tickRows) /\ UNCHANGED <<pc, snap, history, toRead>>
  BY DEF Adds, TickInv, TickTypeInv, TokenInv, GuiTable!Write
<1>2. Len(tickRows') = Len(tickRows) + Len(new)
  BY <1>1
<1>3. CASE Len(new) = 0
  <2>1. new = <<>>
    BY <1>1, <1>3
  <2>2. tickRows' = tickRows
    BY <1>1, <2>1
  <2>. QED
    BY <1>1, <2>2 DEF TickInv, TokenInv, SeenIsRight
<1>4. CASE Len(new) # 0
  <2>1. history'.token < Len(tickRows')
    BY <1>1, <1>2, <1>4
  <2>2. history'.token =< Len(tickRows') /\ history'.token # Len(tickRows')
    BY <1>1, <1>2, <2>1
  <2>. QED
    BY <1>1, <2>2 DEF TickInv, TokenInv
<1>. QED
  BY <1>3, <1>4

(* No test that the cache knows to be without output gets an earlier one.   *)
LEMMA AddsKeepsCached ==
  ASSUME TickInv, NEW new, Adds(new)
  PROVE  CachedInv'
<1>1. /\ Written(new) /\ TickTypeInv /\ CachedInv /\ UNCHANGED <<pc, snap, outputs, shown>>
      /\ tickRows \in Seq(TickRecord) /\ new \in Seq(TickRecord)
  BY AddsKeepsTable DEF Adds, TickInv, TickTypeInv
<1>a. /\ Len(tickRows) \in Nat /\ DOMAIN tickRows = 1..Len(tickRows)
      /\ Len(new) \in Nat /\ DOMAIN new = 1..Len(new)
  BY <1>1
<1>2. ASSUME NEW i, NEW t, HasOutput(i, outputs.run, t)
      PROVE  HasOutput(i, outputs.run, t)'
  BY <1>1, <1>2 DEF Written, HasOutput
<1>3. ASSUME NEW i, NEW t, HasOutput(i, outputs.run, t)'
      PROVE  HasOutput(i, outputs.run, t) \/ \A j \in DOMAIN tickRows : j < i
  <2>1. CASE i \in DOMAIN tickRows
    BY <1>1, <1>3, <2>1 DEF Written, HasOutput
  <2>2. ASSUME NEW k \in DOMAIN new, i = Len(tickRows) + k
        PROVE  \A j \in DOMAIN tickRows : j < i
    BY <1>a, <2>2
  <2>. QED
    BY <1>1, <1>3, <2>1, <2>2 DEF Written, HasOutput
<1>4. ASSUME NEW t \in DOMAIN outputs.row
      PROVE  \/ outputs.row[t] # 0 /\ HasOutput(outputs.row[t], outputs.run, t)'
             \/ /\ outputs.row[t] = 0
                /\ \E j \in DOMAIN tickRows' :
                     /\ tickRows'[j].run = outputs.run /\ tickRows'[j].name = t /\ tickRows'[j].code # "NONE"
                     /\ \A i \in DOMAIN tickRows' : HasOutput(i, outputs.run, t)' => j < i
  <2>1. CASE outputs.row[t] # 0 /\ HasOutput(outputs.row[t], outputs.run, t)
    BY <1>1, <1>2, <2>1
  <2>2. ASSUME NEW j \in DOMAIN tickRows, outputs.row[t] = 0,
               tickRows[j].run = outputs.run, tickRows[j].name = t, tickRows[j].code # "NONE",
               \A i \in DOMAIN tickRows : HasOutput(i, outputs.run, t) => j < i
        PROVE  \E k \in DOMAIN tickRows' :
                     /\ tickRows'[k].run = outputs.run /\ tickRows'[k].name = t /\ tickRows'[k].code # "NONE"
                     /\ \A i \in DOMAIN tickRows' : HasOutput(i, outputs.run, t)' => k < i
    <3>1. j \in DOMAIN tickRows' /\ tickRows'[j] = tickRows[j]
      BY <1>1 DEF Written
    <3>2. \A i \in DOMAIN tickRows' : HasOutput(i, outputs.run, t)' => j < i
      <4>. SUFFICES ASSUME NEW i \in DOMAIN tickRows', HasOutput(i, outputs.run, t)' PROVE j < i
        OBVIOUS
      <4>1. HasOutput(i, outputs.run, t) => i \in DOMAIN tickRows
        BY DEF HasOutput
      <4>. QED
        BY <1>3, <2>2, <4>1
    <3>. QED
      BY <2>2, <3>1, <3>2
  <2>. QED
    BY <1>1, <2>1, <2>2 DEF CachedInv
<1>5. GuiTable!Prefix(snap)' = GuiTable!Prefix(snap)
  BY SeenStays
<1>6. pc' \in FromPasses =>
        /\ outputs'.run = GuiTable!RunOf(shown', GuiTable!Prefix(snap)')
        /\ GuiTable!Completed(shown', GuiTable!Prefix(snap)') \subseteq DOMAIN outputs'.row
  BY <1>1, <1>5 DEF CachedInv
<1>. QED
  BY <1>1, <1>4, <1>6 DEF CachedInv

(* So a transaction preserves the invariant.                                *)
LEMMA AddsKeepsInv ==
  ASSUME TickInv, NEW new, Adds(new)
  PROVE  TickInv'
BY AddsKeepsTable, AddsKeepsPasses, AddsKeepsToken, AddsKeepsCached DEF TickInv

(* InOrder is a sort by one number.                                         *)
LEMMA InOrderIs ==
  ASSUME NEW S \in SUBSET Int, IsFiniteSet(S), NEW key, \A i \in S : key[i] \in Int
  PROVE  /\ Cardinality(S) \in Nat
         /\ GuiTable!InOrder(S, key) \in [1..Cardinality(S) -> S]
         /\ \A k, l \in 1..Cardinality(S) :
              GuiTable!InOrder(S, key)[k] = GuiTable!InOrder(S, key)[l] => k = l
<1>. DEFINE pair == [i \in S |-> <<key[i], 0>>]
            Ahead(i) == {j \in S : key[j] < key[i] \/ (key[j] = key[i] /\ j < i)}
            Behind(i) == {j \in S : Before(pair, j, i)}
<1>1. \A i \in S : pair[i] = <<key[i], 0>> /\ pair[i] \in Int \X Int /\ pair[i][1] = key[i] /\ pair[i][2] = 0
  OBVIOUS
<1>. HIDE DEF pair
<1>2. \A i, j \in S : Before(pair, j, i) <=> (key[j] < key[i] \/ (key[j] = key[i] /\ j < i))
  <2>. SUFFICES ASSUME NEW i \in S, NEW j \in S
                PROVE  Before(pair, j, i) <=> (key[j] < key[i] \/ (key[j] = key[i] /\ j < i))
    OBVIOUS
  <2>1. pair[i] = pair[j] <=> key[i] = key[j]
    BY <1>1
  <2>2. key[i] \in Int /\ key[j] \in Int /\ pair[i][1] = key[i] /\ pair[i][2] = 0
        /\ pair[j][1] = key[j] /\ pair[j][2] = 0
    BY <1>1
  <2>. QED
    BY <2>1, <2>2 DEF Before
<1>3. \A i \in S : Ahead(i) = Behind(i)
  BY <1>2
<1>a. GuiTable!InOrder(S, key) =
        [k \in 1..GuiTable!Cardinality(S) |-> CHOOSE i \in S : 1 + GuiTable!Cardinality(Ahead(i)) = k]
  BY DEF GuiTable!InOrder
<1>5. SortedBy(S, pair) = [k \in 1..Cardinality(S) |-> CHOOSE i \in S : 1 + Cardinality(Behind(i)) = k]
  BY DEF SortedBy, Before
<1>. HIDE DEF Ahead, Behind
<1>b. \A k : (CHOOSE i \in S : 1 + GuiTable!Cardinality(Ahead(i)) = k)
             = (CHOOSE i \in S : 1 + Cardinality(Ahead(i)) = k)
  BY TickSizes
<1>4. GuiTable!InOrder(S, key) = [k \in 1..Cardinality(S) |-> CHOOSE i \in S : 1 + Cardinality(Ahead(i)) = k]
  BY <1>a, <1>b, TickSizes
<1>6. \A k : (CHOOSE i \in S : 1 + Cardinality(Ahead(i)) = k) = (CHOOSE i \in S : 1 + Cardinality(Behind(i)) = k)
  BY <1>3
<1>7. GuiTable!InOrder(S, key) = SortedBy(S, pair)
  BY <1>4, <1>5, <1>6
<1>. DEFINE s == SortedBy(S, pair)
<1>8. /\ Cardinality(S) \in Nat /\ s \in [1..Cardinality(S) -> S]
      /\ \A k, l \in 1..Cardinality(S) : k < l => Before(pair, s[k], s[l])
  BY <1>1, SortedByIsSorted
<1>. HIDE DEF s
<1>9. \A i \in S : ~ Before(pair, i, i)
  BY <1>2
<1>10. ASSUME NEW k \in 1..Cardinality(S), NEW l \in 1..Cardinality(S), s[k] = s[l]
       PROVE  k = l
  <2>1. ~ (k < l) /\ ~ (l < k)
    BY <1>8, <1>9, <1>10
  <2>. QED
    BY <1>8, <2>1
<1>. QED
  BY <1>7, <1>8, <1>10 DEF s

(* Tests are numbers.                                                       *)
LEMMA TickTests == IsFiniteSet(Tests) /\ Tests \subseteq Int /\ \A t \in Tests : t \in Int
BY RecordsConstantsOK, TickSizes DEF GuiTable!TickConstantsOK

(* No way to end is being without a result.                                 *)
LEMMA TickEndings == "NONE" \notin Endings /\ Endings \subseteq TickCodes
BY RecordsConstantsOK DEF GuiTable!TickConstantsOK, TickCodes

(* Records of tests that carry no output.                                   *)
IsStatus(new, r, names, code) ==
  /\ new \in Seq(TickRecord)
  /\ \A k \in DOMAIN new : /\ new[k].run = r /\ new[k].name \in names /\ new[k].code = code
                           /\ ~ new[k].out /\ new[k].ts = Len(tickRows) + k

(* Status rows: one for each test, of its code, without output.             *)
LEMMA StatusRowsAre ==
  ASSUME tickRows \in Seq(TickRecord), NEW r \in Nat \ {0}, NEW names \in SUBSET Tests,
         NEW code \in {"NONE", "TERMINATED", "STOPPED"}
  PROVE  IsStatus(GuiTable!StatusRows(r, names, code), r, names, code)
<1>. DEFINE key == [t \in names |-> t]
            list == GuiTable!InOrder(names, key)
            n == Cardinality(names)
            new == GuiTable!StatusRows(r, names, code)
<1>1. names \in SUBSET Int /\ IsFiniteSet(names) /\ \A t \in names : key[t] \in Int
  BY TickTests, FS_Subset
<1>. HIDE DEF key
<1>2. n \in Nat /\ list \in [1..n -> names]
  BY <1>1, InOrderIs
<1>3. new = [k \in DOMAIN list |->
               [run |-> r, name |-> list[k], code |-> code, out |-> FALSE, ts |-> Len(tickRows) + k]]
  BY DEF GuiTable!StatusRows, key
<1>. HIDE DEF list, new, n
<1>4. DOMAIN new = 1..n /\ new = [k \in 1..n |-> new[k]] /\
      \A k \in 1..n : new[k] = [run |-> r, name |-> list[k], code |-> code, out |-> FALSE, ts |-> Len(tickRows) + k]
  BY <1>2, <1>3
<1>5. Len(tickRows) \in Nat
  OBVIOUS
<1>6. ASSUME NEW k \in 1..n
      PROVE  /\ new[k].run = r /\ new[k].name \in names /\ new[k].code = code /\ ~ new[k].out
             /\ new[k].ts = Len(tickRows) + k /\ new[k] \in TickRecord
  <2>1. list[k] \in names /\ list[k] \in Tests /\ Len(tickRows) + k \in Nat
    BY <1>2, <1>5
  <2>2. code \in TickCodes
    BY DEF TickCodes
  <2>3. [run |-> r, name |-> list[k], code |-> code, out |-> FALSE, ts |-> Len(tickRows) + k] \in TickRecord
    BY <2>1, <2>2 DEF TickRecord
  <2>4. new[k] = [run |-> r, name |-> list[k], code |-> code, out |-> FALSE, ts |-> Len(tickRows) + k]
    BY <1>4
  <2>. QED
    BY <2>1, <2>3, <2>4
<1>7. new \in Seq(TickRecord)
  BY <1>2, <1>4, <1>6, ListType
<1>. QED
  BY <1>4, <1>6, <1>7 DEF IsStatus, new

(* Without outputs and of the run that is known, records may be added.      *)
LEMMA StatusAdds ==
  ASSUME TickInv, NEW new, NEW r, NEW names, NEW code, IsStatus(new, r, names, code),
         GuiTable!Write(new), r \in Nat \ {0}, r =< tickGuid, ~ waiting => r = tickGuid,
         stage' \in [Tests -> Unreported \cup {"dying", "over"}],
         \A t \in Tests : stage'[t] \in Unreported => stage[t] \in Unreported,
         UNCHANGED <<tickGuid, waiting, shown, pc, snap, outputs, lastPass, history, toRead>>
  PROVE  TickInv'
<1>1. new \in Seq(TickRecord) /\ tickGuid \in Nat /\ waiting \in BOOLEAN /\ (waiting => shown < tickGuid)
  BY DEF IsStatus, TickInv, TickTypeInv, ShownInv
<1>a. tickGuid # 0
  BY <1>1
<1>2. \A k \in DOMAIN new : new[k].run = r /\ ~ new[k].out /\ new[k].ts = Len(tickRows) + k
  BY DEF IsStatus
<1>3. Adds(new)
  BY <1>1, <1>2, <1>a DEF Adds
<1>. QED
  BY <1>3, AddsKeepsInv

(* The number of the newest run, once there is a record.                    *)
LEMMA GuidIsPositive ==
  ASSUME TickInv, NEW i \in DOMAIN tickRows
  PROVE  tickGuid >= 1 /\ tickGuid \in Nat /\ tickRows[i].run \in Nat \ {0} /\ tickRows[i].run =< tickGuid
BY TickRecordIs DEF TickInv, TickTypeInv, TableInv

(* The actions on tests: each writes records of the newest run, or none.    *)
LEMMA TickCrash ==
  ASSUME TickInv, NEW t \in Tests, GuiTable!Crash(t) \/ GuiTable!ForceStopTest(t)
  PROVE  TickInv'
<1>1. /\ UNCHANGED <<tickRows, tickGuid, waiting, shown, pc, snap, outputs, lastPass, history, toRead>>
      /\ stage' \in [Tests -> Unreported \cup {"dying", "over"}]
      /\ \A u \in Tests : stage'[u] \in Unreported => stage[u] \in Unreported
      /\ \A u \in Tests : stage'[u] # "over" => tickGuid' # 0
  BY DEF GuiTable!Crash, GuiTable!ForceStopTest, GuiTable!caches, TickInv, TickTypeInv, Unreported
<1>2. TickTypeInv' /\ TableInv' /\ TokenInv'
  BY <1>1 DEF TickInv, TickTypeInv, TableInv, TokenInv, SeenIsRight
<1>3. ShownInv'
  BY <1>1 DEF TickInv, ShownInv
<1>4. PassesInv' /\ CachedInv'
  BY <1>1 DEF TickInv, PassesInv, CachedInv, HasOutput, GuiTable!Prefix
<1>. QED
  BY <1>2, <1>3, <1>4 DEF TickInv

(* The runner queues tests that have no record in this run.                 *)
LEMMA TickEnqueue ==
  ASSUME TickInv, GuiTable!Enqueue
  PROVE  TickInv'
<1>. DEFINE planned == {t \in Tests : stage[t] = "planned"}
            new == GuiTable!StatusRows(tickGuid, planned, "NONE")
<1>1. /\ tickRows \in Seq(TickRecord) /\ tickGuid \in Nat
      /\ stage \in [Tests -> Unreported \cup {"dying", "over"}]
  BY DEF TickInv, TickTypeInv
<1>2. tickGuid \in Nat \ {0}
  BY <1>1 DEF GuiTable!Enqueue, TickInv, TickTypeInv
<1>3. IsStatus(new, tickGuid, planned, "NONE")
  BY <1>1, <1>2, StatusRowsAre
<1>. HIDE DEF new
<1>4. /\ GuiTable!Write(new) /\ stage' = [t \in Tests |-> IF t \in planned THEN "queued" ELSE stage[t]]
      /\ UNCHANGED <<tickGuid, waiting, shown, pc, snap, outputs, lastPass, history, toRead>>
  BY DEF GuiTable!Enqueue, GuiTable!caches, new
<1>5. /\ stage' \in [Tests -> Unreported \cup {"dying", "over"}]
      /\ \A t \in Tests : stage'[t] \in Unreported => stage[t] \in Unreported
  BY <1>1, <1>4 DEF Unreported
<1>. QED
  BY <1>1, <1>2, <1>3, <1>4, <1>5, StatusAdds

(* Who is killed may have reported before.                                  *)
LEMMA TickKill ==
  ASSUME TickInv, NEW t \in Tests, GuiTable!Kill(t)
  PROVE  TickInv'
<1>. DEFINE new == GuiTable!StatusRows(tickGuid, {t}, "TERMINATED")
<1>1. /\ tickRows \in Seq(TickRecord) /\ tickGuid \in Nat
      /\ stage \in [Tests -> Unreported \cup {"dying", "over"}]
  BY DEF TickInv, TickTypeInv
<1>2. tickGuid \in Nat \ {0}
  BY <1>1 DEF GuiTable!Kill, TickInv, TickTypeInv
<1>3. IsStatus(new, tickGuid, {t}, "TERMINATED")
  BY <1>1, <1>2, StatusRowsAre
<1>. HIDE DEF new
<1>4. /\ GuiTable!Write(new) /\ stage' = [stage EXCEPT ![t] = "over"]
      /\ UNCHANGED <<tickGuid, waiting, shown, pc, snap, outputs, lastPass, history, toRead>>
  BY DEF GuiTable!Kill, GuiTable!caches, new
<1>5. /\ stage' \in [Tests -> Unreported \cup {"dying", "over"}]
      /\ \A u \in Tests : stage'[u] \in Unreported => stage[u] \in Unreported
  BY <1>1, <1>4 DEF Unreported
<1>. QED
  BY <1>1, <1>2, <1>3, <1>4, <1>5, StatusAdds

(* One record of the newest run.                                            *)
LEMMA RowAdds ==
  ASSUME TickInv, NEW t \in Tests, NEW code \in TickCodes, NEW out \in BOOLEAN,
         GuiTable!Write(<<GuiTable!Row(tickGuid, t, code, out)>>),
         out => code # "NONE" /\ stage[t] \in Unreported /\ stage'[t] \notin Unreported,
         tickGuid # 0,
         stage' \in [Tests -> Unreported \cup {"dying", "over"}],
         \A u \in Tests : stage'[u] \in Unreported => stage[u] \in Unreported,
         UNCHANGED <<tickGuid, waiting, shown, pc, snap, outputs, lastPass, history, toRead>>
  PROVE  TickInv'
<1>. DEFINE x == [run |-> tickGuid, name |-> t, code |-> code, out |-> out, ts |-> Len(tickRows) + 1]
            new == <<x>>
<1>1. /\ tickRows \in Seq(TickRecord) /\ Len(tickRows) \in Nat /\ tickGuid \in Nat
      /\ waiting \in BOOLEAN /\ (waiting => shown < tickGuid)
  BY DEF TickInv, TickTypeInv, ShownInv
<1>2. x \in TickRecord
  BY <1>1 DEF TickRecord
<1>3. /\ x.run = tickGuid /\ x.name = t /\ x.code = code /\ x.out = out /\ x.ts = Len(tickRows) + 1
  OBVIOUS
<1>4. GuiTable!Write(new)
  BY DEF GuiTable!Row
<1>. HIDE DEF x
<1>5. new \in Seq(TickRecord) /\ DOMAIN new = {1} /\ new[1] = x
  BY <1>2
<1>. HIDE DEF new
<1>6. out => \A i : ~ HasOutput(i, tickGuid, t)
  BY DEF TickInv, ShownInv, HasOutput
<1>7. Adds(new)
  BY <1>1, <1>3, <1>4, <1>5, <1>6 DEF Adds
<1>. QED
  BY <1>7, AddsKeepsInv

(* A started test has no output yet.                                        *)
LEMMA TickStart ==
  ASSUME TickInv, NEW t \in Tests, GuiTable!StartTest(t)
  PROVE  TickInv'
<1>1. /\ stage[t] = "queued" /\ stage' = [stage EXCEPT ![t] = "running"]
      /\ GuiTable!Write(<<GuiTable!Row(tickGuid, t, "NONE", FALSE)>>)
      /\ UNCHANGED <<tickGuid, waiting, shown, pc, snap, outputs, lastPass, history, toRead>>
  BY DEF GuiTable!StartTest, GuiTable!caches
<1>2. stage \in [Tests -> Unreported \cup {"dying", "over"}] /\ tickGuid # 0
  BY <1>1 DEF TickInv, TickTypeInv
<1>3. /\ stage' \in [Tests -> Unreported \cup {"dying", "over"}]
      /\ \A u \in Tests : stage'[u] \in Unreported => stage[u] \in Unreported
  BY <1>1, <1>2 DEF Unreported
<1>4. "NONE" \in TickCodes /\ FALSE \in BOOLEAN
  BY DEF TickCodes
<1>. QED
  BY <1>1, <1>2, <1>3, <1>4, RowAdds

(* A test reports once in a run, for it was not over.                       *)
LEMMA TickReport ==
  ASSUME TickInv, NEW t \in Tests, NEW code \in Endings, GuiTable!Report(t, code)
  PROVE  TickInv'
<1>1. /\ stage[t] \in {"running", "doomed"}
      /\ stage' = [stage EXCEPT ![t] = IF stage[t] = "doomed" THEN "dying" ELSE "over"]
      /\ GuiTable!Write(<<GuiTable!Row(tickGuid, t, code, TRUE)>>)
      /\ UNCHANGED <<tickGuid, waiting, shown, pc, snap, outputs, lastPass, history, toRead>>
  BY DEF GuiTable!Report, GuiTable!caches
<1>2. stage \in [Tests -> Unreported \cup {"dying", "over"}] /\ tickGuid # 0
  BY <1>1 DEF TickInv, TickTypeInv
<1>3. /\ stage' \in [Tests -> Unreported \cup {"dying", "over"}]
      /\ \A u \in Tests : stage'[u] \in Unreported => stage[u] \in Unreported
      /\ stage[t] \in Unreported /\ stage'[t] \notin Unreported
  BY <1>1, <1>2 DEF Unreported
<1>4. code \in TickCodes /\ code # "NONE" /\ TRUE \in BOOLEAN
  BY TickEndings
<1>. QED
  BY <1>1, <1>2, <1>3, <1>4, RowAdds

(* A stop records only what has no result.                                  *)
LEMMA TickReset ==
  ASSUME TickInv, GuiTable!ForceStopAndReset
  PROVE  TickInv'
<1>. DEFINE open == GuiTable!Open(tickGuid)
            new == GuiTable!StatusRows(tickGuid, open, "STOPPED")
<1>1. /\ tickRows \in Seq(TickRecord) /\ tickGuid \in Nat
      /\ stage \in [Tests -> Unreported \cup {"dying", "over"}]
  BY DEF TickInv, TickTypeInv
<1>2. open \subseteq {tickRows[i].name : i \in DOMAIN tickRows} /\ open # {}
  BY DEF GuiTable!Open, GuiTable!Query, GuiTable!ForceStopAndReset
<1>. HIDE DEF open
<1>3. open \in SUBSET Tests
  BY <1>1, <1>2, TickRecordIs
<1>4. tickGuid \in Nat \ {0}
  <2>1. PICK i \in DOMAIN tickRows : TRUE
    BY <1>2
  <2>. QED
    BY <2>1, GuidIsPositive
<1>5. IsStatus(new, tickGuid, open, "STOPPED")
  BY <1>1, <1>3, <1>4, StatusRowsAre
<1>6. /\ GuiTable!Write(new)
      /\ stage' = [t \in Tests |-> CASE stage[t] = "running" -> "doomed"
                                     [] stage[t] = "queued"  -> "over"
                                     [] OTHER -> stage[t]]
      /\ UNCHANGED <<tickGuid, waiting, shown, pc, snap, outputs, lastPass, history, toRead>>
  BY DEF GuiTable!ForceStopAndReset, GuiTable!caches, open
<1>. HIDE DEF new
<1>7. /\ stage' \in [Tests -> Unreported \cup {"dying", "over"}]
      /\ \A t \in Tests : stage'[t] \in Unreported => stage[t] \in Unreported
  BY <1>1, <1>6 DEF Unreported
<1>. QED
  BY <1>1, <1>4, <1>5, <1>6, <1>7, StatusAdds

(* The run that is shown is the newest, or the newest is not known yet.     *)
LEMMA TickMark ==
  ASSUME TickInv, NEW t \in Tests, GuiTable!MarkTerminatedIfStale(t)
  PROVE  TickInv'
<1>. DEFINE r == GuiTable!RunOf(shown, tickRows)
            new == GuiTable!StatusRows(r, {t}, "TERMINATED")
<1>1. /\ tickRows \in Seq(TickRecord) /\ tickGuid \in Nat /\ shown \in Nat
      /\ stage \in [Tests -> Unreported \cup {"dying", "over"}]
  BY DEF TickInv, TickTypeInv
<1>2. PICK i \in DOMAIN tickRows : tickRows[i].run = GuiTable!RunOf(r, tickRows)
  BY DEF GuiTable!MarkTerminatedIfStale, GuiTable!Open, GuiTable!Query
<1>3. tickRows # <<>> /\ tickGuid >= 1 /\ tickRows[i].run \in Nat \ {0} /\ tickRows[i].run =< tickGuid
  BY GuidIsPositive
<1>4. r \in Nat \ {0} /\ r =< tickGuid /\ (~ waiting => r = tickGuid)
  <2>1. CASE shown # 0
    <3>1. r = shown
      BY <2>1 DEF GuiTable!RunOf
    <3>. QED
      BY <1>1, <2>1, <3>1 DEF TickInv, ShownInv, TickTypeInv
  <2>2. CASE shown = 0
    <3>1. PICK j \in DOMAIN tickRows : r = tickRows[j].run
      BY <1>3, <2>2, RunOfTable
    <3>2. r \in Nat \ {0} /\ r =< tickGuid
      BY <3>1, GuidIsPositive
    <3>. QED
      BY <1>3, <2>2, <3>1, <3>2 DEF TickInv, ShownInv
  <2>. QED
    BY <2>1, <2>2
<1>5. IsStatus(new, r, {t}, "TERMINATED")
  BY <1>1, <1>4, StatusRowsAre
<1>6. /\ GuiTable!Write(new)
      /\ UNCHANGED <<tickGuid, stage, waiting, shown, pc, snap, outputs, lastPass, history, toRead>>
  BY DEF GuiTable!MarkTerminatedIfStale, GuiTable!caches
<1>. HIDE DEF new, r
<1>. QED
  BY <1>1, <1>4, <1>5, <1>6, StatusAdds

(* x is a copy of y in run r.                                               *)
CopyIn(x, y, r) ==
  x.run = r /\ x.name = y.name /\ x.code = y.code /\ x.out = y.out /\ x.ts = y.ts

(* What is carried over are copies of records of tests that passed, and of  *)
(* a test one with an output at most.                                       *)
LEMMA CarriedOverAre ==
  ASSUME TickInv, NEW prior \in SUBSET DOMAIN tickRows, NEW r \in Nat \ {0},
         \A i, j \in prior : tickRows[i].run = tickRows[j].run
  PROVE  LET new == GuiTable!CarriedOver(prior, r) IN
         /\ new \in Seq(TickRecord)
         /\ \A k \in DOMAIN new : \E i \in prior :
              CopyIn(new[k], tickRows[i], r) /\ tickRows[i].name \in GuiTable!PassedIn(prior)
         /\ \A k, l \in DOMAIN new : new[k].out /\ new[l].out /\ new[k].name = new[l].name => k = l
<1>. DEFINE mine == {i \in prior : tickRows[i].name \in GuiTable!PassedIn(prior)}
            key == [i \in mine |-> tickRows[i].name]
            order == GuiTable!InOrder(mine, key)
            n == Cardinality(mine)
            new == GuiTable!CarriedOver(prior, r)
<1>1. tickRows \in Seq(TickRecord) /\ TableInv
  BY DEF TickInv, TickTypeInv
<1>2. new = [k \in DOMAIN order |-> [tickRows[order[k]] EXCEPT !.run = r]]
  BY DEF GuiTable!CarriedOver
<1>3. mine \subseteq prior /\ \A i \in mine : i \in DOMAIN tickRows /\ tickRows[i].name \in GuiTable!PassedIn(prior)
  OBVIOUS
<1>. HIDE DEF mine
<1>4. mine \in SUBSET Int /\ IsFiniteSet(mine)
  <2>1. Len(tickRows) \in Nat /\ DOMAIN tickRows = 1..Len(tickRows)
    BY <1>1
  <2>2. IsFiniteSet(DOMAIN tickRows)
    BY <2>1, FS_Interval
  <2>3. mine \in SUBSET DOMAIN tickRows
    BY <1>3
  <2>4. IsFiniteSet(mine)
    BY <2>2, <2>3, FS_Subset
  <2>. QED
    BY <2>1, <2>3, <2>4
<1>5. \A i \in mine : key[i] = tickRows[i].name /\ tickRows[i].name \in Tests /\ key[i] \in Int
  <2>. SUFFICES ASSUME NEW i \in mine
                PROVE  key[i] = tickRows[i].name /\ tickRows[i].name \in Tests /\ key[i] \in Int
    OBVIOUS
  <2>1. tickRows[i].name \in Tests
    BY <1>1, <1>3, TickRecordIs
  <2>. QED
    BY <2>1, TickTests
<1>. HIDE DEF key
<1>6. /\ n \in Nat /\ order \in [1..n -> mine]
      /\ \A k, l \in 1..n : order[k] = order[l] => k = l
  BY <1>4, <1>5, InOrderIs
<1>. HIDE DEF order, new, n
<1>7. DOMAIN new = 1..n /\ new = [k \in 1..n |-> new[k]]
      /\ \A k \in 1..n : new[k] = [tickRows[order[k]] EXCEPT !.run = r]
  BY <1>2, <1>6
<1>8. ASSUME NEW k \in 1..n
      PROVE  new[k] \in TickRecord /\ CopyIn(new[k], tickRows[order[k]], r)
  <2>1. order[k] \in DOMAIN tickRows /\ tickRows[order[k]] \in TickRecord
    BY <1>1, <1>3, <1>6, TickRecordIs
  <2>. DEFINE y == tickRows[order[k]]
  <2>2. y \in TickRecord
    BY <2>1
  <2>3. new[k] = [y EXCEPT !.run = r]
    BY <1>7
  <2>. HIDE DEF y
  <2>4. new[k] \in TickRecord /\ CopyIn(new[k], y, r)
    BY <2>2, <2>3 DEF TickRecord, CopyIn
  <2>. QED
    BY <2>4 DEF y
<1>9. new \in Seq(TickRecord)
  BY <1>6, <1>7, <1>8, ListType
<1>10. \A k \in DOMAIN new : \E i \in prior :
         CopyIn(new[k], tickRows[i], r) /\ tickRows[i].name \in GuiTable!PassedIn(prior)
  BY <1>3, <1>6, <1>7, <1>8
<1>11. ASSUME NEW k \in 1..n, NEW l \in 1..n, new[k].out, new[l].out, new[k].name = new[l].name
       PROVE  k = l
  <2>1. /\ tickRows[order[k]].out /\ tickRows[order[l]].out
        /\ tickRows[order[k]].name = tickRows[order[l]].name
    BY <1>8, <1>11 DEF CopyIn
  <2>2. /\ order[k] \in prior /\ order[l] \in prior /\ order[k] \in DOMAIN tickRows /\ order[l] \in DOMAIN tickRows
    BY <1>3, <1>6
  <2>3. order[k] = order[l]
    BY <1>1, <2>1, <2>2 DEF TableInv
  <2>. QED
    BY <1>6, <2>3
<1>. QED
  BY <1>7, <1>9, <1>10, <1>11 DEF new

(* A new run is not shown yet, and its copies carry their originals' stamps.*)
LEMMA TickPrepare ==
  ASSUME TickInv, NEW resume \in BOOLEAN, GuiTable!Prepare(resume)
  PROVE  TickInv'
<1>. DEFINE prior == GuiTable!Query(0, tickRows)
            passed == GuiTable!PassedIn(prior)
            g == tickGuid + 1
            copies == GuiTable!CarriedOver(prior, g)
            new == IF resume THEN copies ELSE <<>>
<1>1. /\ tickRows \in Seq(TickRecord) /\ tickGuid \in Nat /\ shown \in Nat /\ g \in Nat \ {0} /\ ~ waiting
      /\ shown < g
  BY DEF TickInv, TickTypeInv, ShownInv, GuiTable!Prepare
<1>2. /\ tickGuid' = g /\ waiting' = TRUE /\ GuiTable!Write(new)
      /\ stage' = [t \in Tests |-> IF t \in (IF resume THEN Tests \ passed ELSE Tests)
                                   THEN "planned" ELSE "over"]
      /\ UNCHANGED <<shown, pc, snap, outputs, lastPass, history, toRead>>
  BY DEF GuiTable!Prepare, GuiTable!caches
<1>3. prior \in SUBSET DOMAIN tickRows /\ \A i, j \in prior : tickRows[i].run = tickRows[j].run
  BY DEF GuiTable!Query
<1>. HIDE DEF prior
<1>4. /\ copies \in Seq(TickRecord)
      /\ \A k \in DOMAIN copies : \E i \in prior :
           CopyIn(copies[k], tickRows[i], g) /\ tickRows[i].name \in passed
      /\ \A k, l \in DOMAIN copies : copies[k].out /\ copies[l].out /\ copies[k].name = copies[l].name => k = l
  BY <1>1, <1>3, CarriedOverAre
<1>5. ASSUME NEW i, NEW t PROVE ~ HasOutput(i, g, t)
  <2>. SUFFICES ASSUME i \in DOMAIN tickRows, tickRows[i].run = g PROVE FALSE
    BY DEF HasOutput
  <2>. QED
    BY <1>1, TickRecordIs DEF TickInv, TableInv
<1>. HIDE DEF copies, passed
<1>6. ASSUME NEW k \in DOMAIN new
      PROVE  /\ resume /\ new[k].run = g
             /\ \E i \in DOMAIN tickRows :
                  /\ new[k].ts = tickRows[i].ts /\ new[k].out = tickRows[i].out
             /\ new[k].out => new[k].code # "NONE"
             /\ new[k].name \in passed
             /\ \A l \in DOMAIN new : new[k].out /\ new[l].out /\ new[l].name = new[k].name => l = k
  <2>1. resume /\ new = copies /\ k \in DOMAIN copies
    BY <1>6
  <2>2. PICK i \in prior : CopyIn(copies[k], tickRows[i], g) /\ tickRows[i].name \in passed
    BY <1>4, <2>1
  <2>3. tickRows[i].out => tickRows[i].code # "NONE"
    BY <1>3 DEF TickInv, TableInv
  <2>. QED
    BY <1>3, <1>4, <2>1, <2>2, <2>3 DEF CopyIn
<1>7. new \in Seq(TickRecord)
  BY <1>4
<1>. HIDE DEF new
<1>8. /\ stage' \in [Tests -> Unreported \cup {"dying", "over"}]
      /\ \A t \in Tests : stage'[t] \in Unreported /\ resume => t \notin passed
  BY <1>2 DEF Unreported
<1>9. Adds(new)
  <2>1. \A k \in DOMAIN new :
       /\ new[k].run =< tickGuid'
       /\ \/ new[k].ts = Len(tickRows) + k
          \/ \E i \in DOMAIN tickRows : new[k].ts = tickRows[i].ts /\ new[k].out = tickRows[i].out
       /\ new[k].out => new[k].code # "NONE"
       /\ new[k].out => \A i : ~ HasOutput(i, new[k].run, new[k].name)
       /\ \A l \in DOMAIN new :
            new[k].out /\ new[l].out /\ new[l].run = new[k].run /\ new[l].name = new[k].name => l = k
    BY <1>1, <1>2, <1>5, <1>6
  <2>2. \A t \in Tests : stage'[t] \in Unreported =>
          \A k \in DOMAIN new : new[k].run = tickGuid' /\ new[k].name = t => ~ new[k].out
    BY <1>6, <1>8
  <2>. QED
    BY <1>1, <1>2, <1>7, <1>8, <2>1, <2>2 DEF Adds
<1>. QED
  BY <1>9, AddsKeepsInv

(* An earlier session leaves records that are their own originals.          *)
LEMMA TickInit ==
  ASSUME GuiTable!Init
  PROVE  TickInv
<1>1. /\ tickRows \in FirstRows /\ tickGuid = (IF tickRows = <<>> THEN 0 ELSE 1)
      /\ stage = [t \in Tests |-> "over"] /\ waiting = FALSE /\ shown = 0 /\ pc = "idle" /\ snap = 0
      /\ outputs = [run |-> 0, row |-> <<>>]
      /\ lastPass = [run |-> 0, count |-> -1, of |-> [t \in Tests |-> 0]]
      /\ history = [token |-> -1, seen |-> <<>>] /\ toRead = {}
  BY DEF GuiTable!Init
<1>2. GuiTable!EarlierTable(tickRows)
  BY <1>1, RecordsConstantsOK DEF GuiTable!TickConstantsOK
<1>. DEFINE Old == [run : {1}, name : Tests, code : TickCodes, out : BOOLEAN, ts : Nat]
<1>3. tickRows \in Seq(Old)
  BY <1>2 DEF GuiTable!EarlierTable, TickCodes
<1>. HIDE DEF Old
<1>4. Len(tickRows) \in Nat /\ DOMAIN tickRows = 1..Len(tickRows)
  BY <1>3
<1>5. \A i \in DOMAIN tickRows :
        /\ tickRows[i] \in TickRecord /\ tickRows[i].run = 1 /\ tickRows[i].ts = i
        /\ tickRows[i].out => tickRows[i].code # "NONE"
        /\ tickRows[i].out => \A j \in DOMAIN tickRows :
             tickRows[j].out /\ tickRows[j].name = tickRows[i].name => j = i
  <2>1. ASSUME NEW i \in DOMAIN tickRows
        PROVE  tickRows[i] \in TickRecord /\ tickRows[i].run = 1
    <3>1. tickRows[i] \in Old
      BY <1>3
    <3>. QED
      BY <3>1 DEF TickRecord, Old
  <2>2. ASSUME NEW i \in DOMAIN tickRows
        PROVE  /\ tickRows[i].ts = i /\ (tickRows[i].out => tickRows[i].code # "NONE")
               /\ tickRows[i].out => \A j \in DOMAIN tickRows :
                    tickRows[j].out /\ tickRows[j].name = tickRows[i].name => j = i
    BY <1>2, TickEndings DEF GuiTable!EarlierTable
  <2>. QED
    BY <2>1, <2>2
<1>6. tickRows \in Seq(TickRecord)
  BY <1>3, <1>5
<1>7. \A i \in DOMAIN tickRows : tickRows[i].run = tickGuid
  <2>1. (\E i \in DOMAIN tickRows : TRUE) => tickRows # <<>>
    BY <1>4
  <2>. QED
    BY <1>1, <1>5, <2>1
<1>8. TickTypeInv
  <2>1. /\ tickGuid \in Nat /\ stage \in [Tests -> Unreported \cup {"dying", "over"}]
        /\ snap \in Nat /\ snap =< Len(tickRows) /\ toRead \subseteq 1..tickGuid
    BY <1>1, <1>4
  <2>2. /\ outputs = [run |-> outputs.run, row |-> outputs.row]
        /\ lastPass = [run |-> lastPass.run, count |-> lastPass.count, of |-> lastPass.of]
        /\ history = [token |-> history.token, seen |-> history.seen]
    BY <1>1
  <2>3. lastPass.run \in Nat /\ lastPass.count \in Int /\ history.token \in Int
    BY <1>1
  <2>4. \A t \in Tests : stage[t] # "over" => tickGuid # 0
    BY <1>1
  <2>. QED
    BY <1>1, <1>6, <2>1, <2>2, <2>3, <2>4 DEF TickTypeInv
<1>9. TableInv
  BY <1>1, <1>4, <1>5, <1>7 DEF TableInv
<1>10. ShownInv
  BY <1>1, <1>7 DEF ShownInv, Unreported
<1>11. PassesInv
  <2>1. GuiTable!PassCount(0, tickRows) \in Nat
    BY <1>6, <1>7, PassCountIs
  <2>. QED
    BY <1>1, <2>1 DEF PassesInv, FromToken
<1>12. TokenInv
  BY <1>1, <1>4 DEF TokenInv, FromRuns
<1>13. CachedInv
  BY <1>1 DEF CachedInv, FromPasses
<1>. QED
  BY <1>8, <1>9, <1>10, <1>11, <1>12, <1>13 DEF TickInv

(* The GUI thread hears of a run only now, so nothing was found for it yet. *)
LEMMA TickAdopt ==
  ASSUME TickInv, GuiTable!Adopt
  PROVE  TickInv'
<1>1. /\ pc = "idle" /\ waiting /\ shown' = tickGuid /\ waiting' = FALSE
      /\ UNCHANGED <<tickRows, tickGuid, stage, pc, snap, outputs, lastPass, history, toRead>>
  BY DEF GuiTable!Adopt, GuiTable!caches
<1>2. tickGuid \in Nat /\ shown \in Nat /\ shown < tickGuid /\ lastPass.run \in Nat /\ lastPass.run =< shown
  BY <1>1 DEF TickInv, TickTypeInv, ShownInv, PassesInv
<1>3. lastPass.run < shown' /\ lastPass.run =< shown' /\ shown' # 0 /\ shown' \in Nat /\ lastPass.run # shown'
  BY <1>1, <1>2
<1>4. TickTypeInv' /\ TableInv' /\ TokenInv'
  BY <1>1, <1>3 DEF TickInv, TickTypeInv, TableInv, TokenInv, SeenIsRight
<1>5. ShownInv'
  BY <1>1, <1>3 DEF TickInv, ShownInv
<1>6. PassesInv'
  BY <1>1, <1>3 DEF PassesInv, FromToken
<1>7. CachedInv'
  BY <1>1 DEF TickInv, CachedInv, HasOutput, FromPasses
<1>. QED
  BY <1>4, <1>5, <1>6, <1>7 DEF TickInv

(* Of the steps of a tick, what they leave alone.                           *)
LEMMA TickTable ==
  ASSUME TickInv, UNCHANGED <<tickRows, tickGuid, stage, waiting, shown>>
  PROVE  TableInv' /\ ShownInv'
BY DEF TickInv, TableInv, ShownInv

(* A tick begins with the table as it is.                                   *)
LEMMA TickBegins ==
  ASSUME TickInv, GuiTable!TickQuery
  PROVE  TickInv'
<1>1. /\ pc = "idle" /\ pc' = "outputs" /\ snap' = Len(tickRows)
      /\ UNCHANGED <<tickRows, tickGuid, stage, waiting, shown, outputs, lastPass, history, toRead>>
  BY DEF GuiTable!TickQuery, GuiTable!caches, GuiTable!table
<1>2. TickTypeInv'
  BY <1>1 DEF TickInv, TickTypeInv
<1>3. PassesInv' /\ TokenInv' /\ CachedInv'
  BY <1>1 DEF TickInv, PassesInv, TokenInv, SeenIsRight, CachedInv, HasOutput, FromToken, FromRuns, FromPasses
<1>. QED
  BY <1>1, <1>2, <1>3, TickTable DEF TickInv

(* It ends with the cache and token it has.                                 *)
LEMMA TickShows ==
  ASSUME TickInv, GuiTable!TickShow
  PROVE  TickInv'
<1>1. /\ pc = "show" /\ pc' = "idle" /\ snap' = 0
      /\ UNCHANGED <<tickRows, tickGuid, stage, waiting, shown, outputs, lastPass, history, toRead>>
  BY DEF GuiTable!TickShow, GuiTable!caches, GuiTable!table
<1>2. TickTypeInv'
  BY <1>1 DEF TickInv, TickTypeInv
<1>3. PassesInv' /\ TokenInv' /\ CachedInv'
  BY <1>1 DEF TickInv, PassesInv, TokenInv, SeenIsRight, CachedInv, HasOutput, FromToken, FromRuns, FromPasses
<1>. QED
  BY <1>1, <1>2, <1>3, TickTable DEF TickInv

(* After the fetch every completed test has an entry, true at that time.    *)
LEMMA TickAttaches ==
  ASSUME TickInv, GuiTable!TickOutputs
  PROVE  TickInv'
<1>. DEFINE p       == GuiTable!Prefix(snap)
            r       == GuiTable!RunOf(shown, p)
            kept    == GuiTable!OutputsKept(r)
            missing == GuiTable!Completed(shown, p) \ DOMAIN kept
            row     == [t \in DOMAIN kept \cup missing |->
                          IF t \in DOMAIN kept THEN kept[t] ELSE GuiTable!OutputRow(r, t, tickRows)]
<1>1. /\ pc = "outputs" /\ pc' = "passes" /\ outputs' = [run |-> r, row |-> row]
      /\ UNCHANGED <<tickRows, tickGuid, stage, waiting, shown, snap, lastPass, history, toRead>>
  BY DEF GuiTable!TickOutputs, GuiTable!table
<1>2. /\ p \in Seq(TickRecord) /\ DOMAIN p = 1..snap
      /\ \A i \in 1..snap : i \in DOMAIN tickRows /\ p[i] = tickRows[i]
  BY PrefixIs DEF TickInv, TickTypeInv
<1>3. p' = p
  BY <1>1 DEF GuiTable!Prefix
<1>4. \A t \in DOMAIN kept : r = outputs.run /\ t \in DOMAIN outputs.row /\ kept[t] = outputs.row[t]
  BY DEF GuiTable!OutputsKept
<1>. HIDE DEF kept
<1>5. ASSUME NEW t \in missing
      PROVE  \E j \in DOMAIN tickRows : tickRows[j].run = r /\ tickRows[j].name = t /\ tickRows[j].code # "NONE"
  <2>1. PICK j \in GuiTable!Query(shown, p) : p[j].code # "NONE" /\ p[j].name = t
    BY DEF GuiTable!Completed
  <2>2. j \in DOMAIN p /\ p[j].run = r
    BY <2>1 DEF GuiTable!Query
  <2>. QED
    BY <1>2, <2>1, <2>2
<1>. HIDE DEF p, r, missing, row
<1>6. /\ DOMAIN row = DOMAIN kept \cup missing
      /\ \A t \in DOMAIN kept : row[t] = kept[t]
      /\ \A t \in missing \ DOMAIN kept : row[t] = GuiTable!OutputRow(r, t, tickRows)
  BY DEF row
<1>7. TickTypeInv'
  BY <1>1 DEF TickInv, TickTypeInv, FromPasses
<1>8. PassesInv' /\ TokenInv'
  BY <1>1 DEF TickInv, PassesInv, TokenInv, SeenIsRight, FromToken, FromRuns
<1>9. ASSUME NEW t \in DOMAIN row
      PROVE  \/ row[t] # 0 /\ HasOutput(row[t], r, t)
             \/ /\ row[t] = 0
                /\ \E j \in DOMAIN tickRows :
                     /\ tickRows[j].run = r /\ tickRows[j].name = t /\ tickRows[j].code # "NONE"
                     /\ \A i \in DOMAIN tickRows : HasOutput(i, r, t) => j < i
  <2>1. CASE t \in DOMAIN kept
    BY <1>4, <1>6, <2>1 DEF TickInv, CachedInv
  <2>2. CASE t \in missing \ DOMAIN kept
    <3>. DEFINE mine == {i \in DOMAIN tickRows : tickRows[i].run = r /\ tickRows[i].name = t /\ tickRows[i].out}
    <3>1. row[t] = IF mine = {} THEN 0
                   ELSE CHOOSE i \in mine : \A j \in mine : tickRows[j].ts =< tickRows[i].ts
      BY <1>6, <2>2 DEF GuiTable!OutputRow
    <3>2. \A i : i \in mine <=> HasOutput(i, r, t)
      BY DEF HasOutput
    <3>3. CASE mine = {}
      BY <1>5, <2>2, <3>1, <3>2, <3>3
    <3>4. CASE mine # {}
      <4>1. PICK i \in mine : TRUE
        BY <3>4
      <4>2. \A j \in mine : j = i
        BY <4>1 DEF TickInv, TableInv
      <4>3. tickRows[i].ts =< tickRows[i].ts
        BY <4>1, TickRecordIs DEF TickInv, TickTypeInv
      <4>4. \A j \in mine : tickRows[j].ts =< tickRows[i].ts
        BY <4>2, <4>3
      <4>. HIDE DEF mine
      <4>5. (CHOOSE k \in mine : \A j \in mine : tickRows[j].ts =< tickRows[k].ts) \in mine
        BY <4>1, <4>4
      <4>6. row[t] \in mine
        BY <3>1, <3>4, <4>5
      <4>7. HasOutput(row[t], r, t)
        BY <3>2, <4>6
      <4>8. row[t] # 0
        BY <4>7 DEF HasOutput, TickInv, TickTypeInv
      <4>. QED
        BY <4>7, <4>8
    <3>. QED
      BY <3>3, <3>4
  <2>. QED
    BY <1>6, <2>1, <2>2
<1>10. CachedInv'
  <2>1. outputs'.run = r /\ outputs'.row = row
    BY <1>1
  <2>2. GuiTable!RunOf(shown', GuiTable!Prefix(snap)') = r
        /\ GuiTable!Completed(shown', GuiTable!Prefix(snap)') = GuiTable!Completed(shown, p)
    BY <1>1, <1>3 DEF p, r
  <2>3. GuiTable!Completed(shown, p) \subseteq DOMAIN row
    BY <1>6 DEF missing
  <2>4. \A i, t : HasOutput(i, r, t) <=> (i \in DOMAIN tickRows' /\ tickRows'[i].run = outputs'.run
                                          /\ tickRows'[i].name = t /\ tickRows'[i].out)
    BY <1>1, <2>1 DEF HasOutput
  <2>. QED
    BY <1>1, <1>9, <2>1, <2>2, <2>3, <2>4 DEF CachedInv, HasOutput
<1>. QED
  BY <1>1, <1>7, <1>8, <1>10, TickTable DEF TickInv

(* A count of passes is a number.                                           *)
LEMMA PassCountIsNumber ==
  ASSUME NEW seen \in Seq(TickRecord), NEW r
  PROVE  GuiTable!PassCount(r, seen) \in Nat
<1>. DEFINE found == {i \in GuiTable!Query(r, seen) : seen[i].code = "OK"}
<1>1. DOMAIN seen = 1..Len(seen) /\ Len(seen) \in Nat
  OBVIOUS
<1>2. found \subseteq DOMAIN seen
  BY DEF GuiTable!Query
<1>3. GuiTable!PassCount(r, seen) = Cardinality(found)
  BY TickSizes DEF GuiTable!PassCount
<1>. HIDE DEF found
<1>a. IsFiniteSet(DOMAIN seen)
  BY <1>1, FS_Interval
<1>4. IsFiniteSet(found)
  BY <1>2, <1>a, FS_Subset
<1>. QED
  BY <1>3, <1>4, FS_CardinalityType

(* Earlier there were no more passes.                                       *)
LEMMA FewerPasses ==
  ASSUME TickInv, ~ waiting
  PROVE  GuiTable!PassCount(shown, GuiTable!Prefix(snap)) =< GuiTable!PassCount(shown, tickRows)
<1>. DEFINE p == GuiTable!Prefix(snap)
<1>0. tickRows \in Seq(TickRecord) /\ snap \in Nat /\ snap =< Len(tickRows)
  BY DEF TickInv, TickTypeInv
<1>1. /\ p \in Seq(TickRecord) /\ DOMAIN p = 1..snap
      /\ \A i \in 1..snap : i \in DOMAIN tickRows /\ p[i] = tickRows[i]
  BY <1>0, PrefixIs
<1>. HIDE DEF p
<1>2. \/ shown # 0 /\ shown = tickGuid
      \/ shown = 0 /\ \A i \in DOMAIN tickRows : tickRows[i].run = tickGuid
  BY DEF TickInv, ShownInv
<1>3. \/ shown # 0 /\ shown = tickGuid
      \/ shown = 0 /\ \A i \in DOMAIN p : p[i].run = tickGuid
  BY <1>1, <1>2
<1>4. GuiTable!PassCount(shown, p) = Cardinality(PassesOf(tickGuid, p))
  BY <1>1, <1>3, PassCountIs
<1>5. /\ GuiTable!PassCount(shown, tickRows) = Cardinality(PassesOf(tickGuid, tickRows))
      /\ IsFiniteSet(PassesOf(tickGuid, tickRows))
  BY <1>0, <1>2, PassCountIs
<1>6. PassesOf(tickGuid, p) \subseteq PassesOf(tickGuid, tickRows)
  BY <1>1 DEF PassesOf
<1>7. Cardinality(PassesOf(tickGuid, p)) =< Cardinality(PassesOf(tickGuid, tickRows))
  BY <1>5, <1>6, FS_Subset
<1>. QED
  BY <1>4, <1>5, <1>7 DEF p

(* Last passes are found in a table with no fewer passes than were counted. *)
LEMMA TickFindsPasses ==
  ASSUME TickInv, GuiTable!TickLastPass
  PROVE  TickInv'
<1>. DEFINE count == GuiTable!PassCount(shown, GuiTable!Prefix(snap))
<1>1. /\ pc = "passes" /\ pc' = "token"
      /\ lastPass' = IF shown = lastPass.run /\ count = lastPass.count THEN lastPass
                     ELSE [run |-> shown, count |-> count,
                           of |-> [t \in Tests |-> GuiTable!LastPassOf(t, tickRows)]]
      /\ UNCHANGED <<tickRows, tickGuid, stage, waiting, shown, snap, outputs, history, toRead>>
  BY DEF GuiTable!TickLastPass, GuiTable!LastPassIsCached, GuiTable!table
<1>2. /\ tickRows \in Seq(TickRecord) /\ snap \in Nat /\ snap =< Len(tickRows) /\ shown \in Nat
  BY DEF TickInv, TickTypeInv
<1>3. count \in Nat
  <2>1. GuiTable!Prefix(snap) \in Seq(TickRecord)
    BY <1>2, PrefixIs
  <2>. QED
    BY <2>1, PassCountIsNumber
<1>4. ~ waiting => count =< GuiTable!PassCount(shown, tickRows)
  BY FewerPasses
<1>5. GuiTable!PassCount(shown', GuiTable!Prefix(snap)') = count
  BY <1>1 DEF GuiTable!Prefix
<1>. HIDE DEF count
<1>6. CASE lastPass' = lastPass /\ shown = lastPass.run /\ count = lastPass.count
  <2>1. TickTypeInv' /\ PassesInv'
    BY <1>1, <1>5, <1>6 DEF TickInv, TickTypeInv, PassesInv, FromPasses
  <2>. QED
    BY <1>1, <2>1, TickTable DEF TickInv, TokenInv, SeenIsRight, CachedInv, HasOutput, FromRuns, FromPasses,
                                 GuiTable!Prefix
<1>7. CASE lastPass' = [run |-> shown, count |-> count,
                        of |-> [t \in Tests |-> GuiTable!LastPassOf(t, tickRows)]]
  <2>1. lastPass'.run = shown /\ lastPass'.count = count
        /\ \A t \in Tests : lastPass'.of[t] = GuiTable!LastPassOf(t, tickRows)
    BY <1>7
  <2>2. TickTypeInv'
    BY <1>1, <1>2, <1>3, <1>7 DEF TickInv, TickTypeInv, FromPasses
  <2>3. PassesInv'
    BY <1>1, <1>2, <1>4, <1>5, <2>1 DEF PassesInv
  <2>. QED
    BY <1>1, <2>2, <2>3, TickTable DEF TickInv, TokenInv, SeenIsRight, CachedInv, HasOutput, FromRuns, FromPasses,
                                       GuiTable!Prefix
<1>. QED
  BY <1>1, <1>6, <1>7

(* An unchanged token is that of the table that was read.                   *)
LEMMA TickAsksForToken ==
  ASSUME TickInv, GuiTable!TickToken
  PROVE  TickInv'
<1>1. /\ pc = "token"
      /\ \/ history.token = Len(tickRows) /\ pc' = "show" /\ history' = history
         \/ history.token # Len(tickRows) /\ pc' = "runs" /\ history' = [history EXCEPT !.token = Len(tickRows)]
      /\ UNCHANGED <<tickRows, tickGuid, stage, waiting, shown, snap, outputs, lastPass, toRead>>
  BY DEF GuiTable!TickToken, GuiTable!table
<1>2. /\ tickRows \in Seq(TickRecord) /\ Len(tickRows) \in Nat /\ snap \in Nat /\ snap =< Len(tickRows)
      /\ history = [token |-> history.token, seen |-> history.seen]
  BY DEF TickInv, TickTypeInv
<1>3. history'.token = Len(tickRows) /\ history'.seen = history.seen
      /\ history' = [token |-> history'.token, seen |-> history'.seen]
  BY <1>1, <1>2
<1>4. TickTypeInv'
  BY <1>1, <1>2, <1>3 DEF TickInv, TickTypeInv, FromPasses
<1>5. PassesInv' /\ CachedInv'
  BY <1>1 DEF TickInv, PassesInv, CachedInv, HasOutput, FromToken, FromPasses, GuiTable!Prefix
<1>6. TokenInv'
  BY <1>1, <1>2, <1>3 DEF TickInv, TokenInv, SeenIsRight, FromRuns
<1>. QED
  BY <1>1, <1>4, <1>5, <1>6, TickTable DEF TickInv

(* The list is read after the token: it is newer, or the same.              *)
LEMMA TickListsRuns ==
  ASSUME TickInv, GuiTable!TickRecentRuns
  PROVE  TickInv'
<1>1. /\ pc = "runs" /\ pc' = "records"
      /\ toRead' = GuiTable!RecentRuns(tickRows) /\ history' = [history EXCEPT !.seen = <<>>]
      /\ UNCHANGED <<tickRows, tickGuid, stage, waiting, shown, snap, outputs, lastPass>>
  BY DEF GuiTable!TickRecentRuns, GuiTable!table
<1>2. history = [token |-> history.token, seen |-> history.seen] /\ tickRows \in Seq(TickRecord)
      /\ tickGuid \in Nat
  BY DEF TickInv, TickTypeInv
<1>3. history'.token = history.token /\ history'.seen = <<>>
      /\ history' = [token |-> history'.token, seen |-> history'.seen]
  BY <1>1, <1>2
<1>4. GuiTable!RecentRuns(tickRows) \subseteq 1..tickGuid
  <2>1. GuiTable!RecentRuns(tickRows) \subseteq {tickRows[i].run : i \in DOMAIN tickRows}
    BY DEF GuiTable!RecentRuns
  <2>2. \A i \in DOMAIN tickRows : tickRows[i].run \in 1..tickGuid
    BY GuidIsPositive
  <2>. QED
    BY <2>1, <2>2
<1>5. TickTypeInv'
  BY <1>1, <1>2, <1>3, <1>4 DEF TickInv, TickTypeInv, FromPasses
<1>6. PassesInv' /\ CachedInv'
  BY <1>1 DEF TickInv, PassesInv, CachedInv, HasOutput, FromToken, FromPasses, GuiTable!Prefix
<1>7. DOMAIN history'.seen = {}
  BY <1>3
<1>8. TokenInv'
  <2>1. SeenIsRight'
    BY <1>7 DEF SeenIsRight
  <2>. QED
    BY <1>1, <1>3, <1>7, <2>1 DEF TickInv, TokenInv, FromRuns
<1>. QED
  BY <1>1, <1>5, <1>6, <1>8, TickTable DEF TickInv

(* A run is read after the token as well.                                   *)
LEMMA TickReads ==
  ASSUME TickInv, GuiTable!TickReadRun
  PROVE  TickInv'
<1>. DEFINE r == CHOOSE q \in toRead : \A p \in toRead : p =< q
            n == Cardinality(GuiTable!Query(r, tickRows))
            seen == [q \in DOMAIN history.seen \cup {r} |-> IF q = r THEN n ELSE history.seen[q]]
            counted == [q \in DOMAIN history.seen \cup {r} |->
                          IF q = r THEN GuiTable!Cardinality(GuiTable!Query(r, tickRows)) ELSE history.seen[q]]
<1>0. counted = seen
  BY TickSizes
<1>9. /\ pc = "records" /\ toRead # {} /\ toRead' = toRead \ {r}
      /\ history' = [history EXCEPT !.seen = counted]
      /\ UNCHANGED <<tickRows, tickGuid, stage, waiting, shown, pc, snap, outputs, lastPass>>
  BY DEF GuiTable!TickReadRun, GuiTable!table
<1>1. /\ pc = "records" /\ toRead # {} /\ toRead' = toRead \ {r}
      /\ history' = [history EXCEPT !.seen = seen]
      /\ UNCHANGED <<tickRows, tickGuid, stage, waiting, shown, pc, snap, outputs, lastPass>>
  <2>. HIDE DEF r, seen, counted
  <2>. QED
    BY <1>0, <1>9
<1>2. history = [token |-> history.token, seen |-> history.seen] /\ tickGuid \in Nat /\ toRead \subseteq 1..tickGuid
  BY DEF TickInv, TickTypeInv
<1>3. r \in toRead
  <2>1. toRead \in SUBSET Nat /\ \A q \in toRead : q =< tickGuid
    BY <1>2
  <2>2. \E q \in toRead : \A p \in toRead : p =< q
    BY <1>1, <1>2, <2>1, GreatestNumber
  <2>. QED
    BY <2>2
<1>. HIDE DEF r, n, counted
<1>4. /\ DOMAIN seen = DOMAIN history.seen \cup {r}
      /\ seen[r] = n /\ \A q \in DOMAIN history.seen : q # r => seen[q] = history.seen[q]
  OBVIOUS
<1>. HIDE DEF seen
<1>5. history'.token = history.token /\ history'.seen = seen
      /\ history' = [token |-> history'.token, seen |-> history'.seen]
  BY <1>1, <1>2
<1>6. TickTypeInv'
  BY <1>1, <1>2, <1>5 DEF TickInv, TickTypeInv
<1>7. PassesInv' /\ CachedInv'
  BY <1>1 DEF TickInv, PassesInv, CachedInv, HasOutput, GuiTable!Prefix
<1>8. TokenInv'
  <2>1. ASSUME history.token = Len(tickRows)
        PROVE  SeenIsRight' /\ DOMAIN seen \cup (toRead \ {r}) = GuiTable!RecentRuns(tickRows)
    <3>1. SeenIsRight /\ DOMAIN history.seen \cup toRead = GuiTable!RecentRuns(tickRows)
      BY <1>1, <2>1 DEF TickInv, TokenInv
    <3>2. \A q \in DOMAIN seen : seen[q] = Cardinality(GuiTable!Query(q, tickRows))
      BY <1>4, <3>1 DEF SeenIsRight, n
    <3>. QED
      BY <1>1, <1>3, <1>4, <1>5, <3>1, <3>2 DEF SeenIsRight
  <2>. QED
    BY <1>1, <1>5, <2>1 DEF TickInv, TokenInv
<1>. QED
  BY <1>1, <1>6, <1>7, <1>8, TickTable DEF TickInv

(* When no run is left, all of the list has been read.                      *)
LEMMA TickHasRead ==
  ASSUME TickInv, GuiTable!TickHistoryRead
  PROVE  TickInv'
<1>1. /\ pc = "records" /\ toRead = {} /\ pc' = "show"
      /\ UNCHANGED <<tickRows, tickGuid, stage, waiting, shown, snap, outputs, lastPass, history, toRead>>
  BY DEF GuiTable!TickHistoryRead, GuiTable!caches, GuiTable!table
<1>2. TickTypeInv'
  BY <1>1 DEF TickInv, TickTypeInv, FromPasses
<1>3. PassesInv' /\ TokenInv' /\ CachedInv'
  BY <1>1 DEF TickInv, PassesInv, TokenInv, SeenIsRight, CachedInv, HasOutput, FromToken, FromRuns, FromPasses,
              GuiTable!Prefix
<1>. QED
  BY <1>1, <1>2, <1>3, TickTable DEF TickInv

(* Every step preserves the invariant.                                      *)
LEMMA TickKeepsInv == TickInv /\ [GuiTable!Next]_tickVars => TickInv'
<1>. SUFFICES ASSUME TickInv, [GuiTable!Next]_tickVars PROVE TickInv'
  OBVIOUS
<1>1. CASE UNCHANGED tickVars
  BY <1>1 DEF tickVars, TickInv, TickTypeInv, TableInv, ShownInv, PassesInv, TokenInv, SeenIsRight, CachedInv,
              HasOutput, GuiTable!Prefix
<1>2. CASE \E resume \in BOOLEAN : GuiTable!Prepare(resume)
  BY <1>2, TickPrepare
<1>3. CASE GuiTable!Enqueue \/ GuiTable!Adopt \/ GuiTable!ForceStopAndReset
  BY <1>3, TickEnqueue, TickAdopt, TickReset
<1>4. CASE \E t \in Tests : \/ GuiTable!StartTest(t) \/ GuiTable!Crash(t) \/ GuiTable!ForceStopTest(t)
                            \/ GuiTable!Kill(t) \/ GuiTable!MarkTerminatedIfStale(t)
  BY <1>4, TickStart, TickCrash, TickKill, TickMark
<1>5. CASE \E t \in Tests, code \in Endings : GuiTable!Report(t, code)
  BY <1>5, TickReport
<1>6. CASE \/ GuiTable!TickQuery \/ GuiTable!TickOutputs \/ GuiTable!TickLastPass \/ GuiTable!TickToken
           \/ GuiTable!TickRecentRuns \/ GuiTable!TickReadRun \/ GuiTable!TickHistoryRead \/ GuiTable!TickShow
  BY <1>6, TickBegins, TickAttaches, TickFindsPasses, TickAsksForToken, TickListsRuns, TickReads, TickHasRead, TickShows
<1>. QED
  BY <1>1, <1>2, <1>3, <1>4, <1>5, <1>6 DEF GuiTable!Next

(* What is shown undisturbed is what the table says.                        *)
LEMMA TickShowsSummaries == TickInv => GuiTable!SummariesCurrent
<1>. SUFFICES ASSUME TickInv, pc = "show", snap = Len(tickRows), ~ waiting
              PROVE  /\ \A t \in Tests : lastPass.of[t] = GuiTable!LastPassOf(t, tickRows)
                     /\ DOMAIN history.seen = GuiTable!RecentRuns(tickRows)
                     /\ \A r \in DOMAIN history.seen : history.seen[r] = Cardinality(GuiTable!Query(r, tickRows))
  BY TickSizes DEF GuiTable!SummariesCurrent, GuiTable!Undisturbed
<1>1. tickRows \in Seq(TickRecord) /\ snap \in Nat /\ snap =< Len(tickRows) /\ history.token \in Int
  BY DEF TickInv, TickTypeInv
<1>2. GuiTable!Prefix(snap) = tickRows
  BY <1>1, PrefixIs
<1>3. lastPass.run = shown /\ lastPass.count = GuiTable!PassCount(shown, tickRows)
  BY <1>2 DEF TickInv, PassesInv, FromToken
<1>4. \A t \in Tests : lastPass.of[t] = GuiTable!LastPassOf(t, tickRows)
  BY <1>3 DEF TickInv, PassesInv
<1>5. history.token = Len(tickRows)
  BY <1>1 DEF TickInv, TokenInv, FromRuns
<1>6. SeenIsRight /\ DOMAIN history.seen = GuiTable!RecentRuns(tickRows)
  BY <1>5 DEF TickInv, TokenInv
<1>. QED
  BY <1>4, <1>6 DEF SeenIsRight

(* Outputs are shown with their own records, and none is missing.           *)
LEMMA TickShowsOutputs == TickInv => GuiTable!OutputsOwnAndComplete
<1>. SUFFICES ASSUME TickInv, pc = "show", snap = Len(tickRows), ~ waiting,
                     NEW i \in GuiTable!Query(shown, tickRows)
              PROVE  /\ GuiTable!Attached(i) => tickRows[i].out
                     /\ tickRows[i].out /\ (\A j \in GuiTable!Query(shown, tickRows) :
                          tickRows[j].name = tickRows[i].name /\ tickRows[j].code # "NONE" => j >= i)
                        => GuiTable!Attached(i)
  BY DEF GuiTable!OutputsOwnAndComplete, GuiTable!Undisturbed
<1>1. tickRows \in Seq(TickRecord) /\ snap \in Nat /\ snap =< Len(tickRows) /\ i \in DOMAIN tickRows
  BY DEF TickInv, TickTypeInv, GuiTable!Query
<1>2. GuiTable!Prefix(snap) = tickRows
  BY <1>1, PrefixIs
<1>3. outputs.run = GuiTable!RunOf(shown, tickRows)
      /\ GuiTable!Completed(shown, tickRows) \subseteq DOMAIN outputs.row
  BY <1>2 DEF TickInv, CachedInv, FromPasses
<1>4. tickRows[i].run = outputs.run
  BY <1>3 DEF GuiTable!Query
<1>. DEFINE t == tickRows[i].name
<1>5. t \in DOMAIN outputs.row =>
       \/ outputs.row[t] # 0 /\ HasOutput(outputs.row[t], outputs.run, t)
       \/ /\ outputs.row[t] = 0
          /\ \E j \in DOMAIN tickRows :
               /\ tickRows[j].run = outputs.run /\ tickRows[j].name = t /\ tickRows[j].code # "NONE"
               /\ \A k \in DOMAIN tickRows : HasOutput(k, outputs.run, t) => j < k
  BY DEF TickInv, CachedInv
<1>6. ASSUME GuiTable!Attached(i) PROVE tickRows[i].out
  <2>. DEFINE p == outputs.row[t]
  <2>1. t \in DOMAIN outputs.row /\ p # 0 /\ tickRows[p].ts = tickRows[i].ts
    BY <1>6 DEF GuiTable!Attached
  <2>2. p \in DOMAIN tickRows /\ tickRows[p].out
    BY <1>5, <2>1 DEF HasOutput
  <2>3. /\ tickRows[tickRows[p].ts].out = tickRows[p].out /\ tickRows[tickRows[i].ts].out = tickRows[i].out
        /\ tickRows[i].out \in BOOLEAN
    BY <1>1, <2>2, TickRecordIs DEF TickInv, TableInv
  <2>. QED
    BY <2>1, <2>2, <2>3
<1>7. ASSUME tickRows[i].out, \A j \in GuiTable!Query(shown, tickRows) :
                                tickRows[j].name = t /\ tickRows[j].code # "NONE" => j >= i
      PROVE  GuiTable!Attached(i)
  <2>1. tickRows[i].code # "NONE" /\ HasOutput(i, outputs.run, t)
    BY <1>1, <1>4, <1>7 DEF TickInv, TableInv, HasOutput
  <2>2. t \in DOMAIN outputs.row
    BY <1>3, <2>1 DEF GuiTable!Completed
  <2>3. ASSUME outputs.row[t] = 0 PROVE FALSE
    <3>1. PICK j \in DOMAIN tickRows :
               /\ tickRows[j].run = outputs.run /\ tickRows[j].name = t /\ tickRows[j].code # "NONE"
               /\ \A k \in DOMAIN tickRows : HasOutput(k, outputs.run, t) => j < k
      BY <1>5, <2>2, <2>3
    <3>2. j < i
      BY <1>1, <2>1, <3>1
    <3>3. j \in GuiTable!Query(shown, tickRows)
      BY <1>3, <3>1 DEF GuiTable!Query
    <3>4. j >= i
      BY <1>7, <3>1, <3>3
    <3>. QED
      BY <1>1, <3>1, <3>2, <3>4
  <2>4. outputs.row[t] # 0 /\ HasOutput(outputs.row[t], outputs.run, t)
    BY <1>5, <2>2, <2>3
  <2>5. outputs.row[t] = i
    BY <2>1, <2>4 DEF HasOutput, TickInv, TableInv
  <2>. QED
    BY <2>2, <2>4, <2>5 DEF GuiTable!Attached
<1>. QED
  BY <1>6, <1>7

-----------------------------------------------------------------------------
(* The panes for output                                                     *)

(* The test a pane is about.                                                *)
AboutIn(pane) == IF pane.pinned = Panes!NoTest THEN pane.selected ELSE pane.pinned

(* What a pane shows is of that test, or left over from before that test    *)
(* was pinned.                                                              *)
PaneIsRight(pane) ==
  /\ pane = [running |-> pane.running, selected |-> pane.selected, pinned |-> pane.pinned,
             lastText |-> pane.lastText, view |-> pane.view, rebuild |-> pane.rebuild, latest |-> pane.latest]
  /\ pane.selected \in Tests \cup {Panes!NoTest} /\ pane.pinned \in Tests \cup {Panes!NoTest}
  /\ pane.lastText.of \in {Panes!NoTest, AboutIn(pane)}
  /\ pane.view = pane.lastText \/ (pane.pinned # Panes!NoTest /\ pane.lastText = Panes!Empty)

(* What is read of a test's log is that test's.                             *)
LogsAreOwn(cache) ==
  /\ cache = [t \in Tests |-> [log |-> cache[t].log, text |-> cache[t].text]]
  /\ \A t \in Tests : cache[t].text.of \in {Panes!NoTest, t}

PanesInv ==
  /\ DOMAIN record \subseteq Tests /\ DOMAIN tick \subseteq Tests /\ DOMAIN live.latest \subseteq Tests
  /\ LogsAreOwn(readCache)
  /\ PaneIsRight(live)
  /\ live.pinned = picked /\ (picked # Panes!NoTest => picked \in Panes!ToSet(failed))

(* No test is NoTest.                                                       *)
LEMMA PaneTests ==
  /\ IsFiniteSet(Tests) /\ Tests \subseteq Int
  /\ Panes!NoTest \notin Tests
  /\ Panes!Empty.of = Panes!NoTest
<1>1. Panes!LiveConstantsOK
  BY RecordsConstantsOK
<1>2. Panes!IsFiniteSet(Tests) => IsFiniteSet(Tests)
  BY DEF IsFiniteSet, Panes!IsFiniteSet
<1>. QED
  BY <1>1, <1>2 DEF Panes!LiveConstantsOK, Panes!Empty

(* What is read of a log, and what is kept of it, is that log's.            *)
LEMMA LogIsOwn ==
  ASSUME LogsAreOwn(readCache), NEW t \in Tests, NEW limit
  PROVE  /\ Panes!ReadLive(readCache, t, limit).of \in {Panes!NoTest, t}
         /\ LogsAreOwn(Panes!CacheAfter(readCache, t, limit))
<1>. DEFINE text == Panes!ReadLive(readCache, t, limit)
            cache == [readCache EXCEPT ![t] = [log |-> log[t], text |-> text]]
<1>1. text.of \in {Panes!NoTest, t}
  BY PaneTests DEF Panes!ReadLive, LogsAreOwn
<1>. HIDE DEF text
<1>2. LogsAreOwn(cache)
  <2>1. readCache = [u \in Tests |-> readCache[u]]
    BY DEF LogsAreOwn
  <2>2. \A u \in Tests : readCache[u] = [log |-> readCache[u].log, text |-> readCache[u].text]
    BY DEF LogsAreOwn
  <2>3. cache = [u \in Tests |-> IF u = t THEN [log |-> log[t], text |-> text] ELSE readCache[u]]
    BY <2>1
  <2>4. \A u \in Tests : cache[u] = [log |-> cache[u].log, text |-> cache[u].text]
    BY <2>2, <2>3
  <2>. HIDE DEF cache
  <2>5. cache = [u \in Tests |-> [log |-> cache[u].log, text |-> cache[u].text]]
    BY <2>3, <2>4
  <2>6. \A u \in Tests : cache[u].text.of \in {Panes!NoTest, u}
    BY <1>1, <2>3 DEF LogsAreOwn
  <2>. QED
    BY <2>5, <2>6 DEF LogsAreOwn
<1>. QED
  BY <1>1, <1>2 DEF text, Panes!CacheAfter

(* And so is what is shown of a test.                                       *)
LEMMA OutputIsOwn ==
  ASSUME LogsAreOwn(readCache), NEW t \in Tests, NEW data
  PROVE  /\ Panes!Output(data, t).of \in {Panes!NoTest, t}
         /\ LogsAreOwn(Panes!CacheAfterOutput(data, t))
BY LogIsOwn DEF Panes!Output, Panes!CacheAfterOutput, Panes!Captured

(* A finite set of numbers has a least member.                              *)
LEMMA LeastOfFinite ==
  ASSUME NEW S \in SUBSET Int, IsFiniteSet(S), S # {}
  PROVE  \E m \in S : \A u \in S : m =< u
<1>. DEFINE First(t) == {u \in S : u =< t}
            sizes == {Cardinality(First(t)) : t \in S}
<1>1. \A t \in S : IsFiniteSet(First(t)) /\ Cardinality(First(t)) \in Nat
  BY FS_Subset, FS_CardinalityType
<1>2. sizes \in SUBSET Nat /\ sizes # {}
  BY <1>1
<1>3. PICK n \in sizes : \A k \in sizes : n =< k
  BY <1>2, LeastNumber
<1>4. PICK m \in S : n = Cardinality(First(m))
  BY <1>3
<1>5. ASSUME NEW u \in S, u < m
      PROVE  FALSE
  <2>1. First(u) \subseteq First(m) /\ m \in First(m) /\ m \notin First(u)
    <3>1. \A x \in S : x =< u => x =< m
      BY <1>5
    <3>2. u < m /\ u \in Int /\ m \in Int
      BY <1>5
    <3>3. First(u) \subseteq First(m)
      BY <3>1
    <3>4. m \in First(m) /\ m \notin First(u)
      BY <3>2
    <3>. QED
      BY <3>3, <3>4
  <2>2. Cardinality(First(m)) =< Cardinality(First(u))
    BY <1>3, <1>4
  <2>. HIDE DEF First
  <2>3. Cardinality(First(u)) =< Cardinality(First(m))
        /\ (Cardinality(First(u)) = Cardinality(First(m)) => First(u) = First(m))
    BY <1>1, <2>1, FS_Subset
  <2>. QED
    BY <1>1, <2>1, <2>2, <2>3
<1>. QED
  BY <1>5

(* The first of an ascending list is in it.                                 *)
LEMMA FirstInState ==
  ASSUME NEW data, DOMAIN data \subseteq Tests, NEW states,
         Panes!InState(data, states) # <<>>
  PROVE  Panes!InState(data, states)[1] \in Tests
<1>. DEFINE S == {t \in DOMAIN data : data[t].state \in states}
            Less(t) == {u \in S : u < t}
<1>1. S \subseteq Tests /\ IsFiniteSet(S) /\ S \subseteq Int
  BY PaneTests, FS_Subset
<1>2. \A X : Panes!Cardinality(X) = Cardinality(X)
  BY DEF Cardinality, Panes!Cardinality
<1>3. Panes!InState(data, states) =
        [k \in 1..Panes!Cardinality(S) |-> CHOOSE t \in S : 1 + Panes!Cardinality(Less(t)) = k]
  BY DEF Panes!InState, Panes!Ascending, Panes!PlaceIn
<1>. HIDE DEF S
<1>4. S # {}
  <2>1. CASE S = {}
    <3>1. Panes!Cardinality(S) = 0
      BY <1>2, <2>1, FS_EmptySet
    <3>2. Panes!InState(data, states) = <<>>
      BY <1>3, <3>1
    <3>. QED
      BY <3>2
  <2>. QED
    BY <2>1
<1>5. Cardinality(S) \in Nat /\ Cardinality(S) # 0
  BY <1>1, <1>4, FS_CardinalityType, FS_EmptySet
<1>6. PICK m \in S : \A u \in S : m =< u
  BY <1>1, <1>4, LeastOfFinite
<1>7. Less(m) = {}
  <2>1. \A u \in S : ~ (u < m)
    BY <1>1, <1>6
  <2>. QED
    BY <2>1
<1>8. Panes!Cardinality(Less(m)) = 0
  BY <1>2, <1>7, FS_EmptySet
<1>. HIDE DEF Less
<1>9. (CHOOSE t \in S : 1 + Panes!Cardinality(Less(t)) = 1) \in S
  BY <1>8
<1>10. 1 \in 1..Panes!Cardinality(S)
  BY <1>2, <1>5
<1>. QED
  BY <1>1, <1>3, <1>9, <1>10

(* Rendering what is pinned, or streaming what is selected.                 *)
LEMMA RenderIsRight ==
  ASSUME LogsAreOwn(readCache), NEW pane, PaneIsRight(pane), pane.pinned # Panes!NoTest,
         NEW data, Panes!RenderPinned(pane, data)
  PROVE  /\ PaneIsRight(live') /\ live'.pinned = pane.pinned /\ live'.latest = pane.latest
         /\ LogsAreOwn(readCache')
<1>. DEFINE text == Panes!Output(data, pane.pinned)
<1>1. pane.pinned \in Tests
  BY DEF PaneIsRight
<1>2. text.of \in {Panes!NoTest, pane.pinned} /\ LogsAreOwn(readCache')
  BY <1>1, OutputIsOwn DEF Panes!RenderPinned
<1>3. live' = IF text = pane.lastText THEN pane ELSE [pane EXCEPT !.lastText = text, !.view = text]
  BY DEF Panes!RenderPinned
<1>. HIDE DEF text
<1>4. CASE text = pane.lastText
  BY <1>2, <1>3, <1>4
<1>5. CASE text # pane.lastText
  <2>1. live' = [running |-> pane.running, selected |-> pane.selected, pinned |-> pane.pinned,
                 lastText |-> text, view |-> text, rebuild |-> pane.rebuild, latest |-> pane.latest]
    BY <1>3, <1>5 DEF PaneIsRight
  <2>. QED
    BY <1>2, <2>1 DEF PaneIsRight, AboutIn
<1>. QED
  BY <1>4, <1>5

(* What is about to be streamed: what was streamed before, if the selected  *)
(* test is still there.                                                     *)
AboutToStream(pane) ==
  /\ pane = [running |-> pane.running, selected |-> pane.selected, pinned |-> Panes!NoTest,
             lastText |-> pane.lastText, view |-> pane.lastText, rebuild |-> pane.rebuild, latest |-> pane.latest]
  /\ pane.selected \in Tests \cup {Panes!NoTest}
  /\ pane.selected # Panes!NoTest => pane.lastText.of \in {Panes!NoTest, pane.selected}

(* A streaming pane shows the test that is selected.                        *)
LEMMA StreamIsRight ==
  ASSUME LogsAreOwn(readCache), NEW pane, AboutToStream(pane), Panes!Stream(pane)
  PROVE  /\ PaneIsRight(live') /\ live'.pinned = Panes!NoTest /\ live'.latest = pane.latest
         /\ LogsAreOwn(readCache')
<1>. DEFINE With(text) == [running |-> pane.running, selected |-> pane.selected, pinned |-> Panes!NoTest,
                           lastText |-> text, view |-> text, rebuild |-> pane.rebuild, latest |-> pane.latest]
<1>1. pane = With(pane.lastText) /\ pane.selected \in Tests \cup {Panes!NoTest}
  BY DEF AboutToStream
<1>2. ASSUME NEW text, NEW x, x = [pane EXCEPT !.lastText = text, !.view = text]
      PROVE  x = With(text)
  <2>1. PICK a, b, c, d, e, f, g :
          pane = [running |-> a, selected |-> b, pinned |-> c, lastText |-> d, view |-> e, rebuild |-> f, latest |-> g]
          /\ c = Panes!NoTest
    BY <1>1
  <2>. QED
    BY <1>2, <2>1
<1>3. ASSUME NEW text, text.of \in {Panes!NoTest, pane.selected}
      PROVE  PaneIsRight(With(text)) /\ With(text).pinned = Panes!NoTest /\ With(text).latest = pane.latest
  BY <1>1, <1>3 DEF PaneIsRight, AboutIn
<1>4. CASE pane.selected = Panes!NoTest
  <2>1. live' = With(Panes!Empty) /\ readCache' = readCache
    BY <1>1, <1>2, <1>4 DEF Panes!Stream
  <2>. HIDE DEF With
  <2>. QED
    BY <1>3, <2>1, PaneTests
<1>5. CASE pane.selected # Panes!NoTest
  <2>. DEFINE text == Panes!ReadLive(readCache, pane.selected, Panes!TailOf)
  <2>1. live' = With(text)
    BY <1>1, <1>2, <1>5 DEF Panes!Stream
  <2>2. text.of \in {Panes!NoTest, pane.selected} /\ LogsAreOwn(readCache')
    BY <1>1, <1>5, LogIsOwn DEF Panes!Stream
  <2>. HIDE DEF With, text
  <2>. QED
    BY <1>3, <2>1, <2>2
<1>. QED
  BY <1>4, <1>5

(* Who was streamed still is, if it runs; who is not is cleared.            *)
LEMMA RebuiltIsRight ==
  ASSUME NEW pane, PaneIsRight(pane), pane.pinned = Panes!NoTest,
         NEW data, DOMAIN data \subseteq Tests, NEW states
  PROVE  /\ AboutToStream(Panes!Rebuilt(pane, Panes!InState(data, states)))
         /\ Panes!Rebuilt(pane, Panes!InState(data, states)).latest = pane.latest
<1>. DEFINE names == Panes!InState(data, states)
            keep == pane.selected \in Panes!ToSet(names)
            next == IF names = <<>> THEN Panes!NoTest ELSE IF keep THEN pane.selected ELSE names[1]
            new == Panes!Rebuilt(pane, names)
            With(text) == [running |-> names, selected |-> next, pinned |-> Panes!NoTest,
                           lastText |-> text, view |-> text, rebuild |-> FALSE, latest |-> pane.latest]
<1>1. names # <<>> => names[1] \in Tests
  BY FirstInState
<1>2. next \in Tests \cup {Panes!NoTest}
  BY <1>1 DEF PaneIsRight
<1>3. pane = [running |-> pane.running, selected |-> pane.selected, pinned |-> Panes!NoTest,
              lastText |-> pane.lastText, view |-> pane.lastText, rebuild |-> pane.rebuild, latest |-> pane.latest]
      /\ pane.lastText.of \in {Panes!NoTest, pane.selected}
  BY DEF PaneIsRight, AboutIn
<1>4. new = IF next # Panes!NoTest /\ ~ keep THEN With(Panes!Empty) ELSE With(pane.lastText)
  <2>1. new = IF next # Panes!NoTest /\ ~ keep
              THEN [pane EXCEPT !.running = names, !.rebuild = FALSE, !.selected = next,
                                !.lastText = Panes!Empty, !.view = Panes!Empty]
              ELSE [pane EXCEPT !.running = names, !.rebuild = FALSE, !.selected = next]
    BY DEF Panes!Rebuilt
  <2>. HIDE DEF names, next, keep, new
  <2>0. PICK a, b, d, f, g :
          /\ pane = [running |-> a, selected |-> b, pinned |-> Panes!NoTest,
                     lastText |-> d, view |-> d, rebuild |-> f, latest |-> g]
          /\ pane.lastText = d /\ pane.latest = g
    BY <1>3
  <2>1a. pane = [running |-> a, selected |-> b, pinned |-> Panes!NoTest,
                 lastText |-> d, view |-> d, rebuild |-> f, latest |-> g]
    BY <2>0
  <2>2. CASE next # Panes!NoTest /\ ~ keep
    <3>1. new = [pane EXCEPT !.running = names, !.rebuild = FALSE, !.selected = next,
                             !.lastText = Panes!Empty, !.view = Panes!Empty]
      BY <2>1, <2>2
    <3>2. new = With(Panes!Empty)
      BY <2>0, <3>1
    <3>. QED
      BY <2>2, <3>2
  <2>3. CASE ~ (next # Panes!NoTest /\ ~ keep)
    <3>1. new = [pane EXCEPT !.running = names, !.rebuild = FALSE, !.selected = next]
      BY <2>1, <2>3
    <3>2. new = [running |-> names, selected |-> next, pinned |-> Panes!NoTest,
                 lastText |-> d, view |-> d, rebuild |-> FALSE, latest |-> g]
      BY ONLY <2>1a, <3>1
    <3>3. d = pane.lastText /\ g = pane.latest
      BY <2>0
    <3>. QED
      BY <2>3, <3>2, <3>3
  <2>. QED
    BY <2>2, <2>3
<1>5. keep /\ next # Panes!NoTest => next = pane.selected
  OBVIOUS
<1>. HIDE DEF names, next, keep, new
<1>6. AboutToStream(new) /\ new.latest = pane.latest
  <2>1. CASE next # Panes!NoTest /\ ~ keep
    BY <1>2, <1>4, <2>1, PaneTests DEF AboutToStream
  <2>2. CASE ~ (next # Panes!NoTest /\ ~ keep)
    BY <1>2, <1>3, <1>4, <1>5, <2>2 DEF AboutToStream
  <2>. QED
    BY <2>1, <2>2
<1>. QED
  BY <1>6 DEF new, names

(* LiveOutputWindow.update_tick leaves the pane right.                      *)
LEMMA UpdateIsRight ==
  ASSUME PanesInv, NEW data, DOMAIN data \subseteq Tests, Panes!UpdatePane(data)
  PROVE  /\ PaneIsRight(live') /\ live'.pinned = live.pinned /\ live'.latest = data
         /\ LogsAreOwn(readCache')
<1>. DEFINE pane == [live EXCEPT !.latest = data]
            names == Panes!InState(data, {"Running"})
<1>1. PaneIsRight(pane) /\ pane.latest = data /\ pane.pinned = live.pinned
  <2>1. pane = [running |-> live.running, selected |-> live.selected, pinned |-> live.pinned,
                lastText |-> live.lastText, view |-> live.view, rebuild |-> live.rebuild, latest |-> data]
    BY DEF PanesInv, PaneIsRight
  <2>. HIDE DEF pane
  <2>. QED
    BY <2>1 DEF PanesInv, PaneIsRight, AboutIn
<1>2. IF pane.pinned # Panes!NoTest THEN Panes!RenderPinned(pane, data)
      ELSE Panes!Stream(IF names # pane.running \/ pane.rebuild THEN Panes!Rebuilt(pane, names) ELSE pane)
  BY DEF Panes!UpdatePane
<1>3. LogsAreOwn(readCache)
  BY DEF PanesInv
<1>. HIDE DEF pane
<1>4. CASE pane.pinned # Panes!NoTest
  BY <1>1, <1>2, <1>3, <1>4, RenderIsRight
<1>5. CASE pane.pinned = Panes!NoTest
  <2>. DEFINE next == IF names # pane.running \/ pane.rebuild THEN Panes!Rebuilt(pane, names) ELSE pane
  <2>1. AboutToStream(pane)
    BY <1>1, <1>5 DEF PaneIsRight, AboutIn, AboutToStream
  <2>2. AboutToStream(next) /\ next.latest = data
    BY <1>1, <1>5, <2>1, RebuiltIsRight
  <2>3. Panes!Stream(next)
    BY <1>2, <1>5
  <2>. HIDE DEF next
  <2>. QED
    BY <1>1, <1>3, <1>5, <2>2, <2>3, StreamIsRight
<1>. QED
  BY <1>4, <1>5

(* At first there is nothing to show.                                       *)
LEMMA PanesBegin == Panes!Init => PanesInv
<1>. SUFFICES ASSUME Panes!Init PROVE PanesInv
  OBVIOUS
<1>1. /\ record = <<>> /\ tick = <<>> /\ failed = <<>> /\ picked = Panes!NoTest
      /\ live = [running |-> <<>>, selected |-> Panes!NoTest, pinned |-> Panes!NoTest,
                 lastText |-> Panes!Empty, view |-> Panes!Empty, rebuild |-> FALSE, latest |-> <<>>]
      /\ readCache = [t \in Tests |-> [log |-> Panes!NoLog, text |-> Panes!Empty]]
  BY DEF Panes!Init, Panes!WorldInit
<1>2. LogsAreOwn(readCache)
  <2>1. \A t \in Tests : readCache[t] = [log |-> Panes!NoLog, text |-> Panes!Empty]
    BY <1>1
  <2>2. readCache = [t \in Tests |-> [log |-> readCache[t].log, text |-> readCache[t].text]]
    BY <1>1
  <2>. QED
    BY <2>1, <2>2, PaneTests DEF LogsAreOwn
<1>3. PaneIsRight(live)
  BY <1>1, PaneTests DEF PaneIsRight
<1>4. DOMAIN record = {} /\ DOMAIN tick = {} /\ DOMAIN live.latest = {}
  BY <1>1
<1>. QED
  BY <1>1, <1>2, <1>3, <1>4 DEF PanesInv

(* Records are of tests.                                                    *)
LEMMA RecordsAreOfTests ==
  ASSUME DOMAIN record \subseteq Tests, Panes!RecordsChange
  PROVE  DOMAIN record' \subseteq Tests
<1>1. CASE Panes!NewRun
  <2>1. DOMAIN record' = {}
    BY <1>1 DEF Panes!NewRun
  <2>. QED
    BY <2>1
<1>2. ASSUME NEW tests \in SUBSET Tests, NEW kept, Panes!Enqueue(tests, kept)
      PROVE  DOMAIN record' \subseteq Tests
  BY <1>2 DEF Panes!Enqueue
<1>3. ASSUME NEW t, NEW from, NEW to, NEW out, Panes!Advance(t, from, to, out)
      PROVE  DOMAIN record' \subseteq Tests
  BY <1>3 DEF Panes!Advance
<1>4. CASE \E t \in Tests : Panes!StartTest(t) \/ Panes!EndTest(t) \/ Panes!TerminateTest(t)
  BY <1>3, <1>4 DEF Panes!StartTest, Panes!EndTest, Panes!TerminateTest
<1>. QED
  BY <1>1, <1>2, <1>4 DEF Panes!RecordsChange

(* Records and logs may change; what was read stays.                        *)
LEMMA WorldLeavesPanes ==
  ASSUME PanesInv, Panes!WorldMoves
  PROVE  PanesInv'
<1>1. UNCHANGED <<readCache, step, tick, failed, picked, live, clicks>>
  BY DEF Panes!WorldMoves, Panes!panes
<1>2. DOMAIN record' \subseteq Tests
  <2>1. CASE Panes!RecordsChange
    BY <2>1, RecordsAreOfTests DEF PanesInv
  <2>2. CASE Panes!LogsChange
    BY <2>2 DEF PanesInv, Panes!LogsChange, Panes!WriteLog
  <2>. QED
    BY <2>1, <2>2 DEF Panes!WorldMoves
<1>. QED
  BY <1>1, <1>2 DEF PanesInv, PaneIsRight, AboutIn, LogsAreOwn

(* Unpinning clears the pane.                                               *)
LEMMA UnpinnedIsRight ==
  ASSUME PaneIsRight(live)
  PROVE  /\ PaneIsRight(Panes!Unpinned) /\ Panes!Unpinned.pinned = Panes!NoTest
         /\ Panes!Unpinned.latest = live.latest
<1>1. Panes!Unpinned = [running |-> live.running, selected |-> live.selected, pinned |-> Panes!NoTest,
                        lastText |-> Panes!Empty, view |-> Panes!Empty, rebuild |-> TRUE, latest |-> live.latest]
  <2>1. PICK a, b, c, d, e, f, g :
          live = [running |-> a, selected |-> b, pinned |-> c, lastText |-> d, view |-> e, rebuild |-> f, latest |-> g]
    BY DEF PaneIsRight
  <2>. DEFINE new == Panes!Unpinned
  <2>2. new = [live EXCEPT !.pinned = Panes!NoTest, !.lastText = Panes!Empty, !.view = Panes!Empty, !.rebuild = TRUE]
    BY DEF Panes!Unpinned
  <2>. HIDE DEF new
  <2>3. new = [running |-> live.running, selected |-> live.selected, pinned |-> Panes!NoTest,
               lastText |-> Panes!Empty, view |-> Panes!Empty, rebuild |-> TRUE, latest |-> live.latest]
    BY <2>1, <2>2
  <2>. QED
    BY <2>3 DEF new
<1>. QED
  BY <1>1, PaneTests DEF PaneIsRight

(* The steps of a tick: a test that is pinned no longer is unpinned,        *)
LEMMA FailedLeavesPanes ==
  ASSUME PanesInv, Panes!UpdateFailed
  PROVE  PanesInv'
<1>. DEFINE names == Panes!InState(record, {"Fail", "Terminated"})
            kept == IF names = failed THEN picked ELSE Panes!Restored(names)
<1>1. /\ tick' = record /\ failed' = names /\ picked' = kept
      /\ live' = IF kept # picked THEN Panes!Unpinned ELSE live
      /\ record' = record /\ readCache' = readCache
  BY DEF Panes!UpdateFailed, Panes!world
<1>2. kept \in {picked, Panes!NoTest} /\ (kept # Panes!NoTest => kept \in Panes!ToSet(names))
  BY DEF PanesInv, Panes!Restored
<1>. HIDE DEF names, kept
<1>3. Panes!ToSet(failed)' = Panes!ToSet(names)
  BY <1>1 DEF Panes!ToSet
<1>4. PaneIsRight(live)' /\ live'.pinned = kept /\ live'.latest = live.latest
  <2>1. CASE kept # picked
    BY <1>1, <1>2, <2>1, UnpinnedIsRight DEF PanesInv, PaneIsRight, AboutIn
  <2>2. CASE kept = picked
    BY <1>1, <2>2 DEF PanesInv, PaneIsRight, AboutIn
  <2>. QED
    BY <2>1, <2>2
<1>5. LogsAreOwn(readCache)'
  BY <1>1 DEF PanesInv, LogsAreOwn
<1>. QED
  BY <1>1, <1>2, <1>3, <1>4, <1>5 DEF PanesInv

(* and the pane follows the tick, or the one before if it was unpinned.     *)
LEMMA UpdateLeavesPanes ==
  ASSUME PanesInv, Panes!UpdateUnpinned \/ Panes!UpdateLive
  PROVE  PanesInv'
<1>1. PICK d \in {tick, live.latest} : Panes!UpdatePane(d)
  BY DEF Panes!UpdateUnpinned, Panes!UpdateLive
<1>2. record' = record /\ tick' = tick /\ failed' = failed /\ picked' = picked
  BY DEF Panes!UpdateUnpinned, Panes!UpdateLive, Panes!world
<1>3. DOMAIN d \subseteq Tests
  BY <1>1 DEF PanesInv
<1>4. PaneIsRight(live') /\ live'.pinned = live.pinned /\ live'.latest = d /\ LogsAreOwn(readCache')
  BY <1>1, <1>3, UpdateIsRight
<1>. QED
  BY <1>2, <1>3, <1>4 DEF PanesInv, Panes!ToSet

(* A click pins a test, or unpins the one that is.                          *)
LEMMA ClickLeavesPanes ==
  ASSUME PanesInv, NEW t \in Tests, Panes!ClickFailed(t)
  PROVE  PanesInv'
<1>1. record' = record /\ tick' = tick /\ failed' = failed /\ t \in Panes!ToSet(failed)
  BY DEF Panes!ClickFailed, Panes!world
<1>2. LogsAreOwn(readCache) /\ PaneIsRight(live) /\ DOMAIN live.latest \subseteq Tests
  BY DEF PanesInv
<1>3. CASE t = picked
  <2>. DEFINE names == Panes!InState(live.latest, {"Running"})
              pane == Panes!Rebuilt(Panes!Unpinned, names)
  <2>1. picked' = Panes!NoTest /\ Panes!Stream(pane)
    BY <1>3 DEF Panes!ClickFailed
  <2>2. AboutToStream(pane) /\ pane.latest = live.latest
    BY <1>2, UnpinnedIsRight, RebuiltIsRight
  <2>. HIDE DEF pane
  <2>3. PaneIsRight(live') /\ live'.pinned = Panes!NoTest /\ live'.latest = live.latest /\ LogsAreOwn(readCache')
    BY <1>2, <2>1, <2>2, StreamIsRight
  <2>. QED
    BY <1>1, <1>2, <2>1, <2>3 DEF PanesInv
<1>4. CASE t # picked
  <2>. DEFINE pane == [live EXCEPT !.pinned = t, !.lastText = Panes!Empty]
  <2>0. pane = [live EXCEPT !.pinned = t, !.lastText = Panes!Empty]
    OBVIOUS
  <2>1. picked' = t /\ Panes!RenderPinned(pane, live.latest)
    BY <1>4 DEF Panes!ClickFailed
  <2>. HIDE DEF pane
  <2>2. pane = [running |-> live.running, selected |-> live.selected, pinned |-> t,
                lastText |-> Panes!Empty, view |-> live.view, rebuild |-> live.rebuild, latest |-> live.latest]
    <3>1. PICK a, b, c, d, e, f, g :
            live = [running |-> a, selected |-> b, pinned |-> c, lastText |-> d, view |-> e, rebuild |-> f, latest |-> g]
      BY <1>2 DEF PaneIsRight
    <3>. QED
      BY <2>0, <3>1
  <2>3. PaneIsRight(pane) /\ pane.pinned = t /\ pane.latest = live.latest /\ t # Panes!NoTest
    BY <1>2, <2>2, PaneTests DEF PaneIsRight
  <2>4. PaneIsRight(live') /\ live'.pinned = t /\ live'.latest = live.latest /\ LogsAreOwn(readCache')
    BY <1>2, <2>1, <2>3, RenderIsRight
  <2>. QED
    BY <1>1, <1>2, <2>1, <2>4 DEF PanesInv, Panes!ToSet
<1>. QED
  BY <1>3, <1>4

(* Another running test is selected while none is pinned.                   *)
LEMMA SelectLeavesPanes ==
  ASSUME PanesInv, NEW t \in Tests, Panes!SelectRunning(t)
  PROVE  PanesInv'
<1>1. /\ live.pinned = Panes!NoTest
      /\ live' = [live EXCEPT !.selected = t, !.lastText = Panes!Empty, !.view = Panes!Empty]
      /\ UNCHANGED <<record, tick, failed, picked, readCache>>
  BY DEF Panes!SelectRunning, Panes!world
<1>2. live' = [running |-> live.running, selected |-> t, pinned |-> Panes!NoTest,
               lastText |-> Panes!Empty, view |-> Panes!Empty, rebuild |-> live.rebuild, latest |-> live.latest]
  BY <1>1 DEF PanesInv, PaneIsRight
<1>3. PaneIsRight(live')
  BY <1>2, PaneTests DEF PaneIsRight
<1>. QED
  BY <1>1, <1>2, <1>3 DEF PanesInv, LogsAreOwn

(* Every step of the panes preserves the invariant.                         *)
LEMMA PanesKeepInv == PanesInv /\ Panes!Next => PanesInv'
BY WorldLeavesPanes, FailedLeavesPanes, UpdateLeavesPanes, ClickLeavesPanes, SelectLeavesPanes DEF Panes!Next

(* Checked together with other components, the panes are OutputPanes'.      *)
LEMMA RecordsPanes ==
  /\ RecordsInit => (focus = "panes" => PanesInv)
  /\ (focus = "panes" => PanesInv)
     /\ [HistoryStep \/ TickStep \/ TabsStep \/ PanesStep]_<<focus, vars, tickVars, shownVars, tabVars, paneVars>>
       => (focus = "panes" => PanesInv)'
<1>1. RecordsInit => PanesInv
  BY PanesBegin DEF RecordsInit
<1>2. HistoryStep \/ TickStep \/ TabsStep => focus # "panes" /\ focus' = focus
  BY DEF HistoryStep, TickStep, TabsStep
<1>3. PanesStep => Panes!Next /\ focus = "panes"
  BY DEF PanesStep
<1>4. PanesInv /\ UNCHANGED <<focus, vars, tickVars, shownVars, tabVars, paneVars>> => PanesInv'
  BY DEF PanesInv, PaneIsRight, AboutIn, LogsAreOwn, Panes!ToSet, shownVars, paneVars
<1>5. UNCHANGED <<focus, vars, tickVars, shownVars, tabVars, paneVars>> => focus' = focus
  OBVIOUS
<1>. QED
  BY <1>1, <1>2, <1>3, <1>4, <1>5, PanesKeepInv

-----------------------------------------------------------------------------
(* The tabs                                                                 *)

(* Tests with the states they may be in.                                    *)
TabStates == {"Fail", "Pass", "Queued", "Running", "Terminated"}

WithStates(data) ==
  /\ DOMAIN data \subseteq Tests
  /\ \A t \in DOMAIN data : data[t].state \in TabStates
  /\ \A t \in DOMAIN data : data[t] = [state |-> data[t].state, out |-> data[t].out, run |-> data[t].run]

(* As many rows as tests, of the states they are in, none left out.         *)
RowsShow(list, data) ==
  /\ list = [i \in 1..Cardinality(DOMAIN data) |-> list[i]]
  /\ \A i \in DOMAIN list : list[i].name \in DOMAIN data /\ list[i].state = data[list[i].name].state
  /\ \A t \in DOMAIN data : \E i \in DOMAIN list : list[i].name = t

(* The index finds them.                                                    *)
Finds(index, list, data) ==
  /\ index = [t \in DOMAIN data |-> index[t]]
  /\ \A t \in DOMAIN data : index[t] \in DOMAIN list /\ list[index[t]].name = t

(* No row comes before one with a key that sorts first.                     *)
InSortOrder(list, by) ==
  \A i, j \in DOMAIN list : i < j =>
    IF by.descending THEN Tabs!SortKey(list[i], by) >= Tabs!SortKey(list[j], by)
    ELSE Tabs!SortKey(list[i], by) =< Tabs!SortKey(list[j], by)

Sorts == [column : {"none", "name", "state"}, descending : BOOLEAN]

(* What the tabs show, and that they show the last tick.                    *)
TabsInv ==
  /\ WithStates(record) /\ WithStates(tick)
  /\ layout = Tabs!Listed(tick) /\ layoutOrder = layout
  /\ RowsShow(tableRows, tick) /\ Finds(rowByName, tableRows, tick)
  /\ sort \in Sorts /\ (sort.column # "none" => InSortOrder(tableRows, sort))

(* These are cardinalities, too.                                            *)
LEMMA TabSizes == \A S : Tabs!Cardinality(S) = Cardinality(S)
BY DEF Cardinality, Tabs!Cardinality

(* What data has is a finite set of numbers.                                *)
LEMMA TestsOfData ==
  ASSUME NEW data, WithStates(data)
  PROVE  /\ IsFiniteSet(DOMAIN data) /\ DOMAIN data \subseteq Int
         /\ Cardinality(DOMAIN data) \in Nat
<1>1. IsFiniteSet(DOMAIN data)
  BY PaneTests, FS_Subset DEF WithStates
<1>2. DOMAIN data \subseteq Int
  BY PaneTests DEF WithStates
<1>. QED
  BY <1>1, <1>2, FS_CardinalityType

(* The numbers in a set have a place each.                                  *)
LEMMA PlacesAreOwn ==
  ASSUME NEW S \in SUBSET Int, IsFiniteSet(S)
  PROVE  /\ \A t \in S : Tabs!PlaceIn(S, t) \in 1..Cardinality(S)
         /\ \A t, u \in S : Tabs!PlaceIn(S, t) = Tabs!PlaceIn(S, u) => t = u
<1>. DEFINE n == Cardinality(S)
            Less(t) == {u \in S : u < t}
<1>0. n \in Nat
  BY FS_CardinalityType
<1>1. \A t : Tabs!PlaceIn(S, t) = 1 + Cardinality(Less(t))
  BY TabSizes DEF Tabs!PlaceIn
<1>2. \A t, u : u \in Less(t) <=> u \in S /\ u < t
  OBVIOUS
<1>. HIDE DEF Less
<1>3. ASSUME NEW t \in S
      PROVE  IsFiniteSet(Less(t)) /\ Cardinality(Less(t)) \in 0..(n - 1)
  <2>1. Less(t) \in SUBSET (S \ {t})
    BY <1>2
  <2>2. IsFiniteSet(S \ {t}) /\ Cardinality(S \ {t}) = n - 1
    BY FS_RemoveElement
  <2>3. IsFiniteSet(Less(t)) /\ Cardinality(Less(t)) =< n - 1
    BY <2>1, <2>2, FS_Subset
  <2>. QED
    BY <1>0, <2>3, FS_CardinalityType
<1>4. ASSUME NEW t \in S, NEW u \in S, t < u
      PROVE  Cardinality(Less(t)) < Cardinality(Less(u))
  <2>1. Less(t) \cup {t} \in SUBSET Less(u)
    <3>1. \A x \in S : x < t => x < u
      BY <1>4
    <3>2. \A x \in Less(t) \cup {t} : x \in Less(u)
      BY <1>2, <1>4, <3>1
    <3>. QED
      BY <3>2
  <2>2. t \notin Less(t)
    BY <1>2
  <2>3. Cardinality(Less(t) \cup {t}) = Cardinality(Less(t)) + 1
    BY <1>3, <2>2, FS_AddElement
  <2>4. Cardinality(Less(t) \cup {t}) =< Cardinality(Less(u))
    BY <1>3, <2>1, FS_Subset
  <2>. QED
    BY <1>3, <2>3, <2>4
<1>5. ASSUME NEW t \in S, NEW u \in S, Tabs!PlaceIn(S, t) = Tabs!PlaceIn(S, u)
      PROVE  t = u
  <2>1. Cardinality(Less(t)) = Cardinality(Less(u))
    BY <1>1, <1>3, <1>5
  <2>2. ~ (t < u) /\ ~ (u < t)
    BY <1>3, <1>4, <2>1
  <2>. QED
    BY <2>2
<1>6. ASSUME NEW t \in S
      PROVE  Tabs!PlaceIn(S, t) \in 1..n
  BY <1>0, <1>1, <1>3
<1>. QED
  BY <1>5, <1>6

(* A one-to-one function into an interval that is as large is onto.         *)
LEMMA PlacesAreTaken ==
  ASSUME NEW S, IsFiniteSet(S), NEW place \in [S -> 1..Cardinality(S)],
         \A t, u \in S : place[t] = place[u] => t = u
  PROVE  \A k \in 1..Cardinality(S) : \E t \in S : place[t] = k
<1>0. Cardinality(S) \in Nat
  BY FS_CardinalityType
<1>1. place \in Injection(S, 1..Cardinality(S))
  BY DEF Injection, IsInjective
<1>2. IsFiniteSet(1..Cardinality(S)) /\ Cardinality(1..Cardinality(S)) = Cardinality(S)
  BY <1>0, FS_Interval
<1>3. place \in Surjection(S, 1..Cardinality(S))
  BY <1>1, <1>2, FS_Injection
<1>. QED
  BY <1>3 DEF Surjection

(* An ascending list is of the members of the set.                          *)
LEMMA AscendingIsOf ==
  ASSUME NEW S \in SUBSET Int, IsFiniteSet(S)
  PROVE  Tabs!Ascending(S) \in [1..Cardinality(S) -> S]
<1>. DEFINE place == [t \in S |-> Tabs!PlaceIn(S, t)]
<1>1. place \in [S -> 1..Cardinality(S)] /\ \A t, u \in S : place[t] = place[u] => t = u
  BY PlacesAreOwn
<1>2. \A t \in S : place[t] = Tabs!PlaceIn(S, t)
  OBVIOUS
<1>. HIDE DEF place
<1>3. \A k \in 1..Cardinality(S) : \E t \in S : place[t] = k
  BY <1>1, PlacesAreTaken
<1>4. \A k \in 1..Cardinality(S) : (CHOOSE t \in S : Tabs!PlaceIn(S, t) = k) \in S
  BY <1>2, <1>3
<1>5. Tabs!Ascending(S) = [k \in 1..Cardinality(S) |-> CHOOSE t \in S : Tabs!PlaceIn(S, t) = k]
  BY TabSizes DEF Tabs!Ascending
<1>. QED
  BY <1>4, <1>5

(* The numbers from 1 on are listed as they are.                            *)
LEMMA AscendingInterval ==
  ASSUME NEW n \in Nat
  PROVE  Tabs!Ascending(1..n) = [k \in 1..n |-> k]
<1>1. IsFiniteSet(1..n) /\ Cardinality(1..n) = n /\ 1..n \in SUBSET Int
  BY FS_Interval
<1>2. ASSUME NEW k \in 1..n PROVE Tabs!PlaceIn(1..n, k) = k
  <2>. DEFINE less == {u \in 1..n : u < k}
  <2>1. less = 1..(k - 1)
    OBVIOUS
  <2>2. Cardinality(1..(k - 1)) = k - 1
    BY FS_Interval
  <2>3. Tabs!PlaceIn(1..n, k) = 1 + Tabs!Cardinality(less)
    BY DEF Tabs!PlaceIn
  <2>. HIDE DEF less
  <2>4. Tabs!Cardinality(less) = k - 1
    BY <2>1, <2>2, TabSizes
  <2>. QED
    BY <2>3, <2>4
<1>3. \A k \in 1..n : (CHOOSE t \in 1..n : Tabs!PlaceIn(1..n, t) = k) = k
  BY <1>2
<1>4. Tabs!Ascending(1..n) = [k \in 1..n |-> CHOOSE t \in 1..n : Tabs!PlaceIn(1..n, t) = k]
  BY <1>1, TabSizes DEF Tabs!Ascending
<1>. QED
  BY <1>3, <1>4

(* The bars are laid out in order.                                          *)
LEMMA LayoutIsOrdered ==
  ASSUME WithStates(record), layoutOrder = layout
  PROVE  Tabs!Layout = Tabs!Desired
<1>1. CASE Tabs!Desired # layoutOrder
  BY <1>1 DEF Tabs!Layout
<1>2. CASE Tabs!Desired = layoutOrder
  <2>. DEFINE n == Cardinality(DOMAIN record)
              left == {i \in DOMAIN layout : layout[i] \in DOMAIN record}
              kept == Tabs!Ascending(left)
  <2>1. layout \in [1..n -> DOMAIN record] /\ n \in Nat
    BY <1>2, TestsOfData, AscendingIsOf DEF Tabs!Desired, Tabs!Listed
  <2>2. left = 1..n
    BY <2>1
  <2>3. kept = [k \in 1..n |-> k]
    BY <2>1, <2>2, AscendingInterval
  <2>4. Tabs!Layout = [k \in DOMAIN kept |-> layout[kept[k]]]
    BY <1>2 DEF Tabs!Layout
  <2>. HIDE DEF kept, n
  <2>5. [k \in DOMAIN kept |-> layout[kept[k]]] = [k \in 1..n |-> layout[k]]
    BY <2>3
  <2>. QED
    BY <1>2, <2>1, <2>4, <2>5
<1>. QED
  BY <1>1, <1>2

(* Rows sort by numbers.                                                    *)
LEMMA SortKeyIsInt ==
  ASSUME NEW row, row.name \in Tests, row.state \in TabStates, NEW by
  PROVE  Tabs!SortKey(row, by) \in Int
<1>. DEFINE texts == <<"Fail", "Pass", "Queued", "Running", "Terminated">>
<1>1. \E k \in 1..5 : row.state = texts[k]
  <2>1. texts[1] = "Fail" /\ texts[2] = "Pass" /\ texts[3] = "Queued" /\ texts[4] = "Running" /\ texts[5] = "Terminated"
    OBVIOUS
  <2>2. 1 \in 1..5 /\ 2 \in 1..5 /\ 3 \in 1..5 /\ 4 \in 1..5 /\ 5 \in 1..5
    OBVIOUS
  <2>. HIDE DEF texts
  <2>. QED
    BY <2>1, <2>2 DEF TabStates
<1>2. (CHOOSE k \in 1..5 : row.state = texts[k]) \in 1..5
  BY <1>1
<1>3. row.name \in Int
  BY PaneTests
<1>. DEFINE place == CHOOSE k \in 1..5 : row.state = texts[k]
<1>4. Tabs!SortKey(row, by) = IF by.column = "name" THEN row.name ELSE place
  BY DEF Tabs!SortKey
<1>. HIDE DEF texts
<1>a. place \in 1..5
  BY <1>2
<1>. HIDE DEF place
<1>5. place \in Int
  BY <1>a
<1>. QED
  BY <1>3, <1>4, <1>5

(* The keys of rows that are of data.                                       *)
LEMMA RowKeysAreInts ==
  ASSUME NEW data, WithStates(data), NEW list, RowsShow(list, data), NEW by
  PROVE  \A i \in DOMAIN list : Tabs!SortKey(list[i], by) \in Int
BY SortKeyIsInt DEF WithStates, RowsShow

(* Sorting permutes the rows so that they are in order.                     *)
LEMMA SortItemsIs ==
  ASSUME NEW D \in SUBSET Int, IsFiniteSet(D), D = 1..Cardinality(D),
         NEW list, list = [i \in D |-> list[i]], NEW by,
         \A i \in D : Tabs!SortKey(list[i], by) \in Int
  PROVE  \E order \in [D -> D] :
           /\ Tabs!SortItems(list, by) = [p \in D |-> list[order[p]]]
           /\ \A i \in D : \E p \in D : order[p] = i
           /\ InSortOrder(Tabs!SortItems(list, by), by)
<1>. DEFINE K(i) == Tabs!SortKey(list[i], by)
            pair == [i \in D |-> <<IF by.descending THEN -K(i) ELSE K(i), 0>>]
            Above(i, j) == \/ IF by.descending THEN K(i) > K(j) ELSE K(i) < K(j)
                           \/ K(i) = K(j) /\ i < j
            Ahead(i) == {j \in D : Above(j, i)}
            Behind(i) == {j \in D : Before(pair, j, i)}
            n == Cardinality(D)
<1>0. DOMAIN list = D
  OBVIOUS
<1>1. \A i \in D : K(i) \in Int
  OBVIOUS
<1>2. Tabs!SortItems(list, by) =
        [p \in D |-> list[CHOOSE i \in D : 1 + Tabs!Cardinality(Ahead(i)) = p]]
  BY <1>0 DEF Tabs!SortItems
<1>. HIDE DEF K
<1>3. \A i \in D : /\ pair[i] \in Int \X Int /\ pair[i][2] = 0
                   /\ pair[i][1] = IF by.descending THEN -K(i) ELSE K(i)
                   /\ pair[i] = <<IF by.descending THEN -K(i) ELSE K(i), 0>>
  BY <1>1
<1>. HIDE DEF pair
<1>4. \A i, j \in D : Before(pair, j, i) <=> Above(j, i)
  <2>. SUFFICES ASSUME NEW i \in D, NEW j \in D PROVE Before(pair, j, i) <=> Above(j, i)
    OBVIOUS
  <2>1. K(i) \in Int /\ K(j) \in Int
    BY <1>1
  <2>2. pair[i] = pair[j] <=> K(i) = K(j)
    BY <1>3, <2>1
  <2>. QED
    BY <1>3, <2>1, <2>2 DEF Before
<1>5. \A i \in D : Ahead(i) = Behind(i)
  BY <1>4
<1>a. SortedBy(D, pair) = [k \in 1..n |-> CHOOSE i \in D : 1 + Cardinality(Behind(i)) = k]
  BY DEF SortedBy, Before
<1>b. D = 1..n
  OBVIOUS
<1>. HIDE DEF n
<1>6. SortedBy(D, pair) = [k \in D |-> CHOOSE i \in D : 1 + Cardinality(Behind(i)) = k]
  BY <1>a, <1>b
<1>. HIDE DEF Ahead, Behind
<1>7. \A k : (CHOOSE i \in D : 1 + Tabs!Cardinality(Ahead(i)) = k) = (CHOOSE i \in D : 1 + Cardinality(Behind(i)) = k)
  <2>1. \A k : (CHOOSE i \in D : 1 + Tabs!Cardinality(Ahead(i)) = k) = (CHOOSE i \in D : 1 + Cardinality(Ahead(i)) = k)
    BY TabSizes
  <2>2. \A k : (CHOOSE i \in D : 1 + Cardinality(Ahead(i)) = k) = (CHOOSE i \in D : 1 + Cardinality(Behind(i)) = k)
    BY <1>5
  <2>. QED
    BY <2>1, <2>2
<1>. DEFINE order == SortedBy(D, pair)
<1>8. /\ order \in [D -> D]
      /\ \A i \in D : \E p \in D : order[p] = i
      /\ \A k, l \in D : k < l => Before(pair, order[k], order[l])
  <2>1. \A i \in D : pair[i] \in Int \X Int
    BY <1>3
  <2>2. /\ order \in [1..n -> D]
        /\ \A i \in D : \E p \in 1..n : order[p] = i
        /\ \A k, l \in 1..n : k < l => Before(pair, order[k], order[l])
    BY ONLY D \in SUBSET Int, IsFiniteSet(D), <2>1, SortedByIsSorted DEF n, order
  <2>. QED
    BY <1>b, <2>2
<1>9. Tabs!SortItems(list, by) = [p \in D |-> list[order[p]]]
  <2>1. \A p \in D : order[p] = CHOOSE i \in D : 1 + Tabs!Cardinality(Ahead(i)) = p
    BY <1>6, <1>7
  <2>. HIDE DEF order
  <2>. QED
    BY <1>2, <2>1
<1>. DEFINE new == Tabs!SortItems(list, by)
<1>. HIDE DEF order
<1>10. ASSUME NEW i \in D, NEW j \in D, i < j
       PROVE  IF by.descending THEN Tabs!SortKey(new[i], by) >= Tabs!SortKey(new[j], by)
              ELSE Tabs!SortKey(new[i], by) =< Tabs!SortKey(new[j], by)
  <2>1. Above(order[i], order[j]) /\ order[i] \in D /\ order[j] \in D
    BY <1>4, <1>8, <1>10
  <2>2. K(order[i]) \in Int /\ K(order[j]) \in Int
    BY <1>1, <2>1
  <2>3. IF by.descending THEN K(order[i]) >= K(order[j]) ELSE K(order[i]) =< K(order[j])
    BY <2>1, <2>2
  <2>4. new[i] = list[order[i]] /\ new[j] = list[order[j]]
    BY <1>9
  <2>. QED
    BY <2>3, <2>4 DEF K
<1>11. InSortOrder(new, by)
  BY <1>9, <1>10 DEF InSortOrder
<1>. QED
  BY <1>8, <1>9, <1>11

(* Rows that are in order stay as they are.                                 *)
LEMMA SortedStays ==
  ASSUME NEW D \in SUBSET Int, IsFiniteSet(D), D = 1..Cardinality(D),
         NEW list, list = [i \in D |-> list[i]], NEW by,
         \A i \in D : Tabs!SortKey(list[i], by) \in Int,
         InSortOrder(list, by)
  PROVE  Tabs!SortItems(list, by) = list
<1>. DEFINE K(i) == Tabs!SortKey(list[i], by)
            Above(i, j) == \/ IF by.descending THEN K(i) > K(j) ELSE K(i) < K(j)
                           \/ K(i) = K(j) /\ i < j
            Ahead(i) == {j \in D : Above(j, i)}
<1>0. DOMAIN list = D /\ Cardinality(D) \in Nat
  BY FS_CardinalityType
<1>1. \A i \in D : K(i) \in Int
  OBVIOUS
<1>2. Tabs!SortItems(list, by) =
        [p \in D |-> list[CHOOSE i \in D : 1 + Tabs!Cardinality(Ahead(i)) = p]]
  BY <1>0 DEF Tabs!SortItems
<1>3. \A i, j \in D : i < j => IF by.descending THEN K(i) >= K(j) ELSE K(i) =< K(j)
  BY <1>0 DEF InSortOrder
<1>. HIDE DEF K
<1>4. ASSUME NEW i \in D PROVE Ahead(i) = 1..(i - 1) /\ i \in Nat \ {0}
  <2>1. ASSUME NEW j \in D PROVE Above(j, i) <=> j < i
    <3>1. K(i) \in Int /\ K(j) \in Int
      BY <1>1
    <3>2. CASE j < i
      BY <1>3, <3>1, <3>2
    <3>3. CASE i < j
      BY <1>3, <3>1, <3>3
    <3>4. CASE i = j
      BY <3>1, <3>4
    <3>. QED
      BY <3>2, <3>3, <3>4
  <2>2. \A j : j \in 1..(i - 1) <=> j \in D /\ j < i
    BY <1>0
  <2>3. i \in Nat \ {0}
    BY <1>0
  <2>. QED
    BY <2>1, <2>2, <2>3
<1>. HIDE DEF Ahead
<1>5. ASSUME NEW i \in D PROVE 1 + Tabs!Cardinality(Ahead(i)) = i
  <2>. DEFINE m == i - 1
  <2>a. m \in Nat
    BY <1>4
  <2>. HIDE DEF m
  <2>b. Cardinality(1..m) = m
    BY <2>a, FS_Interval
  <2>1. Cardinality(1..(i - 1)) = i - 1
    BY <2>b DEF m
  <2>2. Tabs!Cardinality(Ahead(i)) = i - 1
    BY <1>4, <2>1, TabSizes
  <2>. QED
    BY <2>2
<1>6. \A p \in D : (CHOOSE i \in D : 1 + Tabs!Cardinality(Ahead(i)) = p) = p
  BY <1>5
<1>7. [p \in D |-> list[CHOOSE i \in D : 1 + Tabs!Cardinality(Ahead(i)) = p]] = [p \in D |-> list[p]]
  BY <1>6
<1>. QED
  BY <1>2, <1>7

(* Sorting keeps the rows what they are.                                    *)
LEMMA SortedRowsShow ==
  ASSUME NEW data, WithStates(data), NEW list, RowsShow(list, data), NEW by
  PROVE  RowsShow(Tabs!SortItems(list, by), data) /\ InSortOrder(Tabs!SortItems(list, by), by)
<1>. DEFINE D == 1..Cardinality(DOMAIN data)
            new == Tabs!SortItems(list, by)
<1>0. D \in SUBSET Int /\ IsFiniteSet(D) /\ D = 1..Cardinality(D)
  BY TestsOfData, FS_Interval
<1>1. list = [i \in D |-> list[i]]
  BY DEF RowsShow
<1>2. \A i \in D : Tabs!SortKey(list[i], by) \in Int
  BY <1>1, RowKeysAreInts
<1>. HIDE DEF D, new
<1>3. PICK order \in [D -> D] : /\ new = [p \in D |-> list[order[p]]]
                                /\ \A i \in D : \E p \in D : order[p] = i
                                /\ InSortOrder(new, by)
  BY <1>0, <1>1, <1>2, SortItemsIs DEF new
<1>4. DOMAIN list = D /\ DOMAIN new = D /\ new = [p \in D |-> new[p]]
  BY <1>1, <1>3
<1>5. \A p \in D : order[p] \in DOMAIN list /\ new[p] = list[order[p]]
  BY <1>3, <1>4
<1>6. /\ \A p \in D : new[p].name \in DOMAIN data /\ new[p].state = data[new[p].name].state
      /\ \A t \in DOMAIN data : \E p \in D : new[p].name = t
  <2>1. /\ \A i \in D : list[i].name \in DOMAIN data /\ list[i].state = data[list[i].name].state
        /\ \A t \in DOMAIN data : \E i \in D : list[i].name = t
    BY <1>4 DEF RowsShow
  <2>2. ASSUME NEW p \in D
        PROVE  new[p].name \in DOMAIN data /\ new[p].state = data[new[p].name].state
    <3>1. order[p] \in D /\ new[p] = list[order[p]]
      BY <1>4, <1>5
    <3>. QED
      BY <2>1, <3>1
  <2>3. ASSUME NEW t \in DOMAIN data PROVE \E p \in D : new[p].name = t
    <3>1. PICK i \in D : list[i].name = t
      BY <2>1
    <3>2. PICK p \in D : order[p] = i
      BY <1>3
    <3>. QED
      BY <1>5, <3>1, <3>2
  <2>. QED
    BY <2>2, <2>3
<1>7. RowsShow(new, data)
  BY <1>4, <1>6 DEF RowsShow, D
<1>. QED
  BY <1>3, <1>7 DEF new

(* An index of the rows finds them.                                         *)
LEMMA RowIndexFinds ==
  ASSUME NEW data, NEW list, RowsShow(list, data)
  PROVE  Finds(Tabs!RowIndex(list), list, data)
<1>. DEFINE index == Tabs!RowIndex(list)
            names == {list[i].name : i \in DOMAIN list}
<1>1. names = DOMAIN data
  <2>1. \A i \in DOMAIN list : list[i].name \in DOMAIN data
    BY DEF RowsShow
  <2>2. \A t \in DOMAIN data : t \in names
    BY DEF RowsShow
  <2>. QED
    BY <2>1, <2>2
<1>2. index = [t \in names |-> CHOOSE i \in DOMAIN list : list[i].name = t]
  BY DEF Tabs!RowIndex
<1>3. ASSUME NEW t \in DOMAIN data
      PROVE  index[t] \in DOMAIN list /\ list[index[t]].name = t
  <2>1. \E i \in DOMAIN list : list[i].name = t
    BY DEF RowsShow
  <2>2. index[t] = CHOOSE i \in DOMAIN list : list[i].name = t
    BY <1>1, <1>2
  <2>. QED
    BY <2>1, <2>2
<1>4. index = [t \in DOMAIN data |-> index[t]]
  BY <1>1, <1>2
<1>. HIDE DEF index
<1>5. Finds(index, list, data)
  BY <1>3, <1>4 DEF Finds
<1>. QED
  BY <1>5 DEF index

(* What a tick starts from: rows of tests it still has, each with a place.  *)
KnownRows(known) ==
  /\ DOMAIN known \subseteq DOMAIN record
  /\ \A t \in DOMAIN known : known[t] \in 1..Cardinality(DOMAIN known)
  /\ \A t, u \in DOMAIN known : known[t] = known[u] => t = u

LEMMA KnownRowsAre ==
  ASSUME TabsInv
  PROVE  KnownRows(IF Tabs!Shrunk THEN <<>> ELSE rowByName)
<1>1. CASE Tabs!Shrunk
  <2>1. DOMAIN (<<>>) = {}
    OBVIOUS
  <2>. DEFINE known == <<>>
  <2>2. DOMAIN known = {}
    BY <2>1
  <2>. HIDE DEF known
  <2>3. KnownRows(known)
    BY <2>2 DEF KnownRows
  <2>. QED
    BY <1>1, <2>3 DEF known
<1>2. CASE ~ Tabs!Shrunk
  <2>1. DOMAIN rowByName = DOMAIN tick /\ DOMAIN tableRows = 1..Cardinality(DOMAIN tick)
    BY DEF TabsInv, Finds, RowsShow
  <2>2. DOMAIN rowByName \subseteq DOMAIN record
    BY <1>2 DEF Tabs!Shrunk
  <2>3. /\ \A t \in DOMAIN rowByName : rowByName[t] \in 1..Cardinality(DOMAIN rowByName)
        /\ \A t \in DOMAIN rowByName : tableRows[rowByName[t]].name = t
    BY <2>1 DEF TabsInv, Finds
  <2>4. KnownRows(rowByName)
    BY <2>2, <2>3 DEF KnownRows
  <2>. QED
    BY <1>2, <2>4
<1>. QED
  BY <1>1, <1>2

(* Each test has a place of its own.                                        *)
LEMMA PlacedIs ==
  ASSUME TabsInv
  PROVE  /\ Tabs!Placed \in [DOMAIN record -> 1..Cardinality(DOMAIN record)]
         /\ \A t, u \in DOMAIN record : Tabs!Placed[t] = Tabs!Placed[u] => t = u
<1>. DEFINE D == DOMAIN record
            known == IF Tabs!Shrunk THEN <<>> ELSE rowByName
            new == D \ DOMAIN known
            m == Cardinality(DOMAIN known)
            n == Cardinality(D)
            placed == Tabs!Placed
<1>1. KnownRows(known)
  BY KnownRowsAre
<1>2. placed = [t \in DOMAIN known \cup new |->
                  IF t \in DOMAIN known THEN known[t] ELSE Tabs!Cardinality(DOMAIN known) + Tabs!PlaceIn(new, t)]
  BY DEF Tabs!Placed
<1>. HIDE DEF known, placed
<1>3. IsFiniteSet(D) /\ D \subseteq Int /\ n \in Nat
  BY TestsOfData DEF TabsInv
<1>4. IsFiniteSet(DOMAIN known) /\ m \in Nat /\ DOMAIN known \subseteq D
  BY <1>1, <1>3, FS_Subset, FS_CardinalityType DEF KnownRows
<1>5. IsFiniteSet(new) /\ Cardinality(new) = n - m /\ new \in SUBSET Int
  <2>1. D \cap DOMAIN known = DOMAIN known
    BY <1>4
  <2>2. IsFiniteSet(new) /\ Cardinality(new) = n - Cardinality(D \cap DOMAIN known)
    BY <1>3, FS_Difference
  <2>. QED
    BY <1>3, <2>1, <2>2
<1>6. DOMAIN known \cup new = D /\ Tabs!Cardinality(DOMAIN known) = m
  BY <1>4, TabSizes
<1>7. placed = [t \in D |-> IF t \in DOMAIN known THEN known[t] ELSE m + Tabs!PlaceIn(new, t)]
  BY <1>2, <1>6
<1>8. /\ \A t \in new : Tabs!PlaceIn(new, t) \in 1..(n - m)
      /\ \A t, u \in new : Tabs!PlaceIn(new, t) = Tabs!PlaceIn(new, u) => t = u
  BY <1>5, PlacesAreOwn
<1>9. \A t : t \in D => t \in DOMAIN known \/ t \in new
  OBVIOUS
<1>a. \A t \in new : t \in D /\ t \notin DOMAIN known
  OBVIOUS
<1>b. n - m \in Nat
  BY <1>5, FS_CardinalityType
<1>. HIDE DEF new, m, n, D
<1>10. ASSUME NEW t \in DOMAIN known
       PROVE  placed[t] = known[t] /\ placed[t] \in 1..m
  <2>1. t \in D
    BY <1>4
  <2>. QED
    BY <1>1, <1>7, <2>1 DEF KnownRows, m
<1>11. ASSUME NEW t \in new
       PROVE  placed[t] = m + Tabs!PlaceIn(new, t) /\ placed[t] \in (m + 1)..n
  <2>1. placed[t] = m + Tabs!PlaceIn(new, t)
    BY <1>7, <1>a
  <2>2. Tabs!PlaceIn(new, t) \in 1..(n - m)
    BY <1>8
  <2>. QED
    BY <1>3, <1>4, <2>1, <2>2
<1>12. ASSUME NEW t \in D PROVE placed[t] \in 1..n
  <2>1. m =< n
    BY <1>3, <1>4, <1>b
  <2>. QED
    BY <1>3, <1>4, <1>9, <1>10, <1>11, <2>1
<1>13. ASSUME NEW t \in D, NEW u \in D, placed[t] = placed[u]
       PROVE  t = u
  <2>1. CASE t \in DOMAIN known /\ u \in DOMAIN known
    BY <1>1, <1>10, <1>13, <2>1 DEF KnownRows
  <2>2. CASE t \in new /\ u \in new
    <3>1. m + Tabs!PlaceIn(new, t) = m + Tabs!PlaceIn(new, u)
      BY <1>11, <1>13, <2>2
    <3>2. Tabs!PlaceIn(new, t) \in Int /\ Tabs!PlaceIn(new, u) \in Int
      BY <1>8, <2>2
    <3>. QED
      BY <1>4, <1>8, <2>2, <3>1, <3>2
  <2>3. ASSUME NEW v \in DOMAIN known, NEW w \in new, placed[v] = placed[w] PROVE FALSE
    BY <1>3, <1>4, <1>10, <1>11, <2>3
  <2>. QED
    BY <1>9, <1>13, <2>1, <2>2, <2>3
<1>14. placed \in [D -> 1..n]
  BY <1>7, <1>12
<1>. QED
  BY <1>13, <1>14 DEF placed, D, n

(* So a tick writes a row for each.                                         *)
LEMMA WrittenIs ==
  ASSUME TabsInv
  PROVE  RowsShow(Tabs!Written, record) /\ Finds(Tabs!Placed, Tabs!Written, record)
<1>. DEFINE D == DOMAIN record
            n == Cardinality(D)
            placed == Tabs!Placed
            written == Tabs!Written
            old == IF Tabs!Shrunk THEN <<>> ELSE tableRows
            height == IF Len(old) < Tabs!Cardinality(D) THEN Tabs!Cardinality(D) ELSE Len(old)
            Here(i) == {t \in D : placed[t] = i}
            NewRow(t) == [name |-> t, state |-> record[t].state, tip |-> Tabs!ToolTip(t)]
<1>1. placed \in [D -> 1..n] /\ \A t, u \in D : placed[t] = placed[u] => t = u
  BY PlacedIs
<1>2. written = [i \in 1..height |-> IF Here(i) = {} THEN old[i] ELSE NewRow(CHOOSE u \in Here(i) : TRUE)]
  BY DEF Tabs!Written
<1>3. IsFiniteSet(D) /\ n \in Nat
  BY TestsOfData DEF TabsInv
<1>4. Len(old) \in Nat /\ Len(old) =< n
  <2>1. CASE Tabs!Shrunk
    BY <1>3, <2>1
  <2>2. CASE ~ Tabs!Shrunk
    <3>. DEFINE m == Cardinality(DOMAIN tick)
    <3>1. DOMAIN rowByName = DOMAIN tick /\ DOMAIN rowByName \subseteq D
      BY <2>2 DEF Tabs!Shrunk, TabsInv, Finds
    <3>2. m \in Nat /\ m =< n
      BY <1>3, <3>1, FS_Subset, FS_CardinalityType
    <3>3. tableRows = [i \in 1..m |-> tableRows[i]]
      BY DEF TabsInv, RowsShow
    <3>. HIDE DEF m
    <3>4. Len(tableRows) = m
      BY <3>2, <3>3
    <3>. QED
      BY <2>2, <3>2, <3>4
  <2>. QED
    BY <2>1, <2>2
<1>5. height = n
  BY <1>3, <1>4, TabSizes
<1>. HIDE DEF written, height, placed, old, NewRow
<1>6. ASSUME NEW t \in D PROVE (CHOOSE u \in Here(placed[t]) : TRUE) = t /\ Here(placed[t]) # {}
  <2>1. Here(placed[t]) = {t}
    BY <1>1
  <2>. QED
    BY <2>1
<1>. HIDE DEF Here
<1>7. ASSUME NEW t \in D
      PROVE  placed[t] \in 1..n /\ written[placed[t]] = NewRow(t)
  BY <1>1, <1>2, <1>5, <1>6
<1>8. \A i \in 1..n : \E t \in D : placed[t] = i
  BY <1>1, <1>3, PlacesAreTaken
<1>9. DOMAIN written = 1..n /\ written = [i \in 1..n |-> written[i]]
  BY <1>2, <1>5
<1>10. \A t : NewRow(t).name = t /\ NewRow(t).state = record[t].state
  BY DEF NewRow
<1>11. \A i \in 1..n : written[i].name \in D /\ written[i].state = record[written[i].name].state
  BY <1>7, <1>8, <1>10
<1>12. \A t \in D : placed[t] \in 1..n /\ written[placed[t]].name = t
  BY <1>7, <1>10
<1>13. placed = [t \in D |-> placed[t]]
  BY <1>1
<1>14. RowsShow(written, record)
  BY <1>9, <1>11, <1>12 DEF RowsShow
<1>15. Finds(placed, written, record)
  BY <1>9, <1>12, <1>13 DEF Finds
<1>. QED
  BY <1>14, <1>15 DEF written, placed

(* At first there is nothing to show.                                       *)
LEMMA TabsBegin == Tabs!Init => TabsInv
<1>. SUFFICES ASSUME Tabs!Init PROVE TabsInv
  OBVIOUS
<1>1. /\ record = <<>> /\ tick = <<>> /\ layout = <<>> /\ layoutOrder = <<>>
      /\ tableRows = <<>> /\ rowByName = <<>> /\ sort = [column |-> "none", descending |-> FALSE]
  BY DEF Tabs!Init, Tabs!WorldInit
<1>2. WithStates(record) /\ WithStates(tick)
  <2>. DEFINE data == <<>>
  <2>1. DOMAIN data = {}
    OBVIOUS
  <2>. HIDE DEF data
  <2>2. WithStates(data)
    BY <2>1 DEF WithStates
  <2>. QED
    BY <1>1, <2>2 DEF data
<1>3. DOMAIN tick = {} /\ DOMAIN tableRows = {} /\ DOMAIN rowByName = {} /\ Cardinality({}) = 0
  BY <1>1, FS_EmptySet
<1>4. layout = Tabs!Listed(tick)
  <2>1. Tabs!Listed(tick) = [k \in 1..Tabs!Cardinality({}) |-> CHOOSE t \in {} : Tabs!PlaceIn({}, t) = k]
    BY <1>3 DEF Tabs!Listed, Tabs!Ascending
  <2>2. 1..Tabs!Cardinality({}) = {}
    BY <1>3, TabSizes
  <2>3. Tabs!Listed(tick) = <<>>
    BY <2>1, <2>2
  <2>. QED
    BY <1>1, <2>3
<1>5. RowsShow(tableRows, tick)
  <2>1. tableRows = [i \in {} |-> tableRows[i]]
    BY <1>1
  <2>2. 1..0 = {}
    OBVIOUS
  <2>. QED
    BY <1>3, <2>1, <2>2 DEF RowsShow
<1>6. Finds(rowByName, tableRows, tick)
  <2>1. rowByName = [t \in {} |-> rowByName[t]]
    BY <1>1
  <2>. QED
    BY <1>3, <2>1 DEF Finds
<1>7. sort \in Sorts /\ sort.column = "none"
  BY <1>1 DEF Sorts
<1>. QED
  BY <1>1, <1>2, <1>4, <1>5, <1>6, <1>7 DEF TabsInv

(* Records go on having states.                                             *)
LEMMA RecordsHaveStates ==
  ASSUME WithStates(record), Tabs!RecordsChange
  PROVE  WithStates(record')
<1>1. CASE Tabs!NewRun
  <2>1. DOMAIN record' = {}
    BY <1>1 DEF Tabs!NewRun
  <2>. QED
    BY <2>1 DEF WithStates
<1>2. ASSUME NEW tests \in SUBSET Tests, NEW kept, Tabs!Enqueue(tests, kept)
      PROVE  WithStates(record')
  <2>1. record' = [t \in tests |-> [state |-> IF t \in kept THEN "Pass" ELSE "Queued", out |-> t \in kept, run |-> run]]
    BY <1>2 DEF Tabs!Enqueue
  <2>2. \A t \in tests : /\ record'[t] = [state |-> record'[t].state, out |-> record'[t].out, run |-> record'[t].run]
                         /\ record'[t].state = IF t \in kept THEN "Pass" ELSE "Queued"
    BY <2>1
  <2>3. DOMAIN record' = tests
    BY <2>1
  <2>. QED
    BY <2>2, <2>3 DEF WithStates, TabStates
<1>3. ASSUME NEW t, NEW from, NEW to \in TabStates, NEW out, Tabs!Advance(t, from, to, out)
      PROVE  WithStates(record')
  <2>1. t \in DOMAIN record /\ record' = [record EXCEPT ![t].state = to, ![t].out = out]
    BY <1>3 DEF Tabs!Advance
  <2>2. PICK a, b, c : record[t] = [state |-> a, out |-> b, run |-> c]
    BY <2>1 DEF WithStates
  <2>3. DOMAIN record' = DOMAIN record /\ \A u \in DOMAIN record : u # t => record'[u] = record[u]
    BY <2>1
  <2>4. record'[t] = [state |-> to, out |-> out, run |-> c]
    <3>1. ASSUME NEW x, NEW y, x = [state |-> a, out |-> b, run |-> c], y = [x EXCEPT !.state = to, !.out = out]
          PROVE  y = [state |-> to, out |-> out, run |-> c]
      BY <3>1
    <3>2. record'[t] = [record[t] EXCEPT !.state = to, !.out = out]
      BY <2>1
    <3>. QED
      BY <2>2, <3>1, <3>2
  <2>5. ASSUME NEW u \in DOMAIN record
        PROVE  /\ record'[u].state \in TabStates
               /\ record'[u] = [state |-> record'[u].state, out |-> record'[u].out, run |-> record'[u].run]
    <3>1. CASE u = t
      BY <2>4, <3>1
    <3>2. CASE u # t
      BY <2>3, <3>2 DEF WithStates
    <3>. QED
      BY <3>1, <3>2
  <2>. QED
    BY <2>3, <2>5 DEF WithStates
<1>4. CASE \E t \in Tests : Tabs!StartTest(t) \/ Tabs!EndTest(t) \/ Tabs!TerminateTest(t)
  <2>1. "Running" \in TabStates /\ "Pass" \in TabStates /\ "Fail" \in TabStates /\ "Terminated" \in TabStates
    BY DEF TabStates
  <2>2. PICK t \in Tests : Tabs!StartTest(t) \/ Tabs!EndTest(t) \/ Tabs!TerminateTest(t)
    BY <1>4
  <2>3. CASE Tabs!StartTest(t)
    BY <1>3, <2>1, <2>3 DEF Tabs!StartTest
  <2>4. CASE Tabs!EndTest(t)
    BY <1>3, <2>1, <2>4 DEF Tabs!EndTest
  <2>5. CASE Tabs!TerminateTest(t)
    BY <1>3, <2>1, <2>5 DEF Tabs!TerminateTest
  <2>. QED
    BY <2>2, <2>3, <2>4, <2>5
<1>. QED
  BY <1>1, <1>2, <1>4 DEF Tabs!RecordsChange

(* The tabs stay as they are until the next tick.                           *)
LEMMA WorldLeavesTabs ==
  ASSUME TabsInv, Tabs!WorldMoves
  PROVE  TabsInv'
<1>1. UNCHANGED <<tick, layout, layoutOrder, tableRows, rowByName, sort>>
  BY DEF Tabs!WorldMoves, Tabs!progress, Tabs!tableTab
<1>2. CASE Tabs!RecordsChange
  BY <1>1, <1>2, RecordsHaveStates DEF TabsInv
<1>3. CASE Tabs!LogsChange
  <2>1. record' = record
    BY <1>3 DEF Tabs!LogsChange, Tabs!WriteLog
  <2>. QED
    BY <1>1, <2>1 DEF TabsInv
<1>. QED
  BY <1>2, <1>3 DEF Tabs!WorldMoves

(* If no key of a row has changed, the rows are still in order.             *)
LEMMA UnstaleIsSorted ==
  ASSUME TabsInv, sort.column # "none", ~ Tabs!SortIsStale
  PROVE  InSortOrder(Tabs!Written, sort)
<1>. DEFINE written == Tabs!Written
<1>1. /\ DOMAIN record = DOMAIN rowByName
      /\ \A i \in DOMAIN tableRows : Tabs!SortKey(written[i], sort) = Tabs!SortKey(tableRows[i], sort)
  BY DEF Tabs!SortIsStale
<1>2. RowsShow(written, record)
  BY WrittenIs
<1>. HIDE DEF written
<1>3. DOMAIN written = DOMAIN tableRows
  BY <1>1, <1>2 DEF TabsInv, RowsShow, Finds
<1>4. InSortOrder(tableRows, sort)
  BY DEF TabsInv
<1>5. InSortOrder(written, sort)
  BY <1>1, <1>3, <1>4 DEF InSortOrder
<1>. QED
  BY <1>5 DEF written

(* A tick shows the tests there are.                                        *)
LEMMA TickLeavesTabs ==
  ASSUME TabsInv, Tabs!Tick
  PROVE  TabsInv'
<1>1. /\ tick' = record /\ layout' = Tabs!Layout /\ layoutOrder' = Tabs!Desired
      /\ record' = record /\ sort' = sort
  BY DEF Tabs!Tick, Tabs!world
<1>2. layout' = Tabs!Listed(tick') /\ layoutOrder' = layout'
  <2>1. WithStates(record) /\ layoutOrder = layout
    BY DEF TabsInv
  <2>2. layout' = Tabs!Desired
    BY <1>1, <2>1, LayoutIsOrdered
  <2>. QED
    BY <1>1, <2>2 DEF Tabs!Desired
<1>3. WithStates(record) /\ RowsShow(Tabs!Written, record) /\ Finds(Tabs!Placed, Tabs!Written, record)
  BY WrittenIs DEF TabsInv
<1>4. CASE sort.column # "none" /\ Tabs!SortIsStale
  <2>1. tableRows' = Tabs!SortItems(Tabs!Written, sort) /\ rowByName' = Tabs!RowIndex(tableRows')
    BY <1>4 DEF Tabs!Tick
  <2>2. RowsShow(tableRows', record) /\ InSortOrder(tableRows', sort)
    BY <1>3, <2>1, SortedRowsShow
  <2>3. Finds(rowByName', tableRows', record)
    BY <2>1, <2>2, RowIndexFinds
  <2>. QED
    BY <1>1, <1>2, <1>3, <2>2, <2>3 DEF TabsInv
<1>5. CASE ~ (sort.column # "none" /\ Tabs!SortIsStale)
  <2>1. tableRows' = Tabs!Written /\ rowByName' = Tabs!Placed
    BY <1>5 DEF Tabs!Tick
  <2>2. sort.column # "none" => InSortOrder(tableRows', sort)
    BY <1>5, <2>1, UnstaleIsSorted
  <2>. QED
    BY <1>1, <1>2, <1>3, <2>1, <2>2 DEF TabsInv
<1>. QED
  BY <1>4, <1>5

(* A click on a header sorts the rows by it.                                *)
LEMMA ClickLeavesTabs ==
  ASSUME TabsInv, NEW column \in {"name", "state"}, Tabs!ClickHeader(column)
  PROVE  TabsInv'
<1>1. /\ sort' = [column |-> column, descending |-> sort.column = column /\ ~ sort.descending]
      /\ tableRows' = Tabs!SortItems(tableRows, sort') /\ rowByName' = Tabs!RowIndex(tableRows')
      /\ UNCHANGED <<record, tick, layout, layoutOrder>>
  BY DEF Tabs!ClickHeader, Tabs!world, Tabs!progress
<1>2. sort' \in Sorts
  <2>1. (sort.column = column /\ ~ sort.descending) \in BOOLEAN
    OBVIOUS
  <2>. QED
    BY <1>1, <2>1 DEF Sorts
<1>3. RowsShow(tableRows', tick) /\ InSortOrder(tableRows', sort')
  BY <1>1, SortedRowsShow DEF TabsInv
<1>4. Finds(rowByName', tableRows', tick)
  BY <1>1, <1>3, RowIndexFinds
<1>. QED
  BY <1>1, <1>2, <1>3, <1>4 DEF TabsInv

(* Every step of the tabs preserves the invariant.                          *)
LEMMA TabsKeepInv == TabsInv /\ Tabs!Next => TabsInv'
<1>1. ASSUME TabsInv, (\E i \in 1..Tabs!Cardinality(Tests) : Tabs!OpenMenu(i)) \/ Tabs!Copy \/ Tabs!LeaveMenu
      PROVE  TabsInv'
  <2>1. UNCHANGED <<record, tick, layout, layoutOrder, tableRows, rowByName, sort>>
    BY <1>1 DEF Tabs!OpenMenu, Tabs!Copy, Tabs!LeaveMenu, Tabs!world, Tabs!progress, Tabs!tableTab
  <2>. QED
    BY <1>1, <2>1 DEF TabsInv
<1>. QED
  BY <1>1, WorldLeavesTabs, TickLeavesTabs, ClickLeavesTabs DEF Tabs!Next

(* Checked together with other components, the tabs are TestTabs'.          *)
LEMMA RecordsTabs ==
  /\ RecordsInit => (focus = "tabs" => TabsInv)
  /\ (focus = "tabs" => TabsInv)
     /\ [HistoryStep \/ TickStep \/ TabsStep \/ PanesStep]_<<focus, vars, tickVars, shownVars, tabVars, paneVars>>
       => (focus = "tabs" => TabsInv)'
<1>1. RecordsInit => TabsInv
  BY TabsBegin DEF RecordsInit
<1>2. HistoryStep \/ TickStep \/ PanesStep => focus # "tabs" /\ focus' = focus
  BY DEF HistoryStep, TickStep, PanesStep
<1>3. TabsStep => Tabs!Next /\ focus = "tabs"
  BY DEF TabsStep
<1>4. TabsInv /\ UNCHANGED <<focus, vars, tickVars, shownVars, tabVars, paneVars>> => TabsInv'
  <2>. SUFFICES ASSUME TabsInv, UNCHANGED <<focus, vars, tickVars, shownVars, tabVars, paneVars>> PROVE TabsInv'
    OBVIOUS
  <2>1. UNCHANGED <<record, tick, layout, layoutOrder, tableRows, rowByName, sort>>
    BY DEF shownVars, tabVars
  <2>. QED
    BY <2>1 DEF TabsInv
<1>5. UNCHANGED <<focus, vars, tickVars, shownVars, tabVars, paneVars>> => focus' = focus
  OBVIOUS
<1>. QED
  BY <1>1, <1>2, <1>3, <1>4, <1>5, TabsKeepInv

(* Rows that show a tick and are in order satisfy the property.             *)
LEMMA TabsInvShows == TabsInv => Tabs!TabsShowTick
<1>. SUFFICES ASSUME TabsInv PROVE Tabs!TabsShowTick
  OBVIOUS
<1>. DEFINE D == 1..Cardinality(DOMAIN tick)
<1>1. WithStates(tick) /\ RowsShow(tableRows, tick) /\ Finds(rowByName, tableRows, tick)
  BY DEF TabsInv
<1>2. Cardinality(DOMAIN tick) \in Nat
  BY <1>1, TestsOfData
<1>3. D \in SUBSET Int /\ IsFiniteSet(D) /\ D = 1..Cardinality(D)
  <2>. DEFINE n == Cardinality(DOMAIN tick)
  <2>1. n \in Nat
    BY <1>2
  <2>. HIDE DEF n
  <2>2. 1..n \in SUBSET Int /\ IsFiniteSet(1..n) /\ Cardinality(1..n) = n
    BY <2>1, FS_Interval
  <2>. QED
    BY <2>2 DEF n
<1>4. tableRows = [i \in D |-> tableRows[i]]
  BY <1>1 DEF RowsShow
<1>5. Len(tableRows) = Tabs!Cardinality(DOMAIN tick)
  <2>. DEFINE n == Cardinality(DOMAIN tick)
  <2>1. tableRows = [i \in 1..n |-> tableRows[i]] /\ n \in Nat
    BY <1>2, <1>4
  <2>. HIDE DEF n
  <2>2. Len(tableRows) = n
    BY <2>1
  <2>. QED
    BY <2>2, TabSizes DEF n
<1>6. \A i \in D : Tabs!SortKey(tableRows[i], sort) \in Int
  BY <1>1, <1>4, RowKeysAreInts
<1>. HIDE DEF D
<1>7. sort.column # "none" => Tabs!SortItems(tableRows, sort) = tableRows
  BY <1>3, <1>4, <1>6, SortedStays DEF TabsInv
<1>8. DOMAIN rowByName = DOMAIN tick
  BY <1>1 DEF Finds
<1>9. \A t \in DOMAIN tick : /\ tableRows[rowByName[t]].name = t
                             /\ tableRows[rowByName[t]].state = tick[t].state
  <2>1. \A t \in DOMAIN tick : /\ rowByName[t] \in DOMAIN tableRows
                               /\ tableRows[rowByName[t]].name = t
    BY <1>1 DEF Finds
  <2>2. \A i \in DOMAIN tableRows : tableRows[i].state = tick[tableRows[i].name].state
    BY <1>1 DEF RowsShow
  <2>. QED
    BY ONLY <2>1, <2>2
<1>. QED
  BY <1>5, <1>7, <1>8, <1>9 DEF Tabs!TabsShowTick, TabsInv

-----------------------------------------------------------------------------
(* Theorems                                                                 *)

(* Checked together with the history, the tick is still GuiTick's.          *)
LEMMA RecordsTick ==
  /\ RecordsInit => GuiTable!Init
  /\ [HistoryStep \/ TickStep \/ TabsStep \/ PanesStep]_<<focus, vars, tickVars, shownVars, tabVars, paneVars>>
       => [GuiTable!Next]_tickVars
<1>1. RecordsInit => GuiTable!Init
  BY DEF RecordsInit
<1>2. /\ HistoryStep => UNCHANGED tickVars
      /\ TickStep => GuiTable!Next
      /\ TabsStep => UNCHANGED tickVars
      /\ PanesStep => UNCHANGED tickVars
  BY DEF HistoryStep, TickStep, TabsStep, PanesStep
<1>3. UNCHANGED <<focus, vars, tickVars, shownVars, tabVars, paneVars>> => UNCHANGED tickVars
  OBVIOUS
<1>. QED
  BY <1>1, <1>2, <1>3
(* What the caches of the tick hold is right at every step, whatever is     *)
(* written between its queries.                                             *)
THEOREM TickCorrect == RecordsSpec => []TickInv
<1>1. RecordsInit => TickInv
  BY TickInit, RecordsTick
<1>2. TickInv /\ [HistoryStep \/ TickStep \/ TabsStep \/ PanesStep]_<<focus, vars, tickVars, shownVars, tabVars, paneVars>>
        => TickInv'
  BY TickKeepsInv, RecordsTick
<1>. QED
  BY <1>1, <1>2, PTL DEF RecordsSpec

(* The reduced queries of the tick show what full ones would.               *)
THEOREM SummariesAreCurrent == RecordsSpec => []SummariesCurrent
<1>1. TickInv => SummariesCurrent
  BY TickShowsSummaries DEF SummariesCurrent
<1>. QED
  BY <1>1, TickCorrect, PTL

(* A tick attaches to a record its own output, and all there are to those   *)
(* that were first to complete.                                             *)
THEOREM OutputsAreOwn == RecordsSpec => []OutputsOwnAndComplete
<1>1. TickInv => OutputsOwnAndComplete
  BY TickShowsOutputs DEF OutputsOwnAndComplete
<1>. QED
  BY <1>1, TickCorrect, PTL

(* The pane for output is about the test that was chosen: the one pinned in *)
(* the list of failures, or the selected running test; and it shows that    *)
(* one's output, however records and logs change between the steps - but    *)
(* for a pinned test without any output.                                    *)
THEOREM PanesShowChosen == RecordsSpec => []PaneShowsChosen
<1>1. (focus = "panes" => PanesInv) => PaneShowsChosen
  BY DEF PaneShowsChosen, PanesInv, PaneIsRight, AboutIn, Panes!PaneShowsChosen
<1>. QED
  BY <1>1, RecordsPanes, PTL DEF RecordsSpec

(* Progress and Table show a bar and a row for each test of the last tick,  *)
(* in order and found by the index, whatever was added, removed, sorted and *)
(* clicked before.                                                          *)
THEOREM TabsAreOfTick == RecordsSpec => []TabsShowTick
<1>1. (focus = "tabs" => TabsInv) => TabsShowTick
  BY TabsInvShows DEF TabsShowTick
<1>. QED
  BY <1>1, RecordsTabs, PTL DEF RecordsSpec
=============================================================================
