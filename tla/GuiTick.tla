------------------------------ MODULE GuiTick ------------------------------
(* The refresh tick of the main window over the results table: each of its  *)
(* queries reads a later state of a table that test processes go on writing *)
(* to, and three caches save it from reading everything every time - the    *)
(* outputs of completed tests, the last passes of all tests, and the        *)
(* history of runs.                                                         *)
(*                                                                          *)
(* Rows are only ever appended, so what a query has seen is the number of   *)
(* rows there were.  A row's time stamp is the place at which its content   *)
(* was first written: a copy keeps the stamp of its original.               *)
EXTENDS Integers, Sequences, FiniteSets

CONSTANTS
  Tests,      \* numbers
  FirstRows,  \* what an earlier session may have left in the table
  Codes,      \* how a test may end by itself
  MaxRuns,    \* bound: run identifiers
  RunLimit    \* preference: runs listed in the history

VARIABLES
  rows,      \* the table
  guid,      \* identifier of the newest run
  stage,     \* where each test of that run is
  waiting,   \* the newest run was started and the GUI thread has yet to hear of it
  shown,     \* control.run_guid; 0: no run since the application started
  pc,        \* the tick's next step; "idle": the GUI thread is free
  snap,      \* rows seen by the tick's first query
  outputs,   \* _output_cache and its run: row of the cached output, 0 for None
  lastPass,  \* _last_pass_cache, its run and pass count
  history,   \* the change token, and for each listed run how many records it has
  toRead     \* runs the history is still to be read for

vars == <<rows, guid, stage, waiting, shown, pc, snap, outputs, lastPass, history, toRead>>
table == <<rows, guid, stage, waiting>>
caches == <<outputs, lastPass, history, toRead>>

-----------------------------------------------------------------------------
(* Records.                                                                 *)

Row(r, t, code, out) ==
  [run |-> r, name |-> t, code |-> code, out |-> out, ts |-> Len(rows) + 1]

Prefix(n) == SubSeq(rows, 1, n)

(* query(run_guid); without one, the run with the greatest identifier.      *)
RunOf(r, seen) ==
  IF r # 0 \/ seen = <<>> THEN r
  ELSE CHOOSE q \in {seen[i].run : i \in DOMAIN seen} : \A i \in DOMAIN seen : seen[i].run =< q

Query(r, seen) == {i \in DOMAIN seen : seen[i].run = RunOf(r, seen)}

Completed(r, seen) == {seen[i].name : i \in {j \in Query(r, seen) : seen[j].code # "NONE"}}

PassCount(r, seen) == Cardinality({i \in Query(r, seen) : seen[i].code = "OK"})

(* query_outputs for one test: its latest record that carries an output.    *)
OutputRow(r, t, seen) ==
  LET mine == {i \in DOMAIN seen : seen[i].run = r /\ seen[i].name = t /\ seen[i].out}
  IN  IF mine = {} THEN 0 ELSE CHOOSE i \in mine : \A j \in mine : seen[j].ts =< seen[i].ts

(* query_last_pass: stamp of the pass in the last run with one.             *)
LastPassOf(t, seen) ==
  LET ok   == {i \in DOMAIN seen : seen[i].name = t /\ seen[i].code = "OK"}
      last == {i \in ok : \A j \in ok : seen[j].run =< seen[i].run}
  IN  IF ok = {} THEN 0 ELSE seen[CHOOSE i \in last : TRUE].ts

(* query_recent_runs: the newest runs there are.                            *)
RecentRuns(seen) ==
  LET runs == {seen[i].run : i \in DOMAIN seen}
  IN  {r \in runs : Cardinality({q \in runs : q > r}) < RunLimit}

Settled(code) == code # "NONE"

(* latest_states over one run, time stamp first: tests without a result.    *)
Latest(r, t, seen) ==
  LET mine == {i \in DOMAIN seen : seen[i].run = r /\ seen[i].name = t}
  IN  CHOOSE i \in mine : \A j \in mine : seen[j].ts =< seen[i].ts

Open(r) == {t \in {rows[i].name : i \in Query(r, rows)} : ~Settled(rows[Latest(r, t, rows)].code)}

-----------------------------------------------------------------------------
(* What an earlier session may have left: one run, in which a test has an   *)
(* output when and only when its process has reported, which it did once,   *)
(* and who passed has reported.                                             *)
EarlierTable(earlier) ==
  /\ earlier \in Seq([run : {1}, name : Tests, code : Codes \cup {"NONE", "TERMINATED", "STOPPED"},
                      out : BOOLEAN, ts : Nat])
  /\ \A i \in DOMAIN earlier :
       /\ earlier[i].ts = i /\ (earlier[i].out <=> earlier[i].code \in Codes)
       /\ earlier[i].out => \A j \in DOMAIN earlier :
                              earlier[j].out /\ earlier[j].name = earlier[i].name => j = i

TickConstantsOK ==
  /\ IsFiniteSet(Tests) /\ Tests \subseteq Int
  /\ Codes \subseteq STRING /\ Codes \cap {"NONE", "TERMINATED", "STOPPED"} = {}
  /\ \A earlier \in FirstRows : EarlierTable(earlier)
  /\ MaxRuns \in Nat /\ RunLimit \in Nat

Init ==
  /\ rows \in FirstRows
  /\ guid = IF rows = <<>> THEN 0 ELSE 1
  /\ stage = [t \in Tests |-> "over"]
  /\ waiting = FALSE /\ shown = 0 /\ pc = "idle" /\ snap = 0
  /\ outputs = [run |-> 0, row |-> <<>>]
  /\ lastPass = [run |-> 0, count |-> -1, of |-> [t \in Tests |-> 0]]
  /\ history = [token |-> -1, seen |-> <<>>]
  /\ toRead = {}

(* Rows of one transaction.                                                 *)
Write(new) == rows' = rows \o new

(* The numbers in S by their keys; those of equal keys from the least.      *)
InOrder(S, key) ==
  LET Ahead(i) == {j \in S : key[j] < key[i] \/ (key[j] = key[i] /\ j < i)}
  IN  [k \in 1..Cardinality(S) |-> CHOOSE i \in S : 1 + Cardinality(Ahead(i)) = k]

StatusRows(r, names, code) ==
  LET list == InOrder(names, [t \in names |-> t]) IN
  [k \in DOMAIN list |->
    [run |-> r, name |-> list[k], code |-> code, out |-> FALSE, ts |-> Len(rows) + k]]

PassedIn(infos) == {rows[i].name : i \in {j \in infos : rows[j].code = "OK"}}

(* The records of the tests that passed, by name and then in row order,     *)
(* each with its own time stamp.                                            *)
CarriedOver(prior, r) ==
  LET mine  == {i \in prior : rows[i].name \in PassedIn(prior)}
      order == InOrder(mine, [i \in mine |-> rows[i].name])
  IN  [k \in DOMAIN order |-> [rows[order[k]] EXCEPT !.run = r]]

(* A run is prepared: RESUME copies the passed tests' records into it.  The *)
(* previous run is over and known to the GUI thread.                        *)
Prepare(resume) ==
  LET prior == Query(0, rows)
      todo  == IF resume THEN Tests \ PassedIn(prior) ELSE Tests
  IN  /\ guid < MaxRuns /\ ~waiting /\ \A t \in Tests : stage[t] = "over"
      /\ guid' = guid + 1 /\ waiting' = TRUE
      /\ Write(IF resume THEN CarriedOver(prior, guid + 1) ELSE <<>>)
      /\ stage' = [t \in Tests |-> IF t \in todo THEN "planned" ELSE "over"]
      /\ UNCHANGED <<shown, pc, snap, caches>>

(* The runner starts and queues its tests, in one transaction.              *)
Enqueue ==
  LET planned == {t \in Tests : stage[t] = "planned"} IN
  /\ planned # {}
  /\ Write(StatusRows(guid, planned, "NONE"))
  /\ stage' = [t \in Tests |-> IF t \in planned THEN "queued" ELSE stage[t]]
  /\ UNCHANGED <<guid, waiting, shown, pc, snap, caches>>

(* The GUI thread hears of the run.                                         *)
Adopt ==
  /\ pc = "idle" /\ waiting /\ \A t \in Tests : stage[t] # "planned"
  /\ shown' = guid /\ waiting' = FALSE
  /\ UNCHANGED <<rows, guid, stage, pc, snap, caches>>

(* A test process: RUNNING, then its own record with its output.            *)
StartTest(t) ==
  /\ stage[t] = "queued" /\ stage' = [stage EXCEPT ![t] = "running"]
  /\ Write(<<Row(guid, t, "NONE", FALSE)>>)
  /\ UNCHANGED <<guid, waiting, shown, pc, snap, caches>>

Report(t, code) ==
  /\ stage[t] \in {"running", "doomed"}
  /\ stage' = [stage EXCEPT ![t] = IF @ = "doomed" THEN "dying" ELSE "over"]
  /\ Write(<<Row(guid, t, code, TRUE)>>)
  /\ UNCHANGED <<guid, waiting, shown, pc, snap, caches>>

(* It dies without a record.                                                *)
Crash(t) ==
  /\ stage[t] = "running" /\ stage' = [stage EXCEPT ![t] = "over"]
  /\ UNCHANGED <<rows, guid, waiting, shown, pc, snap, caches>>

(* Its worker is told to kill it; until it does, the process goes on.       *)
ForceStopTest(t) ==
  /\ pc = "idle" /\ stage[t] = "running" /\ stage' = [stage EXCEPT ![t] = "doomed"]
  /\ UNCHANGED <<rows, guid, waiting, shown, pc, snap, caches>>

Kill(t) ==
  /\ stage[t] \in {"doomed", "dying"} /\ stage' = [stage EXCEPT ![t] = "over"]
  /\ Write(StatusRows(guid, {t}, "TERMINATED"))
  /\ UNCHANGED <<guid, waiting, shown, pc, snap, caches>>

(* force_stop_and_reset: every worker is told, and whatever has no result   *)
(* is recorded STOPPED at once.                                             *)
ForceStopAndReset ==
  /\ pc = "idle" /\ shown = guid /\ Open(guid) # {}
  /\ Write(StatusRows(guid, Open(guid), "STOPPED"))
  /\ stage' = [t \in Tests |-> CASE stage[t] = "running" -> "doomed"
                                 [] stage[t] = "queued"  -> "over"
                                 [] OTHER -> stage[t]]
  /\ UNCHANGED <<guid, waiting, shown, pc, snap, caches>>

(* _force_stop_single_test of a row that says running although nobody runs  *)
(* it: mark_test_terminated_if_stale on the run that is shown.              *)
MarkTerminatedIfStale(t) ==
  LET r == RunOf(shown, rows) IN
  /\ pc = "idle" /\ t \in Open(r) /\ (r = guid => stage[t] = "over")
  /\ Write(StatusRows(r, {t}, "TERMINATED"))
  /\ UNCHANGED <<guid, stage, waiting, shown, pc, snap, caches>>

-----------------------------------------------------------------------------
(* The tick.                                                                *)

TickQuery ==
  /\ pc = "idle" /\ pc' = "outputs" /\ snap' = Len(rows)
  /\ UNCHANGED <<table, shown, caches>>

(* A slip: the cache of another run is kept.                                *)
OutputsKeptForever(r) == outputs.row

(* The cache is for one run.                                                *)
OutputsKept(r) == IF r = outputs.run THEN outputs.row ELSE <<>>

(* _attach_completed_outputs: what the cache lacks is fetched, and what has *)
(* no output is noted as having none.                                       *)
TickOutputs ==
  LET r       == RunOf(shown, Prefix(snap))
      kept    == OutputsKept(r)
      missing == Completed(shown, Prefix(snap)) \ DOMAIN kept
  IN  /\ pc = "outputs" /\ pc' = "passes"
      /\ outputs' = [run |-> r, row |-> [t \in DOMAIN kept \cup missing |->
                                          IF t \in DOMAIN kept THEN kept[t] ELSE OutputRow(r, t, rows)]]
      /\ UNCHANGED <<table, shown, snap, lastPass, history, toRead>>

(* A slip: as many passes, in whichever run.                                *)
AsManyPasses(count) == count = lastPass.count

LastPassIsCached(count) == shown = lastPass.run /\ count = lastPass.count

TickLastPass ==
  LET count == PassCount(shown, Prefix(snap)) IN
  /\ pc = "passes" /\ pc' = "token"
  /\ lastPass' = IF LastPassIsCached(count) THEN lastPass
                 ELSE [run |-> shown, count |-> count, of |-> [t \in Tests |-> LastPassOf(t, rows)]]
  /\ UNCHANGED <<table, shown, snap, outputs, history, toRead>>

(* HistoryTab.update_tick: the number of rows and the greatest row id.      *)
TickToken ==
  /\ pc = "token"
  /\ IF history.token = Len(rows)
     THEN pc' = "show" /\ UNCHANGED history
     ELSE pc' = "runs" /\ history' = [history EXCEPT !.token = Len(rows)]
  /\ UNCHANGED <<table, shown, snap, outputs, lastPass, toRead>>

TickRecentRuns ==
  /\ pc = "runs" /\ pc' = "records"
  /\ toRead' = RecentRuns(rows) /\ history' = [history EXCEPT !.seen = <<>>]
  /\ UNCHANGED <<table, shown, snap, outputs, lastPass>>

(* One run at a time, the newest first.                                     *)
TickReadRun ==
  LET r == CHOOSE q \in toRead : \A p \in toRead : p =< q IN
  /\ pc = "records" /\ toRead # {} /\ toRead' = toRead \ {r}
  /\ history' = [history EXCEPT !.seen = [q \in DOMAIN @ \cup {r} |->
                   IF q = r THEN Cardinality(Query(r, rows)) ELSE @[q]]]
  /\ UNCHANGED <<table, shown, pc, snap, outputs, lastPass>>

TickHistoryRead ==
  /\ pc = "records" /\ toRead = {} /\ pc' = "show"
  /\ UNCHANGED <<table, shown, snap, caches>>

(* The tabs are given what the tick has gathered.                           *)
TickShow ==
  /\ pc = "show" /\ pc' = "idle" /\ snap' = 0
  /\ UNCHANGED <<table, shown, caches>>

Next ==
  \/ \E resume \in BOOLEAN : Prepare(resume)
  \/ Enqueue \/ Adopt \/ ForceStopAndReset
  \/ \E t \in Tests : StartTest(t) \/ Crash(t) \/ ForceStopTest(t) \/ Kill(t) \/ MarkTerminatedIfStale(t)
  \/ \E t \in Tests, code \in Codes : Report(t, code)
  \/ TickQuery \/ TickOutputs \/ TickLastPass \/ TickToken \/ TickRecentRuns \/ TickReadRun \/ TickHistoryRead \/ TickShow

Spec == Init /\ [][Next]_vars

-----------------------------------------------------------------------------
(* What is about to be shown, if nothing was written while it was gathered. *)
Undisturbed == pc = "show" /\ snap = Len(rows) /\ ~waiting

(* The output attached to a record: the cached one, if it is this record's. *)
Attached(i) ==
  LET t == rows[i].name IN
  t \in DOMAIN outputs.row /\ outputs.row[t] # 0 /\ rows[outputs.row[t]].ts = rows[i].ts

(* The reduced queries cost nothing: an undisturbed tick shows the last     *)
(* pass of every test and the records of the recent runs as they are in the *)
(* table, however many writes came between the queries of earlier ticks.    *)
SummariesCurrent ==
  Undisturbed =>
    /\ \A t \in Tests : lastPass.of[t] = LastPassOf(t, rows)
    /\ DOMAIN history.seen = RecentRuns(rows)
    /\ \A r \in DOMAIN history.seen : history.seen[r] = Cardinality(Query(r, rows))

(* The records that are shown are those of the run that is shown, each with *)
(* its own output or none, and complete for every test whose first result   *)
(* in that run was its own.                                                 *)
OutputsOwnAndComplete ==
  Undisturbed => \A i \in Query(shown, rows) :
    /\ Attached(i) => rows[i].out
    /\ rows[i].out /\ (\A j \in Query(shown, rows) :
                         rows[j].name = rows[i].name /\ rows[j].code # "NONE" => j >= i) => Attached(i)

(* Not true of the code: consumers see the records as if they had been      *)
(* queried whole.                                                           *)
OutputsAsQueried ==
  Undisturbed => \A i \in Query(shown, rows) : rows[i].out <=> Attached(i)
=============================================================================
