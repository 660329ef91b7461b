----------------------------- MODULE RunHistory -----------------------------
(* A chain of runs over one results database: what the preparation of a run *)
(* (ControlWindow._build_runner) reads of the runs before it, what RESUME   *)
(* and CHECK skip and carry over, in which order the rest is queued, and    *)
(* what the history makes of the records.  Between two runs the user edits, *)
(* commits or checks out the program under test.                            *)
(*                                                                          *)
(* The runner is reduced to the records it leaves: one test at a time; the  *)
(* interleaving of its workers is the subject of PytestRunner.  The answer  *)
(* of a query is the set of the rows it returns, which have their order.    *)
EXTENDS Integers, Sequences, FiniteSets, SequencesExt

CONSTANTS
  Tests,          \* node ids, as numbers in alphabetical order
  SingletonsAt,   \* those marked singleton, in each version of the program
  Suites,         \* what discovery may find: sets of tests
  Habits,         \* sets of run modes a user may pick from
  AspectLists,    \* lists of enabled ordering aspects, highest priority first
  Coverage,       \* lines a test covers, once its coverage file exists
  Takes,          \* how long a test takes in a run
  Outcomes,       \* how a started test may end
  DirtyRuns,      \* may tests be run on uncommitted changes?
  MaxRuns,        \* bound: run identifiers; the last one is only prepared
  MaxTree         \* bound: versions of the program

Aspects == {"failed_first", "never_run_first", "longest_prior_first", "coverage_efficiency"}

ASSUME HistoryConstantsOK ==
  /\ MaxRuns \in Nat /\ MaxTree \in Nat \ {0} /\ DirtyRuns \in BOOLEAN
  /\ Tests \subseteq Nat /\ IsFiniteSet(Tests)
  /\ \A v \in 1..MaxTree : SingletonsAt[v] \subseteq Tests
  /\ Suites \subseteq SUBSET Tests
  /\ Habits \subseteq SUBSET {"restart", "resume", "check"}
  /\ \A list \in AspectLists : list \in Seq(Aspects)
  /\ Coverage \in [Tests -> Nat]
  /\ Takes \in [Tests -> [1..MaxRuns -> Nat \ {0}]]
  /\ Outcomes \subseteq {"OK", "FAILED", "TERMINATED", "OK_then_TERMINATED", "crash"}

VARIABLES
  rows,      \* the table, in row order
  now,       \* the clock
  tree,      \* the program under test: a version, and the version of HEAD
  covered,   \* tests with a file under coverage/
  modes,     \* the run modes this user picks from
  guid,      \* the last run identifier given out
  phase,     \* "idle", "prepared", "running"
  plan,      \* what the last preparation decided
  queue,     \* tests the runner has still to start
  genuine    \* history: start and duration of the last passing execution

vars == <<rows, now, tree, covered, modes, guid, phase, plan, queue, genuine>>

-----------------------------------------------------------------------------
(* Records and what is derived from them.                                   *)

(* A record: on is history, the version of the program the test ran on.     *)
Row(r, t, pid, code, at, fp, on) ==
  [run |-> r, name |-> t, pid |-> pid, code |-> code, ts |-> at, fp |-> fp, on |-> on]

(* status_record: no process, stamped with the current time.                *)
StatusRow(r, t, code, at, fp) == Row(r, t, FALSE, code, at, fp, 0)

Records(r) == {i \in DOMAIN rows : rows[i].run = r}

(* query(None): the records of the run with the greatest identifier.        *)
MostRecentRecords ==
  {i \in DOMAIN rows : \A j \in DOMAIN rows : rows[j].run =< rows[i].run}

StateOf(x) ==
  CASE x.code = "OK"         -> "Pass"
    [] x.code = "FAILED"     -> "Fail"
    [] x.code = "TERMINATED" -> "Terminated"
    [] x.code = "STOPPED"    -> "Stopped"
    [] OTHER                 -> IF x.pid THEN "Running" ELSE "Queued"

TerminalStates == {"Pass", "Fail", "Terminated", "Stopped"}

(* The run of records that are all of one.                                  *)
RunOf(infos) == rows[CHOOSE i \in infos : TRUE].run

NamesIn(infos) == {rows[i].name : i \in infos}

(* latest_info_per_name: the greatest time stamp, the later row on a tie.   *)
LatestInfo(infos, t) ==
  LET mine == {i \in infos : rows[i].name = t}
      NotAfter(j, i) == \/ rows[j].ts < rows[i].ts
                        \/ rows[j].ts = rows[i].ts /\ j =< i
  IN  rows[CHOOSE i \in mine : \A j \in mine : NotAfter(j, i)]

LatestState(infos, t) == StateOf(LatestInfo(infos, t))

PassedIn(infos) == {rows[i].name : i \in {j \in infos : rows[j].code = "OK"}}

(* query_last_pass for one test: the run with the greatest identifier in    *)
(* which it passed; from its first record with a process to the passing one.*)
LastPass(t) ==
  LET ok == {i \in DOMAIN rows : rows[i].name = t /\ rows[i].code = "OK"}
      p  == CHOOSE i \in ok : \A j \in ok : rows[j].run =< rows[i].run
      started == {rows[i].ts : i \in {j \in DOMAIN rows :
                    rows[j].name = t /\ rows[j].run = rows[p].run /\ rows[j].pid}}
      first == CHOOSE s \in started : \A u \in started : s =< u
  IN  IF ok = {} THEN <<>> ELSE <<first, rows[p].ts - first>>

EverRun == {rows[i].name : i \in {j \in DOMAIN rows : rows[j].pid}}

(* build_run_history: one run's summary.                                    *)
Summary(r) ==
  LET infos == Records(r)
      stamps == {rows[i].ts : i \in infos}
      InState(S) == Cardinality({t \in NamesIn(infos) : LatestState(infos, t) \in S})
  IN  [start    |-> CHOOSE s \in stamps : \A u \in stamps : s =< u,
       end      |-> CHOOSE s \in stamps : \A u \in stamps : s >= u,
       n_pass   |-> InState({"Pass"}),
       n_fail   |-> InState({"Fail"}),
       n_other  |-> InState({"Queued", "Running", "Terminated", "Stopped"}),
       complete |-> InState(TerminalStates) = Cardinality(NamesIn(infos)),
       failed   |-> {t \in NamesIn(infos) : LatestState(infos, t) = "Fail"}]

-----------------------------------------------------------------------------
(* The program under test.                                                  *)

(* A slip: whether there are changes is left out, and so is the commit.     *)
FingerprintOfRelease == <<1, "">>

(* PutVersionInfo.fingerprint: name, version and source do not change here; *)
(* what is left is the commit and whether the tree has changes.             *)
Fingerprint == <<tree.head, IF tree.dirty THEN "dirty" ELSE "clean">>

-----------------------------------------------------------------------------
(* Ordering.                                                                *)

Infinity == 1000000   \* the key of a test without data

(* _key_for: the lower the key, the earlier the test.                       *)
Key(aspect, t, ctx) ==
  CASE aspect = "failed_first"        -> IF t \in ctx.failed THEN 0 ELSE 1
    [] aspect = "never_run_first"     -> IF t \in ctx.ever THEN 1 ELSE 0
    [] aspect = "longest_prior_first" -> IF ctx.last[t] = <<>> THEN 0 ELSE -ctx.last[t][2]
    [] aspect = "coverage_efficiency" ->
         IF ctx.last[t] = <<>> \/ t \notin DOMAIN ctx.covered THEN Infinity
         ELSE -((ctx.covered[t] * 60) \div ctx.last[t][2])

SingletonKey(t) == IF t \in SingletonsAt[tree.now] THEN 1 ELSE 0

(* sorted(..., key): the numbers in S by their keys, which are pairs; those *)
(* of equal keys stay in order.                                             *)
SortedBy(S, key) ==
  LET Before(i, j) == LET a == key[i]
                          b == key[j]
                      IN  \/ a[1] < b[1]
                          \/ a[1] = b[1] /\ a[2] < b[2]
                          \/ a = b /\ i < j
      PlaceOf(i) == 1 + Cardinality({j \in S : Before(j, i)})
  IN  [k \in 1..Cardinality(S) |-> CHOOSE i \in S : PlaceOf(i) = k]

(* One stable sort by (singleton, key): a test moves past those before it   *)
(* only if its key is strictly smaller.                                     *)
StableSort(list, key) ==
  LET order == SortedBy(DOMAIN list, [i \in DOMAIN list |-> <<SingletonKey(list[i]), key[list[i]]>>])
  IN  [k \in DOMAIN list |-> list[order[k]]]

Alphabetical(tests) == SortedBy(tests, [t \in tests |-> <<SingletonKey(t), t>>])

(* A slip: the chain starts with the aspect of highest priority.            *)
OrderingFromTheFront(tests, aspects, ctx) ==
  LET Sorted(list, a) == StableSort(list, [t \in Tests |-> Key(a, t, ctx)])
  IN  FoldLeft(Sorted, Alphabetical(tests), aspects)

(* apply_ordering_aspects: alphabetical, then one stable sort per aspect,   *)
(* the one of highest priority last.                                        *)
ApplyOrderingAspects(tests, aspects, ctx) ==
  LET Sorted(a, list) == StableSort(list, [t \in Tests |-> Key(a, t, ctx)])
  IN  FoldRight(Sorted, aspects, Alphabetical(tests))

-----------------------------------------------------------------------------
(* Outside a preparation and a run nothing of the plan is left.             *)
NoPlan ==
  [mode |-> "restart", effective |-> "restart", suite |-> {}, skipped |-> {}, order |-> <<>>,
   aspects |-> <<>>, ctx |-> <<>>, fp |-> <<0, "">>, on |-> 0, start |-> 0, had |-> {}]

Init ==
  /\ rows = <<>> /\ now = 1 /\ covered = {} /\ guid = 0 /\ modes \in Habits
  /\ tree = [now |-> 1, head |-> 1, dirty |-> FALSE]
  /\ phase = "idle" /\ queue = <<>>
  /\ plan = NoPlan
  /\ genuine = [t \in Tests |-> <<>>]

(* Between runs: edit the program, then commit it, revert the edit or check *)
(* out another commit.                                                      *)
Edit ==
  /\ phase = "idle" /\ guid \in 1..(MaxRuns - 1)
  /\ \E v \in 1..MaxTree : v # tree.now /\ tree' = [tree EXCEPT !.now = v, !.dirty = TRUE]
  /\ UNCHANGED <<rows, now, covered, modes, guid, phase, plan, queue, genuine>>

Checkout ==
  /\ phase = "idle" /\ guid \in 1..(MaxRuns - 1)
  /\ \E v \in 1..MaxTree : tree' = [now |-> v, head |-> v, dirty |-> FALSE]
  /\ tree' # tree
  /\ UNCHANGED <<rows, now, covered, modes, guid, phase, plan, queue, genuine>>

(* _resolve_check_mode: the first record that has a fingerprint speaks for  *)
(* the whole run.                                                           *)
ResolveCheckMode(prior, fp) ==
  LET first == CHOOSE i \in prior : \A j \in prior : i =< j
  IN  IF prior # {} /\ rows[first].fp = fp THEN "resume" ELSE "restart"

(* _filter_for_resume.                                                      *)
FilterForResume(tests, prior, effective) ==
  IF effective = "resume" THEN tests \ PassedIn(prior) ELSE tests

(* Slips: only the last record of a test is copied; the copies get a new    *)
(* time stamp.                                                              *)
CarriedOverLatest(prior, skipped, r) ==
  LET names == SortedBy(skipped, [t \in skipped |-> <<t, 0>>])
  IN  [k \in DOMAIN names |-> [LatestInfo(prior, names[k]) EXCEPT !.run = r]]

CarriedOverRestamped(prior, skipped, r) ==
  LET mine  == {i \in prior : rows[i].name \in skipped}
      order == SortedBy(mine, [i \in mine |-> <<rows[i].name, i>>])
  IN  [k \in DOMAIN order |-> [rows[order[k]] EXCEPT !.run = r, !.ts = now]]

(* The records of the skipped tests, under the new run's identifier, with   *)
(* their own time stamps; by name, then in row order.                       *)
CarriedOver(prior, skipped, r) ==
  LET mine  == {i \in prior : rows[i].name \in skipped}
      order == SortedBy(mine, [i \in mine |-> <<rows[i].name, i>>])
  IN  [k \in DOMAIN order |-> [rows[order[k]] EXCEPT !.run = r]]

(* Clear the coverage of the run before, unless its passes are kept.        *)
CoverageAfterReset(effective) == IF effective = "resume" THEN covered ELSE {}

(* compute_per_test_coverage, up to its common denominator: a test without  *)
(* a file has none.                                                         *)
PerTestCoverage(tests, files) == [t \in tests \cap files |-> Coverage[t]]

(* What ordering knows: everybody in the run before who has no pass has     *)
(* failed; the coverage is read after it has been cleared.                  *)
OrderingContext(todo, prior, effective) ==
  [failed  |-> NamesIn(prior) \ PassedIn(prior),
   ever    |-> EverRun,
   last    |-> [t \in Tests |-> LastPass(t)],
   covered |-> PerTestCoverage(todo, CoverageAfterReset(effective))]

(* Run is clicked and the preparation goes up to the creation of a runner.  *)
Prepare(mode, suite, aspects) ==
  LET prior     == MostRecentRecords
      effective == IF mode = "check" THEN ResolveCheckMode(prior, Fingerprint) ELSE mode
      todo      == FilterForResume(suite, prior, effective)
      skipped   == IF effective = "resume" THEN suite \ todo ELSE {}
      ctx       == OrderingContext(todo, prior, effective)
      order     == ApplyOrderingAspects(todo, aspects, ctx)
  IN  /\ phase = "idle" /\ guid < MaxRuns /\ (tree.dirty => DirtyRuns)
      /\ guid' = guid + 1
      /\ rows' = rows \o CarriedOver(prior, skipped, guid + 1)
      /\ covered' = CoverageAfterReset(effective)
      /\ plan' = [mode |-> mode, effective |-> effective, suite |-> suite, skipped |-> skipped,
                  order |-> order, aspects |-> aspects, ctx |-> ctx, fp |-> Fingerprint,
                  on |-> tree.now, start |-> now, had |-> covered]
      /\ phase' = "prepared"
      /\ UNCHANGED <<now, tree, modes, queue, genuine>>

(* The preparation is aborted, after the copies were written.               *)
AbortPreparation ==
  /\ phase = "prepared" /\ phase' = "idle" /\ plan' = NoPlan /\ guid < MaxRuns
  /\ UNCHANGED <<rows, now, tree, covered, modes, guid, queue, genuine>>

(* The runner starts: every test gets a QUEUED record.                      *)
Enqueue ==
  /\ phase = "prepared" /\ phase' = "running" /\ guid < MaxRuns
  /\ queue' = plan.order /\ now' = now + 1
  /\ rows' = rows \o [i \in DOMAIN plan.order |->
                        StatusRow(guid, plan.order[i], "NONE", now, plan.fp)]
  /\ UNCHANGED <<tree, covered, modes, guid, plan, genuine>>

(* A test runs: RUNNING, then its own record; killed, TERMINATED instead or *)
(* on top of it; a process that crashes leaves its RUNNING record.          *)
RunTest(outcome) ==
  LET t     == Head(queue)
      ends  == now + Takes[t][guid]
      code  == IF outcome = "OK_then_TERMINATED" THEN "OK" ELSE outcome
      ran   == <<Row(guid, t, TRUE, "NONE", now, plan.fp, plan.on)>>
      own   == <<Row(guid, t, TRUE, code, ends, plan.fp, plan.on)>>
      kill  == <<StatusRow(guid, t, "TERMINATED", ends, plan.fp)>>
  IN  /\ phase = "running" /\ queue # <<>>
      /\ queue' = Tail(queue) /\ now' = ends + 1
      /\ rows' = rows \o ran \o CASE outcome = "TERMINATED" -> kill
                                  [] outcome = "OK_then_TERMINATED" -> own \o kill
                                  [] outcome = "crash" -> <<>>
                                  [] OTHER -> own
      /\ covered' = IF code \in {"OK", "FAILED"} THEN covered \cup {t} ELSE covered
      /\ genuine' = IF code = "OK" THEN [genuine EXCEPT ![t] = <<now, Takes[t][guid]>>] ELSE genuine
      /\ UNCHANGED <<tree, modes, guid, phase, plan>>

(* A soft stop is finalised, or a force stop resets the run: what is not    *)
(* terminal becomes STOPPED.                                                *)
StopRun ==
  LET infos == Records(guid)
      open  == {t \in NamesIn(infos) : LatestState(infos, t) \notin TerminalStates}
      names == SortedBy(open, [t \in open |-> <<t, 0>>])
  IN  /\ phase = "running" /\ open # {}
      /\ rows' = rows \o [i \in DOMAIN names |-> StatusRow(guid, names[i], "STOPPED", now, plan.fp)]
      /\ now' = now + 1 /\ queue' = <<>> /\ phase' = "idle" /\ plan' = NoPlan
      /\ UNCHANGED <<tree, covered, modes, guid, genuine>>

(* The run ends with its queue.                                             *)
FinishRun ==
  /\ phase = "running" /\ queue = <<>> /\ phase' = "idle" /\ plan' = NoPlan
  /\ UNCHANGED <<rows, now, tree, covered, modes, guid, queue, genuine>>

(* The application dies with the run; the records stay as they are.         *)
AppCrash ==
  /\ phase = "running" /\ queue # <<>> /\ queue' = <<>> /\ phase' = "idle" /\ plan' = NoPlan
  /\ UNCHANGED <<rows, now, tree, covered, modes, guid, genuine>>

(* mark_test_terminated_if_stale, from the table, with no run active.       *)
MarkTerminatedIfStale(t) ==
  LET infos == MostRecentRecords IN
  /\ phase = "idle" /\ t \in NamesIn(infos) /\ LatestState(infos, t) \notin TerminalStates
  /\ rows' = Append(rows, StatusRow(RunOf(infos), t, "TERMINATED", now, LatestInfo(infos, t).fp))
  /\ now' = now + 1
  /\ UNCHANGED <<tree, covered, modes, guid, phase, plan, queue, genuine>>

Next ==
  \/ Edit \/ Checkout
  \/ \E mode \in modes, suite \in Suites, aspects \in AspectLists : Prepare(mode, suite, aspects)
  \/ AbortPreparation \/ Enqueue \/ StopRun \/ FinishRun \/ AppCrash
  \/ \E outcome \in Outcomes : RunTest(outcome)
  \/ \E t \in Tests : MarkTerminatedIfStale(t)

Spec == Init /\ [][Next]_vars

-----------------------------------------------------------------------------
(* For a user who never resumes regardless: CHECK skips a test only if the  *)
(* pass it carries over was obtained on the program as it is now, through   *)
(* whatever chain of runs, copies, checkouts and stops it came.             *)
CheckSkipsOnlyProven ==
  phase = "prepared" /\ plan.mode = "check" /\ "resume" \notin modes =>
    \A t \in plan.skipped : \E i \in DOMAIN rows :
      /\ rows[i].run = guid /\ rows[i].name = t
      /\ rows[i].code = "OK" /\ rows[i].on = plan.on

(* Resuming loses no pass: what had passed in the last run that left any    *)
(* record, itself perhaps a resumed, aborted, stopped or crashed one, is    *)
(* passed in the new run before its runner exists.                          *)
ResumeKeepsPasses ==
  phase = "prepared" /\ plan.effective = "resume" =>
    LET earlier == {rows[i].run : i \in DOMAIN rows} \ {guid} IN
    \A r \in earlier : (\A q \in earlier : q =< r) =>
      PassedIn(Records(r)) \cap plan.suite \subseteq PassedIn(Records(guid))

(* What is shown as a test's last pass, and what estimates are made from,   *)
(* is the start and the duration of its last execution that passed, however *)
(* often its records were copied since and however later runs ended.        *)
LastPassIsGenuine == \A t \in Tests : LastPass(t) = genuine[t]

(* All of a test's keys, and the lexicographic order of such tuples.        *)
KeysOf(aspects, ctx, t) ==
  <<SingletonKey(t)>> \o [a \in DOMAIN aspects |-> Key(aspects[a], t, ctx)] \o <<t>>

LexLess(x, y) == \E k \in DOMAIN x : x[k] < y[k] /\ \A m \in 1..(k - 1) : x[m] = y[m]

(* The chain of sorts queues the tests that are to run, each once,          *)
(* singletons last, and in the lexicographic order of the enabled aspects,  *)
(* the first of them counting most, names deciding ties.                    *)
OrderFollowsAspects ==
  phase = "prepared" =>
    /\ Range(plan.order) = plan.suite \ plan.skipped
    /\ \A i, j \in DOMAIN plan.order : i < j =>
         LexLess(KeysOf(plan.aspects, plan.ctx, plan.order[i]),
                 KeysOf(plan.aspects, plan.ctx, plan.order[j]))

(* Not true of the code: a run's start in the history, which is to be the   *)
(* wall-clock start of the run, is not before Run was clicked.              *)
HistoryStartsWithRun ==
  phase = "running" => Summary(guid).start >= plan.start

(* Not true of the code: durations and coverage known when Run is clicked   *)
(* inform the order, whatever the mode.                                     *)
OrderUsesCoverage ==
  phase = "prepared" /\ "coverage_efficiency" \in Range(plan.aspects) =>
    \A t \in Range(plan.order) :
      plan.ctx.last[t] # <<>> /\ t \in plan.had => Key("coverage_efficiency", t, plan.ctx) # Infinity
=============================================================================
