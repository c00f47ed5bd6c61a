------------------------------ MODULE Evidence ------------------------------
(***************************************************************************)
(* From an E2E run to the repeatability report of its campaign: the        *)
(* timeline (reports/timeline.go), the summary of the run                  *)
(* (reports/report.go, cmd/e2e-report) and the aggregate                   *)
(* (cmd/e2e-repeat-report), chained as scripts/run-e2e.sh and              *)
(* scripts/repeat-e2e.sh chain them.  The run is the last of its campaign; *)
(* the directories of the runs before it are taken as they may be.         *)
(*                                                                         *)
(* External: `go test -json` and the tests.  Tests run concurrently, a     *)
(* parent ends after its subtests and fails with them; the test binary may *)
(* panic or time out, the go command may be killed, writes may fail.  A    *)
(* name is a sequence of segments: "TestF/a" is <<"TestF", "a">>.          *)
(***************************************************************************)
EXTENDS Integers, Sequences, FiniteSets, SequencesExt

CONSTANTS
  Suites, Subtests,  \* top-level tests, and the subtests each may have
  Observers,         \* goroutines that record one checkpoint each
  Durations,         \* what a test may take
  Earlier            \* numbers of passing runs before this one

ASSUME EvidenceAssumption ==
  /\ Subtests # {} /\ Suites # {}
  /\ Durations \subseteq Nat /\ Earlier \subseteq Nat

Tests == {<<s>> : s \in Suites} \cup (Suites \X Subtests)
Terminal == {"pass", "fail", "skip"}

VARIABLES
  stage,               \* of the scripts
  tests, stream,       \* external: what the tests did; go-test.json
  record, clock,       \* Record calls in progress; a logical time
  timeline,            \* events.jsonl
  summary, file,       \* what e2e-report holds, the next file it writes
  bundle,              \* summary.json, summary.md and junit.xml
  report,              \* repeat-summary.json
  truth,               \* history: what really became of the run
  recorded             \* history: checkpoints whose Record returned nil

vars == <<stage, tests, stream, record, clock, timeline, summary, file,
          bundle, report, truth, recorded>>
reporting == <<summary, file, bundle, report>>

Line(t, action, elapsed) ==
  [test |-> t, action |-> action, elapsed |-> elapsed]
Torn == Line(<<>>, "torn", 0)  \* a line that does not decode
NoSummary == [Tests |-> <<>>, Passed |-> 0, Failed |-> 0, Skipped |-> 0,
              Checkpoints |-> <<>>]
NoBundle == [json |-> "absent", summary |-> NoSummary, md |-> FALSE,
             junit |-> <<>>]
NoReport == [state |-> "none"]
Unknown == [failed |-> FALSE, leaves |-> <<>>, unreadable |-> FALSE,
            unopened |-> FALSE, unwritten |-> FALSE]

Below(t, names) == {u \in names : IsStrictPrefix(t, u)}
Begun == {t \in Tests : tests[t] # "idle"}
Running == {t \in Tests : tests[t] = "running"}

Init ==
  /\ stage = "testing"
  /\ tests = [t \in Tests |-> "idle"] /\ stream = <<>>
  /\ record = [o \in Observers |-> [pc |-> "idle", at |-> 0]] /\ clock = 0
  /\ timeline = <<>>
  /\ summary = NoSummary /\ file = "none"
  /\ bundle = NoBundle /\ report = NoReport
  /\ truth = Unknown /\ recorded = {}

-----------------------------------------------------------------------------
(* External: the tests and the go command *)

StartTest(t) ==
  /\ stage = "testing" /\ tests[t] = "idle"
  /\ \A u \in Tests : IsStrictPrefix(u, t) => tests[u] = "running"
  /\ tests' = [tests EXCEPT ![t] = "running"]
  /\ stream' = Append(stream, Line(t, "run", 0))
  /\ UNCHANGED <<stage, record, clock, timeline, reporting, truth,
                 recorded>>

FinishTest(t, status, elapsed) ==
  /\ stage = "testing" /\ tests[t] = "running" /\ Below(t, Running) = {}
  /\ status = "skip" => Below(t, Begun) = {}
  /\ (\E u \in Below(t, Begun) : tests[u] = "fail") => status = "fail"
  /\ tests' = [tests EXCEPT ![t] = status]
  /\ stream' = Append(stream, Line(t, status, elapsed))
  /\ UNCHANGED <<stage, record, clock, timeline, reporting, truth,
                 recorded>>

Outcome(failed) ==
  LET leaves == {t \in Begun : Below(t, Begun) = {}}
  IN [Unknown EXCEPT !.failed = failed,
        !.leaves = [t \in leaves |-> IF tests[t] = "running" THEN "fail"
                                     ELSE tests[t]]]

(* The package ends: with its tests, with an exit of TestMain that the      *)
(* tests do not explain, or with a panic or a timeout that leaves tests     *)
(* running, with or without a line for them.  Or the go command is killed,  *)
(* maybe in the middle of a line.  The tests and the Record calls in        *)
(* progress end with their process.                                         *)
EndTests ==
  /\ stage = "testing"
  /\ \E failed \in BOOLEAN :
       /\ Running # {} \/ (\E t \in Begun : tests[t] = "fail") => failed
       /\ \/ stream' = Append(stream, Line(<<>>, IF failed THEN "fail"
                                                 ELSE "pass", 0))
          \/ /\ Running # {}
             /\ \E t \in Running :
                  stream' = stream \o <<Line(t, "fail", 0),
                                        Line(<<>>, "fail", 0)>>
          \/ failed /\ stream' \in {stream, Append(stream, Torn)}
       /\ truth' = Outcome(failed)
  /\ stage' = "reporting"
  /\ tests' = [t \in Tests |-> "idle"]
  /\ record' = [o \in Observers |-> [pc |-> "idle", at |-> 0]]
  /\ UNCHANGED <<clock, timeline, reporting, recorded>>

-----------------------------------------------------------------------------
(* The timeline *)

(* Mutant of Stamp: Record returns nil at once and a goroutine of its own   *)
(* writes the line.                                                         *)
StampInBackground(o) ==
  /\ stage = "testing" /\ record[o].pc = "idle"
  /\ record' = [record EXCEPT ![o] = [pc |-> "stamped", at |-> clock]]
  /\ recorded' = recorded \cup {[by |-> o, from |-> clock, to |-> clock]}
  /\ clock' = clock + 1
  /\ UNCHANGED <<stage, tests, stream, timeline, reporting, truth>>

(* Record takes the time before it asks for the lock.                       *)
Stamp(o) ==
  /\ stage = "testing" /\ record[o].pc = "idle"
  /\ record' = [record EXCEPT ![o] = [pc |-> "stamped", at |-> clock]]
  /\ clock' = clock + 1
  /\ UNCHANGED <<stage, tests, stream, timeline, reporting, truth,
                 recorded>>

Appended(event) == Append(timeline, event)

(* Under the lock: the line is written, not at all or in part, and synced.  *)
Record(o) ==
  LET event == [by |-> o, at |-> record[o].at, whole |-> TRUE]
  IN /\ stage = "testing" /\ record[o].pc = "stamped"
     /\ \/ /\ timeline' = Appended(event)
           /\ recorded' = recorded \cup
                {[by |-> o, from |-> record[o].at, to |-> clock]}
        \/ /\ timeline' \in {timeline, Appended(event),
                             Appended([event EXCEPT !.whole = FALSE])}
           /\ UNCHANGED recorded
     /\ record' = [record EXCEPT ![o].pc = "done"]
     /\ clock' = clock + 1
     /\ UNCHANGED <<stage, tests, stream, reporting, truth>>

-----------------------------------------------------------------------------
(* cmd/e2e-report *)

(* One line of the stream, applied to the results so far.                   *)
Apply(results, event) ==
  IF event.test = <<>> THEN results
  ELSE LET known == IF event.test \in DOMAIN results THEN results[event.test]
                    ELSE [status |-> "running", elapsed |-> 0]
           result == IF event.action \in Terminal
                     THEN [status |-> event.action, elapsed |-> event.elapsed]
                     ELSE known
       IN [t \in DOMAIN results \cup {event.test} |->
             IF t = event.test THEN result ELSE results[t]]

(* Mutant of Finished: a test without a terminal event keeps its status.    *)
FinishedAsIs(result) == result

(* A test whose stream ended without a terminal event has failed.           *)
Finished(result) ==
  IF result.status = "running" THEN [result EXCEPT !.status = "fail"]
  ELSE result

(* Mutant of Reported: aggregate parents are reported as well.              *)
ReportedWithParents(names) == names

(* Reports count executable scenarios, not the tests that contain them.     *)
Reported(names) == {t \in names : Below(t, names) = {}}

Parse(lines) ==
  LET results == FoldLeft(Apply, <<>>, lines)
      final == [t \in Reported(DOMAIN results) |-> Finished(results[t])]
      count(S) == Cardinality({t \in DOMAIN final : final[t].status \in S})
  IN [NoSummary EXCEPT
        !.Tests = final, !.Passed = count({"pass"}),
        !.Skipped = count({"skip"}),
        !.Failed = Cardinality(DOMAIN final) - count({"pass", "skip"})]

(* One case per test; only a status "fail" makes a failure element.         *)
toJUnit(s) ==
  [tests |-> Cardinality(DOMAIN s.Tests), failures |-> s.Failed,
   skipped |-> s.Skipped,
   failed |-> {t \in DOMAIN s.Tests : s.Tests[t].status = "fail"}]

(* Mutant of LoadTimeline: a line that does not decode is an empty file.    *)
LoadTimelineLeniently(lines) ==
  IF \A i \in DOMAIN lines : lines[i].whole THEN {lines} ELSE {<<>>}

(* No result if a line does not decode.                                     *)
LoadTimeline(lines) ==
  IF \A i \in DOMAIN lines : lines[i].whole THEN {lines} ELSE {}

(* Any line that does not decode ends the report; a timeline that cannot be *)
(* opened is taken for an empty one.  The stream is not read again, so the  *)
(* model forgets it.                                                        *)
Summarise ==
  /\ stage = "reporting" /\ file = "none"
  /\ \E opened \in BOOLEAN :
       LET loaded == IF opened THEN LoadTimeline(timeline) ELSE {<<>>}
       IN IF Torn \notin Range(stream) /\ loaded # {}
          THEN /\ \E events \in loaded :
                    summary' = [Parse(stream) EXCEPT !.Checkpoints = events]
               /\ truth' = [truth EXCEPT !.unopened = ~opened]
               /\ file' = "json" /\ stage' = stage
          ELSE /\ truth' = [truth EXCEPT !.unreadable = TRUE]
               /\ stage' = "aggregating" /\ UNCHANGED <<summary, file>>
  /\ stream' = <<>>
  /\ UNCHANGED <<tests, record, clock, timeline, bundle, report, recorded>>

Following(f) == CASE f = "json" -> "md" [] f = "md" -> "junit"
                  [] OTHER -> "none"

(* Mutant of AfterFailure: a file that fails does not end the bundle.       *)
AfterFailureGoOn(f) ==
  /\ file' = Following(f)
  /\ stage' = IF f = "junit" THEN "aggregating" ELSE stage

AfterFailure(f) == file' = "none" /\ stage' = "aggregating"

(* One file after the other; the first that fails ends the report, and may  *)
(* be left cut off.                                                         *)
WriteBundle ==
  /\ stage = "reporting" /\ file # "none"
  /\ \/ /\ bundle' =
             CASE file = "json" -> [bundle EXCEPT !.json = "whole",
                                                  !.summary = summary]
               [] file = "md" -> [bundle EXCEPT !.md = TRUE]
               [] file = "junit" -> [bundle EXCEPT
                                       !.junit = toJUnit(summary)]
        /\ file' = Following(file)
        /\ stage' = IF file = "junit" THEN "aggregating" ELSE stage
        /\ UNCHANGED truth
     \/ /\ \E left \in {"absent", "torn"} :
             bundle' = IF file = "json"
                       THEN [bundle EXCEPT !.json = left] ELSE bundle
        /\ AfterFailure(file)
        /\ truth' = [truth EXCEPT !.unwritten = TRUE]
  /\ UNCHANGED <<tests, stream, record, clock, timeline, summary, report,
                 recorded>>

-----------------------------------------------------------------------------
(* cmd/e2e-repeat-report *)

(* Mutant of p95Index: the product is cut off and the -1 forgotten.         *)
p95IndexTruncated(n) == (95 * n) \div 100 + 1

(* math.Ceil(n * 0.95) - 1, counted from one.                               *)
p95Index(n) == (95 * n + 99) \div 100

(* Mutant of counted: whatever did not pass has failed.                     *)
countedNotPassed(s, status) ==
  IF status = "pass" THEN [s EXCEPT !.Passed = @ + 1]
  ELSE [s EXCEPT !.Failed = @ + 1]

counted(s, status) ==
  CASE status = "pass" -> [s EXCEPT !.Passed = @ + 1]
    [] status = "fail" -> [s EXCEPT !.Failed = @ + 1]
    [] OTHER -> s

(* One test of a run, added to the scenario of its name.                    *)
AddTest(byScenario, name, test) ==
  LET known == IF name \in DOMAIN byScenario THEN byScenario[name]
               ELSE [Executions |-> 0, Passed |-> 0, Failed |-> 0,
                     durations |-> <<>>]
      added == counted([known EXCEPT !.Executions = @ + 1,
                          !.durations = Append(@, test.elapsed)], test.status)
  IN [n \in DOMAIN byScenario \cup {name} |->
        IF n = name THEN added ELSE byScenario[n]]

(* Mutant of passing: a run with a passing test is a passing run.           *)
passingIfAny(s) == s.Passed > 0 \/ s.Failed = 0

passing(s) == s.Failed = 0

(* One summary.json, added to the result so far.                            *)
AddRun(result, entry) ==
  LET s == entry.summary
  IN [Runs |-> result.Runs + 1,
      PassingRuns |-> result.PassingRuns + (IF passing(s) THEN 1 ELSE 0),
      FailingRuns |-> result.FailingRuns + (IF passing(s) THEN 0 ELSE 1),
      ScenarioExecutions |->
        result.ScenarioExecutions + Cardinality(DOMAIN s.Tests),
      byScenario |->
        FoldSet(LAMBDA t, acc : AddTest(acc, t, s.Tests[t]),
                result.byScenario, DOMAIN s.Tests),
      FailedRunIDs |-> result.FailedRunIDs \cup
                         (IF passing(s) THEN {} ELSE {entry.id})]

(* External: sort.Float64s.  At place i is the value that fewer than i are  *)
(* below and at least i do not exceed.                                      *)
Sorted(s) ==
  [i \in DOMAIN s |-> CHOOSE d \in Range(s) :
     /\ Cardinality({j \in DOMAIN s : s[j] < d}) < i
     /\ i <= Cardinality({j \in DOMAIN s : s[j] <= d})]

aggregate(entries) ==
  LET total == FoldLeft(AddRun,
        [Runs |-> 0, PassingRuns |-> 0, FailingRuns |-> 0,
         ScenarioExecutions |-> 0, byScenario |-> <<>>,
         FailedRunIDs |-> {}], entries)
      timed(s) == LET sorted == Sorted(s.durations)
                  IN [Executions |-> s.Executions, Passed |-> s.Passed,
                      Failed |-> s.Failed, durations |-> sorted,
                      P95 |-> sorted[p95Index(Len(sorted))],
                      Max |-> sorted[Len(sorted)]]
  IN [total EXCEPT !.byScenario =
        [n \in DOMAIN @ |-> timed(total.byScenario[n])]]

(* A run of one scenario.                                                   *)
RunOf(id, json, status, elapsed) ==
  [id |-> id, json |-> json,
   summary |->
     [NoSummary EXCEPT
        !.Passed = IF status = "pass" THEN 1 ELSE 0,
        !.Failed = IF status = "pass" THEN 0 ELSE 1,
        !.Tests = [t \in {CHOOSE t \in Tests : Len(t) = 2} |->
                     [status |-> status, elapsed |-> elapsed]]]]

(* Passing runs, with falling durations, and one of another kind.           *)
Archive(k) == [i \in 1 .. k |-> RunOf(i, "whole", "pass", k - i)]
Another(k, kind) ==
  RunOf(k + 1, IF kind = "failing" THEN "whole" ELSE kind, "fail", 1)

(* A directory without a summary is passed over.                            *)
Entry(directory) ==
  IF directory.json = "absent" THEN <<>> ELSE <<directory>>

(* A summary that does not decode, or no summary at all, is an error, and   *)
(* the write of repeat-summary.json may fail.  That of its Markdown copy    *)
(* may fail as well, after which the JSON stands all the same.              *)
Aggregate ==
  /\ stage = "aggregating"
  /\ \E k \in Earlier, kind \in {"failing", "absent", "torn"} :
       LET entries == Archive(k) \o Entry(Another(k, kind)) \o
             Entry([id |-> 0, json |-> bundle.json,
                    summary |-> bundle.summary])
       IN \/ /\ \A i \in DOMAIN entries : entries[i].json = "whole"
             /\ entries # <<>>
             /\ report' = [state |-> "written", of |-> entries,
                           result |-> aggregate(entries)]
          \/ report' = [state |-> "error"]
  /\ stage' = "done"
  /\ UNCHANGED <<tests, stream, record, clock, timeline, summary, file,
                 bundle, truth, recorded>>

Next ==
  \/ \E t \in Tests : \/ StartTest(t)
                      \/ \E s \in Terminal, d \in Durations :
                           FinishTest(t, s, d)
  \/ \E o \in Observers : Stamp(o) \/ Record(o)
  \/ EndTests \/ Summarise \/ WriteBundle \/ Aggregate

Spec == Init /\ [][Next]_vars

-----------------------------------------------------------------------------
(* Properties *)

Whole == bundle.json = "whole"

(* A bundle is written in order: a later file only after the earlier ones   *)
(* (WriteBundle).                                                           *)
TypeOK ==
  /\ stage \in {"testing", "reporting", "aggregating", "done"}
  /\ clock \in Nat
  /\ tests \in [Tests -> {"idle", "running"} \cup Terminal]
  /\ record \in [Observers ->
       [pc : {"idle", "stamped", "done"}, at : Nat]]
  /\ file \in {"none", "json", "md", "junit"}
  /\ bundle.md => Whole
  /\ bundle.junit # <<>> => bundle.md

(* A summary tells what really became of each scenario: all leaf tests that *)
(* were begun, and no others, with the status they ended with, or as failed *)
(* when the run ended under them; in any interleaving of the tests and      *)
(* whatever cut the run short (Parse).                                      *)
SummaryTellsTheTruth ==
  Whole => [t \in DOMAIN bundle.summary.Tests |->
              bundle.summary.Tests[t].status] = truth.leaves

(* The JUnit file marks as many cases failed as it and the summary count,   *)
(* and its cases are those counted as passed, failed or skipped (Parse,     *)
(* toJUnit, WriteBundle).                                                   *)
JUnitAgrees ==
  bundle.junit # <<>> =>
    /\ Cardinality(bundle.junit.failed) = bundle.junit.failures
    /\ bundle.junit.tests = bundle.summary.Passed + bundle.summary.Failed
                              + bundle.summary.Skipped

(* A checkpoint whose Record returned nil is in the summary, if there is    *)
(* one and the timeline could be opened (Record, LoadTimeline, main of      *)
(* e2e-report).                                                             *)
CheckpointsSurvive ==
  Whole /\ ~truth.unopened =>
    \A c \in recorded : \E i \in DOMAIN bundle.summary.Checkpoints :
      bundle.summary.Checkpoints[i].by = c.by

(* What the order of the file does say: a checkpoint whose Record returned  *)
(* before another Record began stands before it.  Of calls that overlapped  *)
(* it says nothing, not even the order of their times, which is             *)
(* TimelineIsChronological below (Record).                                  *)
TimelineRespectsRealTime ==
  \A c, d \in recorded : c.to < d.from =>
    \E i, j \in DOMAIN timeline :
      i < j /\ timeline[i].by = c.by /\ timeline[j].by = d.by

(* What the comment of TimelineEvent says: the timeline is in chronological *)
(* order.  Record takes the time before it asks for the lock, so an         *)
(* observer that is overtaken in between writes an earlier time after a     *)
(* later one.                                                               *)
TimelineIsChronological ==
  \A i, j \in DOMAIN timeline : i < j => timeline[i].at <= timeline[j].at

(* The repeatability report hides no failed scenario and invents no failure:*)
(* a run that failed is listed, unless none of its leaf tests failed (the   *)
(* package or a parent did), or its files could not be read or written; a   *)
(* run that passed is not listed (aggregate, Parse).                        *)
FailedRunIsListed ==
  report.state = "written" =>
    IF 0 \in report.result.FailedRunIDs THEN truth.failed
    ELSE \/ ~truth.failed
         \/ \A t \in DOMAIN truth.leaves : truth.leaves[t] # "fail"
         \/ truth.unreadable \/ truth.unwritten

(* The counts of the report are those of the summaries it was made of, per  *)
(* run and per scenario (aggregate).                                        *)
CampaignAddsUp ==
  report.state = "written" =>
    LET result == report.result
        summaries == [i \in DOMAIN report.of |-> report.of[i].summary]
        with(n, S) == Cardinality({i \in DOMAIN summaries :
                        /\ n \in DOMAIN summaries[i].Tests
                        /\ summaries[i].Tests[n].status \in S})
        names == DOMAIN result.byScenario
    IN /\ result.Runs = Len(summaries)
       /\ result.PassingRuns + result.FailingRuns = result.Runs
       /\ result.FailingRuns = Cardinality(result.FailedRunIDs)
       /\ names = UNION {DOMAIN summaries[i].Tests : i \in DOMAIN summaries}
       /\ \A n \in names :
            /\ result.byScenario[n].Passed = with(n, {"pass"})
            /\ result.byScenario[n].Failed = with(n, {"fail"})
            /\ result.byScenario[n].Executions = with(n, Terminal)
       /\ result.ScenarioExecutions =
            FoldSet(LAMBDA n, sum : sum + result.byScenario[n].Executions, 0,
                    names)

(* The p95 of a scenario is the least of its durations that at least 95 in  *)
(* 100 of them do not exceed, for any number of executions (aggregate).     *)
PercentileIsNearestRank ==
  report.state = "written" =>
    \A n \in DOMAIN report.result.byScenario :
      LET s == report.result.byScenario[n]
          rank(d) == Cardinality({i \in DOMAIN s.durations :
                                    s.durations[i] <= d})
          enough(d) == 100 * rank(d) >= 95 * s.Executions
      IN /\ enough(s.P95)
         /\ \A d \in Range(s.durations) : enough(d) => s.P95 <= d
         /\ \A d \in Range(s.durations) : d <= s.Max
=============================================================================
