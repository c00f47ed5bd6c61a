# TLA+ models of the Aero Arc test harness

The harness runs the Aero Arc API against a deterministic DSS/peer fixture (or a
real InterUSS DSS), injects bounded faults, observes independent authorities and
writes an evidence bundle. A wrong harness makes wrong claims about the API: a
fault that fires once too often, a journal entry that does not say what
happened, a toxic left behind for the next scenario, a verdict on a state that
never existed, a failed run that no report lists. These modules model the parts
where that can happen, TLC checks them on small instances, and TLAPS proves
all of their safety properties for every instance.

Paths below are relative to the repository. A definition has the name of the
function it models wherever there is one; `PROJECT.json` maps each to its lines.

## 1. Inventory

| Component | State | Operations | What is hard | What makes it correct |
| --- | --- | --- | --- | --- |
| Fixture server (`internal/fixture/server.go`) | references, fault plans, journal under one mutex; journal counter as an atomic outside it | 8 protocol operations, reset, arm/clear faults, rotate OVN, events, state | one goroutine per request; delays; clients that leave; answers withheld after a commit; reset under load | atomic compare-and-swap on OVNs, exact fault budgets, a journal that is complete, true and in real-time order |
| Docker stack (`internal/stack/stack.go`) | registry of containers, network, API URL; the client's running flags | Start, StopAPI, StartAPI, StartReplacementAPI, Reset, Capture, Close | Docker calls that fail half-way, processes that die, restarts on other ports | one worker, a usable API at every nil error, nothing left after Close, logs of everything |
| Scenario runner (`scenarios/runner.go`) | cleanups, result, two contexts | Run, runSteps | early exits, deadlines, failing cleanups | every cleanup once and in reverse, errors reach the result, evidence agrees |
| Faults and injectors (`faults/`, `internal/toxiproxy`) | what is armed in the fixture and on the proxy | Validate, Enable, Disable, AddToxic, RemoveToxic | lost answers, late requests | nothing stays armed unnoticed |
| Timeline (`reports/timeline.go`) | append-only file | Record, Close | concurrent observers, failing writes | chronological and complete evidence |
| Invariant probe (`assertions/invariants.go`) | pool, delay, samples, last results | Snapshot, Eventually, two invariants | reads three authorities one after the other while they change; queries that fail; a context that ends | true verdicts on a quiet system, alarms with a cause, results that fit the samples, an end |
| Real-DSS environment (`internal/realdss/stack.go`) | registry of ten containers, network, endpoints | Start, Capture, Close, ObserveDSSReference | migrations that fail, services that die, contexts that end, containers that never become ready | nothing runs without what it needs, failures leave logs, Close removes what it can, the suite gets a federation |
| Reports (`reports/report.go`, `cmd/e2e-report`) | results by test; three files | Parse, LoadTimeline, WriteBundle | truncated streams, panics, package-level failures, cut-off files | a summary that says what became of each scenario |
| Repeat report (`cmd/e2e-repeat-report`) | counts and durations by scenario | aggregate, write | missing or broken summaries, percentile index | a failed run is listed, counts add up |

How they interact: a scenario (E2E test or runner story) calls `Stack.Reset`,
arms a fault through an injector (HTTP to the fixture's control plane or to
Toxiproxy), drives the API, whose requests reach the fixture through Toxiproxy,
and then reads the database, `/control/state` and `/control/events`. At its end
the cleanups disable the faults. `TestMain` starts the stack once, captures logs
when tests failed and closes it. The assertions of a story and of the real-DSS
suite go through `Probe.Eventually`, and write their checkpoints to the timeline.
After the tests `run-e2e.sh` runs `e2e-report` on the test stream and the
timeline; after all repetitions `repeat-e2e.sh` runs `e2e-repeat-report` on the
summaries.

The hazards this exposes, each with its line and the properties that watch it,
are listed in `PROJECT.json`.

## 2. Modules

| Module | Models |
| --- | --- |
| `FixtureServer` | the fixture: every handler, with one step per critical section, atomic operation or wait |
| `ReferenceStore` | what a scenario may assume of a DSS: an atomic store with optimistic locking |
| `FixtureServerProofs`, `FixtureJournalProofs`, `FixtureStoreProofs` | theorems about `FixtureServer`: types, OVNs and the journal's truth; reset, order, numbering and budgets; the refinement of `ReferenceStore` |
| `MCFixture` | the fixture's fault shapes and symmetry for TLC |
| `StackLifecycle` | the Docker stack, with Docker and the processes as environment |
| `StackProofs` | theorems about `StackLifecycle` |
| `ScenarioRunner` | the runner over both injectors and their control planes |
| `MCScenario` | the faults of the E2E suite for TLC |
| `ScenarioProofs` | theorems about `ScenarioRunner` |
| `RealDSS` | the real-InterUSS federation of one test run, with Docker and the processes as environment |
| `RealDSSProofs` | theorems about `RealDSS` |
| `Probe` | the probe and its two DSS observers, with the Aero Arc API and the DSS as environment |
| `ProbeProofs` | theorems about `Probe` |
| `Evidence` | timeline, run report and repeat report, with `go test` as environment |
| `EvidenceProofs` | theorems about `Evidence` |

### FixtureServer

A request is a one-shot process (a retry is another request). `call[r]` is what
it asks for and the fault it took; `req[r]` is where its goroutine stands: `new`,
`delayed` (in `wait`), `serving` (before its critical section), `recording` and
`appending` (the two halves of `record`: `sequence.Add(1)` outside the lock, the
append inside), `replying`, `done`. `takeFault` happens on arrival. A delayed
request may be finished by its timer or by its client leaving (499); both are
possible for as long as it waits, because `net/http` notices a client that left
only once the body was read. `handleReset` is two steps, the locked one and the
`sequence.Store(0)` after the unlock; `resetting` counts the resets between the
two, as nothing keeps a second one from starting there.

`OVN(id, version)` stands for `"ovn-<id>-<version>"`, which is injective. Stored
times, URLs, volumes and the response bodies are left out; a reference remembers
whose body it stores. Injected statuses are any of 0..599, as `handleFault`
accepts; what `net/http` does with statuses below 200 is not modelled.

History variables record what the properties need and the code forgets: which
incarnation of a reference an OVN was issued for (`issued`, `incarnation`), the
conditional commits with the OVN they named and the one they found (`wins`), the
epoch between resets (`generation`), the
requests a reset overlapped (`straddlers`), and each request's `trace`.

`ReferenceStore` is stated on a version register per intent and an outcome per
call. The mapping is `references[id].version`, the call as sent, and `applied`,
`pending` or `unapplied` from the commit and the stage of the handler.

### StackLifecycle

`registry` is `Stack.containers`; `docker` is what really runs; `flag` is what
testcontainers remembers (`IsRunning`): set when the readiness wait inside its
Start has succeeded, cleared by its Stop, and unaware of processes that die. A
Start that fails in that wait leaves a process that runs with the flag down; the
history variable `stray` holds such containers until they are stopped or a later
Start succeeds. A boot maps fresh ports, so an endpoint is a pair of container
and boot. `StartAPI` is several steps (`StartAPI`, `APIBooted`, `APIReady`,
`Deadline`), because the process can die or the context end between them;
`StartService` and `StartServiceFails` are the turns of `Start`, and the
deferred `Capture`/`Close` of a failed `Start` is forced by the phase `failing`.
Any Docker call may fail. Docker, testcontainers and the processes are external
and modelled from how the code uses them.

### ScenarioRunner

A story takes any steps: an action that arms a fault, disables one, or does
something else and returns any cleanup with any error; then assertions. The two
injectors' `Enable` and `Disable` send control requests that are applied and
answered in separate steps, get lost, or are applied after their caller gave up.
`expired` is the context in use, which `StartCleanup` replaces by a fresh one,
as the deferred function does. `Begin` is `Stack.Reset` with its effect on the
fixture's plans. Two stories follow one another on the same fixture and proxy.

### RealDSS

Every name is started at most once, so it stands for its container. `step` walks
through `Services` (Start), `SortedNames` (Capture) or `ClosedNames` (Close), one
Docker call per step, so a service may die and the context end between any two.
`StartContainer` runs a service; a migration is then read back by
`requireSuccessfulExit`; `Inspect` and `Resolve` are the reads of mapped ports
that fill `endpoints`. `FailStart` is every error return of `Start`, with the
deferred capture and close on a context of their own; `TestsEnd` is the rest of
`TestMain`, whose capture and close share one. `TerminateContainer` is called
without a context and is not affected by it; Logs and the network's removal are.
`Needs` says over what a process can work, from the addresses it is given.

### Probe

`System` is the environment: an intent is accepted, published, confirmed,
activated, modified, blocked, retried, ended and withdrawn, the fixture's
`rotate-ovn` changes a reference behind the API's back, and the `Tripwire`s of
the suite write forbidden states directly. `Snapshot` is `ReadLocal`,
`ReadPublication` and `ObserveDSSReference` (with `token` before it for the real
observer), in this order and with any of them failing; `Judge` applies the
checks. Since a DSS reference carries its own version, `dss.holds` remembers for
which intent version it was written, and `dss.skipped` whether an intent version
was never written at all. `watch` is history: whether anything changed while the
snapshot was read (`quiet`), whether the forbidden state occurred or the intent
moved on (`cause`), whether a blocked version was in the DSS all the time
(`lasting`), and whether the publication query was lost (`lost`).

Times are in units of the default interval. Identifiers, OVNs and messages of
results are left out, and so is the decoding of HTTP bodies: an observer returns
the reference, its absence (404) or an error.

### Evidence

The tests of a package start, end and record checkpoints in any order that
`go test` allows; then the package ends, panics, times out or is killed
(`EndTests`), which may leave tests without a terminal event, a failed package
whose tests all passed, and a last line cut off. `Stamp` and `Record` are the two
halves of `Timeline.Record`. `Summarise` is `e2e-report` up to the summary
(`Parse`, `LoadTimeline`); `WriteBundle` writes one file per step. `Aggregate` is
`e2e-repeat-report` over this run, an `Archive` of former ones that passed, and
`Another` that failed, has no summary, or a broken one; `Entry` passes over a
directory without a summary. `sort.Float64s` is external and stated by what it
returns (`Sorted`): at place i the value that fewer than i are below and at least
i do not exceed.

A test's name is a sequence of segments, which makes a parent a strict prefix;
captured output, the duration of the package and the texts of Markdown and JUnit
are left out. `math.Ceil(float64(n)*0.95)` is `(95n + 99) \div 100`; the two agree
for every n below two million (compared numerically, outside the model), as the
rounding error of the product never crosses an integer there.

## 3. Runs

| Run | Instance | Shows |
| --- | --- | --- |
| `fixture_mutations` | 3 writers, 1 intent, a rotation, a delayed commit without an answer | `ImplementsReferenceStore`, `OneWinnerPerOVN`, `JournalMatchesCommit` |
| `fixture_operations` | 2 requests of any handler, every fault shape, a plan of up to 2 firings, a reset | `TypeOK`, `AnsweredIsJournaled`, `ResetBoundary`, `FaultBudget`, `JournalRealTimeOrder`, `JournalNumbering` |
| `stack_lifecycle` | 6 containers, 2 boots each, 1 spontaneous exit | `TypeOK`, `OneWorker`, `HandoverUsableUnlessTainted`, `CloseRemovesWhatIsNamed`, `CaptureIsComplete`, `StartAPIReturns` |
| `scenario_runner` | 2 stories of 3 steps, 3 requests on their way | `TypeOK`, `LeftoversAreReported`, `OnlyLostAnswersLeak`, `EveryCleanupInReverse`, `EvidenceTellsResult` |
| `real_dss` | the ten services, 2 refused Docker calls, 1 death | `TypeOK`, `NothingRunsUnsupported`, `FailureIsLogged`, `CloseIsComplete`, `HandoverIsAFederation` |
| `probe` | 1 intent of 2 versions, 2 rotations, 2 judged samples and any number of failed ones | `TypeOK`, `QuietActiveVerdictIsTrue`, `LastingBlockedIsCaught`, `AlarmHasACause`, `ResultsTellTheLastSample`, `ReturnsAfterTheDeadline` |
| `evidence` | 1 suite with 2 subtests, 2 observers, 1, 19 or 20 other runs | `TypeOK`, `SummaryTellsTheTruth`, `JUnitAgrees`, `CheckpointsSurvive`, `TimelineRespectsRealTime`, `FailedRunIsListed`, `CampaignAddsUp`, `PercentileIsNearestRank` |

Five runs expect a violation; each is a documented promise the code does not
keep:

| Run | Promise | What happens |
| --- | --- | --- |
| `fixture_recreate` | `scenarios/catalog.md:69` "a stale OVN cannot delete or overwrite a newer reference" | versions restart at 1 after a delete, so the old OVN matches the recreated reference |
| `stack_replacement` | `internal/stack/stack.go:248` "Aero Arc API must be stopped before replacement" | a restart that failed in its wait left a process with `IsRunning` false, and a second worker is started beside it |
| `scenario_reset` | `docs/ADDING_TESTS.md:65` resetFederation clears "Toxiproxy state" | `Stack.Reset` does not talk to Toxiproxy |
| `probe_blocked` | `assertions/invariants.go:66` "rejects publication of a desired version after durable coordination has declared it blocked" | an intent amended before its first version was written is DSS version 1; blocked, 1 < 2 passes |
| `evidence_order` | `reports/timeline.go:11` "in chronological order" | the time is taken before the lock, and an observer overtaken in between writes an earlier time after a later one |

The passing counterparts say what does hold: `ImplementsReferenceStore` and
`OneWinnerPerOVN` (of the writers that name one OVN, one commits during the life
of a reference; a second holder needs the delete and recreation of
`fixture_recreate`), `OneWorker`, `LeftoversAreReported`,
`LastingBlockedIsCaught` and `TimelineRespectsRealTime`.

Some properties carry an exception where the code stops short of what one would
like to say. They are worth knowing when a report is read:

* `ResetBoundary` excepts requests that overlapped the reset. A create that waits
  out an injected delay commits and is journalled after it, although
  `internal/stack/stack.go:38` speaks of "a clean scenario boundary".
* `CaptureIsComplete` excepts containers that started and did not become ready,
  which are in no registry, and one that a second replacement displaced, although
  `README.md:129` promises "logs for every started container".
* `HandoverUsableUnlessTainted` excepts calls after one that failed or a process
  that died. `IsRunning` then is a memory, and `StartAPI` returns nil without
  the wait that `internal/stack/stack.go:218` speaks of.
* `OneWorker` does not count processes that run although the call that started
  them was reported as failed: containers that never became ready, and an API
  whose restart failed in its wait (`stack_replacement`).
* `LastingBlockedIsCaught` excepts a DSS version that lags behind the intent
  version it holds because an intent version was never written
  (`probe_blocked`). It says nothing of false alarms, which the same comparison
  can raise: a first version that is accepted and then activated takes two
  writes, so a second version that is blocked before it is written is reported
  as published.
* A publication query that fails is taken for a missing row. The Active check
  then fails and is sampled again; the Blocked check passes.
* A torn snapshot can satisfy either check although the state was forbidden at
  some moment: for the Blocked check only if that state did not last
  (`LastingBlockedIsCaught`). `AlarmHasACause` covers the other direction for
  the Active check.
* `TimelineRespectsRealTime` orders calls of `Record` that do not overlap. Those
  that do can be written against the order of their times (`evidence_order`).
* `FailedRunIsListed` excepts a run in which only the package or a parent test
  failed (its summary has no failure, and it counts as passing), and a run whose
  stream or timeline is cut off (it has no summary, and is not counted). The
  failure rate of a campaign is one of summaries, not of runs.
* `CloseIsComplete` excepts containers that started and never became ready, as
  in the Docker stack, and a network whose removal comes after the deadline.

**Bounds.** Three requests are the least at which a reader of an OVN can lose to
a writer and meet a third; the mutating operations, the rotation and one faulty
commit all occur among them. All handlers and all fault shapes together need two
requests and one plan, so that one request meets every state another can leave;
two firings let both take the plan, or one leave a firing behind, and one reset
can overlap either. The journal's properties each relate at most two requests
and a reset; resets that overlap each other are covered by the theorems. A
subscription query is answered in the same action as a reference query and is
not sent in this run. `MaxVersion` bounds rotations only. Six containers are a
full stack and two further APIs, enough for the second replacement that
displaces the first crashed one. Two stories let the leftovers of one meet the
other; three steps allow two armed faults and a failing assertion. One death and
two refusals reach every pair of a broken need and a call that does not help.
Two versions let the published one fall behind; two rotations carry the DSS's
count past the intent's; two judged samples are a first and a last one, and
failed samples are not counted. With `Second = 3` the intervals 0 and 5 stand
for one below the cap, which doubling would overshoot, and one above it. A suite
and two subtests make a parent, and subtests that end differently; 19 and 20
other runs are where 95% of the executions is, or is next to, a whole number.
Requests are interchangeable and used symmetrically; no run with symmetry checks
liveness.

**Fairness.** `StackLifecycle` assumes weak fairness of `Waiting`, the
steps of a `StartAPI` that waits. `waitForAPI` and the wait of `api.Start` select
on a context with a deadline, so one of their steps is always due. No
fairness is assumed of the API's process: it may never become ready. `Probe`
assumes weak fairness of `Sampling` (queries, HTTP requests and timers end, the
goroutine goes on) and strong fairness of `ContextDone`: when both the timer and
the context are ready, `select` picks one at random, so a context that has ended
is not passed over for ever. Nothing is assumed of the system under
observation, nor that the context ever ends.

**Deadlock** is not checked where a behaviour ends: the requests are used up, the
stack is closed, the last story is over, the probe is closed, the campaign is
reported.

## 4. Proofs

Every theorem holds for all values of the constants that satisfy the module's
assumption (`FixtureAssumption`, `StackAssumption`, `RunnerAssumption`,
`ProbeAssumption`, `RealDSSAssumption`, `EvidenceAssumption`: sets of the right
type, bounds that are naturals), so for any numbers of requests, containers,
stories, samples, tests, observers and runs of a campaign. Each module proves an
inductive invariant, with one lemma per action, and derives the properties from
it. TLC also checked the invariants on instances like those of the runs.

### Fixture

* `TypeCorrect`: `Spec => []TypeOK`. One lemma per action.
* `OVNsSerialise`: `Spec => []OneWinnerPerOVN`. Not inductive as it stands: a
  new winner must be known to differ from all former ones that named its OVN.
  `HeldWasCurrent` says that a commit that named an OVN named the version it
  found; it rests on the comparison in the handlers (`AcceptedOVN`) and on
  `OVNsFit`, that a stored OVN is made of the reference's identifier and
  version. `WinsAreBehind` says that every commit found a version of the past:
  of an earlier incarnation, below the current version, or of the latest
  incarnation of a reference that is gone. Updates and rotations raise the
  version, creates the incarnation, so no version is found twice
  (`OneWinPerStamp`).
* `JournalIsTrue`: `Spec => []JournalMatchesCommit`. The strengthening
  `JournalInv` carries the fact from the handler to the journal: from
  `recording` on, the status and the fault of a mutation tell whether it
  committed, and each event is a copy of what its request had.
* `FixtureIsAtomicStore`: `Spec => ImplementsReferenceStore`. Init maps to
  `StoreInit`; each action maps to `Submit`, `Apply`, `Settle`, `Advance`,
  `Empty` or a stutter. It needs `TypeOK`, `JournalInv` and `OVNsFit`, by which
  comparing OVNs is comparing versions.
* `ResetBoundaryHolds`: `ResetBoundary` speaks of what is stored, and needs to
  know who may still store: `EpochInv` says that a request in flight is of the
  current epoch or overlapped the reset, `PlanInv` that a plan in the map was
  armed in this epoch.
* `AnswersAreJournaled`, `JournalKeepsRealTime`: from `EventInv` (an event's
  request is past its append and has one event; a predecessor in real time
  stands before its successor) and `NumberInv` (a number is covered by the
  counter once drawn, so a later draw is larger, although the draw is outside
  the lock).
* `NumbersHaveNoGap`, `BudgetsHold`: equations between a counter and the
  cardinality of a set of requests, inductive together with `PlanInv`; each step
  adds one request to the set and one to the counter, or takes one from what is
  left of the plan.

### Docker stack

`StackTypes`, `StackHasOneWorker`, `StackHandsOverUsable`,
`StackCloseIsComplete` and `StackCaptureIsComplete`, which is about a step,
follow from `StackInv`. Its parts say what the properties leave open: an API
process that runs is the registered one, with its flag up or with a StartAPI
that waits for it, or the call that started it has failed (`Workers`, by which a
flag that is down before a replacement means a stopped API or one of the
latter); as long as nothing went wrong a raised flag means a ready API behind
the stored URL (`Handing`); and before Close every container has a name, has
lost it, or never had one (`Leftovers`).

### Scenario runner

`ScenarioTypes`, `CleanupsRunInReverse` and `CheckpointsTellResult` need only
`Shape`, which ties the phases to the lists. `AnsweredStoriesLeaveNothing` and
`PassingStoriesLeaveNothing` are about leftovers, and need an account of
everything armed at every moment of a story: as long as no answer was lost, or no
error was returned, a request on its way is the one the runner waits for
(`Expected`), whatever is armed has a receipt that is registered or about to be
(`Covered`), and an answered cleanup has taken effect (`Answered`).

### Probe

`QuietActiveVerdicts` follows from `Quiet` (while nothing changes, what was read
is what is there), `Unread` and `Versions` (how intent, publication and reference
may lag behind each other). `LastingBlockedVerdicts` holds for snapshots during
which things change: `Lasting` says that the version a publication is blocked on
cannot change while it stays blocked and published, so that what was read of it
is what is there, and `Versions` that the DSS has counted as far as the version
it holds unless one was skipped.
`AlarmsHaveACause` covers snapshots during which things do change: `Backed` says
that until a cause occurs, each authority read so far backed the active intent as
it was read, and its proof uses that the intent is read first.
`ResultsFitTogether` follows from `Results`, the loop invariant of `Eventually`.

### Real-DSS environment

`DSSInv` follows the position in the lists of names. `Progress`: what Start has
passed is in the state it was started for, or died, and what comes later does not
exist. `Capturing` and `Closing`: what Capture and Close have passed is logged or
removed, or was refused. `Endpoints`: what has been read so far. From these follow
`EnvironmentTypes`, `FailuresAreLogged`, `HandoverIsFederation` and
`EnvironmentCloseIsComplete`. `EverythingRunsSupported` adds the two facts about
the lists it rests on: Start's order puts what a process needs before it
(`NeedsBefore`), and Close's order after it (`NeedsAfter`).

### Evidence

`TimelineKeepsRealTime` needs that calls which returned did so before now and have
a line (`Ordered`), so that a new line is behind all of them. `EvidenceTypes` and
`NoCheckpointIsLost` follow the files through `WriteBundle` (`Files`) and the
timeline from the file to the summary and into the bundle (`Carried`).

`SummaryIsTrue` and `JUnitIsConsistent` rest on a second invariant, `SummaryInv`.
`StreamTells`: while tests run, the stream has a line for exactly the tests that
were begun, and a terminal line for exactly those that ended, with their status.
`StreamTruth`: after `EndTests` a readable stream `Matches` the true leaves,
whichever way the run ended. `Summed`: from `Parse` on, the summary in memory and
on disk has these leaves, and its counts are theirs. The step in between is
`ParseTells`: of any stream that matches, `Parse` returns a summary that `Tells`.

`FailedRunsAreListed`, `CampaignIsCounted` and `PercentileIsRight` rest on a third,
`ReportInv`: a written report is the aggregate of a `Campaign` (summaries that
count their tests, no two with the same directory), and has this run in its list
of failures exactly if its summary counts one. `Accounted` and `FailuresTell` of
`SummaryInv` tie that to what really happened. What `aggregate` computes is a fact
about any campaign, not only those of the model, and is a theorem of its own
(`CampaignCounts`, from `RunsAfter`, the loop invariant of `aggregate`).
`PercentileIsRight` puts together that `Sorted` sorts any sequence
(`SortedSorts`), that the index `aggregate` computes is in range and the nearest
rank for every number of executions (`PercentileIndex`), and that a scenario in a
report was executed.

`Parse` and `aggregate` are folds (`FoldLeft` over lines and runs, `FoldSet` over
the tests of a run), so these proofs need induction over data. The library's
induction theorems take a predicate, which the provers cannot instantiate;
`SetInduction` and `SubsetInduction` take a set instead, and are proved from
`LeastNat`, which comes from the well-foundedness of the naturals. A fold is
defined through a function that the library `CHOOSE`s; `FoldExists` and
`FoldLeftExists` show that there is one. They take the operator of the fold as a
value that `Step` interprets, since they cannot take it as a parameter.

### Model-checked only

`StartAPIReturns` and `ReturnsAfterTheDeadline` are liveness under fairness, which
is out of the prover's reach. The promises of the runs that expect a violation
are false.

## 5. Not modelled, and the plan

Left out: the texts of Markdown and JUnit, flags and process wiring, type
aliases, the Chaos Mesh workflow (input of an external controller), the YAML
records (nothing executes them), and the Aero Arc API itself, which is another
repository and appears as the environment of `Probe`. Of the Docker stack, the
TRUNCATE of `Reset`: no module has the API's tables, and the API's own work during
a reset is not the harness's. Of the Toxiproxy client, `DeleteProxy`, which
`CreateProxy` calls on a fresh Toxiproxy only.

What could be added:

1. Fixture: action properties from the invariants already proved, such as that
   within an incarnation a version never falls.
2. Evidence: earlier runs with several scenarios each. `CampaignCounts` already
   covers them; `Archive` keeps to one for the sake of TLC.
3. Runner and stack: shorter proofs; `ScenarioProofs` and `StackProofs` repeat
   the frame argument of actions that leave the same variables alone.
