--------------------------- MODULE ScenarioRunner ---------------------------
(***************************************************************************)
(* The story runner (scenarios/runner.go) over the two fault injectors     *)
(* (faults/, internal/toxiproxy).  Stories follow one another on one       *)
(* federation, each after a Stack.Reset.  A story's actions arm fixture    *)
(* plans or Toxiproxy toxics over HTTP and return the injector's Disable   *)
(* as their cleanup, as the helpers of the E2E suite do; others return any *)
(* cleanup and any error.                                                  *)
(*                                                                         *)
(* A control request leaves, is applied and is answered in three steps, so *)
(* a caller can give up on a request that was, or still will be, applied.  *)
(*                                                                         *)
(* Abstractions.  A story is not a list written down in advance: after     *)
(* each step it may have another one or be over.  Fixture plans and toxics *)
(* are kept as what is armed, without their effect on traffic.             *)
(***************************************************************************)
EXTENDS Naturals, Sequences, FiniteSets, SequencesExt

CONSTANTS
  Operations,   \* fixture operations that can be armed
  Names,        \* fault names; a toxic carries the name of its fault
  Faults,       \* the faults that actions ask for
  MaxSteps,     \* bound: steps and assertions of a story
  MaxStories,   \* bound: stories of a behaviour
  MaxWire       \* bound: control requests on their way at once

NoOperation == "no operation"
NoName == "no name"

Kinds == {"drop_response_after_commit", "http_status", "malformed_response",
          "latency", "timeout", "connection_reset", "container_kill"}
Injectors == {"fixture", "toxiproxy"}

(* A Fault and the injector it is handed to; timed is a positive Duration.  *)
Fault ==
  [injector : Injectors, kind : Kinds, name : Names \cup {NoName},
   operation : Operations \cup {NoOperation}, count : Nat, timed : BOOLEAN]

ASSUME RunnerAssumption ==
  /\ Faults \subseteq Fault
  /\ NoName \notin Names /\ NoOperation \notin Operations
  /\ MaxSteps \in Nat /\ MaxStories \in Nat /\ MaxWire \in Nat

VARIABLES
  plans,     \* external: remaining firings of the fixture plan, by operation
  toxics,    \* external: names of the toxics of the DSS proxy
  wire,      \* external: control requests sent and not yet applied
  phase,     \* of the runner; "idle" between stories
  cleanups,  \* Run's cleanups
  calling,   \* the control request the runner waits for
  expired,   \* the context in use has ended: the story's or the cleanup's
  err        \* Run's named result is not nil

(* History *)
VARIABLES
  story,     \* stories begun
  steps,     \* steps and assertions of this story so far
  appended,  \* cleanups registered by this story
  undone,    \* cleanups this story has called, in order
  timeline,  \* the statuses of the checkpoints this story has written
  unwritten, \* a checkpoint of this story could not be written
  failed,    \* some story so far returned an error or failed to reset
  botched,   \* a cleanup of this story returned an error
  lost       \* some answer was not awaited, or the cleanups ran out of time

external == <<plans, toxics, wire>>
record == <<timeline, unwritten>>
vars == <<plans, toxics, wire, phase, cleanups, calling, expired, err, story,
          steps, appended, undone, timeline, unwritten, failed,
          botched, lost>>

Other == [injector |-> "other", target |-> NoName]
Idle == [id |-> 0, answer |-> "none", registers |-> <<>>]
Receipt ==
  [injector : {"fixture"}, target : Operations] \cup
  [injector : {"toxiproxy"}, target : Names] \cup {Other}
Request ==
  [id : Nat, what : {"arm"}, target : Operations, times : Nat \ {0}] \cup
  [id : Nat, what : {"clear"}, target : {NoName}, times : {0}] \cup
  [id : Nat, what : {"add", "remove"}, target : Names, times : {0}]
Storied == {"given", "when", "then"}
Waiting == calling # Idle

(* Every variable has its shape; in particular a plan is only asked for     *)
(* with a positive Times, which is all the fixture accepts (Enable).        *)
TypeOK ==
  /\ plans \in [Operations -> Nat]
  /\ toxics \subseteq Names
  /\ wire \subseteq Request
  /\ phase \in Storied \cup {"idle", "cleanup"}
  /\ cleanups \in Seq(Receipt)
  /\ calling \in [id : Nat, answer : {"none", "ok", "refused"},
                  registers : Seq(Receipt)]
  /\ expired \in BOOLEAN /\ err \in BOOLEAN
  /\ story \in Nat /\ steps \in Nat
  /\ appended \in Seq(Receipt) /\ undone \in Seq(Receipt)
  /\ timeline \subseteq {"pass", "fail"}
  /\ {unwritten, failed, botched, lost} \subseteq BOOLEAN

Init ==
  /\ plans = [op \in Operations |-> 0] /\ toxics = {} /\ wire = {}
  /\ phase = "idle" /\ cleanups = <<>> /\ calling = Idle
  /\ expired = FALSE /\ err = FALSE
  /\ story = 0 /\ steps = 0
  /\ appended = <<>> /\ undone = <<>> /\ timeline = {}
  /\ unwritten = FALSE /\ failed = FALSE /\ botched = FALSE /\ lost = FALSE

-----------------------------------------------------------------------------
(* The injectors *)

Validate(f) ==
  f.name # NoName /\ (f.count > 0 \/ f.timed \/ f.kind = "container_kill")

(* What Enable turns down before it talks to anyone.                        *)
Injectable(f) ==
  CASE f.injector = "fixture" ->
         /\ f.operation # NoOperation
         /\ f.kind \in {"drop_response_after_commit", "http_status",
                        "malformed_response", "latency"}
    [] f.injector = "toxiproxy" ->
         f.kind \in {"latency", "timeout", "connection_reset"}

(* Requests on their way are told apart.                                    *)
NewId == CHOOSE n \in 1 .. Cardinality(wire) + 1 : \A q \in wire : q.id # n

(* Mutant of EnableRequest: a Count of zero is passed on.                   *)
EnableRequestUncounted(f) ==
  IF f.injector = "fixture"
  THEN [id |-> NewId, what |-> "arm", target |-> f.operation,
        times |-> f.count]
  ELSE [id |-> NewId, what |-> "add", target |-> f.name, times |-> 0]

(* The request Enable sends, and the receipt it returns for an answer.      *)
EnableRequest(f) ==
  IF f.injector = "fixture"
  THEN [id |-> NewId, what |-> "arm", target |-> f.operation,
        times |-> IF f.count = 0 THEN 1 ELSE f.count]
  ELSE [id |-> NewId, what |-> "add", target |-> f.name, times |-> 0]

ReceiptOf(f) ==
  [injector |-> f.injector,
   target |-> IF f.injector = "fixture" THEN f.operation ELSE f.name]

(* Disable: the fixture is cleared as a whole, a toxic removed by its name. *)
DisableRequest(receipt) ==
  IF receipt.injector = "fixture"
  THEN [id |-> NewId, what |-> "clear", target |-> NoName, times |-> 0]
  ELSE [id |-> NewId, what |-> "remove", target |-> receipt.target,
        times |-> 0]

Send(q, registers) ==
  /\ Cardinality(wire) < MaxWire
  /\ wire' = wire \cup {q}
  /\ calling' = [id |-> q.id, answer |-> "none",
                 registers |-> registers]

-----------------------------------------------------------------------------
(* External: the control planes of the fixture and of Toxiproxy *)

(* Toxiproxy refuses a second toxic of one name; the client takes an        *)
(* unknown name for removed.                                                *)
Verdict(q) == IF q.what = "add" /\ q.target \in toxics THEN "refused" ELSE "ok"

Apply(q) ==
  /\ q \in wire /\ wire' = wire \ {q}
  /\ plans' = CASE q.what = "arm" -> [plans EXCEPT ![q.target] = q.times]
              [] q.what = "clear" -> [op \in Operations |-> 0]
              [] OTHER -> plans
  /\ toxics' = CASE q.what = "add" -> toxics \cup {q.target}
               [] q.what = "remove" -> toxics \ {q.target}
               [] OTHER -> toxics
  /\ calling' = IF calling.id = q.id
                THEN [calling EXCEPT !.answer = Verdict(q)] ELSE calling
  /\ UNCHANGED <<phase, cleanups, expired, err, story, steps,
                 appended, undone, record, failed, botched, lost>>

Drop(q) ==
  /\ q \in wire /\ wire' = wire \ {q}
  /\ UNCHANGED <<plans, toxics, phase, cleanups, calling, expired, err, story,
                 steps, appended, undone, record, failed, botched, lost>>

(* Traffic consumes a bounded plan.                                         *)
Fire(op) ==
  /\ plans[op] > 0
  /\ plans' = [plans EXCEPT ![op] = @ - 1]
  /\ UNCHANGED <<toxics, wire, phase, cleanups, calling, expired, err, story,
                 steps, appended, undone, record, failed, botched, lost>>

-----------------------------------------------------------------------------
(* Stack.Reset, then Run *)

(* Reset empties the fixture and leaves Toxiproxy alone.  When it fails the *)
(* story is over, and its request to the fixture may still arrive.          *)
Begin ==
  /\ phase = "idle" /\ story < MaxStories
  /\ story' = story + 1
  /\ \/ /\ plans' = [op \in Operations |-> 0]
        /\ phase' = "given"
        /\ UNCHANGED <<wire, failed, lost>>
     \/ /\ Cardinality(wire) < MaxWire
        /\ failed' = TRUE /\ lost' = TRUE
        /\ wire' = wire \cup {[id |-> NewId, what |-> "clear",
                              target |-> NoName, times |-> 0]}
        /\ UNCHANGED <<plans, phase>>
  /\ UNCHANGED <<toxics, cleanups, calling, expired, err, steps, appended,
                 undone, record, botched>>

(* Timeline.Record; the runner ignores a failure to write.                  *)
Record(status) ==
  \/ timeline' = timeline \cup {status} /\ unwritten' = unwritten
  \/ timeline' = timeline /\ unwritten' = TRUE

(* Mutant of StartCleanup: the cleanups get the context of the story.       *)
StartCleanupSameContext(failure) ==
  /\ phase' = "cleanup"
  /\ err' = failure
  /\ expired' = expired

(* The deferred function starts, with a context of its own.                 *)
StartCleanup(failure) ==
  /\ phase' = "cleanup"
  /\ err' = failure
  /\ expired' = FALSE

(* One turn of runSteps or of the loop over Then: the checkpoint first, then*)
(* the cleanup, then the error.                                             *)
StepReturns(status, failure, registered) ==
  /\ steps' = steps + 1
  /\ Record(status)
  /\ cleanups' = cleanups \o registered
  /\ appended' = appended \o registered
  /\ IF failure THEN StartCleanup(TRUE)
     ELSE UNCHANGED <<phase, err, expired>>
  /\ UNCHANGED <<story, undone, failed, botched>>

StepStatus(failure) == IF failure THEN "fail" ELSE "pass"
StepFails == StepReturns(StepStatus(TRUE), TRUE, <<>>)

CanStep(phases) == phase \in phases /\ ~Waiting /\ steps < MaxSteps

(* An action that arms nothing; it may return a cleanup beside its error.   *)
OtherStep ==
  /\ CanStep({"given", "when"})
  /\ \E failure \in BOOLEAN, registered \in {<<>>, <<Other>>} :
       StepReturns(StepStatus(failure), failure, registered)
  /\ UNCHANGED <<external, calling, lost>>

(* An action that arms a fault: Enable fails at once, or its request leaves.*)
EnableStep(f) ==
  /\ CanStep({"given", "when"})
  /\ \/ /\ ~Validate(f) \/ ~Injectable(f) \/ expired
        /\ StepFails
        /\ UNCHANGED <<external, calling, lost>>
     \/ /\ Validate(f) /\ Injectable(f) /\ ~expired
        /\ Send(EnableRequest(f), <<ReceiptOf(f)>>)
        /\ UNCHANGED <<plans, toxics, phase, cleanups, expired, err, story,
                       steps, appended, undone, record, failed, botched, lost>>

(* An action that disables a fault in the middle of its story; the cleanup  *)
(* registered for the fault stays.                                          *)
DisableStep(receipt) ==
  /\ CanStep({"given", "when"})
  /\ receipt # Other
  /\ \/ /\ expired /\ StepFails
        /\ UNCHANGED <<external, calling, lost>>
     \/ /\ ~expired /\ Send(DisableRequest(receipt), <<>>)
        /\ UNCHANGED <<plans, toxics, phase, cleanups, expired, err, story,
                       steps, appended, undone, record, failed, botched, lost>>

StepAnswered ==
  /\ phase \in Storied /\ calling.answer # "none"
  /\ \/ /\ calling.answer = "ok"
        /\ StepReturns(StepStatus(FALSE), FALSE, calling.registers)
     \/ /\ calling.answer = "refused"
        /\ StepFails
  /\ calling' = Idle
  /\ UNCHANGED <<external, lost>>

(* The context or the client's timeout ends the wait, or the connection     *)
(* breaks: an error without a receipt, whatever became of the request.      *)
StepAbandoned ==
  /\ phase \in Storied /\ Waiting
  /\ StepFails
  /\ calling' = Idle /\ lost' = TRUE
  /\ UNCHANGED external

NextPhase ==
  /\ phase \in Storied /\ ~Waiting
  /\ \/ phase = "given" /\ phase' = "when" /\ UNCHANGED <<err, expired>>
     \/ phase = "when" /\ phase' = "then" /\ UNCHANGED <<err, expired>>
     \/ phase = "then" /\ StartCleanup(FALSE)
  /\ UNCHANGED <<external, cleanups, calling, story, steps, appended,
                 undone, record, failed, botched, lost>>

(* Mutant of AssertionStatus: only a check's error counts.                  *)
AssertionStatusErrorsOnly(outcome) ==
  IF outcome = "error" THEN "fail" ELSE "pass"

AssertionStatus(outcome) == IF outcome = "passed" THEN "pass" ELSE "fail"

Assertion ==
  /\ CanStep({"then"})
  /\ \E outcome \in {"passed", "not passed", "error"} :
       StepReturns(AssertionStatus(outcome), outcome # "passed", <<>>)
  /\ UNCHANGED <<external, calling, lost>>

ContextEnds ==
  /\ phase # "idle" /\ ~expired /\ expired' = TRUE
  /\ lost' = (lost \/ phase = "cleanup")
  /\ UNCHANGED <<external, phase, cleanups, calling, err, story, steps,
                 appended, undone, record, failed, botched>>

-----------------------------------------------------------------------------
(* The deferred function *)

(* Mutants of CleanupReturns: an error is not joined, or ends the loop.     *)
CleanupReturnsUnjoined(failure) ==
  /\ undone' = Append(undone, Last(cleanups))
  /\ cleanups' = Front(cleanups)
  /\ botched' = (botched \/ failure)
  /\ UNCHANGED <<phase, err, expired, story, steps, appended, record, failed>>

CleanupReturnsEarly(failure) ==
  /\ undone' = Append(undone, Last(cleanups))
  /\ cleanups' = IF failure THEN <<>> ELSE Front(cleanups)
  /\ err' = (err \/ failure)
  /\ botched' = (botched \/ failure)
  /\ UNCHANGED <<phase, expired, story, steps, appended, record, failed>>

(* A cleanup's error is joined to the result and stops nothing.             *)
CleanupReturns(failure) ==
  /\ undone' = Append(undone, Last(cleanups))
  /\ cleanups' = Front(cleanups)
  /\ err' = (err \/ failure)
  /\ botched' = (botched \/ failure)
  /\ UNCHANGED <<phase, expired, story, steps, appended, record, failed>>

CallCleanup ==
  /\ phase = "cleanup" /\ ~Waiting /\ cleanups # <<>>
  /\ \/ /\ Last(cleanups) = Other
        /\ \E failure \in BOOLEAN : CleanupReturns(failure)
        /\ UNCHANGED <<external, calling, lost>>
     \/ /\ Last(cleanups) # Other /\ expired
        /\ CleanupReturns(TRUE)
        /\ UNCHANGED <<external, calling, lost>>
     \/ /\ Last(cleanups) # Other /\ ~expired
        /\ Send(DisableRequest(Last(cleanups)), <<>>)
        /\ UNCHANGED <<plans, toxics, phase, cleanups, expired, err, story,
                       steps, appended, undone, record, failed, botched, lost>>

DisableAnswered ==
  /\ phase = "cleanup" /\ calling.answer # "none"
  /\ CleanupReturns(FALSE)
  /\ calling' = Idle
  /\ UNCHANGED <<external, lost>>

DisableAbandoned ==
  /\ phase = "cleanup" /\ Waiting
  /\ CleanupReturns(TRUE)
  /\ calling' = Idle /\ lost' = TRUE
  /\ UNCHANGED external

(* Run returns, and what belongs to the story goes with it.                 *)
Finish ==
  /\ phase = "cleanup" /\ ~Waiting /\ cleanups = <<>>
  /\ phase' = "idle"
  /\ failed' = (failed \/ err)
  /\ err' = FALSE /\ expired' = FALSE /\ botched' = FALSE
  /\ steps' = 0 /\ appended' = <<>> /\ undone' = <<>>
  /\ timeline' = {} /\ unwritten' = FALSE
  /\ UNCHANGED <<external, cleanups, calling, story, lost>>

-----------------------------------------------------------------------------
Run ==
  \/ OtherStep \/ (\E f \in Faults : EnableStep(f))
  \/ (\E i \in DOMAIN cleanups : DisableStep(cleanups[i]))
  \/ StepAnswered \/ StepAbandoned \/ NextPhase \/ Assertion
  \/ CallCleanup \/ DisableAnswered \/ DisableAbandoned \/ Finish

Environment ==
  \/ \E q \in wire : Apply(q) \/ Drop(q)
  \/ \E op \in Operations : Fire(op)
  \/ ContextEnds

Next == Begin \/ Run \/ Environment

Spec == Init /\ [][Next]_vars

-----------------------------------------------------------------------------
(* Properties *)

Armed ==
  {op \in Operations : plans[op] > 0} \cup toxics \cup
  {q.target : q \in {x \in wire : x.what \in {"arm", "add"}}}

(* A passing story leaves nothing behind: between stories, as long as none  *)
(* has failed, no plan and no toxic is armed and none can still arrive,     *)
(* although answers get lost and requests are applied late (Run, Enable,    *)
(* Disable).                                                                *)
LeftoversAreReported == phase = "idle" /\ ~failed => Armed = {}

(* A story that fails leaves nothing behind either, as long as its control  *)
(* requests were answered and its cleanups had their 15 seconds: not when   *)
(* its own deadline passed, when an Enable was refused, an assertion failed,*)
(* or another cleanup did (the deferred function has a context of its own   *)
(* and goes on after an error).                                             *)
OnlyLostAnswersLeak == phase = "idle" /\ ~lost => Armed = {}

(* Each cleanup that was registered, the one returned beside an error       *)
(* included, is called once, in reverse order, whatever the others return   *)
(* (Run's deferred function).                                               *)
EveryCleanupInReverse == undone \o Reverse(cleanups) = Reverse(appended)

(* The checkpoints tell the result: once one says fail, no further step is  *)
(* taken and the story returns an error; an error without one comes from a  *)
(* cleanup or from a checkpoint that could not be written (Run, runSteps).  *)
EvidenceTellsResult ==
  /\ "fail" \in timeline => err /\ phase = "cleanup"
  /\ err => "fail" \in timeline \/ botched \/ unwritten

(* docs/ADDING_TESTS.md: "resetFederation clears local PostGIS, fixture     *)
(* state, fixture faults, and Toxiproxy state before the subtest".  No      *)
(* toxic of an earlier story is there when a story's first step begins      *)
(* (Stack.Reset).                                                           *)
NetworkStartsClean == phase = "given" /\ steps = 0 /\ ~Waiting => toxics = {}
=============================================================================
