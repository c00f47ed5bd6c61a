--------------------------- MODULE FixtureServer ---------------------------
(***************************************************************************)
(* The deterministic DSS and peer-USS fixture (internal/fixture/server.go).*)
(* Every HTTP request is served by a goroutine of its own; the goroutines  *)
(* share the reference map, the fault plans and the journal under one      *)
(* mutex, and the journal's number generator as an atomic outside it.  One *)
(* step of a request is one critical section, one atomic operation or one  *)
(* wait of its handler, so all interleavings the mutex allows are here.    *)
(*                                                                         *)
(* Abstractions.                                                           *)
(*  - A request is one-shot: a client's retry is another member of         *)
(*    Requests.  Its body is the request itself, so a reference remembers  *)
(*    whose body it stores.                                                *)
(*  - fmt.Sprintf("ovn-%s-%d", id, version) is the pair OVN(id, version):  *)
(*    the format is injective.                                             *)
(*  - A delay is finished by a timer step that may happen at any moment.   *)
(*  - Payloads other than OVN and version, clocks and URLs are left out.   *)
(***************************************************************************)
EXTENDS Naturals, Sequences, FiniteSets

CONSTANTS
  Requests,    \* the HTTP requests of a behaviour
  Intents,     \* operational-intent identifiers
  ClientOps,   \* the operations the clients of a run send
  FaultKinds,  \* the fault shapes the control plane arms
  MaxVersion,  \* bound: rotate-ovn is not asked beyond this version
  MaxTimes,    \* bound: largest Times of a plan
  MaxPlans,    \* bound: number of plans armed
  MaxResets    \* bound: number of resets

Puts == {"create", "update"}
Mutations == Puts \cup {"delete"}
Operations == Mutations \cup
  {"query", "get", "subscriptions", "details", "notify"}

(* A FaultSnapshot without its numbers: which parts are injected.  NoFault  *)
(* is the nil snapshot, which no handler distinguishes from an empty one.   *)
FaultSnapshot ==
  [status : 0 .. 599, delayed : BOOLEAN, close : BOOLEAN, malformed : BOOLEAN]
NoFault ==
  [status |-> 0, delayed |-> FALSE, close |-> FALSE, malformed |-> FALSE]

ASSUME FixtureAssumption ==
  /\ Intents # {}
  /\ ClientOps \subseteq Operations
  /\ FaultKinds \subseteq FaultSnapshot
  /\ MaxVersion \in Nat /\ MaxTimes \in Nat
  /\ MaxPlans \in Nat /\ MaxResets \in Nat

VARIABLES
  references,  \* Server.references; version 0 is Go's zero value: no entry
  faults,      \* Server.faults; times 0 is "no entry"
  events,      \* Server.events
  sequence,    \* Server.sequence
  resetting,   \* how many handleResets stand between Unlock and Store(0)
  call,        \* what every request asks for, and the fault it took
  req          \* how far its goroutine is, and the answer it will give

(* History: what happened, never read by the program's steps, except that   *)
(* issued limits the OVNs a client can put into a path.                     *)
VARIABLES
  incarnation, \* how often a reference was created under an identifier
  issued,      \* stamps <<incarnation, version>> of the OVNs handed out
  wins,        \* the commits that were conditional on an OVN
  generation,  \* how many resets have emptied the maps
  straddlers,  \* requests in flight at some moment of the latest reset
  armed,       \* the plans accepted so far: operation, Times, generation
  trace        \* per request: when it began, its plan, stamp and commit

store == <<references, faults, events, sequence, resetting>>
world == <<incarnation, issued, wins>>
epoch == <<generation, straddlers>>
vars == <<references, faults, events, sequence, resetting, call, req,
          incarnation, issued, wins, generation, straddlers, armed, trace>>

-----------------------------------------------------------------------------
(* Types *)

OVN(id, version) == <<id, version>>
NoOVN == <<>>
Absent == [version |-> 0, ovn |-> NoOVN, body |-> {}]
NoPlan == [times |-> 0, fault |-> NoFault, plan |-> 0]

(* A stamp names one OVN unambiguously; the fixture's OVN forgets the       *)
(* incarnation.  Unissued stands for a path value no response ever held.    *)
Unissued == <<0, 0>>

Reference ==
  [version : Nat, ovn : {NoOVN} \cup (Intents \X Nat), body : SUBSET Requests]
FaultPlan ==
  [times : Nat, fault : FaultSnapshot, plan : Nat]
Event ==
  [sequence : Nat, by : Requests, op : Operations, status : 0 .. 599,
   fault : FaultSnapshot]
Stages ==
  {"new", "delayed", "serving", "recording", "appending", "replying", "done"}
Replies == {"none", "answer", "malformed", "closed", "abandoned"}
Call ==
  [op : Operations, id : Intents, ovn : Intents \X Nat, decodes : BOOLEAN,
   fault : FaultSnapshot]
Progress ==
  [pc : Stages, status : 0 .. 599, reply : Replies, seq : Nat]
Trace ==
  [generation : Nat, after : SUBSET Requests, plan : Nat,
   held : Nat \X Nat, committed : BOOLEAN]
ArmedPlan ==
  [op : Operations, times : Nat, generation : Nat]
Win ==
  [id : Intents, by : Requests, held : Nat \X Nat, current : Nat \X Nat]

(* Every variable stays in the shape the code gives it: versions, budgets  *)
(* and journal numbers are naturals, a plan is kept per known operation,   *)
(* and a goroutine is at one of the handlers' stages.                      *)
TypeOK ==
  /\ references \in [Intents -> Reference]
  /\ faults \in [Operations -> FaultPlan]
  /\ events \in Seq(Event)
  /\ sequence \in Nat
  /\ resetting \in Nat
  /\ call \in [Requests -> Call]
  /\ req \in [Requests -> Progress]
  /\ incarnation \in [Intents -> Nat]
  /\ issued \in [Intents -> SUBSET (Nat \X Nat)]
  /\ wins \subseteq Win
  /\ generation \in Nat
  /\ straddlers \subseteq Requests
  /\ armed \in Seq(ArmedPlan)
  /\ trace \in [Requests -> Trace]

InFlight == {r \in Requests : req[r].pc \notin {"new", "done"}}
Done == {r \in Requests : req[r].pc = "done"}
Exists(id) == references[id].version > 0

-----------------------------------------------------------------------------
(* New *)

NoCall ==
  LET id == CHOOSE i \in Intents : TRUE
  IN [op |-> "query", id |-> id, ovn |-> OVN(id, 0), decodes |-> TRUE,
      fault |-> NoFault]

At(pc) == [pc |-> pc, status |-> 0, reply |-> "none", seq |-> 0]

Init ==
  /\ references = [id \in Intents |-> Absent]
  /\ faults = [op \in Operations |-> NoPlan]
  /\ events = <<>>
  /\ sequence = 0
  /\ resetting = 0
  /\ call = [r \in Requests |-> NoCall]
  /\ req = [r \in Requests |-> At("new")]
  /\ incarnation = [id \in Intents |-> 0]
  /\ issued = [id \in Intents |-> {Unissued}]
  /\ wins = {}
  /\ generation = 0
  /\ straddlers = {}
  /\ armed = <<>>
  /\ trace = [r \in Requests |->
                [generation |-> 0, after |-> {}, plan |-> 0,
                 held |-> Unissued, committed |-> FALSE]]

-----------------------------------------------------------------------------
(* The parts the request handlers share *)

(* Mutants of takeFault: it does not look at Times, or does not count.      *)
takeFaultUnchecked(op) ==
  [faults EXCEPT ![op] = [@ EXCEPT !.times = @ - 1]]

takeFaultUncounted(op) == faults

(* takeFault: the fault map after one firing of the plan for op.            *)
takeFault(op) ==
  LET plan == faults[op]
  IN IF plan.times = 0 THEN faults
     ELSE [faults EXCEPT ![op] =
             IF plan.times = 1 THEN NoPlan
             ELSE [plan EXCEPT !.times = plan.times - 1]]

(* respond: the journal comes first, then the (possibly cut) JSON.          *)
respond(fault, status) ==
  [pc |-> "recording", status |-> status, seq |-> 0,
   reply |-> IF fault.malformed THEN "malformed" ELSE "answer"]

(* Mutants of respondAfterCommit: a withheld answer is journalled as 503, or*)
(* not at all.                                                              *)
respondAfterCommitUnavailable(fault, status) ==
  IF fault.close
  THEN [pc |-> "recording", status |-> 503, seq |-> 0, reply |-> "closed"]
  ELSE respond(fault, status)

respondAfterCommitSilently(fault, status) ==
  IF fault.close
  THEN [pc |-> "replying", status |-> 0, seq |-> 0, reply |-> "closed"]
  ELSE respond(fault, status)

(* A commit whose answer is withheld is journalled with status 0.           *)
respondAfterCommit(fault, status) ==
  IF fault.close
  THEN [pc |-> "recording", status |-> 0, seq |-> 0, reply |-> "closed"]
  ELSE respond(fault, status)

(* The rest of preCommitFault, and of the preludes written out in the two   *)
(* mutating handlers, once the delay is over.                               *)
preCommitFault(fault) ==
  IF fault.status # 0 THEN respond(fault, fault.status) ELSE At("serving")

(* The OVNs a client can name: a create and a read carry none.              *)
HeldStamps(op, id) ==
  IF op \in {"update", "delete"} THEN issued[id] ELSE {Unissued}

(* The entry of every handler up to its first wait: the fault is taken, and *)
(* without a delay the request goes on at once to its injected status or to *)
(* its own work.                                                            *)
Arrive(r, op, id, held, decodes) ==
  LET fault == faults[op].fault
  IN /\ call' = [call EXCEPT ![r] =
                   [op |-> op, id |-> id, ovn |-> OVN(id, held[2]),
                    decodes |-> decodes, fault |-> fault]]
     /\ req' = [req EXCEPT ![r] = IF fault.delayed THEN At("delayed")
                                  ELSE preCommitFault(fault)]
     /\ faults' = takeFault(op)
     /\ trace' = [trace EXCEPT ![r] =
                    [generation |-> generation, after |-> Done,
                     plan |-> faults[op].plan, held |-> held,
                     committed |-> FALSE]]
     /\ straddlers' = IF resetting > 0 THEN straddlers \cup {r} ELSE straddlers
     /\ UNCHANGED <<references, events, sequence, resetting, world,
                    generation, armed>>

Begin(r) ==
  /\ req[r].pc = "new"
  /\ \E op \in ClientOps, id \in Intents :
       \E held \in HeldStamps(op, id),
          decodes \in (IF op \in Puts THEN BOOLEAN ELSE {TRUE}) :
         Arrive(r, op, id, held, decodes)

(* wait returns true: the timer fires first.                                *)
DelayElapsed(r) ==
  /\ req[r].pc = "delayed"
  /\ req' = [req EXCEPT ![r] = preCommitFault(call[r].fault)]
  /\ UNCHANGED <<store, world, epoch, armed, trace, call>>

(* wait returns false: the request's context ended first.  499 is journalled*)
(* and nothing is written.                                                  *)
ClientGone(r) ==
  /\ req[r].pc = "delayed"
  /\ req' = [req EXCEPT ![r] =
               [pc |-> "recording", status |-> 499, seq |-> 0,
                reply |-> "abandoned"]]
  /\ UNCHANGED <<store, world, epoch, armed, trace, call>>

-----------------------------------------------------------------------------
(* The handlers' own work, one critical section each *)

(* respond with a verdict that leaves the references alone.                 *)
Answer(r, status) ==
  /\ req' = [req EXCEPT ![r] = respond(call[r].fault, status)]
  /\ UNCHANGED <<store, world, epoch, armed, trace, call>>

(* Mutant of OVNRefusal: the OVN in the path is not compared.               *)
OVNRefusalUncompared(c) == IF ~Exists(c.id) THEN 404 ELSE 0

(* The status with which a call that names an OVN is turned down, or 0.     *)
OVNRefusal(c) ==
  IF ~Exists(c.id) THEN 404
  ELSE IF c.ovn # references[c.id].ovn THEN 409 ELSE 0

(* The same for a PUT, in the code's order.                                 *)
PutRefusal(c) ==
  IF ~c.decodes THEN 400
  ELSE IF c.op = "update" THEN OVNRefusal(c)
  ELSE IF Exists(c.id) THEN 409 ELSE 0

(* current.Version + 1: the zero value gives a created reference version 1. *)
NextReference(r) ==
  LET id == call[r].id
      version == references[id].version + 1
  IN [version |-> version, ovn |-> OVN(id, version), body |-> {r}]

(* History of a commit: the stamp it consumed, if it was conditional, and   *)
(* the stamp of the OVN its response carries.                               *)
NoteCommit(r, id, conditional, stamp) ==
  /\ trace' = [trace EXCEPT ![r].committed = TRUE]
  /\ issued' = [issued EXCEPT ![id] = @ \cup {stamp}]
  /\ wins' = IF conditional
             THEN wins \cup
                  {[id |-> id, by |-> r, held |-> trace[r].held,
                    current |-> <<incarnation[id], references[id].version>>]}
             ELSE wins

CommitPut(r) ==
  LET create == call[r].op = "create"
      id == call[r].id
      reference == NextReference(r)
  IN /\ references' = [references EXCEPT ![id] = reference]
     /\ req' = [req EXCEPT ![r] =
                  respondAfterCommit(call[r].fault,
                                     IF create THEN 201 ELSE 200)]
     /\ incarnation' = [incarnation EXCEPT ![id] =
                          IF create THEN @ + 1 ELSE @]
     /\ NoteCommit(r, id, ~create,
                   <<incarnation'[id], reference.version>>)
     /\ UNCHANGED <<faults, events, sequence, resetting, epoch, armed, call>>

handlePutReference(r) ==
  /\ req[r].pc = "serving" /\ call[r].op \in Puts
  /\ \/ PutRefusal(call[r]) # 0 /\ Answer(r, PutRefusal(call[r]))
     \/ PutRefusal(call[r]) = 0 /\ CommitPut(r)

(* The response of a delete carries the OVN after the deleted one.          *)
CommitDelete(r) ==
  LET id == call[r].id
  IN /\ references' = [references EXCEPT ![id] = Absent]
     /\ req' = [req EXCEPT ![r] = respondAfterCommit(call[r].fault, 200)]
     /\ incarnation' = incarnation
     /\ NoteCommit(r, id, TRUE,
                   <<incarnation[id], references[id].version + 1>>)
     /\ UNCHANGED <<faults, events, sequence, resetting, epoch, armed, call>>

handleDeleteReference(r) ==
  /\ req[r].pc = "serving" /\ call[r].op = "delete"
  /\ \/ OVNRefusal(call[r]) # 0 /\ Answer(r, OVNRefusal(call[r]))
     \/ OVNRefusal(call[r]) = 0 /\ CommitDelete(r)

handleGetReference(r) ==
  /\ req[r].pc = "serving" /\ call[r].op = "get"
  /\ Answer(r, IF Exists(call[r].id) THEN 200 ELSE 404)

handlePeerDetails(r) ==
  /\ req[r].pc = "serving" /\ call[r].op = "details"
  /\ Answer(r, IF Exists(call[r].id) THEN 200 ELSE 404)

(* handleQueryReferences and handleSubscriptions answer 200 with whatever   *)
(* the map holds.                                                           *)
handleQueryReferences(r) ==
  /\ req[r].pc = "serving" /\ call[r].op \in {"query", "subscriptions"}
  /\ Answer(r, 200)

(* Not written through respond: a malformed-JSON fault has no effect here.  *)
handlePeerNotification(r) ==
  /\ req[r].pc = "serving" /\ call[r].op = "notify"
  /\ req' = [req EXCEPT ![r] =
               [pc |-> "recording", status |-> 204, seq |-> 0,
                reply |-> "answer"]]
  /\ UNCHANGED <<store, world, epoch, armed, trace, call>>

-----------------------------------------------------------------------------
(* record: the number is drawn outside the lock, the event appended under it*)

(* Mutant of RecordSequence: the number is read but not stored.             *)
RecordSequenceUnstored(r) ==
  /\ req[r].pc = "recording"
  /\ req' = [req EXCEPT ![r] =
               [@ EXCEPT !.pc = "appending", !.seq = sequence + 1]]
  /\ UNCHANGED <<store, world, epoch, armed, trace, call>>

RecordSequence(r) ==
  /\ req[r].pc = "recording"
  /\ sequence' = sequence + 1
  /\ req' = [req EXCEPT ![r] =
               [@ EXCEPT !.pc = "appending", !.seq = sequence + 1]]
  /\ UNCHANGED <<references, faults, events, resetting, world, epoch, armed,
                 trace, call>>

RecordEvent(r) ==
  /\ req[r].pc = "appending"
  /\ events' = Append(events,
                      [sequence |-> req[r].seq, by |-> r, op |-> call[r].op,
                       status |-> req[r].status, fault |-> call[r].fault])
  /\ req' = [req EXCEPT ![r].pc = "replying"]
  /\ UNCHANGED <<references, faults, sequence, resetting, world, epoch, armed,
                 trace, call>>

(* writeJSON, the cut JSON, closeConnection, or the bare return after 499.  *)
Reply(r) ==
  /\ req[r].pc = "replying"
  /\ req' = [req EXCEPT ![r].pc = "done"]
  /\ UNCHANGED <<store, world, epoch, armed, trace, call>>

-----------------------------------------------------------------------------
(* The control plane.  handleEvents and handleState only copy what they     *)
(* find under the lock, so the invariants below are what they may rely on.  *)

(* handleFault, for the plans its validation accepts.                       *)
handleFault(op, times, fault) ==
  /\ Len(armed) < MaxPlans
  /\ times > 0
  /\ faults' = [faults EXCEPT ![op] =
                  [times |-> times, fault |-> fault, plan |-> Len(armed) + 1]]
  /\ armed' = Append(armed, [op |-> op, times |-> times,
                             generation |-> generation])
  /\ UNCHANGED <<references, events, sequence, resetting, req, world, epoch,
                 trace, call>>

handleClearFaults ==
  /\ \E op \in Operations : faults[op].times > 0
  /\ faults' = [op \in Operations |-> NoPlan]
  /\ UNCHANGED <<references, events, sequence, resetting, req, world, epoch,
                 armed, trace, call>>

handleRotateOVN(id) ==
  LET version == references[id].version + 1
  IN /\ Exists(id) /\ version <= MaxVersion
     /\ references' = [references EXCEPT ![id] =
                         [@ EXCEPT !.version = version,
                                   !.ovn = OVN(id, version)]]
     /\ issued' = [issued EXCEPT ![id] =
                     @ \cup {<<incarnation[id], version>>}]
     /\ UNCHANGED <<faults, events, sequence, resetting, req, incarnation,
                    wins, epoch, armed, trace, call>>

(* Mutant of handleReset: the references survive.                           *)
handleResetKeepsReferences ==
  /\ generation < MaxResets
  /\ faults' = [op \in Operations |-> NoPlan]
  /\ events' = <<>>
  /\ resetting' = resetting + 1
  /\ generation' = generation + 1
  /\ straddlers' = InFlight
  /\ UNCHANGED <<references, sequence, req, world, armed, trace, call>>

(* handleReset, first half: the critical section.  Nothing keeps a second   *)
(* reset from entering before the first one's store.                        *)
handleReset ==
  /\ generation < MaxResets
  /\ references' = [id \in Intents |-> Absent]
  /\ faults' = [op \in Operations |-> NoPlan]
  /\ events' = <<>>
  /\ resetting' = resetting + 1
  /\ generation' = generation + 1
  /\ straddlers' = InFlight
  /\ UNCHANGED <<sequence, req, world, armed, trace, call>>

(* Mutant of ResetSequence: the counter goes on.                            *)
ResetSequenceKeepsCounting ==
  /\ resetting > 0 /\ resetting' = resetting - 1
  /\ UNCHANGED <<references, faults, events, sequence, req, world, epoch,
                 armed, trace, call>>

(* handleReset, second half: the store that follows the unlock.             *)
ResetSequence ==
  /\ resetting > 0
  /\ sequence' = 0
  /\ resetting' = resetting - 1
  /\ UNCHANGED <<references, faults, events, req, world, epoch, armed, trace,
                 call>>

-----------------------------------------------------------------------------
Serve(r) ==
  \/ handlePutReference(r) \/ handleDeleteReference(r)
  \/ handleGetReference(r) \/ handlePeerDetails(r)
  \/ handleQueryReferences(r) \/ handlePeerNotification(r)

Handle(r) ==
  \/ Begin(r) \/ DelayElapsed(r) \/ ClientGone(r) \/ Serve(r)
  \/ RecordSequence(r) \/ RecordEvent(r) \/ Reply(r)

Control ==
  \/ \E op \in ClientOps, times \in 1 .. MaxTimes, fault \in FaultKinds :
       handleFault(op, times, fault)
  \/ handleClearFaults
  \/ \E id \in Intents : handleRotateOVN(id)
  \/ handleReset
  \/ ResetSequence

Next == (\E r \in Requests : Handle(r)) \/ Control

Spec == Init /\ [][Next]_vars

-----------------------------------------------------------------------------
(* The fixture as an atomic store: the mapping of its state *)

CallOf(r) ==
  IF req[r].pc = "new" THEN [kind |-> "none"]
  ELSE [kind |-> IF call[r].op \in Mutations THEN call[r].op ELSE "read",
        id |-> call[r].id, expected |-> call[r].ovn[2]]

OutcomeOf(r) ==
  IF trace[r].committed THEN "applied"
  ELSE IF req[r].pc \in {"new", "delayed", "serving"} THEN "pending"
  ELSE "unapplied"

Store == INSTANCE ReferenceStore WITH
  Callers <- Requests,
  register <- [id \in Intents |-> references[id].version],
  call <- [r \in Requests |-> CallOf(r)],
  outcome <- [r \in Requests |-> OutcomeOf(r)]

(* The fixture implements the atomic store: under delays, injected          *)
(* failures, withheld and cut answers, rotations and resets, every mutation *)
(* takes effect at most once, at one moment between its arrival and its     *)
(* answer, on exactly the version it named, and never after it was given up *)
(* (all handlers).                                                          *)
ImplementsReferenceStore == Store!StoreSpec

-----------------------------------------------------------------------------
(* Properties *)

EventsOf(r) == {i \in DOMAIN events : events[i].by = r}
Takers(plan) == {r \in Requests : trace[r].plan = plan}

(* OVN checks serialise writers: of the updates and deletes that named the *)
(* same OVN, at most one commits during the life of one reference, however  *)
(* their delays, rotations and other writers interleave.  A second holder   *)
(* of that OVN commits only once the reference was removed and created      *)
(* again, the case StaleOVNNeverWins is about (handlePutReference,          *)
(* handleDeleteReference, handleRotateOVN).                                 *)
OneWinnerPerOVN ==
  \A v, w \in wins :
    v.id = w.id /\ v.held[2] = w.held[2] /\ v.current[1] = w.current[1]
      => v.by = w.by

(* A scenario reads the journal to learn what reached the DSS: an event of  *)
(* a mutation that carries no injected status and has status 0, 200 or 201  *)
(* was written by a request that committed, and every other event by one    *)
(* that did not, withheld answers, abandoned delays and decode errors       *)
(* included (record, respond, closeConnection).                             *)
JournalMatchesCommit ==
  \A i \in DOMAIN events :
    events[i].op \in Mutations =>
      (trace[events[i].by].committed <=>
         events[i].fault.status = 0 /\ events[i].status \in {0, 200, 201})

(* A bounded fault fires exactly Times times: what concurrent requests have *)
(* taken of a plan plus what is left of it is its Times, and a plan that    *)
(* was cleared, replaced or used up was never taken more often (takeFault). *)
FaultBudget ==
  \A p \in DOMAIN armed :
    LET installed == faults[armed[p].op]
    IN /\ Cardinality(Takers(p)) <= armed[p].times
       /\ installed.plan = p =>
            Cardinality(Takers(p)) + installed.times = armed[p].times
       /\ \A r \in Takers(p) : call[r].op = armed[p].op

(* The journal is complete when a client knows its answer: a request that   *)
(* began since the latest reset has exactly one event from the moment its   *)
(* answer can be written or its connection closed, and no request ever has  *)
(* two (respond and the close-after-commit paths record first).             *)
AnsweredIsJournaled ==
  \A r \in Requests :
    /\ \A i, j \in EventsOf(r) : i = j
    /\ req[r].pc \in {"replying", "done"} /\ trace[r].generation = generation
         => EventsOf(r) # {}

(* The journal respects real time although its numbers are drawn outside    *)
(* the lock: when b began after a had been answered, a stands before b and  *)
(* has the smaller number, unless one of them overlapped a reset (record).  *)
JournalRealTimeOrder ==
  \A i, j \in DOMAIN events :
    LET a == events[i].by
        b == events[j].by
    IN a \in trace[b].after /\ {a, b} \cap straddlers = {} =>
         i < j /\ events[i].sequence < events[j].sequence

(* After a reset that no request overlapped, the numbers drawn since are    *)
(* 1 .. sequence, each once: neither a gap nor a repetition (record,        *)
(* handleReset).                                                            *)
JournalNumbering ==
  LET drawn == {r \in Requests :
                  /\ req[r].pc \in {"appending", "replying", "done"}
                  /\ trace[r].generation = generation}
  IN resetting = 0 /\ straddlers = {} =>
       /\ {req[r].seq : r \in drawn} = 1 .. sequence
       /\ Cardinality(drawn) = sequence

(* What a reset really gives a scenario: references and events come from    *)
(* requests that began since the reset or that overlapped it, and no fault  *)
(* plan armed before a reset is taken by a request that began after it.     *)
(* Those that overlapped it do cross it: nothing waits for a delayed commit *)
(* when Reset "restores every stateful authority to a clean scenario        *)
(* boundary", in the words of internal/stack/stack.go (handleReset).        *)
Current(r) == trace[r].generation = generation

ResetBoundary ==
  /\ \A id \in Intents :
       \A r \in references[id].body : Current(r) \/ r \in straddlers
  /\ \A i \in DOMAIN events :
       Current(events[i].by) \/ events[i].by \in straddlers
  /\ \A r \in Requests :
       trace[r].plan # 0 =>
         armed[trace[r].plan].generation = trace[r].generation

(* scenarios/catalog.md: "a stale OVN cannot delete or overwrite a newer    *)
(* reference".  Every commit that was conditional on an OVN held the OVN of *)
(* the very reference it changed (handlePutReference, line 299, restarts    *)
(* the version of a recreated reference at 1).                              *)
StaleOVNNeverWins == \A w \in wins : w.held = w.current
=============================================================================
