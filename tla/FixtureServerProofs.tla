------------------------ MODULE FixtureServerProofs ------------------------
(***************************************************************************)
(* Theorems about FixtureServer for any number of requests and intents,    *)
(* any fault shapes and any bounds.                                        *)
(***************************************************************************)
EXTENDS FixtureServer, TLAPS

-----------------------------------------------------------------------------
(* Types *)

(* The helpers of the handlers return a well-formed progress record.        *)
LEMMA HelperTypes ==
  ASSUME NEW fault \in FaultSnapshot, NEW status \in 0 .. 599
  PROVE  /\ respond(fault, status) \in Progress
         /\ respondAfterCommit(fault, status) \in Progress
         /\ preCommitFault(fault) \in Progress
<1>1. ASSUME NEW s \in 0 .. 599
      PROVE  respond(fault, s) \in Progress
  BY DEF respond, Progress, Stages, Replies
<1>2. fault.status \in 0 .. 599
  BY DEF FaultSnapshot
<1>3. respondAfterCommit(fault, status) \in Progress
  <2>1. [pc |-> "recording", status |-> 0, seq |-> 0, reply |-> "closed"]
          \in Progress
    BY DEF Progress, Stages, Replies
  <2> QED BY <1>1, <2>1, Zenon DEF respondAfterCommit
<1>4. preCommitFault(fault) \in Progress
  <2>1. At("serving") \in Progress
    BY DEF At, Progress, Stages, Replies
  <2>2. respond(fault, fault.status) \in Progress
    BY <1>1, <1>2
  <2> QED BY <2>1, <2>2, Zenon DEF preCommitFault
<1> QED BY <1>1, <1>3, <1>4

LEMMA NoPlanType == NoPlan \in FaultPlan /\ Absent \in Reference
  BY DEF NoPlan, FaultPlan, NoFault, FaultSnapshot, Absent, Reference

LEMMA InitType == Init => TypeOK
<1> SUFFICES ASSUME Init PROVE TypeOK
  OBVIOUS
<1>1. NoCall \in Call
  BY FixtureAssumption
     DEF NoCall, Call, Operations, OVN, NoFault, FaultSnapshot
<1>2. At("new") \in Progress
  BY DEF At, Progress, Stages, Replies
<1>3. [generation |-> 0, after |-> {}, plan |-> 0, held |-> Unissued,
       committed |-> FALSE] \in Trace
  BY DEF Trace, Unissued
<1>4. /\ references \in [Intents -> Reference]
      /\ faults \in [Operations -> FaultPlan]
  BY NoPlanType DEF Init
<1>5. /\ events \in Seq(Event)
      /\ armed \in Seq(ArmedPlan)
  BY DEF Init
<1>6. issued \in [Intents -> SUBSET (Nat \X Nat)]
  BY DEF Init, Unissued
<1>7. /\ call \in [Requests -> Call]
      /\ req \in [Requests -> Progress]
      /\ trace \in [Requests -> Trace]
  BY <1>1, <1>2, <1>3 DEF Init
<1> QED BY <1>4, <1>5, <1>6, <1>7 DEF Init, TypeOK
(* One firing of a plan leaves a well-formed fault map, and the fault found *)
(* in it is a snapshot.                                                     *)
LEMMA TakeFaultType ==
  ASSUME TypeOK, NEW op \in Operations
  PROVE  takeFault(op) \in [Operations -> FaultPlan]
<1>1. faults \in [Operations -> FaultPlan] /\ faults[op] \in FaultPlan
  BY DEF TypeOK
<1> DEFINE left == [faults[op] EXCEPT !.times = faults[op].times - 1]
<1>2. faults[op].times # 0 => left \in FaultPlan
  BY <1>1 DEF FaultPlan
<1>3. takeFault(op) =
        IF faults[op].times = 0 THEN faults
        ELSE [faults EXCEPT ![op] =
                IF faults[op].times = 1 THEN NoPlan ELSE left]
  BY DEF takeFault
<1> HIDE DEF left
<1> QED BY <1>1, <1>2, <1>3, NoPlanType

LEMMA BeginType ==
  ASSUME TypeOK, NEW r \in Requests, Begin(r)
  PROVE  TypeOK'
<1>1. PICK op \in ClientOps, id \in Intents :
        \E held \in HeldStamps(op, id),
           decodes \in (IF op \in Puts THEN BOOLEAN ELSE {TRUE}) :
          Arrive(r, op, id, held, decodes)
  BY DEF Begin
<1>2. PICK held \in HeldStamps(op, id),
           decodes \in (IF op \in Puts THEN BOOLEAN ELSE {TRUE}) :
        Arrive(r, op, id, held, decodes)
  BY <1>1
<1>3. op \in Operations /\ faults[op] \in FaultPlan
  BY FixtureAssumption DEF TypeOK
<1>4. held \in Nat \X Nat
  BY DEF HeldStamps, TypeOK, Unissued
<1>5. faults[op].fault \in FaultSnapshot /\ faults[op].plan \in Nat
  BY <1>3 DEF FaultPlan
<1>6. call' \in [Requests -> Call]
  <2>1. decodes \in BOOLEAN
    OBVIOUS
  <2>2. [op |-> op, id |-> id, ovn |-> OVN(id, held[2]),
         decodes |-> decodes, fault |-> faults[op].fault] \in Call
    BY <1>3, <1>4, <1>5, <2>1 DEF Call, OVN
  <2> QED BY <1>2, <2>2 DEF TypeOK, Arrive
<1>7. req' \in [Requests -> Progress]
  <2>1. At("delayed") \in Progress
    BY DEF At, Progress, Stages, Replies
  <2>2. preCommitFault(faults[op].fault) \in Progress
    BY <1>5, HelperTypes
  <2> QED BY <1>2, <2>1, <2>2 DEF TypeOK, Arrive
<1>8. trace' \in [Requests -> Trace]
  <2>1. [generation |-> generation, after |-> Done,
         plan |-> faults[op].plan, held |-> held, committed |-> FALSE]
          \in Trace
    BY <1>4, <1>5 DEF Trace, TypeOK, Done
  <2> QED BY <1>2, <2>1 DEF TypeOK, Arrive
<1>9. faults' \in [Operations -> FaultPlan]
  BY <1>2, <1>3, TakeFaultType DEF Arrive
<1> QED BY <1>2, <1>6, <1>7, <1>8, <1>9 DEF Arrive, TypeOK, world

(* Steps that change nothing but a request's progress.                      *)
LEMMA ProgressType ==
  ASSUME TypeOK, NEW r \in Requests, NEW p \in Progress,
         req' = [req EXCEPT ![r] = p],
         UNCHANGED <<store, world, epoch, armed, trace, call>>
  PROVE  TypeOK'
<1>1. req' \in [Requests -> Progress]
  BY DEF TypeOK
<1> QED BY <1>1 DEF TypeOK, store, world, epoch

LEMMA AnswerType ==
  ASSUME TypeOK, NEW r \in Requests, NEW status \in 0 .. 599,
         Answer(r, status)
  PROVE  TypeOK'
<1>1. call[r].fault \in FaultSnapshot
  BY DEF TypeOK, Call
<1> QED BY <1>1, HelperTypes, ProgressType DEF Answer

(* What a commit adds to the history.                                       *)
LEMMA NoteCommitType ==
  ASSUME TypeOK, NEW r \in Requests, NEW id \in Intents,
         NEW conditional \in BOOLEAN, NEW stamp \in Nat \X Nat,
         NoteCommit(r, id, conditional, stamp)
  PROVE  /\ trace' \in [Requests -> Trace]
         /\ issued' \in [Intents -> SUBSET (Nat \X Nat)]
         /\ wins' \subseteq Win
<1>1. trace[r] \in Trace /\ references[id] \in Reference
      /\ incarnation[id] \in Nat
  BY DEF TypeOK
<1>2. trace' \in [Requests -> Trace]
  <2>1. [trace[r] EXCEPT !.committed = TRUE] \in Trace
    BY <1>1 DEF Trace
  <2> QED BY <2>1 DEF NoteCommit, TypeOK
<1>3. [id |-> id, by |-> r, held |-> trace[r].held,
       current |-> <<incarnation[id], references[id].version>>] \in Win
  BY <1>1 DEF Trace, Reference, Win
<1>4. wins' \subseteq Win
  BY <1>3 DEF NoteCommit, TypeOK
<1>5. issued' \in [Intents -> SUBSET (Nat \X Nat)]
  BY DEF NoteCommit, TypeOK
<1> QED BY <1>2, <1>4, <1>5

LEMMA CommitPutType ==
  ASSUME TypeOK, NEW r \in Requests, CommitPut(r)
  PROVE  TypeOK'
<1> DEFINE id == call[r].id
           create == call[r].op = "create"
<1>1. /\ id \in Intents /\ call[r].fault \in FaultSnapshot
      /\ references[id].version \in Nat /\ incarnation[id] \in Nat
  BY DEF TypeOK, Call, Reference
<1>2. NextReference(r) \in Reference /\ NextReference(r).version \in Nat
  BY <1>1 DEF NextReference, Reference, OVN
<1>3. references' \in [Intents -> Reference]
  BY <1>1, <1>2 DEF CommitPut, TypeOK
<1>4. req' \in [Requests -> Progress]
  <2>1. (IF create THEN 201 ELSE 200) \in 0 .. 599
    OBVIOUS
  <2>2. respondAfterCommit(call[r].fault, IF create THEN 201 ELSE 200)
          \in Progress
    BY <1>1, <2>1, HelperTypes
  <2> QED BY <2>2 DEF CommitPut, TypeOK
<1>5. incarnation' \in [Intents -> Nat]
  BY <1>1 DEF CommitPut, TypeOK
<1>6. /\ trace' \in [Requests -> Trace]
      /\ issued' \in [Intents -> SUBSET (Nat \X Nat)]
      /\ wins' \subseteq Win
  <2>1. <<incarnation'[id], NextReference(r).version>> \in Nat \X Nat
    BY <1>1, <1>2, <1>5
  <2>2. NoteCommit(r, id, ~create,
                   <<incarnation'[id], NextReference(r).version>>)
    BY DEF CommitPut
  <2>3. (~create) \in BOOLEAN
    OBVIOUS
  <2> QED BY <1>1, <2>1, <2>2, <2>3, NoteCommitType
<1> QED BY <1>3, <1>4, <1>5, <1>6 DEF CommitPut, TypeOK, epoch

LEMMA CommitDeleteType ==
  ASSUME TypeOK, NEW r \in Requests, CommitDelete(r)
  PROVE  TypeOK'
<1> DEFINE id == call[r].id
<1>1. /\ id \in Intents /\ call[r].fault \in FaultSnapshot
      /\ references[id].version \in Nat /\ incarnation[id] \in Nat
  BY DEF TypeOK, Call, Reference
<1>2. references' \in [Intents -> Reference]
  BY NoPlanType DEF CommitDelete, TypeOK
<1>3. req' \in [Requests -> Progress]
  <2>1. respondAfterCommit(call[r].fault, 200) \in Progress
    BY <1>1, HelperTypes
  <2> QED BY <2>1 DEF CommitDelete, TypeOK
<1>4. /\ trace' \in [Requests -> Trace]
      /\ issued' \in [Intents -> SUBSET (Nat \X Nat)]
      /\ wins' \subseteq Win
  <2>1. <<incarnation[id], references[id].version + 1>> \in Nat \X Nat
    BY <1>1
  <2>2. NoteCommit(r, id, TRUE,
                   <<incarnation[id], references[id].version + 1>>)
    BY DEF CommitDelete
  <2> QED BY <1>1, <2>1, <2>2, NoteCommitType
<1> QED BY <1>2, <1>3, <1>4 DEF CommitDelete, TypeOK, epoch

LEMMA RecordType ==
  ASSUME TypeOK, NEW r \in Requests, RecordSequence(r) \/ RecordEvent(r)
  PROVE  TypeOK'
<1>1. req[r] \in Progress /\ call[r] \in Call /\ sequence \in Nat
  BY DEF TypeOK
<1>2. CASE RecordSequence(r)
  <2>1. [req[r] EXCEPT !.pc = "appending", !.seq = sequence + 1] \in Progress
    <3>1. ASSUME NEW n \in Nat, NEW p \in Stages
          PROVE  [req[r] EXCEPT !.pc = p, !.seq = n] \in Progress
      BY <1>1 DEF Progress
    <3>2. "appending" \in Stages /\ sequence + 1 \in Nat
      BY <1>1 DEF Stages
    <3> QED BY <3>1, <3>2
  <2>2. req' \in [Requests -> Progress] /\ sequence' \in Nat
    BY <1>2, <2>1 DEF RecordSequence, TypeOK
  <2> QED BY <1>2, <2>2 DEF RecordSequence, TypeOK, world, epoch
<1>3. CASE RecordEvent(r)
  <2>1. [sequence |-> req[r].seq, by |-> r, op |-> call[r].op,
         status |-> req[r].status, fault |-> call[r].fault] \in Event
    BY <1>1 DEF Progress, Call, Event
  <2>2. events' \in Seq(Event)
    BY <1>3, <2>1 DEF RecordEvent, TypeOK
  <2>3. [req[r] EXCEPT !.pc = "replying"] \in Progress
    BY <1>1 DEF Progress, Stages
  <2>4. req' \in [Requests -> Progress]
    BY <1>3, <2>3 DEF RecordEvent, TypeOK
  <2> QED BY <1>3, <2>2, <2>4 DEF RecordEvent, TypeOK, world, epoch
<1> QED BY <1>2, <1>3

LEMMA HandleType ==
  ASSUME TypeOK, NEW r \in Requests, Handle(r)
  PROVE  TypeOK'
<1>1. call[r].fault \in FaultSnapshot /\ req[r] \in Progress
  BY DEF TypeOK, Call
<1>2. CASE Begin(r)
  BY <1>2, BeginType
<1>3. CASE DelayElapsed(r)
  <2>1. preCommitFault(call[r].fault) \in Progress
    <3>1. 0 \in 0 .. 599
      OBVIOUS
    <3> QED BY <1>1, <3>1, HelperTypes
  <2> QED BY <1>3, <2>1, ProgressType DEF DelayElapsed
<1>4. CASE ClientGone(r)
  <2>1. [pc |-> "recording", status |-> 499, seq |-> 0,
         reply |-> "abandoned"] \in Progress
    BY DEF Progress, Stages, Replies
  <2> QED BY <1>4, <2>1, ProgressType DEF ClientGone
<1>5. CASE handlePutReference(r)
  <2>1. PutRefusal(call[r]) \in 0 .. 599
    BY DEF PutRefusal, OVNRefusal
  <2>2. CASE Answer(r, PutRefusal(call[r]))
    BY <2>1, <2>2, AnswerType
  <2>3. CASE CommitPut(r)
    BY <2>3, CommitPutType
  <2> QED BY <1>5, <2>2, <2>3 DEF handlePutReference
<1>6. CASE handleDeleteReference(r)
  <2>1. OVNRefusal(call[r]) \in 0 .. 599
    BY DEF OVNRefusal
  <2>2. CASE Answer(r, OVNRefusal(call[r]))
    BY <2>1, <2>2, AnswerType
  <2>3. CASE CommitDelete(r)
    BY <2>3, CommitDeleteType
  <2> QED BY <1>6, <2>2, <2>3 DEF handleDeleteReference
<1>7. CASE \/ handleGetReference(r) \/ handlePeerDetails(r)
           \/ handleQueryReferences(r)
  <2>1. /\ 200 \in 0 .. 599
        /\ (IF Exists(call[r].id) THEN 200 ELSE 404) \in 0 .. 599
    OBVIOUS
  <2> QED BY <1>7, <2>1, AnswerType
          DEF handleGetReference, handlePeerDetails, handleQueryReferences
<1>8. CASE handlePeerNotification(r)
  <2>1. [pc |-> "recording", status |-> 204, seq |-> 0,
         reply |-> "answer"] \in Progress
    BY DEF Progress, Stages, Replies
  <2> QED BY <1>8, <2>1, ProgressType DEF handlePeerNotification
<1>9. CASE RecordSequence(r) \/ RecordEvent(r)
  BY <1>9, RecordType
<1>10. CASE Reply(r)
  <2>1. [req[r] EXCEPT !.pc = "done"] \in Progress
    BY <1>1 DEF Progress, Stages
  <2> QED BY <1>10, <2>1, ProgressType DEF Reply
<1> QED BY <1>2, <1>3, <1>4, <1>5, <1>6, <1>7, <1>8, <1>9, <1>10
        DEF Handle, Serve

LEMMA ControlType ==
  ASSUME TypeOK, Control
  PROVE  TypeOK'
<1>1. ASSUME NEW op \in ClientOps, NEW times \in 1 .. MaxTimes,
             NEW fault \in FaultKinds, handleFault(op, times, fault)
      PROVE  TypeOK'
  <2>1. op \in Operations /\ fault \in FaultSnapshot /\ times \in Nat
    BY FixtureAssumption
  <2>2. [times |-> times, fault |-> fault, plan |-> Len(armed) + 1]
          \in FaultPlan
    BY <2>1 DEF FaultPlan, TypeOK
  <2>3. faults' \in [Operations -> FaultPlan]
    BY <1>1, <2>1, <2>2 DEF handleFault, TypeOK
  <2>4. [op |-> op, times |-> times, generation |-> generation] \in ArmedPlan
    BY <2>1 DEF ArmedPlan, TypeOK
  <2>5. armed' \in Seq(ArmedPlan)
    BY <1>1, <2>4 DEF handleFault, TypeOK
  <2> QED BY <1>1, <2>3, <2>5 DEF handleFault, TypeOK, world, epoch
<1>2. CASE handleClearFaults
  <2>1. faults' \in [Operations -> FaultPlan]
    BY <1>2, NoPlanType DEF handleClearFaults
  <2> QED BY <1>2, <2>1 DEF handleClearFaults, TypeOK, world, epoch
<1>3. ASSUME NEW id \in Intents, handleRotateOVN(id)
      PROVE  TypeOK'
  <2>1. references[id] \in Reference /\ incarnation[id] \in Nat
    BY DEF TypeOK
  <2> DEFINE version == references[id].version + 1
  <2>2. version \in Nat
    BY <2>1 DEF Reference
  <2> HIDE DEF version
  <2>3. [references[id] EXCEPT !.version = version, !.ovn = OVN(id, version)]
          \in Reference
    BY <2>1, <2>2 DEF Reference, OVN
  <2>4. references' \in [Intents -> Reference]
    BY <1>3, <2>3 DEF handleRotateOVN, TypeOK, version
  <2>5. issued' \in [Intents -> SUBSET (Nat \X Nat)]
    BY <1>3, <2>1, <2>2 DEF handleRotateOVN, TypeOK, version
  <2> QED BY <1>3, <2>4, <2>5 DEF handleRotateOVN, TypeOK, epoch
<1>4. CASE handleReset
  <2>1. /\ faults' \in [Operations -> FaultPlan]
        /\ references' \in [Intents -> Reference]
        /\ events' \in Seq(Event)
    BY <1>4, NoPlanType DEF handleReset
  <2>2. straddlers' \subseteq Requests
    BY <1>4 DEF handleReset, InFlight
  <2> QED BY <1>4, <2>1, <2>2 DEF handleReset, TypeOK, world
<1>5. CASE ResetSequence
  BY <1>5 DEF ResetSequence, TypeOK, world, epoch
<1> QED BY <1>1, <1>2, <1>3, <1>4, <1>5 DEF Control

LEMMA StutterType == TypeOK /\ UNCHANGED vars => TypeOK'
  BY DEF TypeOK, vars

(* Type correctness: no handler, whatever interleaves with it, takes the    *)
(* server out of the shapes TypeOK describes.                               *)
THEOREM TypeCorrect == Spec => []TypeOK
<1>1. TypeOK /\ [Next]_vars => TypeOK'
  BY HandleType, ControlType, StutterType DEF Next
<1> QED BY <1>1, InitType, PTL DEF Spec

-----------------------------------------------------------------------------
(* OVNs serialise writers *)

(* The OVN of a reference and the OVN of a call are both well formed, so    *)
(* that equal OVNs of one intent mean equal versions, and a call names the  *)
(* version of the stamp its client held.                                    *)
OVNsFit ==
  /\ \A id \in Intents :
       Exists(id) => references[id].ovn = OVN(id, references[id].version)
  /\ \A r \in Requests : /\ call[r].ovn = OVN(call[r].id, call[r].ovn[2])
                         /\ call[r].ovn[2] = trace[r].held[2]

LEMMA OVNsFitInit == Init => OVNsFit
<1>1. NoCall.ovn = OVN(NoCall.id, NoCall.ovn[2]) /\ NoCall.ovn[2] = 0
  BY DEF NoCall, OVN
<1> QED BY <1>1 DEF Init, OVNsFit, Exists, Absent, Unissued

LEMMA NoteCommitKeepsHeld ==
  ASSUME TypeOK, NEW r \in Requests, NEW id, NEW conditional, NEW stamp,
         NoteCommit(r, id, conditional, stamp)
  PROVE  \A q \in Requests : trace'[q].held = trace[q].held
  BY DEF NoteCommit, TypeOK, Trace

LEMMA OVNsFitStep ==
  ASSUME TypeOK, OVNsFit, [Next]_vars
  PROVE  OVNsFit'
<1>1. ASSUME NEW r \in Requests, Handle(r)
      PROVE  OVNsFit'
  <2>1. call[r].id \in Intents /\ references[call[r].id].version \in Nat
    BY DEF TypeOK, Call, Reference
  <2>2. CASE Begin(r)
    <3>1. PICK op \in ClientOps, id \in Intents :
            \E held \in HeldStamps(op, id),
               decodes \in (IF op \in Puts THEN BOOLEAN ELSE {TRUE}) :
              Arrive(r, op, id, held, decodes)
      BY <2>2 DEF Begin
    <3>2. PICK held \in HeldStamps(op, id),
               decodes \in (IF op \in Puts THEN BOOLEAN ELSE {TRUE}) :
            Arrive(r, op, id, held, decodes)
      BY <3>1
    <3>3. /\ references' = references
          /\ call'[r].id = id /\ call'[r].ovn = OVN(id, held[2])
          /\ trace'[r].held = held
          /\ \A q \in Requests \ {r} :
               call'[q] = call[q] /\ trace'[q] = trace[q]
      BY <3>2 DEF Arrive, TypeOK
    <3>4. /\ call'[r].ovn = OVN(call'[r].id, call'[r].ovn[2])
          /\ call'[r].ovn[2] = trace'[r].held[2]
      BY <3>3 DEF OVN
    <3> QED BY <3>3, <3>4 DEF OVNsFit, Exists
  <2>3. CASE CommitPut(r)
    <3>1. /\ references' = [references EXCEPT ![call[r].id] = NextReference(r)]
          /\ call' = call
          /\ \A q \in Requests : trace'[q].held = trace[q].held
      BY <2>3, NoteCommitKeepsHeld DEF CommitPut
    <3>2. NextReference(r).ovn = OVN(call[r].id, NextReference(r).version)
      BY DEF NextReference
    <3>3. ASSUME NEW id \in Intents, references'[id].version > 0
          PROVE  references'[id].ovn = OVN(id, references'[id].version)
      <4>1. CASE id = call[r].id
        BY <2>1, <3>1, <3>2, <4>1 DEF TypeOK
      <4>2. CASE id # call[r].id
        BY <2>1, <3>1, <3>3, <4>2 DEF OVNsFit, Exists, TypeOK
      <4> QED BY <4>1, <4>2
    <3> QED BY <3>1, <3>3 DEF OVNsFit, Exists
  <2>4. CASE CommitDelete(r)
    <3>1. /\ references' = [references EXCEPT ![call[r].id] = Absent]
          /\ call' = call
          /\ \A q \in Requests : trace'[q].held = trace[q].held
      BY <2>4, NoteCommitKeepsHeld DEF CommitDelete
    <3>2. ASSUME NEW id \in Intents, references'[id].version > 0
          PROVE  references'[id] = references[id]
      BY <2>1, <3>1, <3>2 DEF Absent, TypeOK
    <3> QED BY <3>1, <3>2 DEF OVNsFit, Exists
  <2>5. CASE UNCHANGED <<references, call, trace>>
    BY <2>5 DEF OVNsFit, Exists
  <2>6. \/ Begin(r) \/ CommitPut(r) \/ CommitDelete(r)
        \/ UNCHANGED <<references, call, trace>>
    BY <1>1 DEF Handle, DelayElapsed, ClientGone, Serve,
                handlePutReference, handleDeleteReference,
                handleGetReference, handlePeerDetails,
                handleQueryReferences, handlePeerNotification, Answer,
                RecordSequence, RecordEvent, Reply, store
  <2> QED BY <2>2, <2>3, <2>4, <2>5, <2>6
<1>2. ASSUME NEW id \in Intents, handleRotateOVN(id)
      PROVE  OVNsFit'
  <2> DEFINE version == references[id].version + 1
  <2>1. /\ call' = call /\ trace' = trace
        /\ references'[id].version = version
        /\ references'[id].ovn = OVN(id, version)
        /\ \A i \in Intents \ {id} : references'[i] = references[i]
    BY <1>2 DEF handleRotateOVN, TypeOK, Reference
  <2> QED BY <2>1 DEF OVNsFit, Exists
<1>3. CASE handleReset
  BY <1>3 DEF handleReset, OVNsFit, Exists, Absent
<1>4. CASE \/ \E op \in ClientOps, times \in 1 .. MaxTimes,
                fault \in FaultKinds : handleFault(op, times, fault)
           \/ handleClearFaults \/ ResetSequence \/ UNCHANGED vars
  <2>1. UNCHANGED <<references, call, trace>>
    BY <1>4 DEF handleFault, handleClearFaults, ResetSequence, vars
  <2> QED BY <2>1 DEF OVNsFit, Exists
<1> QED BY <1>1, <1>2, <1>3, <1>4 DEF Next, Control

(* Why a consumed OVN stays consumed: every OVN won so far belongs to an    *)
(* earlier incarnation, or to a version the reference has left behind.      *)
WinsAreBehind ==
  \A w \in wins :
    /\ w.current[1] <= incarnation[w.id]
    /\ w.current[1] = incarnation[w.id] /\ Exists(w.id) =>
         w.current[2] < references[w.id].version

(* What the comparison in the handlers buys: a commit that named an OVN     *)
(* named the version it found.                                              *)
HeldWasCurrent == \A w \in wins : w.held[2] = w.current[2]

(* No stamp is consumed twice.                                              *)
OneWinPerStamp ==
  \A v, w \in wins : v.id = w.id /\ v.current = w.current => v.by = w.by

SerialInv == WinsAreBehind /\ HeldWasCurrent /\ OneWinPerStamp

LEMMA QuietSerial ==
  SerialInv /\ UNCHANGED <<wins, references, incarnation>> => SerialInv'
  BY DEF SerialInv, WinsAreBehind, HeldWasCurrent, OneWinPerStamp, Exists

(* A commit conditional on the current OVN, after which that OVN is gone.   *)
LEMMA ConditionalSerial ==
  ASSUME TypeOK, SerialInv, NEW r \in Requests, NEW id \in Intents,
         Exists(id), trace[r].held[2] = references[id].version,
         wins' = wins \cup
           {[id |-> id, by |-> r, held |-> trace[r].held,
             current |-> <<incarnation[id], references[id].version>>]},
         incarnation' = incarnation,
         NEW next \in Reference,
         next.version = 0 \/ next.version > references[id].version,
         references' = [references EXCEPT ![id] = next]
  PROVE  SerialInv'
<1> DEFINE version == references[id].version
           new == [id |-> id, by |-> r, held |-> trace[r].held,
                   current |-> <<incarnation[id], version>>]
<1>1. /\ version \in Nat /\ next.version \in Nat
      /\ incarnation \in [Intents -> Nat]
      /\ \A i \in Intents : references[i].version \in Nat
      /\ \A w \in wins : /\ w.id \in Intents
                         /\ w.current[1] \in Nat /\ w.current[2] \in Nat
  BY DEF TypeOK, Reference, Win
<1>2. references'[id].version = next.version
      /\ \A i \in Intents \ {id} : references'[i] = references[i]
  BY DEF TypeOK
<1>3. /\ new.id = id /\ new.by = r
      /\ new.current[1] = incarnation[id] /\ new.current[2] = version
      /\ new.held[2] = new.current[2]
      /\ wins' = wins \cup {new}
  OBVIOUS
<1> HIDE DEF new, version
<1>4. \A w \in wins : w.id = id /\ w.current[1] = incarnation[id] =>
                       w.current[2] < version
  BY DEF SerialInv, WinsAreBehind, version
<1>5. WinsAreBehind'
  <2> SUFFICES ASSUME NEW w \in wins'
               PROVE  /\ w.current[1] <= incarnation[w.id]
                      /\ /\ w.current[1] = incarnation[w.id]
                         /\ references'[w.id].version > 0
                         => w.current[2] < references'[w.id].version
    BY DEF WinsAreBehind, Exists
  <2>1. CASE w = new
    BY <1>1, <1>2, <1>3, <2>1 DEF version
  <2>2. CASE w \in wins /\ w.id = id
    BY <1>1, <1>2, <1>4, <2>2 DEF SerialInv, WinsAreBehind, version
  <2>3. CASE w \in wins /\ w.id # id
    BY <1>1, <1>2, <2>3 DEF SerialInv, WinsAreBehind, Exists
  <2> QED BY <1>3, <2>1, <2>2, <2>3
<1>6. OneWinPerStamp'
  <2> SUFFICES ASSUME NEW v \in wins', NEW w \in wins', v.id = w.id,
                      v.current = w.current
               PROVE  v.by = w.by
    BY DEF OneWinPerStamp
  <2>1. ASSUME NEW u \in wins, u.id = id PROVE u.current # new.current
    BY <1>1, <1>3, <1>4, <2>1
  <2> QED BY <1>3, <2>1 DEF SerialInv, OneWinPerStamp
<1>7. HeldWasCurrent'
  BY <1>3 DEF SerialInv, HeldWasCurrent
<1> QED BY <1>5, <1>6, <1>7 DEF SerialInv

(* A call that is not refused for its OVN named the current version.        *)
LEMMA AcceptedOVN ==
  ASSUME TypeOK, OVNsFit, NEW r \in Requests, OVNRefusal(call[r]) = 0
  PROVE  /\ Exists(call[r].id)
         /\ trace[r].held[2] = references[call[r].id].version
<1>1. call[r].id \in Intents /\ references[call[r].id].version \in Nat
  BY DEF TypeOK, Call, Reference
<1>2. Exists(call[r].id) /\ call[r].ovn = references[call[r].id].ovn
  BY DEF OVNRefusal
<1>3. /\ references[call[r].id].ovn
            = OVN(call[r].id, references[call[r].id].version)
      /\ call[r].ovn[2] = trace[r].held[2]
  BY <1>1, <1>2 DEF OVNsFit
<1> QED BY <1>2, <1>3 DEF OVN

LEMMA SerialStep ==
  ASSUME TypeOK, OVNsFit, SerialInv, [Next]_vars
  PROVE  SerialInv'
<1>1. ASSUME NEW r \in Requests, Handle(r)
      PROVE  SerialInv'
  <2> DEFINE id == call[r].id
  <2>1. id \in Intents /\ references[id].version \in Nat
    BY DEF TypeOK, Call, Reference
  <2>2. CASE /\ call[r].op \in Puts /\ PutRefusal(call[r]) = 0
             /\ CommitPut(r)
    <3>1. /\ NextReference(r) \in Reference
          /\ NextReference(r).version = references[id].version + 1
      BY <2>1 DEF NextReference, Reference, OVN
    <3>2. references' = [references EXCEPT ![id] = NextReference(r)]
      BY <2>2 DEF CommitPut
    <3>3. CASE call[r].op = "create"
      <4>1. /\ wins' = wins
            /\ incarnation' = [incarnation EXCEPT ![id] = @ + 1]
        BY <2>2, <3>3 DEF CommitPut, NoteCommit
      <4>2. WinsAreBehind'
        <5> SUFFICES ASSUME NEW w \in wins
                     PROVE  /\ w.current[1] <= incarnation'[w.id]
                            /\ /\ w.current[1] = incarnation'[w.id]
                               /\ references'[w.id].version > 0
                               => w.current[2] < references'[w.id].version
          BY <4>1 DEF WinsAreBehind, Exists
        <5>1. /\ w.id \in Intents /\ w.current[1] \in Nat
              /\ incarnation[w.id] \in Nat
              /\ w.current[1] <= incarnation[w.id]
          BY DEF TypeOK, Win, SerialInv, WinsAreBehind
        <5>2. CASE w.id = id
          BY <2>1, <4>1, <5>1, <5>2 DEF TypeOK
        <5>3. CASE w.id # id
          BY <2>1, <3>2, <4>1, <5>1, <5>3
             DEF TypeOK, SerialInv, WinsAreBehind, Exists
        <5> QED BY <5>2, <5>3
      <4> QED BY <4>1, <4>2 DEF SerialInv, HeldWasCurrent, OneWinPerStamp
    <3>4. CASE call[r].op # "create"
      <4>1. OVNRefusal(call[r]) = 0
        BY <2>2, <3>4 DEF Puts, PutRefusal
      <4>5. Exists(id) /\ trace[r].held[2] = references[id].version
        BY <4>1, AcceptedOVN
      <4>2. wins' = wins \cup
              {[id |-> id, by |-> r, held |-> trace[r].held,
                current |-> <<incarnation[id], references[id].version>>]}
        BY <2>2, <3>4 DEF CommitPut, NoteCommit
      <4>3. incarnation' = incarnation
        BY <2>2, <3>4 DEF CommitPut, TypeOK
      <4>4. NextReference(r).version > references[id].version
        BY <2>1, <3>1
      <4> QED BY <2>1, <3>1, <3>2, <4>2, <4>3, <4>4, <4>5, ConditionalSerial
    <3> QED BY <3>3, <3>4
  <2>3. CASE OVNRefusal(call[r]) = 0 /\ CommitDelete(r)
    <3>1. Exists(id) /\ trace[r].held[2] = references[id].version
      BY <2>3, AcceptedOVN
    <3>2. /\ wins' = wins \cup
                {[id |-> id, by |-> r, held |-> trace[r].held,
                  current |-> <<incarnation[id], references[id].version>>]}
          /\ incarnation' = incarnation
          /\ references' = [references EXCEPT ![id] = Absent]
      BY <2>3 DEF CommitDelete, NoteCommit
    <3>3. Absent \in Reference /\ Absent.version = 0
      BY NoPlanType DEF Absent
    <3> QED BY <2>1, <3>1, <3>2, <3>3, ConditionalSerial
  <2>4. CASE UNCHANGED <<wins, references, incarnation>>
    BY <2>4, QuietSerial
  <2>5. \/ UNCHANGED <<wins, references, incarnation>>
        \/ /\ call[r].op \in Puts /\ PutRefusal(call[r]) = 0
           /\ CommitPut(r)
        \/ OVNRefusal(call[r]) = 0 /\ CommitDelete(r)
    <3>1. CASE Begin(r)
      BY <3>1 DEF Begin, Arrive, world
    <3>2. CASE handlePutReference(r)
      BY <3>2 DEF handlePutReference, Answer, store, world
    <3>3. CASE handleDeleteReference(r)
      BY <3>3 DEF handleDeleteReference, Answer, store, world
    <3>4. CASE \/ handleGetReference(r) \/ handlePeerDetails(r)
               \/ handleQueryReferences(r) \/ handlePeerNotification(r)
      BY <3>4 DEF handleGetReference, handlePeerDetails, Answer,
                  handleQueryReferences, handlePeerNotification, store, world
    <3>5. CASE \/ DelayElapsed(r) \/ ClientGone(r)
               \/ RecordSequence(r) \/ RecordEvent(r) \/ Reply(r)
      BY <3>5 DEF DelayElapsed, ClientGone, RecordSequence, RecordEvent,
                  Reply, store, world
    <3> QED BY <1>1, <3>1, <3>2, <3>3, <3>4, <3>5 DEF Handle, Serve
  <2> QED BY <2>2, <2>3, <2>4, <2>5
<1>2. ASSUME NEW id \in Intents, handleRotateOVN(id)
      PROVE  SerialInv'
  <2>1. /\ references[id].version \in Nat /\ Exists(id)
        /\ wins' = wins /\ incarnation' = incarnation
        /\ references'[id].version = references[id].version + 1
        /\ \A i \in Intents \ {id} : references'[i] = references[i]
    BY <1>2 DEF handleRotateOVN, TypeOK, Reference
  <2>2. ASSUME NEW w \in wins
        PROVE  /\ w.id \in Intents /\ w.current[2] \in Nat
               /\ w.current[1] <= incarnation[w.id]
               /\ w.current[1] = incarnation[w.id] /\ Exists(w.id) =>
                    w.current[2] < references[w.id].version
    BY DEF TypeOK, Win, SerialInv, WinsAreBehind
  <2>3. WinsAreBehind'
    BY <2>1, <2>2 DEF WinsAreBehind, Exists
  <2> QED BY <2>1, <2>3 DEF SerialInv, HeldWasCurrent, OneWinPerStamp
<1>3. CASE handleReset
  <2>1. /\ wins' = wins /\ incarnation' = incarnation
        /\ \A i \in Intents : references'[i].version = 0
    BY <1>3 DEF handleReset, world, Absent
  <2>2. WinsAreBehind'
    BY <2>1 DEF SerialInv, WinsAreBehind, Exists, TypeOK, Win
  <2> QED BY <2>1, <2>2 DEF SerialInv, HeldWasCurrent, OneWinPerStamp
<1>4. CASE \/ \E op \in ClientOps, times \in 1 .. MaxTimes,
                fault \in FaultKinds : handleFault(op, times, fault)
           \/ handleClearFaults \/ ResetSequence \/ UNCHANGED vars
  BY <1>4, QuietSerial
     DEF handleFault, handleClearFaults, ResetSequence, vars, world
<1> QED BY <1>1, <1>2, <1>3, <1>4 DEF Next, Control

(* Of the updates and deletes that named the same OVN, at most one commits  *)
(* during the life of one reference, for any number of writers, intents,    *)
(* rotations and resets: the OVN a commit named is the one it found, and    *)
(* the version it found is left behind for good.                            *)
THEOREM OVNsSerialise == Spec => []OneWinnerPerOVN
<1>1. Init => SerialInv /\ OVNsFit
  BY OVNsFitInit
     DEF Init, SerialInv, WinsAreBehind, HeldWasCurrent, OneWinPerStamp
<1>2. TypeOK /\ OVNsFit /\ [Next]_vars => OVNsFit'
  BY OVNsFitStep
<1>3. TypeOK /\ OVNsFit /\ SerialInv /\ [Next]_vars => SerialInv'
  BY SerialStep
<1>4. ASSUME TypeOK, SerialInv PROVE OneWinnerPerOVN
  <2> SUFFICES ASSUME NEW v \in wins, NEW w \in wins, v.id = w.id,
                      v.held[2] = w.held[2], v.current[1] = w.current[1]
               PROVE  v.by = w.by
    BY DEF OneWinnerPerOVN
  <2>1. v.current \in Nat \X Nat /\ w.current \in Nat \X Nat
    BY <1>4 DEF TypeOK, Win
  <2>2. v.current[2] = w.current[2]
    BY <1>4 DEF SerialInv, HeldWasCurrent
  <2>3. /\ v.current = <<v.current[1], v.current[2]>>
        /\ w.current = <<w.current[1], w.current[2]>>
    BY <2>1
  <2>4. v.current = w.current
    BY <2>2, <2>3
  <2> QED BY <1>4, <2>4 DEF SerialInv, OneWinPerStamp
<1> QED BY <1>1, <1>2, <1>3, <1>4, TypeCorrect, PTL DEF Spec

-----------------------------------------------------------------------------
(* The journal tells what was committed *)

Unanswered == {"new", "delayed", "serving"}
Journalled == {"replying", "done"}

(* What a request's progress says about its commit: nothing is committed    *)
(* before the answer is chosen, a request that gets to its own work has no  *)
(* injected status, and the chosen status of a mutation gives it away.      *)
StatusTells(r) ==
  /\ req[r].pc \in Unanswered => ~trace[r].committed
  /\ req[r].pc = "serving" => call[r].fault.status = 0
  /\ req[r].pc \notin Unanswered /\ call[r].op \in Mutations =>
       (trace[r].committed <=>
          call[r].fault.status = 0 /\ req[r].status \in {0, 200, 201})

(* An event is a faithful copy, made after the answer was chosen.           *)
EventCopies(i) ==
  LET e == events[i]
  IN /\ req[e.by].pc \in Journalled
     /\ e.op = call[e.by].op /\ e.fault = call[e.by].fault
     /\ e.status = req[e.by].status

JournalInv ==
  /\ \A r \in Requests : StatusTells(r)
  /\ \A i \in DOMAIN events : EventCopies(i)

(* A step of one request that leaves the journal alone.                     *)
LEMMA LocalJournal ==
  ASSUME TypeOK, JournalInv, NEW r \in Requests,
         \A q \in Requests \ {r} :
           /\ req'[q] = req[q] /\ call'[q] = call[q] /\ trace'[q] = trace[q],
         events' = events,
         req[r].pc \notin Journalled, StatusTells(r)'
  PROVE  JournalInv'
<1>1. \A q \in Requests : StatusTells(q)'
  BY DEF JournalInv, StatusTells
<1>2. ASSUME NEW i \in DOMAIN events PROVE EventCopies(i)'
  <2>1. events[i].by \in Requests /\ EventCopies(i)
    <3>1. events[i] \in Event
      BY DEF TypeOK
    <3> QED BY <3>1 DEF Event, JournalInv
  <2>2. events[i].by # r
    BY <2>1 DEF EventCopies
  <2> QED BY <2>1, <2>2 DEF EventCopies
<1> QED BY <1>1, <1>2 DEF JournalInv

LEMMA QuietJournal ==
  JournalInv /\ UNCHANGED <<req, call, trace, events>> => JournalInv'
  BY DEF JournalInv, StatusTells, EventCopies

(* The status a handler answers with, as far as the journal is concerned.   *)
LEMMA RespondFields ==
  ASSUME NEW fault, NEW status
  PROVE  /\ respond(fault, status).pc = "recording"
         /\ respond(fault, status).status = status
         /\ respondAfterCommit(fault, status).pc = "recording"
         /\ respondAfterCommit(fault, status).status \in {0, status}
         /\ preCommitFault(fault).pc \in {"recording", "serving"}
         /\ fault.status = 0 => preCommitFault(fault).pc = "serving"
         /\ fault.status # 0 =>
              /\ preCommitFault(fault).pc = "recording"
              /\ preCommitFault(fault).status = fault.status
  BY DEF respond, respondAfterCommit, preCommitFault, At

LEMMA BeginJournal ==
  ASSUME TypeOK, JournalInv, NEW r \in Requests, Begin(r)
  PROVE  JournalInv'
<1>1. PICK op \in ClientOps, id \in Intents :
        \E held \in HeldStamps(op, id),
           decodes \in (IF op \in Puts THEN BOOLEAN ELSE {TRUE}) :
          Arrive(r, op, id, held, decodes)
  BY DEF Begin
<1>2. PICK held \in HeldStamps(op, id),
           decodes \in (IF op \in Puts THEN BOOLEAN ELSE {TRUE}) :
        Arrive(r, op, id, held, decodes)
  BY <1>1
<1> DEFINE fault == faults[op].fault
<1>3. /\ call'[r].fault = fault /\ ~trace'[r].committed
      /\ req'[r] = IF fault.delayed THEN At("delayed")
                   ELSE preCommitFault(fault)
  BY <1>2 DEF Arrive, TypeOK
<1>4. \/ req'[r].pc = "delayed"
      \/ req'[r].pc = "serving" /\ fault.status = 0
      \/ req'[r].pc = "recording" /\ fault.status # 0
  <2>1. At("delayed").pc = "delayed"
    BY DEF At
  <2> HIDE DEF fault
  <2>2. \/ preCommitFault(fault).pc = "serving" /\ fault.status = 0
        \/ preCommitFault(fault).pc = "recording" /\ fault.status # 0
    BY RespondFields
  <2>3. req'[r] = At("delayed") \/ req'[r] = preCommitFault(fault)
    BY <1>3, Zenon
  <2> QED BY <2>1, <2>2, <2>3
<1>5. StatusTells(r)'
  BY <1>3, <1>4 DEF StatusTells, Unanswered
<1>6. /\ events' = events
      /\ \A q \in Requests \ {r} :
           req'[q] = req[q] /\ call'[q] = call[q] /\ trace'[q] = trace[q]
  BY <1>2 DEF Arrive, TypeOK
<1>7. req[r].pc \notin Journalled
  BY DEF Begin, Journalled
<1> QED BY <1>5, <1>6, <1>7, LocalJournal

(* A step that chooses the answer without a commit.                         *)
LEMMA SettleJournal ==
  ASSUME TypeOK, JournalInv, NEW r \in Requests,
         req[r].pc \in {"delayed", "serving"},
         \A q \in Requests \ {r} : req'[q] = req[q],
         events' = events, trace' = trace, call' = call,
         \/ req'[r].pc = "serving" /\ call[r].fault.status = 0
         \/ /\ req'[r].pc = "recording"
            /\ \/ call[r].fault.status # 0 \/ call[r].op \notin Mutations
               \/ req'[r].status \notin {0, 200, 201}
  PROVE  JournalInv'
<1>1. ~trace[r].committed
  BY DEF JournalInv, StatusTells, Unanswered
<1>2. StatusTells(r)'
  BY <1>1 DEF StatusTells, Unanswered
<1>3. req[r].pc \notin Journalled
  BY DEF Journalled
<1> QED BY <1>2, <1>3, LocalJournal

LEMMA CommitJournal ==
  ASSUME TypeOK, JournalInv, NEW r \in Requests, req[r].pc = "serving",
         NEW status \in {200, 201},
         req' = [req EXCEPT ![r] = respondAfterCommit(call[r].fault, status)],
         trace' = [trace EXCEPT ![r].committed = TRUE],
         call' = call, events' = events
  PROVE  JournalInv'
<1>1. call[r].fault.status = 0
  BY DEF JournalInv, StatusTells
<1>2. /\ req'[r].pc = "recording" /\ req'[r].status \in {0, 200, 201}
      /\ \A q \in Requests \ {r} : req'[q] = req[q] /\ trace'[q] = trace[q]
  BY RespondFields DEF TypeOK
<1>3. trace'[r].committed
  BY DEF TypeOK, Trace
<1>4. StatusTells(r)'
  BY <1>1, <1>2, <1>3 DEF StatusTells, Unanswered
<1>5. req[r].pc \notin Journalled
  BY DEF Journalled
<1> QED BY <1>2, <1>4, <1>5, LocalJournal

LEMMA RecordJournal ==
  ASSUME TypeOK, JournalInv, NEW r \in Requests,
         RecordSequence(r) \/ RecordEvent(r) \/ Reply(r)
  PROVE  JournalInv'
<1>1. req[r] \in Progress /\ req[r].pc \notin Unanswered
  BY DEF TypeOK, RecordSequence, RecordEvent, Reply, Unanswered
<1>2. /\ req'[r].pc \notin Unanswered /\ req'[r].status = req[r].status
      /\ \A q \in Requests \ {r} : req'[q] = req[q]
      /\ call' = call /\ trace' = trace
  <2>1. CASE RecordSequence(r)
    BY <1>1, <2>1 DEF RecordSequence, TypeOK, Progress, Unanswered
  <2>2. CASE RecordEvent(r)
    BY <1>1, <2>2 DEF RecordEvent, TypeOK, Progress, Unanswered
  <2>3. CASE Reply(r)
    BY <1>1, <2>3 DEF Reply, TypeOK, Progress, Unanswered
  <2> QED BY <2>1, <2>2, <2>3
<1>3. \A q \in Requests : StatusTells(q)'
  <2>1. StatusTells(r)'
    <3>1. StatusTells(r) /\ req'[r].pc # "serving"
      BY <1>2 DEF JournalInv, Unanswered
    <3> QED BY <1>1, <1>2, <3>1 DEF StatusTells
  <2>2. ASSUME NEW q \in Requests \ {r} PROVE StatusTells(q)'
    BY <1>2 DEF JournalInv, StatusTells
  <2> QED BY <2>1, <2>2
<1>4. ASSUME NEW i \in DOMAIN events'
      PROVE  EventCopies(i)'
  <2>1. CASE RecordSequence(r)
    <3>1. /\ events' = events /\ EventCopies(i)
          /\ events[i].by \in Requests
      <4>1. events' = events
        BY <2>1 DEF RecordSequence
      <4>2. events[i] \in Event
        BY <4>1 DEF TypeOK
      <4> QED BY <4>1, <4>2 DEF JournalInv, Event
    <3>2. events[i].by # r
      BY <2>1, <3>1 DEF EventCopies, RecordSequence, Journalled
    <3> QED BY <1>2, <3>1, <3>2 DEF EventCopies
  <2>2. CASE RecordEvent(r)
    <3> DEFINE e == [sequence |-> req[r].seq, by |-> r, op |-> call[r].op,
                     status |-> req[r].status, fault |-> call[r].fault]
    <3>1. /\ events \in Seq(Event) /\ events' = Append(events, e)
          /\ req'[r].pc = "replying"
      BY <1>1, <2>2 DEF RecordEvent, TypeOK, Progress
    <3>2. CASE i = Len(events) + 1
      <4>1. events'[i] = e
        BY <3>1, <3>2
      <4> QED BY <1>2, <3>1, <4>1 DEF EventCopies, Journalled
    <3>3. CASE i # Len(events) + 1
      <4>1. i \in DOMAIN events /\ events'[i] = events[i]
        BY <3>1, <3>3
      <4>2. events[i] \in Event /\ EventCopies(i)
        BY <3>1, <4>1 DEF JournalInv
      <4>3. events[i].by \in Requests /\ events[i].by # r
        BY <2>2, <4>2 DEF EventCopies, RecordEvent, Journalled, Event
      <4> QED BY <1>2, <4>1, <4>2, <4>3 DEF EventCopies
    <3> QED BY <3>2, <3>3
  <2>3. CASE Reply(r)
    <3>1. /\ events' = events /\ EventCopies(i)
          /\ events[i].by \in Requests
      <4>1. events' = events
        BY <2>3 DEF Reply, store
      <4>2. events[i] \in Event
        BY <4>1 DEF TypeOK
      <4> QED BY <4>1, <4>2 DEF JournalInv, Event
    <3>2. req'[r].pc \in Journalled
      BY <1>1, <2>3 DEF Reply, TypeOK, Progress, Journalled
    <3> QED BY <1>2, <3>1, <3>2 DEF EventCopies
  <2> QED BY <2>1, <2>2, <2>3
<1> QED BY <1>3, <1>4 DEF JournalInv

LEMMA JournalStep ==
  ASSUME TypeOK, JournalInv, [Next]_vars
  PROVE  JournalInv'
<1>1. ASSUME NEW r \in Requests, Handle(r)
      PROVE  JournalInv'
  <2> DEFINE fault == call[r].fault
  <2>1. CASE Begin(r)
    BY <2>1, BeginJournal
  <2>2. CASE DelayElapsed(r)
    <3>1. \/ preCommitFault(fault).pc = "serving" /\ fault.status = 0
          \/ preCommitFault(fault).pc = "recording" /\ fault.status # 0
      BY RespondFields
    <3>2. /\ req[r].pc \in {"delayed", "serving"}
          /\ req'[r] = preCommitFault(fault)
          /\ \A q \in Requests \ {r} : req'[q] = req[q]
          /\ events' = events /\ trace' = trace /\ call' = call
      BY <2>2 DEF DelayElapsed, store, TypeOK
    <3> QED BY <3>1, <3>2, SettleJournal
  <2>3. CASE ClientGone(r)
    <3> DEFINE p == [pc |-> "recording", status |-> 499, seq |-> 0,
                     reply |-> "abandoned"]
    <3>1. p.pc = "recording" /\ p.status \notin {0, 200, 201}
      OBVIOUS
    <3>2. /\ req[r].pc \in {"delayed", "serving"}
          /\ req'[r] = p
          /\ \A q \in Requests \ {r} : req'[q] = req[q]
          /\ events' = events /\ trace' = trace /\ call' = call
      BY <2>3 DEF ClientGone, store, TypeOK
    <3> HIDE DEF p
    <3> QED BY <3>1, <3>2, SettleJournal
  <2>4. ASSUME NEW status, Answer(r, status), req[r].pc = "serving",
               call[r].op \in Mutations => status \notin {0, 200, 201}
        PROVE  JournalInv'
    <3>1. /\ respond(fault, status).pc = "recording"
          /\ respond(fault, status).status = status
      BY RespondFields
    <3>2. /\ req[r].pc \in {"delayed", "serving"}
          /\ req'[r] = respond(fault, status)
          /\ \A q \in Requests \ {r} : req'[q] = req[q]
          /\ events' = events /\ trace' = trace /\ call' = call
      BY <2>4 DEF Answer, store, TypeOK
    <3> QED BY <2>4, <3>1, <3>2, SettleJournal
  <2>5. CASE handlePutReference(r)
    <3>1. CASE PutRefusal(call[r]) # 0
      <4>1. PutRefusal(call[r]) \notin {0, 200, 201}
        BY <3>1 DEF PutRefusal, OVNRefusal
      <4> QED BY <2>4, <2>5, <3>1, <4>1 DEF handlePutReference
    <3>2. CASE PutRefusal(call[r]) = 0
      BY <2>5, <3>2, CommitJournal
         DEF handlePutReference, CommitPut, NoteCommit
    <3> QED BY <3>1, <3>2
  <2>6. CASE handleDeleteReference(r)
    <3>1. CASE OVNRefusal(call[r]) # 0
      <4>1. OVNRefusal(call[r]) \notin {0, 200, 201}
        BY <3>1 DEF OVNRefusal
      <4> QED BY <2>4, <2>6, <3>1, <4>1 DEF handleDeleteReference
    <3>2. CASE OVNRefusal(call[r]) = 0
      BY <2>6, <3>2, CommitJournal
         DEF handleDeleteReference, CommitDelete, NoteCommit
    <3> QED BY <3>1, <3>2
  <2>7. CASE \/ handleGetReference(r) \/ handlePeerDetails(r)
             \/ handleQueryReferences(r)
    <3>1. call[r].op \notin Mutations
      BY <2>7 DEF handleGetReference, handlePeerDetails,
                  handleQueryReferences, Mutations, Puts
    <3> QED BY <2>4, <2>7, <3>1
            DEF handleGetReference, handlePeerDetails, handleQueryReferences
  <2>8. CASE handlePeerNotification(r)
    <3> DEFINE p == [pc |-> "recording", status |-> 204, seq |-> 0,
                     reply |-> "answer"]
    <3>1. p.pc = "recording" /\ p.status \notin {0, 200, 201}
      OBVIOUS
    <3>2. /\ req[r].pc \in {"delayed", "serving"}
          /\ req'[r] = p
          /\ \A q \in Requests \ {r} : req'[q] = req[q]
          /\ events' = events /\ trace' = trace /\ call' = call
      BY <2>8 DEF handlePeerNotification, store, TypeOK
    <3> HIDE DEF p
    <3> QED BY <3>1, <3>2, SettleJournal
  <2>9. CASE RecordSequence(r) \/ RecordEvent(r) \/ Reply(r)
    BY <2>9, RecordJournal
  <2> QED BY <1>1, <2>1, <2>2, <2>3, <2>5, <2>6, <2>7, <2>8, <2>9
          DEF Handle, Serve
<1>2. CASE handleReset
  BY <1>2 DEF handleReset, JournalInv, StatusTells
<1>3. CASE \/ \E op \in ClientOps, times \in 1 .. MaxTimes,
                fault \in FaultKinds : handleFault(op, times, fault)
           \/ \E id \in Intents : handleRotateOVN(id)
           \/ handleClearFaults \/ ResetSequence \/ UNCHANGED vars
  BY <1>3, QuietJournal
     DEF handleFault, handleRotateOVN, handleClearFaults, ResetSequence, vars
<1> QED BY <1>1, <1>2, <1>3 DEF Next, Control

(* The journal never misreports a mutation: for any number of requests and  *)
(* any faults, an event without an injected status says 0, 200 or 201 if    *)
(* and only if its request committed.                                       *)
THEOREM JournalIsTrue == Spec => []JournalMatchesCommit
<1>1. Init => JournalInv
  BY DEF Init, JournalInv, StatusTells, EventCopies, At, Unanswered
<1>2. TypeOK /\ JournalInv /\ [Next]_vars => JournalInv'
  BY JournalStep
<1>3. TypeOK /\ JournalInv => JournalMatchesCommit
  <2> SUFFICES ASSUME TypeOK, JournalInv, NEW i \in DOMAIN events,
                      events[i].op \in Mutations
               PROVE  trace[events[i].by].committed <=>
                        /\ events[i].fault.status = 0
                        /\ events[i].status \in {0, 200, 201}
    BY DEF JournalMatchesCommit
  <2>1. events[i] \in Event
    BY DEF TypeOK
  <2>2. events[i].by \in Requests /\ EventCopies(i)
    BY <2>1 DEF Event, JournalInv
  <2> QED BY <2>2 DEF JournalInv, StatusTells, EventCopies, Unanswered,
                      Journalled
<1> QED BY <1>1, <1>2, <1>3, TypeCorrect, PTL DEF Spec
=============================================================================
