------------------------- MODULE FixtureStoreProofs -------------------------
(***************************************************************************)
(* FixtureServer implements ReferenceStore: every step of the fixture is a *)
(* step of the atomic store, or one that the store does not see.           *)
(***************************************************************************)
EXTENDS FixtureServerProofs

-----------------------------------------------------------------------------
(* The steps, seen from the store *)

register == [id \in Intents |-> references[id].version]
calls == [r \in Requests |-> CallOf(r)]
outcomes == [r \in Requests |-> OutcomeOf(r)]

(* A step of one request is invisible in the calls and outcomes of others.  *)
LEMMA OthersUnseen ==
  ASSUME NEW r \in Requests,
         \A q \in Requests \ {r} :
           req'[q] = req[q] /\ call'[q] = call[q] /\ trace'[q] = trace[q]
  PROVE  \A q \in Requests \ {r} :
           CallOf(q)' = CallOf(q) /\ OutcomeOf(q)' = OutcomeOf(q)
  BY DEF CallOf, OutcomeOf

(* A settled step: the references stay, and a pending request either stays  *)
(* pending or is settled without effect.                                    *)
LEMMA SettleSeen ==
  ASSUME TypeOK, JournalInv, NEW r \in Requests,
         req[r].pc \in {"delayed", "serving"},
         \A q \in Requests \ {r} : req'[q] = req[q],
         references' = references, trace' = trace, call' = call,
         req'[r].pc \in {"serving", "recording"}
  PROVE  Store!Settle(r) \/ UNCHANGED <<register, calls, outcomes>>
<1>1. ~trace[r].committed
  BY DEF JournalInv, StatusTells, Unanswered
<1>2. \A q \in Requests \ {r} :
        CallOf(q)' = CallOf(q) /\ OutcomeOf(q)' = OutcomeOf(q)
  BY OthersUnseen
<1>3. CallOf(r)' = CallOf(r) /\ OutcomeOf(r) = "pending"
  BY <1>1 DEF CallOf, OutcomeOf
<1>4. calls' = calls /\ register' = register
  BY <1>2, <1>3 DEF calls, register
<1>5. CASE req'[r].pc = "serving"
  <2>1. OutcomeOf(r)' = "pending"
    BY <1>1, <1>5 DEF OutcomeOf
  <2>2. outcomes' = outcomes
    BY <1>2, <1>3, <2>1 DEF outcomes
  <2> QED BY <1>4, <2>2
<1>6. CASE req'[r].pc = "recording"
  <2>1. OutcomeOf(r)' = "unapplied"
    BY <1>1, <1>6 DEF OutcomeOf
  <2>2. outcomes' = [outcomes EXCEPT ![r] = "unapplied"]
    BY <1>2, <2>1 DEF outcomes
  <2>3. calls[r] # [kind |-> "none"]
    <3>1. CallOf(r).kind # "none"
      BY DEF CallOf, Mutations, Puts
    <3> QED BY <3>1 DEF calls
  <2>4. outcomes[r] = "pending"
    BY <1>3 DEF outcomes
  <2> QED BY <1>4, <2>2, <2>3, <2>4
          DEF Store!Settle, Store!NoCall, calls, register, outcomes
<1> QED BY <1>5, <1>6

(* A commit is the store's compare-and-swap.                                *)
LEMMA ApplySeen ==
  ASSUME TypeOK, JournalInv, OVNsFit, NEW r \in Requests,
         req[r].pc = "serving", call[r].op \in Mutations,
         IF call[r].op = "create" THEN ~Exists(call[r].id)
                                  ELSE OVNRefusal(call[r]) = 0,
         NEW next \in Reference,
         next.version = IF call[r].op = "delete" THEN 0
                        ELSE references[call[r].id].version + 1,
         references' = [references EXCEPT ![call[r].id] = next],
         req'[r].pc = "recording",
         \A q \in Requests \ {r} : req'[q] = req[q],
         trace' = [trace EXCEPT ![r].committed = TRUE], call' = call
  PROVE  Store!Apply(r)
<1> DEFINE id == call[r].id
<1>1. /\ id \in Intents /\ call[r].ovn \in Intents \X Nat
      /\ references[id].version \in Nat
  BY DEF TypeOK, Call, Reference
<1>2. /\ trace'[r].committed
      /\ \A q \in Requests \ {r} : trace'[q] = trace[q]
  BY DEF TypeOK, Trace
<1>3. ~trace[r].committed
  BY DEF JournalInv, StatusTells, Unanswered
<1>4. \A q \in Requests \ {r} :
        CallOf(q)' = CallOf(q) /\ OutcomeOf(q)' = OutcomeOf(q)
  BY <1>2, OthersUnseen
<1>5. CallOf(r)' = CallOf(r)
  BY DEF CallOf
<1>6. calls' = calls
  BY <1>4, <1>5 DEF calls
<1>7. OutcomeOf(r) = "pending" /\ OutcomeOf(r)' = "applied"
  BY <1>2, <1>3 DEF OutcomeOf
<1>8. /\ outcomes[r] = "pending"
      /\ outcomes' = [outcomes EXCEPT ![r] = "applied"]
  BY <1>4, <1>7 DEF outcomes
<1>9. /\ calls[r].kind = call[r].op /\ calls[r].id = id
      /\ calls[r].expected = call[r].ovn[2]
  BY DEF calls, CallOf
<1>10. calls[r] # [kind |-> "none"]
  <2>1. calls[r].kind # "none"
    BY <1>9 DEF Mutations, Puts
  <2> QED BY <2>1
<1>11. \/ calls[r].kind = "create" /\ register[id] = 0
       \/ /\ calls[r].kind \in {"update", "delete"}
          /\ register[id] > 0 /\ register[id] = calls[r].expected
  <2>1. CASE call[r].op = "create"
    BY <1>1, <1>9, <2>1 DEF register, Exists
  <2>2. CASE call[r].op # "create"
    <3>1. Exists(id) /\ call[r].ovn = references[id].ovn
      BY <2>2 DEF OVNRefusal
    <3>2. OVN(id, call[r].ovn[2]) = OVN(id, references[id].version)
      BY <1>1, <3>1 DEF OVNsFit
    <3>3. call[r].ovn[2] = references[id].version
      BY <3>2 DEF OVN
    <3>4. call[r].op \in {"update", "delete"}
      BY <2>2 DEF Mutations, Puts
    <3> QED BY <1>1, <1>9, <3>1, <3>3, <3>4 DEF register, Exists
  <2> QED BY <2>1, <2>2
<1>12. register' = [register EXCEPT ![id] =
                      IF calls[r].kind = "delete" THEN 0 ELSE @ + 1]
  <2>1. \A i \in Intents : references'[i] =
                            IF i = id THEN next ELSE references[i]
    BY <1>1 DEF TypeOK
  <2> QED BY <1>1, <1>9, <2>1 DEF register
<1> QED BY <1>6, <1>8, <1>9, <1>10, <1>11, <1>12
        DEF Store!Apply, Store!Matches, Store!NoCall, calls, register,
            outcomes

LEMMA SubmitSeen ==
  ASSUME TypeOK, JournalInv, NEW r \in Requests, Begin(r)
  PROVE  Store!Submit(r)
<1>1. PICK op \in ClientOps, id \in Intents :
        \E held \in HeldStamps(op, id),
           decodes \in (IF op \in Puts THEN BOOLEAN ELSE {TRUE}) :
          Arrive(r, op, id, held, decodes)
  BY DEF Begin
<1>2. PICK held \in HeldStamps(op, id),
           decodes \in (IF op \in Puts THEN BOOLEAN ELSE {TRUE}) :
        Arrive(r, op, id, held, decodes)
  BY <1>1
<1>3. /\ references' = references
      /\ \A q \in Requests \ {r} :
           req'[q] = req[q] /\ call'[q] = call[q] /\ trace'[q] = trace[q]
  BY <1>2 DEF Arrive, TypeOK
<1>4. \A q \in Requests \ {r} :
        CallOf(q)' = CallOf(q) /\ OutcomeOf(q)' = OutcomeOf(q)
  BY <1>3, OthersUnseen
<1>5. req'[r].pc \in {"delayed", "serving", "recording"}
  <2> DEFINE fault == faults[op].fault
  <2>1. req'[r] = At("delayed") \/ req'[r] = preCommitFault(fault)
    <3>1. req'[r] = IF fault.delayed THEN At("delayed")
                    ELSE preCommitFault(fault)
      BY <1>2 DEF Arrive, TypeOK
    <3> QED BY <3>1, Zenon
  <2>2. At("delayed").pc = "delayed"
    BY DEF At
  <2>3. preCommitFault(fault).pc \in {"recording", "serving"}
    BY RespondFields
  <2> QED BY <2>1, <2>2, <2>3
<1>6. /\ req[r].pc = "new" /\ ~trace[r].committed
      /\ ~trace'[r].committed
  <2>1. req[r].pc = "new"
    BY DEF Begin
  <2>2. trace'[r].committed = FALSE
    BY <1>2 DEF Arrive, TypeOK
  <2> QED BY <2>1, <2>2 DEF JournalInv, StatusTells, Unanswered
<1>7. calls[r] = [kind |-> "none"]
  BY <1>6 DEF calls, CallOf
<1>8. calls'[r] \in [kind : {"create", "update", "delete", "read"},
                     id : Intents, expected : Nat]
  <2>1. call'[r] \in Call
    BY BeginType DEF TypeOK
  <2>2. CallOf(r)' =
          [kind |-> IF call'[r].op \in Mutations THEN call'[r].op
                    ELSE "read",
           id |-> call'[r].id, expected |-> call'[r].ovn[2]]
    BY <1>5 DEF CallOf
  <2>3. (IF call'[r].op \in Mutations THEN call'[r].op ELSE "read")
          \in {"create", "update", "delete", "read"}
    BY DEF Mutations, Puts
  <2>4. call'[r].id \in Intents /\ call'[r].ovn[2] \in Nat
    BY <2>1 DEF Call
  <2> QED BY <2>2, <2>3, <2>4 DEF calls
<1>9. calls' = [calls EXCEPT ![r] = calls'[r]]
  BY <1>4 DEF calls
<1>10. OutcomeOf(r) = "pending" /\ OutcomeOf(r)' \in {"pending", "unapplied"}
  BY <1>6 DEF OutcomeOf
<1>11. outcomes' \in {outcomes, [outcomes EXCEPT ![r] = "unapplied"]}
  <2>1. CASE OutcomeOf(r)' = "pending"
    <3>1. outcomes' = outcomes
      BY <1>4, <1>10, <2>1 DEF outcomes
    <3> QED BY <3>1
  <2>2. CASE OutcomeOf(r)' = "unapplied"
    <3>1. outcomes' = [outcomes EXCEPT ![r] = "unapplied"]
      BY <1>4, <2>2 DEF outcomes
    <3> QED BY <3>1
  <2> QED BY <1>10, <2>1, <2>2
<1>12. register' = register
  BY <1>3 DEF register
<1> QED BY <1>7, <1>8, <1>9, <1>11, <1>12
        DEF Store!Submit, Store!NoCall, Store!Call, Store!Kinds, calls,
            register, outcomes

(* Journalling and answering are invisible.                                 *)
LEMMA RecordUnseen ==
  ASSUME TypeOK, NEW r \in Requests,
         RecordSequence(r) \/ RecordEvent(r) \/ Reply(r)
  PROVE  UNCHANGED <<register, calls, outcomes>>
<1>1. /\ references' = references /\ call' = call /\ trace' = trace
      /\ \A q \in Requests \ {r} : req'[q] = req[q]
  BY DEF RecordSequence, RecordEvent, Reply, store, TypeOK
<1>2. req[r].pc \notin Unanswered
  BY DEF RecordSequence, RecordEvent, Reply, Unanswered
<1>3. req'[r].pc \notin Unanswered
  <2>1. req[r] \in Progress
    BY DEF TypeOK
  <2>2. CASE RecordSequence(r)
    BY <2>1, <2>2 DEF RecordSequence, TypeOK, Progress, Unanswered
  <2>3. CASE RecordEvent(r)
    BY <2>1, <2>3 DEF RecordEvent, TypeOK, Progress, Unanswered
  <2>4. CASE Reply(r)
    BY <2>1, <2>4 DEF Reply, TypeOK, Progress, Unanswered
  <2> QED BY <2>2, <2>3, <2>4
<1>4. CallOf(r)' = CallOf(r) /\ OutcomeOf(r)' = OutcomeOf(r)
  BY <1>1, <1>2, <1>3 DEF CallOf, OutcomeOf, Unanswered
<1>5. \A q \in Requests \ {r} :
        CallOf(q)' = CallOf(q) /\ OutcomeOf(q)' = OutcomeOf(q)
  BY <1>1, OthersUnseen
<1>6. register' = register
  BY <1>1 DEF register
<1>7. calls' = calls
  BY <1>4, <1>5 DEF calls
<1>8. outcomes' = outcomes
  BY <1>4, <1>5 DEF outcomes
<1> QED BY <1>6, <1>7, <1>8

LEMMA HandleSeen ==
  ASSUME TypeOK, JournalInv, OVNsFit, NEW r \in Requests, Handle(r)
  PROVE  \/ Store!Submit(r) \/ Store!Apply(r) \/ Store!Settle(r)
         \/ UNCHANGED <<register, calls, outcomes>>
<1>1. CASE Begin(r)
  BY <1>1, SubmitSeen
<1>2. CASE DelayElapsed(r) \/ ClientGone(r) \/ handlePeerNotification(r)
  <2>1. /\ req[r].pc \in {"delayed", "serving"}
        /\ references' = references /\ trace' = trace /\ call' = call
        /\ \A q \in Requests \ {r} : req'[q] = req[q]
    BY <1>2 DEF DelayElapsed, ClientGone, handlePeerNotification, store,
                TypeOK
  <2>2. req'[r].pc \in {"serving", "recording"}
    <3>1. preCommitFault(call[r].fault).pc \in {"recording", "serving"}
      BY RespondFields
    <3>2. CASE DelayElapsed(r)
      BY <3>1, <3>2 DEF DelayElapsed, TypeOK
    <3>3. CASE ClientGone(r)
      BY <3>3 DEF ClientGone, TypeOK
    <3>4. CASE handlePeerNotification(r)
      BY <3>4 DEF handlePeerNotification, TypeOK
    <3> QED BY <1>2, <3>2, <3>3, <3>4
  <2> QED BY <2>1, <2>2, SettleSeen
<1>3. ASSUME NEW status, Answer(r, status), req[r].pc = "serving"
      PROVE  Store!Settle(r) \/ UNCHANGED <<register, calls, outcomes>>
  <2>1. /\ req'[r] = respond(call[r].fault, status)
        /\ references' = references /\ trace' = trace /\ call' = call
        /\ \A q \in Requests \ {r} : req'[q] = req[q]
    BY <1>3 DEF Answer, store, TypeOK
  <2>2. req'[r].pc = "recording"
    BY <2>1, RespondFields
  <2> QED BY <1>3, <2>1, <2>2, SettleSeen
<1>4. CASE handlePutReference(r)
  <2>1. CASE PutRefusal(call[r]) # 0
    BY <1>3, <1>4, <2>1 DEF handlePutReference
  <2>2. CASE PutRefusal(call[r]) = 0
    <3>1. CommitPut(r) /\ req[r].pc = "serving" /\ call[r].op \in Puts
      BY <1>4, <2>2 DEF handlePutReference
    <3>2. /\ call[r].op \in Mutations
          /\ IF call[r].op = "create" THEN ~Exists(call[r].id)
                                      ELSE OVNRefusal(call[r]) = 0
      BY <2>2, <3>1 DEF PutRefusal, Mutations, Puts
    <3>3. /\ NextReference(r) \in Reference
          /\ NextReference(r).version = references[call[r].id].version + 1
      <4>1. /\ call[r].id \in Intents
            /\ references[call[r].id].version \in Nat
        BY DEF TypeOK, Call, Reference
      <4> QED BY <4>1 DEF NextReference, Reference, OVN
    <3>4. call[r].op # "delete"
      BY <3>1 DEF Puts
    <3>5. /\ references' =
               [references EXCEPT ![call[r].id] = NextReference(r)]
          /\ trace' = [trace EXCEPT ![r].committed = TRUE] /\ call' = call
          /\ \A q \in Requests \ {r} : req'[q] = req[q]
      BY <3>1 DEF CommitPut, NoteCommit, TypeOK
    <3>6. req'[r].pc = "recording"
      BY <3>1, RespondFields DEF CommitPut, TypeOK
    <3> QED BY <3>1, <3>2, <3>3, <3>4, <3>5, <3>6, ApplySeen
  <2> QED BY <2>1, <2>2
<1>5. CASE handleDeleteReference(r)
  <2>1. CASE OVNRefusal(call[r]) # 0
    BY <1>3, <1>5, <2>1 DEF handleDeleteReference
  <2>2. CASE OVNRefusal(call[r]) = 0
    <3>1. CommitDelete(r) /\ req[r].pc = "serving" /\ call[r].op = "delete"
      BY <1>5, <2>2 DEF handleDeleteReference
    <3>2. call[r].op \in Mutations
      BY <3>1 DEF Mutations
    <3>3. Absent \in Reference /\ Absent.version = 0
      BY NoPlanType DEF Absent
    <3>4. /\ references' = [references EXCEPT ![call[r].id] = Absent]
          /\ trace' = [trace EXCEPT ![r].committed = TRUE] /\ call' = call
          /\ \A q \in Requests \ {r} : req'[q] = req[q]
      BY <3>1 DEF CommitDelete, NoteCommit, TypeOK
    <3>5. req'[r].pc = "recording"
      BY <3>1, RespondFields DEF CommitDelete, TypeOK
    <3> QED BY <2>2, <3>1, <3>2, <3>3, <3>4, <3>5, ApplySeen
  <2> QED BY <2>1, <2>2
<1>6. CASE \/ handleGetReference(r) \/ handlePeerDetails(r)
           \/ handleQueryReferences(r)
  BY <1>3, <1>6
     DEF handleGetReference, handlePeerDetails, handleQueryReferences
<1>7. CASE RecordSequence(r) \/ RecordEvent(r) \/ Reply(r)
  BY <1>7, RecordUnseen
<1> QED BY <1>1, <1>2, <1>4, <1>5, <1>6, <1>7 DEF Handle, Serve

LEMMA StepSeen ==
  ASSUME TypeOK, JournalInv, OVNsFit, [Next]_vars
  PROVE  [Store!StoreNext]_(Store!storeVars)
<1>1. ASSUME UNCHANGED <<register, calls, outcomes>>
      PROVE  UNCHANGED Store!storeVars
  BY <1>1 DEF Store!storeVars, register, calls, outcomes
<1>2. ASSUME NEW r \in Requests, Handle(r)
      PROVE  [Store!StoreNext]_(Store!storeVars)
  BY <1>1, <1>2, HandleSeen DEF Store!StoreNext
<1>3. ASSUME UNCHANGED <<req, call, trace>>
      PROVE  calls' = calls /\ outcomes' = outcomes
  BY <1>3 DEF calls, outcomes, CallOf, OutcomeOf
<1>4. ASSUME NEW id \in Intents, handleRotateOVN(id)
      PROVE  Store!Advance(id)
  <2>1. /\ UNCHANGED <<req, call, trace>> /\ references[id].version > 0
        /\ references'[id].version = references[id].version + 1
        /\ \A i \in Intents \ {id} : references'[i] = references[i]
    BY <1>4 DEF handleRotateOVN, TypeOK, Reference, Exists
  <2>2. register' = [register EXCEPT ![id] = @ + 1] /\ register[id] > 0
    BY <2>1 DEF register
  <2>3. calls' = calls /\ outcomes' = outcomes
    BY <1>3, <2>1
  <2> QED BY <2>2, <2>3 DEF Store!Advance, register, calls, outcomes
<1>5. CASE handleReset
  <2>1. UNCHANGED <<req, call, trace>>
    BY <1>5 DEF handleReset
  <2>2. register' = [id \in Intents |-> 0]
    BY <1>5 DEF handleReset, register, Absent
  <2>3. calls' = calls /\ outcomes' = outcomes
    BY <1>3, <2>1
  <2>4. Store!Empty
    BY <2>2, <2>3 DEF Store!Empty, register, calls, outcomes
  <2> QED BY <2>4 DEF Store!StoreNext
<1>6. CASE \/ \E op \in ClientOps, times \in 1 .. MaxTimes,
                fault \in FaultKinds : handleFault(op, times, fault)
           \/ handleClearFaults \/ ResetSequence \/ UNCHANGED vars
  <2>1. UNCHANGED <<req, call, trace>> /\ references' = references
    BY <1>6 DEF handleFault, handleClearFaults, ResetSequence, vars
  <2>2. register' = register
    BY <2>1 DEF register
  <2> QED BY <1>1, <1>3, <2>1, <2>2
<1> QED BY <1>2, <1>4, <1>5, <1>6 DEF Next, Control, Store!StoreNext

(* The fixture implements the atomic store of ReferenceStore for any number *)
(* of requests and intents and any faults: each mutation takes effect at    *)
(* most once, on the version it named, and never after it was given up.     *)
THEOREM FixtureIsAtomicStore == Spec => ImplementsReferenceStore
<1>1. Init => Store!StoreInit
  <2> SUFFICES ASSUME Init PROVE Store!StoreInit
    OBVIOUS
  <2>1. register = [id \in Intents |-> 0]
    BY DEF Init, register, Absent
  <2>2. calls = [r \in Requests |-> [kind |-> "none"]]
    BY DEF Init, calls, CallOf, At
  <2>3. outcomes = [r \in Requests |-> "pending"]
    BY DEF Init, outcomes, OutcomeOf, At
  <2> QED BY <2>1, <2>2, <2>3
          DEF Store!StoreInit, Store!NoCall, register, calls, outcomes
<1>2. Init => JournalInv /\ OVNsFit
  <2>1. Init => JournalInv
    BY DEF Init, JournalInv, StatusTells, EventCopies, At, Unanswered
  <2> QED BY <2>1, OVNsFitInit
<1>3. TypeOK /\ JournalInv /\ [Next]_vars => JournalInv'
  BY JournalStep
<1>4. TypeOK /\ OVNsFit /\ [Next]_vars => OVNsFit'
  BY OVNsFitStep
<1>5. TypeOK /\ JournalInv /\ OVNsFit /\ [Next]_vars
        => [Store!StoreNext]_(Store!storeVars)
  BY StepSeen
<1> QED BY <1>1, <1>2, <1>3, <1>4, <1>5, TypeCorrect, PTL
        DEF Spec, ImplementsReferenceStore, Store!StoreSpec
=============================================================================
