------------------------ MODULE FixtureJournalProofs ------------------------
(***************************************************************************)
(* The journal, the reset boundary and the fault budgets of FixtureServer, *)
(* for any number of requests, intents, plans and resets.                  *)
(*                                                                         *)
(* None of these facts depends on what a handler does to the references,   *)
(* so the handlers are first reduced to the five things a request can do   *)
(* to the journal: arrive, work, draw a number, append its event, reply.   *)
(***************************************************************************)
EXTENDS FixtureServerProofs, FiniteSetTheorems

Begun(r) == req[r].pc # "new"
Drawn(r) == req[r].pc \in {"appending", "replying", "done"}

(* Nothing of another request, no plan and no epoch is touched.             *)
Alone(r) ==
  /\ \A q \in Requests \ {r} :
       req'[q] = req[q] /\ call'[q] = call[q] /\ trace'[q] = trace[q]
  /\ UNCHANGED <<generation, resetting, armed>>

Arrives(r, op) ==
  /\ Alone(r)
  /\ req[r].pc = "new" /\ req'[r].pc \in {"delayed", "serving", "recording"}
  /\ call'[r].op = op /\ faults' = takeFault(op)
  /\ trace'[r].generation = generation /\ trace'[r].after = Done
  /\ trace'[r].plan = faults[op].plan
  /\ straddlers' = IF resetting > 0 THEN straddlers \cup {r} ELSE straddlers
  /\ UNCHANGED <<references, events, sequence>>

(* The request's own epoch, plan and predecessors stay what they were.      *)
Keeps(r) ==
  /\ Alone(r)
  /\ trace'[r].generation = trace[r].generation
  /\ trace'[r].after = trace[r].after /\ trace'[r].plan = trace[r].plan
  /\ UNCHANGED <<faults, straddlers, call>>

Works(r) ==
  /\ Keeps(r)
  /\ req[r].pc \in {"delayed", "serving"}
  /\ req'[r].pc \in {"serving", "recording"}
  /\ \A id \in Intents :
       references'[id].body \subseteq references[id].body \cup {r}
  /\ UNCHANGED <<events, sequence>>

Draws(r) ==
  /\ Keeps(r)
  /\ req[r].pc = "recording" /\ req'[r].pc = "appending"
  /\ req'[r].seq = sequence + 1 /\ sequence' = sequence + 1
  /\ UNCHANGED <<references, events>>

Appends(r) ==
  /\ Keeps(r)
  /\ req[r].pc = "appending" /\ req'[r].pc = "replying"
  /\ req'[r].seq = req[r].seq
  /\ \E e \in Event : /\ e.by = r /\ e.sequence = req[r].seq
                      /\ events' = Append(events, e)
  /\ UNCHANGED <<references, sequence>>

Returns(r) ==
  /\ Keeps(r)
  /\ req[r].pc = "replying" /\ req'[r].pc = "done"
  /\ req'[r].seq = req[r].seq
  /\ UNCHANGED <<references, events, sequence>>

LEMMA ArriveView ==
  ASSUME TypeOK, NEW r \in Requests, Begin(r)
  PROVE  \E op \in Operations : Arrives(r, op)
<1>1. PICK op \in ClientOps, id \in Intents :
        \E held \in HeldStamps(op, id),
           decodes \in (IF op \in Puts THEN BOOLEAN ELSE {TRUE}) :
          Arrive(r, op, id, held, decodes)
  BY DEF Begin
<1>2. PICK held \in HeldStamps(op, id),
           decodes \in (IF op \in Puts THEN BOOLEAN ELSE {TRUE}) :
        Arrive(r, op, id, held, decodes)
  BY <1>1
<1>3. op \in Operations
  BY FixtureAssumption
<1> DEFINE fault == faults[op].fault
<1>4. req'[r].pc \in {"delayed", "serving", "recording"}
  <2>1. At("delayed").pc = "delayed"
    BY DEF At
  <2>2. preCommitFault(fault).pc \in {"serving", "recording"}
    BY DEF preCommitFault, respond, At
  <2>3. req'[r] = At("delayed") \/ req'[r] = preCommitFault(fault)
    BY <1>2 DEF Arrive, TypeOK
  <2> QED BY <2>1, <2>2, <2>3
<1>5. /\ call'[r].op = op
      /\ trace'[r].generation = generation /\ trace'[r].after = Done
      /\ trace'[r].plan = faults[op].plan
      /\ req[r].pc = "new"
  BY <1>2 DEF Arrive, TypeOK, Begin
<1>6. Alone(r)
  BY <1>2 DEF Arrive, TypeOK, Alone
<1>7. Arrives(r, op)
  BY <1>2, <1>4, <1>5, <1>6 DEF Arrives, Arrive
<1> QED BY <1>3, <1>7

LEMMA WorkView ==
  ASSUME TypeOK, NEW r \in Requests,
         DelayElapsed(r) \/ ClientGone(r) \/ Serve(r)
  PROVE  Works(r)
<1> DEFINE fault == call[r].fault
           Settles(p) ==
             /\ req' = [req EXCEPT ![r] = p]
             /\ p.pc \in {"serving", "recording"}
<1>1. req \in [Requests -> Progress] /\ trace \in [Requests -> Trace]
  BY DEF TypeOK
<1>2. req[r].pc \in {"delayed", "serving"}
  BY DEF DelayElapsed, ClientGone, Serve, handlePutReference,
         handleDeleteReference, handleGetReference, handlePeerDetails,
         handleQueryReferences, handlePeerNotification
<1>3. \A s : respond(fault, s).pc = "recording"
  BY DEF respond
<1>4. \A s : respondAfterCommit(fault, s).pc = "recording"
  BY <1>3 DEF respondAfterCommit
<1>5. preCommitFault(fault).pc \in {"serving", "recording"}
  BY DEF preCommitFault, respond, At
<1>6. ASSUME NEW p, Settles(p),
             UNCHANGED <<store, world, epoch, armed, trace, call>>
      PROVE  Works(r)
  <2>1. req'[r].pc \in {"serving", "recording"}
        /\ \A q \in Requests \ {r} : req'[q] = req[q]
    BY <1>1, <1>6
  <2> QED BY <1>2, <1>6, <2>1 DEF Works, Keeps, Alone, store, epoch
<1>7. ASSUME NEW s, Answer(r, s)
      PROVE  Works(r)
  BY <1>3, <1>6, <1>7 DEF Answer
<1>8. ASSUME NEW p, Settles(p), NEW id \in Intents, NEW c, NEW stamp,
             NoteCommit(r, id, c, stamp),
             NEW reference, reference.body \subseteq {r},
             references' = [references EXCEPT ![id] = reference],
             UNCHANGED <<faults, events, sequence, resetting, epoch, armed,
                         call>>
      PROVE  Works(r)
  <2>1. req'[r].pc \in {"serving", "recording"}
        /\ \A q \in Requests \ {r} : req'[q] = req[q]
    BY <1>1, <1>8
  <2>2. /\ \A q \in Requests \ {r} : trace'[q] = trace[q]
        /\ trace'[r] = [trace[r] EXCEPT !.committed = TRUE]
    BY <1>1, <1>8 DEF NoteCommit
  <2>3. /\ trace'[r].generation = trace[r].generation
        /\ trace'[r].after = trace[r].after /\ trace'[r].plan = trace[r].plan
    BY <1>1, <2>2 DEF Trace
  <2>4. \A i \in Intents :
          references'[i].body \subseteq references[i].body \cup {r}
    BY <1>8 DEF TypeOK
  <2> QED BY <1>2, <1>8, <2>1, <2>2, <2>3, <2>4 DEF Works, Keeps, Alone, epoch
<1>9. call[r].id \in Intents
  BY DEF TypeOK, Call
<1>10. CASE DelayElapsed(r)
  BY <1>5, <1>6, <1>10 DEF DelayElapsed
<1>11. CASE ClientGone(r)
  <2> DEFINE p == [pc |-> "recording", status |-> 499, seq |-> 0,
                   reply |-> "abandoned"]
  <2>1. p.pc = "recording"
    OBVIOUS
  <2>2. req' = [req EXCEPT ![r] = p]
        /\ UNCHANGED <<store, world, epoch, armed, trace, call>>
    BY <1>11 DEF ClientGone
  <2> HIDE DEF p
  <2> QED BY <1>6, <2>1, <2>2
<1>12. CASE handlePutReference(r)
  <2>1. CASE CommitPut(r)
    <3>1. NextReference(r).body \subseteq {r}
      BY DEF NextReference
    <3>2. PICK s : req' = [req EXCEPT ![r] = respondAfterCommit(fault, s)]
      BY <2>1 DEF CommitPut
    <3>3. Settles(respondAfterCommit(fault, s))
      BY <1>4, <3>2
    <3> QED BY <1>8, <1>9, <2>1, <3>1, <3>3 DEF CommitPut
  <2> QED BY <1>7, <1>12, <2>1 DEF handlePutReference
<1>13. CASE handleDeleteReference(r)
  <2>1. CASE CommitDelete(r)
    <3>1. Absent.body \subseteq {r}
      BY DEF Absent
    <3>2. Settles(respondAfterCommit(fault, 200))
      BY <1>4, <2>1 DEF CommitDelete
    <3> QED BY <1>8, <1>9, <2>1, <3>1, <3>2 DEF CommitDelete
  <2> QED BY <1>7, <1>13, <2>1 DEF handleDeleteReference
<1>14. CASE \/ handleGetReference(r) \/ handlePeerDetails(r)
            \/ handleQueryReferences(r)
  BY <1>7, <1>14
     DEF handleGetReference, handlePeerDetails, handleQueryReferences
<1>15. CASE handlePeerNotification(r)
  <2> DEFINE p == [pc |-> "recording", status |-> 204, seq |-> 0,
                   reply |-> "answer"]
  <2>1. p.pc = "recording"
    OBVIOUS
  <2>2. req' = [req EXCEPT ![r] = p]
        /\ UNCHANGED <<store, world, epoch, armed, trace, call>>
    BY <1>15 DEF handlePeerNotification
  <2> HIDE DEF p
  <2> QED BY <1>6, <2>1, <2>2
<1> QED BY <1>10, <1>11, <1>12, <1>13, <1>14, <1>15 DEF Serve

LEMMA RecordView ==
  ASSUME TypeOK, NEW r \in Requests
  PROVE  /\ RecordSequence(r) => Draws(r)
         /\ RecordEvent(r) => Appends(r)
         /\ Reply(r) => Returns(r)
<1>1. req[r] \in Progress /\ call[r] \in Call
  BY DEF TypeOK
<1>2. ASSUME RecordSequence(r) PROVE Draws(r)
  <2>1. req'[r] = [req[r] EXCEPT !.pc = "appending", !.seq = sequence + 1]
        /\ \A q \in Requests \ {r} : req'[q] = req[q]
    BY <1>2 DEF RecordSequence, TypeOK
  <2>2. req'[r].pc = "appending" /\ req'[r].seq = sequence + 1
    BY <1>1, <2>1 DEF Progress
  <2> QED BY <1>2, <2>1, <2>2
          DEF RecordSequence, Draws, Keeps, Alone, world, epoch
<1>3. ASSUME RecordEvent(r) PROVE Appends(r)
  <2>1. req'[r] = [req[r] EXCEPT !.pc = "replying"]
        /\ \A q \in Requests \ {r} : req'[q] = req[q]
    BY <1>3 DEF RecordEvent, TypeOK
  <2>2. req'[r].pc = "replying" /\ req'[r].seq = req[r].seq
    BY <1>1, <2>1 DEF Progress
  <2> DEFINE e == [sequence |-> req[r].seq, by |-> r, op |-> call[r].op,
                   status |-> req[r].status, fault |-> call[r].fault]
  <2>3. e \in Event /\ e.by = r /\ e.sequence = req[r].seq
    BY <1>1 DEF Event, Progress, Call
  <2>4. events' = Append(events, e)
    BY <1>3 DEF RecordEvent
  <2> HIDE DEF e
  <2> QED BY <1>3, <2>1, <2>2, <2>3, <2>4
          DEF RecordEvent, Appends, Keeps, Alone, world, epoch
<1>4. ASSUME Reply(r) PROVE Returns(r)
  <2>1. req'[r] = [req[r] EXCEPT !.pc = "done"]
        /\ \A q \in Requests \ {r} : req'[q] = req[q]
    BY <1>4 DEF Reply, TypeOK
  <2>2. req'[r].pc = "done" /\ req'[r].seq = req[r].seq
    BY <1>1, <2>1 DEF Progress
  <2> QED BY <1>4, <2>1, <2>2 DEF Reply, Returns, Keeps, Alone, store, epoch
<1> QED BY <1>2, <1>3, <1>4

LEMMA HandleView ==
  ASSUME TypeOK, NEW r \in Requests, Handle(r)
  PROVE  \/ \E op \in Operations : Arrives(r, op)
         \/ Works(r) \/ Draws(r) \/ Appends(r) \/ Returns(r)
BY ArriveView, WorkView, RecordView DEF Handle

(* What one firing does to the plans.                                       *)
LEMMA TakeFaultView ==
  ASSUME TypeOK, NEW op \in Operations
  PROVE  /\ \A o \in Operations \ {op} : takeFault(op)[o] = faults[o]
         /\ faults[op].times = 0 => takeFault(op)[op] = faults[op]
         /\ faults[op].times = 1 => takeFault(op)[op] = NoPlan
         /\ faults[op].times > 1 =>
              /\ takeFault(op)[op].plan = faults[op].plan
              /\ takeFault(op)[op].times = faults[op].times - 1
<1>1. faults \in [Operations -> FaultPlan] /\ faults[op] \in FaultPlan
  BY DEF TypeOK
<1>2. faults[op].times \in Nat
  BY <1>1 DEF FaultPlan
<1> DEFINE left == [faults[op] EXCEPT !.times = faults[op].times - 1]
<1>3. left.plan = faults[op].plan /\ left.times = faults[op].times - 1
  BY <1>1 DEF FaultPlan
<1>4. takeFault(op) =
        IF faults[op].times = 0 THEN faults
        ELSE [faults EXCEPT ![op] =
                IF faults[op].times = 1 THEN NoPlan ELSE left]
  BY DEF takeFault
<1> HIDE DEF left
<1> QED BY <1>1, <1>2, <1>3, <1>4

-----------------------------------------------------------------------------
(* The reset boundary *)

(* Which epoch a request belongs to.  While the counter is not yet zero     *)
(* again, whoever began in the new epoch counts as overlapping the reset.   *)
EpochInv ==
  /\ \A r \in Requests :
       /\ trace[r].generation <= generation
       /\ req[r].pc \notin {"new", "done"} => Current(r) \/ r \in straddlers
       /\ resetting > 0 /\ Begun(r) /\ Current(r) => r \in straddlers
  /\ \A id \in Intents :
       \A r \in references[id].body : Current(r) \/ r \in straddlers

(* After a reset no request is of the current epoch.                        *)
LEMMA ResetEndsEpoch ==
  ASSUME TypeOK, EpochInv, handleReset, NEW r \in Requests
  PROVE  ~Current(r)' /\ trace[r].generation <= generation'
<1>1. generation' = generation + 1 /\ trace' = trace
  BY DEF handleReset
<1>2. trace[r].generation \in Nat /\ generation \in Nat
  BY DEF TypeOK, Trace
<1>3. trace[r].generation <= generation
  BY DEF EpochInv
<1> QED BY <1>1, <1>2, <1>3 DEF Current

LEMMA EpochStep ==
  ASSUME TypeOK, EpochInv, [Next]_vars
  PROVE  EpochInv'
<1>1. ASSUME NEW r \in Requests, Handle(r)
      PROVE  EpochInv'
  <2>1. CASE \E op \in Operations : Arrives(r, op)
    <3>1. PICK op \in Operations : Arrives(r, op)
      BY <2>1
    <3>2. ASSUME NEW q \in Requests
          PROVE  /\ trace'[q].generation <= generation'
                 /\ req'[q].pc \notin {"new", "done"}
                      => Current(q)' \/ q \in straddlers'
                 /\ resetting' > 0 /\ Begun(q)' /\ Current(q)'
                      => q \in straddlers'
      BY <3>1 DEF Arrives, Alone, EpochInv, Begun, Current, TypeOK
    <3>3. ASSUME NEW id \in Intents, NEW q \in references'[id].body
          PROVE  Current(q)' \/ q \in straddlers'
      <4>1. q \in Requests /\ references' = references
        BY <3>1 DEF TypeOK, Reference, Arrives
      <4> QED BY <3>1, <4>1 DEF Arrives, Alone, EpochInv, Current
    <3> QED BY <3>2, <3>3 DEF EpochInv
  <2>2. CASE Works(r) \/ Draws(r) \/ Appends(r) \/ Returns(r)
    <3>1. /\ Keeps(r) /\ Begun(r) /\ req[r].pc # "done"
          /\ \A id \in Intents :
               references'[id].body \subseteq references[id].body \cup {r}
      BY <2>2 DEF Works, Draws, Appends, Returns, Begun
    <3>2. ASSUME NEW q \in Requests
          PROVE  /\ trace'[q].generation <= generation'
                 /\ req'[q].pc \notin {"new", "done"}
                      => Current(q)' \/ q \in straddlers'
                 /\ resetting' > 0 /\ Begun(q)' /\ Current(q)'
                      => q \in straddlers'
      BY <3>1 DEF Keeps, Alone, EpochInv, Begun, Current
    <3>3. ASSUME NEW id \in Intents, NEW q \in references'[id].body
          PROVE  Current(q)' \/ q \in straddlers'
      <4>1. q \in Requests /\ (q \in references[id].body \/ q = r)
        BY <3>1 DEF TypeOK, Reference
      <4>2. Current(q) \/ q \in straddlers
        BY <3>1, <4>1 DEF EpochInv, Begun
      <4> QED BY <3>1, <4>1, <4>2 DEF Keeps, Alone, Current
    <3> QED BY <3>2, <3>3 DEF EpochInv
  <2> QED BY <1>1, <2>1, <2>2, HandleView
<1>2. CASE handleReset
  <2>1. /\ generation' = generation + 1 /\ straddlers' = InFlight
        /\ UNCHANGED <<req, trace>>
        /\ references' = [id \in Intents |-> Absent]
    BY <1>2 DEF handleReset
  <2>2. \A r \in Requests : ~Current(r)' /\ trace[r].generation <= generation'
    BY <1>2, ResetEndsEpoch
  <2>3. \A id \in Intents : references'[id].body = {}
    BY <2>1 DEF Absent
  <2> QED BY <2>1, <2>2, <2>3 DEF EpochInv, InFlight
<1>3. ASSUME NEW id \in Intents, handleRotateOVN(id)
      PROVE  EpochInv'
  <2> DEFINE version == references[id].version + 1
  <2>1. references' = [references EXCEPT ![id] =
                         [@ EXCEPT !.version = version,
                                   !.ovn = OVN(id, version)]]
        /\ references \in [Intents -> Reference]
    BY <1>3 DEF handleRotateOVN, TypeOK
  <2> HIDE DEF version
  <2>2. \A i \in Intents : references'[i].body = references[i].body
    BY <2>1 DEF Reference
  <2> QED BY <1>3, <2>2 DEF handleRotateOVN, EpochInv, Begun, Current, epoch
<1>4. CASE \/ \E op \in ClientOps, times \in 1 .. MaxTimes,
                fault \in FaultKinds : handleFault(op, times, fault)
           \/ handleClearFaults \/ ResetSequence \/ UNCHANGED vars
  <2>1. /\ UNCHANGED <<references, req, trace, generation, straddlers>>
        /\ resetting' > 0 => resetting > 0
    BY <1>4
       DEF handleFault, handleClearFaults, ResetSequence, vars, epoch
  <2> QED BY <2>1 DEF EpochInv, Begun, Current
<1> QED BY <1>1, <1>2, <1>3, <1>4 DEF Next, Control

(* A plan in the map was armed in this epoch for this operation, and a      *)
(* request that took one took it in its own epoch for its own operation.    *)
PlanInv ==
  /\ \A op \in Operations :
       /\ faults[op].times = 0 => faults[op].plan = 0
       /\ faults[op].plan # 0 =>
            /\ faults[op].plan \in DOMAIN armed
            /\ armed[faults[op].plan].op = op
            /\ armed[faults[op].plan].generation = generation
  /\ \A r \in Requests :
       trace[r].plan # 0 =>
         /\ trace[r].plan \in DOMAIN armed
         /\ armed[trace[r].plan].op = call[r].op
         /\ armed[trace[r].plan].generation = trace[r].generation

LEMMA PlanStep ==
  ASSUME TypeOK, PlanInv, [Next]_vars
  PROVE  PlanInv'
<1>0. NoPlan.times = 0 /\ NoPlan.plan = 0
  BY DEF NoPlan
<1>1. ASSUME NEW r \in Requests, Handle(r)
      PROVE  PlanInv'
  <2>1. ASSUME NEW op \in Operations, Arrives(r, op)
        PROVE  PlanInv'
    <3>1. /\ \A o \in Operations \ {op} : faults'[o] = faults[o]
          /\ \/ faults'[op] = faults[op] \/ faults'[op] = NoPlan
             \/ faults'[op].plan = faults[op].plan /\ faults'[op].times # 0
      <4>1. faults[op].times \in Nat
        BY DEF TypeOK, FaultPlan
      <4> QED BY <2>1, <4>1, TakeFaultView DEF Arrives
    <3>2. ASSUME NEW o \in Operations
          PROVE  /\ faults'[o].times = 0 => faults'[o].plan = 0
                 /\ faults'[o].plan # 0 =>
                      /\ faults'[o].plan \in DOMAIN armed'
                      /\ armed'[faults'[o].plan].op = o
                      /\ armed'[faults'[o].plan].generation = generation'
      BY <1>0, <2>1, <3>1 DEF PlanInv, Arrives, Alone
    <3>3. ASSUME NEW q \in Requests, trace'[q].plan # 0
          PROVE  /\ trace'[q].plan \in DOMAIN armed'
                 /\ armed'[trace'[q].plan].op = call'[q].op
                 /\ armed'[trace'[q].plan].generation = trace'[q].generation
      BY <2>1, <3>3 DEF PlanInv, Arrives, Alone
    <3> QED BY <3>2, <3>3 DEF PlanInv
  <2>2. CASE Works(r) \/ Draws(r) \/ Appends(r) \/ Returns(r)
    BY <2>2 DEF Works, Draws, Appends, Returns, Keeps, Alone, PlanInv
  <2> QED BY <1>1, <2>1, <2>2, HandleView
<1>2. ASSUME NEW op \in ClientOps, NEW times \in 1 .. MaxTimes,
             NEW fault \in FaultKinds, handleFault(op, times, fault)
      PROVE  PlanInv'
  <2> DEFINE p == Len(armed) + 1
             a == [op |-> op, times |-> times, generation |-> generation]
  <2>1. a \in ArmedPlan /\ a.op = op /\ a.generation = generation
    BY FixtureAssumption DEF ArmedPlan, TypeOK
  <2>2. armed' = Append(armed, a) /\ armed \in Seq(ArmedPlan)
    BY <1>2 DEF handleFault, TypeOK
  <2> HIDE DEF a
  <2>3. /\ p \in DOMAIN armed' /\ armed'[p] = a /\ p # 0
        /\ \A i \in DOMAIN armed : i \in DOMAIN armed' /\ armed'[i] = armed[i]
    BY <2>1, <2>2
  <2>4. /\ \A o \in Operations \ {op} : faults'[o] = faults[o]
        /\ faults'[op].times # 0 /\ faults'[op].plan = p
    BY <1>2, FixtureAssumption DEF handleFault, TypeOK
  <2> HIDE DEF p
  <2>5. UNCHANGED <<generation, trace, call>>
    BY <1>2 DEF handleFault, epoch
  <2> QED BY <2>1, <2>3, <2>4, <2>5 DEF PlanInv
<1>3. CASE handleClearFaults \/ handleReset
  BY <1>0, <1>3 DEF handleClearFaults, handleReset, PlanInv
<1>4. CASE \/ \E id \in Intents : handleRotateOVN(id)
           \/ ResetSequence \/ UNCHANGED vars
  BY <1>4 DEF handleRotateOVN, ResetSequence, vars, PlanInv, epoch
<1> QED BY <1>1, <1>2, <1>3, <1>4 DEF Next, Control

-----------------------------------------------------------------------------
(* The journal *)

(* An event belongs to a request that is past its append and carries that   *)
(* request's number; nobody has two, everybody of this epoch who may answer *)
(* has one; predecessors are answered requests and stand before their       *)
(* successors.                                                              *)
EventInv ==
  /\ \A i \in DOMAIN events :
       LET r == events[i].by
       IN /\ req[r].pc \in Journalled /\ events[i].sequence = req[r].seq
          /\ Current(r) \/ r \in straddlers
  /\ \A i, j \in DOMAIN events :
       /\ events[i].by = events[j].by => i = j
       /\ events[i].by \in trace[events[j].by].after => i < j
  /\ \A r \in Requests :
       /\ req[r].pc \in Journalled /\ Current(r) =>
            \E i \in DOMAIN events : events[i].by = r
       /\ \A a \in trace[r].after : req[a].pc = "done" /\ a # r

(* Numbers drawn since the reset by requests that did not overlap it are    *)
(* covered by the counter and respect the order of answers and arrivals.    *)
NumberInv ==
  \A b \in Requests :
    Drawn(b) /\ Current(b) /\ b \notin straddlers =>
      /\ req[b].seq <= sequence
      /\ \A a \in trace[b].after :
           Current(a) /\ a \notin straddlers => req[a].seq < req[b].seq

(* Who an event is by, from its type.                                       *)
LEMMA EventOwner ==
  ASSUME TypeOK, NEW i \in DOMAIN events
  PROVE  events[i] \in Event /\ events[i].by \in Requests /\ i \in Nat
<1>1. events[i] \in Event /\ i \in Nat
  BY DEF TypeOK
<1> QED BY <1>1 DEF Event

LEMMA EventStep ==
  ASSUME TypeOK, EpochInv, EventInv, [Next]_vars
  PROVE  EventInv'
<1>0. \A b \in Requests : trace[b].after \subseteq Requests
  BY DEF TypeOK, Trace
<1>1. ASSUME NEW r \in Requests, Handle(r)
      PROVE  EventInv'
  <2>1. ASSUME NEW op \in Operations, Arrives(r, op)
        PROVE  EventInv'
    <3>1. /\ events' = events
          /\ \A i \in DOMAIN events :
               events[i].by \in Requests /\ events[i].by # r
      BY <2>1, EventOwner DEF Arrives, EventInv, Journalled
    <3>2. \A q \in Requests \ {r} :
            /\ req'[q] = req[q] /\ trace'[q] = trace[q]
            /\ Current(q)' = Current(q)
            /\ q \in straddlers => q \in straddlers'
      BY <2>1 DEF Arrives, Alone, Current
    <3>3. \A a \in trace'[r].after : req'[a].pc = "done" /\ a # r
      BY <2>1 DEF Arrives, Alone, Done
    <3>4. req'[r].pc \notin Journalled
      BY <2>1 DEF Arrives, Journalled
    <3>5. req[r].pc # "done"
      BY <2>1 DEF Arrives
    <3> QED BY <1>0, <3>1, <3>2, <3>3, <3>4, <3>5 DEF EventInv
  <2>2. CASE Works(r) \/ Draws(r)
    <3>1. /\ Keeps(r) /\ events' = events
          /\ req[r].pc \notin Journalled /\ req'[r].pc \notin Journalled
      BY <2>2 DEF Works, Draws, Journalled
    <3>2. \A i \in DOMAIN events :
            events[i].by \in Requests /\ events[i].by # r
      BY <3>1, EventOwner DEF EventInv
    <3>3. \A q \in Requests \ {r} : req'[q] = req[q]
      BY <3>1 DEF Keeps, Alone
    <3>4. \A q \in Requests :
            trace'[q].after = trace[q].after /\ Current(q)' = Current(q)
      BY <3>1 DEF Keeps, Alone, Current
    <3>5. straddlers' = straddlers
      BY <3>1 DEF Keeps
    <3>6. req[r].pc # "done"
      BY <3>1 DEF Journalled
    <3> QED BY <1>0, <3>1, <3>2, <3>3, <3>4, <3>5, <3>6 DEF EventInv
  <2>3. CASE Appends(r)
    <3>1. PICK e \in Event : /\ e.by = r /\ e.sequence = req[r].seq
                             /\ events' = Append(events, e)
      BY <2>3 DEF Appends
    <3> DEFINE n == Len(events) + 1
    <3>2. events \in Seq(Event) /\ n \in Nat
      BY DEF TypeOK
    <3>3. /\ DOMAIN events' = DOMAIN events \cup {n} /\ events'[n] = e
          /\ \A i \in DOMAIN events : i < n /\ events'[i] = events[i]
      BY <3>1, <3>2
    <3> HIDE DEF n
    <3>4. \A i \in DOMAIN events :
            events[i].by \in Requests /\ events[i].by # r
      BY <2>3, EventOwner DEF Appends, EventInv, Journalled
    <3>5. /\ \A q \in Requests \ {r} : req'[q] = req[q]
          /\ req'[r].pc = "replying" /\ req'[r].seq = req[r].seq
          /\ req[r].pc = "appending"
      BY <2>3 DEF Appends, Keeps, Alone
    <3>6. /\ \A q \in Requests :
               /\ trace'[q].after = trace[q].after
               /\ trace'[q].generation = trace[q].generation
          /\ UNCHANGED <<straddlers, generation>>
      BY <2>3 DEF Appends, Keeps, Alone
    <3>7. ASSUME NEW i \in DOMAIN events'
          PROVE  /\ req'[events'[i].by].pc \in Journalled
                 /\ events'[i].sequence = req'[events'[i].by].seq
                 /\ Current(events[i].by)' \/ events'[i].by \in straddlers'
      <4>1. CASE i = n
        <5>1. Current(r) \/ r \in straddlers
          BY <3>5 DEF EpochInv
        <5> QED BY <3>1, <3>3, <3>5, <3>6, <4>1, <5>1 DEF Journalled, Current
      <4>2. CASE i \in DOMAIN events
        BY <3>3, <3>4, <3>5, <3>6, <4>2 DEF EventInv, Current
      <4> QED BY <3>3, <4>1, <4>2
    <3>8. ASSUME NEW i \in DOMAIN events', NEW j \in DOMAIN events'
          PROVE  /\ events'[i].by = events'[j].by => i = j
                 /\ events'[i].by \in trace'[events'[j].by].after => i < j
      <4>1. CASE i \in DOMAIN events /\ j \in DOMAIN events
        BY <3>3, <3>4, <3>6, <4>1 DEF EventInv
      <4>2. CASE i \in DOMAIN events /\ j = n
        BY <3>1, <3>3, <3>4, <4>2
      <4>3. CASE i = n /\ j \in DOMAIN events
        <5>1. r \notin trace[events[j].by].after
          BY <3>4, <3>5, <4>3 DEF EventInv
        <5> QED BY <3>1, <3>3, <3>4, <3>6, <4>3, <5>1
      <4>4. CASE i = n /\ j = n
        BY <3>1, <3>3, <3>5, <3>6, <4>4 DEF EventInv
      <4> QED BY <3>3, <4>1, <4>2, <4>3, <4>4
    <3>9. ASSUME NEW q \in Requests
          PROVE  /\ req'[q].pc \in Journalled /\ Current(q)' =>
                      \E i \in DOMAIN events' : events'[i].by = q
                 /\ \A a \in trace'[q].after : req'[a].pc = "done" /\ a # q
      <4>1. ASSUME NEW a \in trace[q].after
            PROVE  req'[a].pc = "done" /\ a # q
        BY <1>0, <3>5 DEF EventInv
      <4>2. CASE q = r
        BY <3>1, <3>3, <3>6, <4>1, <4>2
      <4>3. CASE q # r
        BY <3>3, <3>5, <3>6, <4>1, <4>3 DEF EventInv, Current
      <4> QED BY <4>2, <4>3
    <3> QED BY <3>7, <3>8, <3>9 DEF EventInv
  <2>4. CASE Returns(r)
    <3>1. /\ \A q \in Requests : req'[q].pc \in Journalled
                                   <=> req[q].pc \in Journalled
          /\ \A q \in Requests :
               req[q].pc \in Journalled => req'[q].seq = req[q].seq
          /\ \A q \in Requests : req[q].pc = "done" => req'[q].pc = "done"
      BY <2>4 DEF Returns, Keeps, Alone, Journalled
    <3>2. /\ \A q \in Requests :
               trace'[q].after = trace[q].after /\ Current(q)' = Current(q)
          /\ straddlers' = straddlers /\ events' = events
      BY <2>4 DEF Returns, Keeps, Alone, Current
    <3> QED BY <1>0, <3>1, <3>2, EventOwner DEF EventInv
  <2> QED BY <1>1, <2>1, <2>2, <2>3, <2>4, HandleView
<1>2. CASE handleReset
  <2>1. /\ generation' = generation + 1 /\ UNCHANGED <<req, trace>>
        /\ events' = <<>>
    BY <1>2 DEF handleReset
  <2>2. \A r \in Requests : ~Current(r)'
    BY <1>2, ResetEndsEpoch
  <2> QED BY <2>1, <2>2 DEF EventInv
<1>3. CASE \/ \E op \in ClientOps, times \in 1 .. MaxTimes,
                fault \in FaultKinds : handleFault(op, times, fault)
           \/ \E id \in Intents : handleRotateOVN(id)
           \/ handleClearFaults \/ ResetSequence \/ UNCHANGED vars
  <2>1. UNCHANGED <<events, req, trace, generation, straddlers>>
    BY <1>3 DEF handleFault, handleRotateOVN, handleClearFaults,
                ResetSequence, vars, epoch
  <2> QED BY <2>1 DEF EventInv, Current
<1> QED BY <1>1, <1>2, <1>3 DEF Next, Control

LEMMA NumberStep ==
  ASSUME TypeOK, EpochInv, EventInv, NumberInv, [Next]_vars
  PROVE  NumberInv'
<1>0. /\ \A b \in Requests : trace[b].after \subseteq Requests
      /\ \A b \in Requests : req[b].seq \in Nat
      /\ sequence \in Nat
  BY DEF TypeOK, Trace, Progress
<1>1. ASSUME NEW r \in Requests, Handle(r)
      PROVE  NumberInv'
  <2>1. ASSUME NEW op \in Operations, Arrives(r, op)
        PROVE  NumberInv'
    <3>1. ~Drawn(r)' /\ sequence' = sequence /\ req[r].pc = "new"
      BY <2>1 DEF Arrives, Drawn
    <3>2. \A q \in Requests \ {r} :
            /\ req'[q] = req[q] /\ trace'[q] = trace[q]
            /\ Current(q)' = Current(q) /\ Drawn(q)' = Drawn(q)
            /\ q \in straddlers => q \in straddlers'
      BY <2>1 DEF Arrives, Alone, Current, Drawn
    <3>3. \A q \in Requests : r \notin trace[q].after
      BY <3>1 DEF EventInv
    <3> QED BY <1>0, <3>1, <3>2, <3>3 DEF NumberInv
  <2>2. CASE Works(r)
    <3>1. ~Drawn(r)' /\ sequence' = sequence /\ req[r].pc # "done" /\ Keeps(r)
      BY <2>2 DEF Works, Drawn
    <3>2. /\ \A q \in Requests \ {r} :
               req'[q] = req[q] /\ Drawn(q)' = Drawn(q)
          /\ \A q \in Requests :
               trace'[q].after = trace[q].after /\ Current(q)' = Current(q)
          /\ straddlers' = straddlers
      BY <3>1 DEF Keeps, Alone, Current, Drawn
    <3>3. \A q \in Requests : r \notin trace[q].after
      BY <3>1 DEF EventInv
    <3> QED BY <1>0, <3>1, <3>2, <3>3 DEF NumberInv
  <2>3. CASE Draws(r)
    <3>1. /\ sequence' = sequence + 1 /\ req'[r].seq = sequence + 1
          /\ req[r].pc # "done" /\ Keeps(r)
      BY <2>3 DEF Draws
    <3>2. /\ \A q \in Requests \ {r} :
               req'[q] = req[q] /\ Drawn(q)' = Drawn(q)
          /\ \A q \in Requests :
               trace'[q].after = trace[q].after /\ Current(q)' = Current(q)
          /\ straddlers' = straddlers
      BY <3>1 DEF Keeps, Alone, Current, Drawn
    <3>3. \A q \in Requests : r \notin trace[q].after
      BY <3>1 DEF EventInv
    <3>4. ASSUME NEW a \in trace[r].after, Current(a), a \notin straddlers
          PROVE  req'[a].seq < req'[r].seq
      <4>1. a \in Requests /\ a # r /\ Drawn(a)
        BY <1>0 DEF EventInv, Drawn
      <4>2. req[a].seq <= sequence
        BY <3>4, <4>1 DEF NumberInv
      <4> QED BY <1>0, <3>1, <3>2, <4>1, <4>2
    <3>5. ASSUME NEW b \in Requests,
                 Drawn(b)', Current(b)', b \notin straddlers'
          PROVE  /\ req'[b].seq <= sequence'
                 /\ \A a \in trace'[b].after :
                      Current(a)' /\ a \notin straddlers' =>
                        req'[a].seq < req'[b].seq
      <4>1. CASE b = r
        BY <1>0, <3>1, <3>2, <3>4, <4>1
      <4>2. CASE b # r
        <5>1. /\ req[b].seq <= sequence
              /\ \A a \in trace[b].after :
                   Current(a) /\ a \notin straddlers =>
                     req[a].seq < req[b].seq
          BY <3>2, <3>5, <4>2 DEF NumberInv
        <5>2. req'[b].seq <= sequence'
          BY <1>0, <3>1, <3>2, <4>2, <5>1
        <5> QED BY <1>0, <3>2, <3>3, <4>2, <5>1, <5>2
      <4> QED BY <4>1, <4>2
    <3> QED BY <3>5 DEF NumberInv
  <2>4. CASE Appends(r) \/ Returns(r)
    <3>1. /\ Keeps(r) /\ sequence' = sequence
          /\ Drawn(r) /\ Drawn(r)' /\ req'[r].seq = req[r].seq
      BY <2>4 DEF Appends, Returns, Drawn
    <3>2. /\ \A q \in Requests :
               /\ req'[q].seq = req[q].seq /\ Drawn(q)' = Drawn(q)
               /\ trace'[q].after = trace[q].after
               /\ Current(q)' = Current(q)
          /\ straddlers' = straddlers
      BY <3>1 DEF Keeps, Alone, Current, Drawn
    <3> QED BY <1>0, <3>1, <3>2 DEF NumberInv
  <2> QED BY <1>1, <2>1, <2>2, <2>3, <2>4, HandleView
<1>2. CASE handleReset
  BY <1>2, ResetEndsEpoch DEF NumberInv
<1>3. CASE ResetSequence
  <2>1. resetting > 0 /\ UNCHANGED <<req, trace, generation, straddlers>>
    BY <1>3 DEF ResetSequence, epoch
  <2>2. \A b \in Requests : Drawn(b) /\ Current(b) => b \in straddlers
    BY <2>1 DEF EpochInv, Begun, Drawn
  <2> QED BY <2>1, <2>2 DEF NumberInv, Drawn, Current
<1>4. CASE \/ \E op \in ClientOps, times \in 1 .. MaxTimes,
                fault \in FaultKinds : handleFault(op, times, fault)
           \/ \E id \in Intents : handleRotateOVN(id)
           \/ handleClearFaults \/ UNCHANGED vars
  <2>1. UNCHANGED <<sequence, req, trace, generation, straddlers>>
    BY <1>4 DEF handleFault, handleRotateOVN, handleClearFaults, vars, epoch
  <2> QED BY <2>1 DEF NumberInv, Drawn, Current
<1> QED BY <1>1, <1>2, <1>3, <1>4 DEF Next, Control

-----------------------------------------------------------------------------
(* Everything about epochs, events and numbers, as one inductive invariant. *)
RecordInv == EpochInv /\ PlanInv /\ EventInv /\ NumberInv

LEMMA RecordInvariant == Spec => [](TypeOK /\ RecordInv)
<1>1. Init => RecordInv
  <2> SUFFICES ASSUME Init PROVE RecordInv
    OBVIOUS
  <2>1. /\ \A r \in Requests :
             /\ req[r].pc = "new" /\ trace[r].generation = 0
             /\ trace[r].plan = 0 /\ trace[r].after = {}
        /\ \A id \in Intents : references[id].body = {}
        /\ \A op \in Operations : faults[op].plan = 0
        /\ events = <<>> /\ generation = 0 /\ resetting = 0
    BY DEF Init, At, Absent, NoPlan
  <2>2. EpochInv
    BY <2>1 DEF EpochInv
  <2>3. PlanInv
    BY <2>1 DEF PlanInv
  <2>4. EventInv
    BY <2>1 DEF EventInv, Journalled
  <2>5. NumberInv
    BY <2>1 DEF NumberInv, Drawn
  <2> QED BY <2>2, <2>3, <2>4, <2>5 DEF RecordInv
<1>2. TypeOK /\ RecordInv /\ [Next]_vars => RecordInv'
  BY EpochStep, PlanStep, EventStep, NumberStep DEF RecordInv
<1> QED BY <1>1, <1>2, TypeCorrect, PTL DEF Spec

(* What a reset gives a scenario, for any number of resets: what survives   *)
(* or appears after it stems from requests that began since or overlapped   *)
(* it, and an old fault plan never fires in a new epoch.                    *)
THEOREM ResetBoundaryHolds == Spec => []ResetBoundary
<1>1. TypeOK /\ RecordInv => ResetBoundary
  BY EventOwner
     DEF RecordInv, EpochInv, PlanInv, EventInv, ResetBoundary
<1> QED BY <1>1, RecordInvariant, PTL

(* A client that has its answer finds its event in the journal, once.       *)
THEOREM AnswersAreJournaled == Spec => []AnsweredIsJournaled
<1>1. TypeOK /\ RecordInv => AnsweredIsJournaled
  BY DEF RecordInv, EventInv, AnsweredIsJournaled, EventsOf, Current,
         Journalled
<1> QED BY <1>1, RecordInvariant, PTL

(* Although record draws its number before it takes the lock, the journal   *)
(* and its numbers respect the real-time order of requests that did not     *)
(* overlap a reset.                                                         *)
THEOREM JournalKeepsRealTime == Spec => []JournalRealTimeOrder
<1>1. TypeOK /\ RecordInv => JournalRealTimeOrder
  <2> SUFFICES ASSUME TypeOK, RecordInv, NEW i \in DOMAIN events,
                      NEW j \in DOMAIN events,
                      events[i].by \in trace[events[j].by].after,
                      {events[i].by, events[j].by} \cap straddlers = {}
               PROVE  i < j /\ events[i].sequence < events[j].sequence
    BY DEF JournalRealTimeOrder
  <2> DEFINE a == events[i].by
             b == events[j].by
  <2>1. a \in Requests /\ b \in Requests
    BY EventOwner
  <2>2. /\ Current(a) /\ Current(b) /\ a \notin straddlers
        /\ b \notin straddlers /\ Drawn(b)
        /\ events[i].sequence = req[a].seq /\ events[j].sequence = req[b].seq
    BY DEF RecordInv, EventInv, Drawn, Journalled
  <2>3. i < j
    BY DEF RecordInv, EventInv
  <2>4. req[a].seq < req[b].seq
    BY <2>1, <2>2 DEF RecordInv, NumberInv
  <2> QED BY <2>2, <2>3, <2>4
<1> QED BY <1>1, RecordInvariant, PTL

-----------------------------------------------------------------------------
(* Numbering without gaps *)

DrawnNow == {r \in Requests : Drawn(r) /\ Current(r)}

NumberingInv ==
  resetting = 0 /\ straddlers = {} =>
    /\ IsFiniteSet(DrawnNow)
    /\ {req[r].seq : r \in DrawnNow} = 1 .. sequence
    /\ Cardinality(DrawnNow) = sequence

LEMMA NumberingStep ==
  ASSUME TypeOK, RecordInv, NumberingInv, [Next]_vars
  PROVE  NumberingInv'
<1>0. sequence \in Nat
  BY DEF TypeOK
<1>1. ASSUME NEW r \in Requests, Handle(r)
      PROVE  NumberingInv'
  <2>1. ASSUME NEW op \in Operations, Arrives(r, op)
        PROVE  NumberingInv'
    <3>1. /\ \A q \in Requests : Drawn(q)' = Drawn(q)
          /\ \A q \in Requests : Drawn(q) =>
               Current(q)' = Current(q) /\ req'[q] = req[q]
      BY <2>1 DEF Arrives, Alone, Drawn, Current
    <3>2. DrawnNow' = DrawnNow
      BY <3>1 DEF DrawnNow
    <3>3. {req'[q].seq : q \in DrawnNow} = {req[q].seq : q \in DrawnNow}
      BY <3>1 DEF DrawnNow
    <3>4. UNCHANGED <<resetting, sequence>> /\ straddlers \subseteq straddlers'
      BY <2>1 DEF Arrives, Alone
    <3> QED BY <3>2, <3>3, <3>4 DEF NumberingInv
  <2>2. CASE Works(r) \/ Appends(r) \/ Returns(r)
    <3>1. /\ \A q \in Requests : Drawn(q)' = Drawn(q)
          /\ \A q \in Requests : Drawn(q) =>
               Current(q)' = Current(q) /\ req'[q].seq = req[q].seq
      BY <2>2 DEF Works, Appends, Returns, Keeps, Alone, Drawn, Current
    <3>2. DrawnNow' = DrawnNow
      BY <3>1 DEF DrawnNow
    <3>3. {req'[q].seq : q \in DrawnNow} = {req[q].seq : q \in DrawnNow}
      BY <3>1 DEF DrawnNow
    <3>4. UNCHANGED <<resetting, sequence, straddlers>>
      BY <2>2 DEF Works, Appends, Returns, Keeps, Alone
    <3> QED BY <3>2, <3>3, <3>4 DEF NumberingInv
  <2>3. CASE Draws(r)
    <3>1. UNCHANGED <<resetting, straddlers>>
      BY <2>3 DEF Draws, Keeps, Alone
    <3> SUFFICES ASSUME resetting = 0, straddlers = {}
                 PROVE  /\ IsFiniteSet(DrawnNow')
                        /\ {req'[q].seq : q \in DrawnNow'} = 1 .. sequence'
                        /\ Cardinality(DrawnNow') = sequence'
      BY <3>1 DEF NumberingInv
    <3>2. /\ IsFiniteSet(DrawnNow)
          /\ {req[q].seq : q \in DrawnNow} = 1 .. sequence
          /\ Cardinality(DrawnNow) = sequence
      BY DEF NumberingInv
    <3>3. Current(r) /\ ~Drawn(r)
      BY <2>3 DEF Draws, Drawn, RecordInv, EpochInv
    <3>4. /\ Drawn(r)' /\ Current(r)'
          /\ \A q \in Requests \ {r} :
               /\ Drawn(q)' = Drawn(q) /\ Current(q)' = Current(q)
               /\ req'[q] = req[q]
          /\ req'[r].seq = sequence + 1 /\ sequence' = sequence + 1
      BY <2>3, <3>3 DEF Draws, Keeps, Alone, Drawn, Current
    <3>5. DrawnNow' = DrawnNow \cup {r} /\ r \notin DrawnNow
      BY <3>3, <3>4 DEF DrawnNow
    <3>6. IsFiniteSet(DrawnNow') /\ Cardinality(DrawnNow') = sequence'
      BY <3>2, <3>4, <3>5, FS_AddElement
    <3>7. {req'[q].seq : q \in DrawnNow'}
            = {req[q].seq : q \in DrawnNow} \cup {sequence + 1}
      <4>1. \A q \in DrawnNow : req'[q].seq = req[q].seq
        BY <3>4, <3>5 DEF DrawnNow
      <4> QED BY <3>4, <3>5, <4>1
    <3>8. 1 .. sequence' = (1 .. sequence) \cup {sequence + 1}
      BY <1>0, <3>4
    <3> QED BY <3>2, <3>6, <3>7, <3>8
  <2> QED BY <1>1, <2>1, <2>2, <2>3, HandleView
<1>2. CASE handleReset
  <2>1. resetting \in Nat /\ resetting' = resetting + 1
    BY <1>2 DEF handleReset, TypeOK
  <2>2. resetting' # 0
    BY <2>1
  <2> QED BY <2>2 DEF NumberingInv
<1>3. CASE ResetSequence
  <2>1. /\ resetting > 0 /\ sequence' = 0
        /\ UNCHANGED <<req, trace, generation, straddlers>>
    BY <1>3 DEF ResetSequence, epoch
  <2>2. ASSUME straddlers = {} PROVE DrawnNow' = {}
    BY <2>1, <2>2 DEF DrawnNow, RecordInv, EpochInv, Begun, Drawn, Current
  <2>3. {req'[q].seq : q \in {}} = 1 .. 0
    OBVIOUS
  <2> QED BY <2>1, <2>2, <2>3, FS_EmptySet DEF NumberingInv
<1>4. CASE \/ \E op \in ClientOps, times \in 1 .. MaxTimes,
                fault \in FaultKinds : handleFault(op, times, fault)
           \/ \E id \in Intents : handleRotateOVN(id)
           \/ handleClearFaults \/ UNCHANGED vars
  <2>1. UNCHANGED <<sequence, req, trace, generation, straddlers, resetting>>
    BY <1>4 DEF handleFault, handleRotateOVN, handleClearFaults, vars, epoch
  <2> QED BY <2>1 DEF NumberingInv, DrawnNow, Drawn, Current
<1> QED BY <1>1, <1>2, <1>3, <1>4 DEF Next, Control

(* After a reset that nothing overlapped, the numbers drawn are 1, 2, ...   *)
(* without a gap or a repetition, for any number of concurrent recorders.   *)
THEOREM NumbersHaveNoGap == Spec => []JournalNumbering
<1>1. Init => NumberingInv
  <2> SUFFICES ASSUME Init PROVE NumberingInv
    OBVIOUS
  <2>1. DrawnNow = {} /\ sequence = 0
    BY DEF Init, DrawnNow, Drawn, At
  <2>2. {req[q].seq : q \in {}} = 1 .. 0
    OBVIOUS
  <2> QED BY <2>1, <2>2, FS_EmptySet DEF NumberingInv
<1>2. TypeOK /\ RecordInv /\ NumberingInv /\ [Next]_vars => NumberingInv'
  BY NumberingStep
<1>3. NumberingInv => JournalNumbering
  BY DEF NumberingInv, JournalNumbering, DrawnNow, Drawn, Current
<1> QED BY <1>1, <1>2, <1>3, RecordInvariant, PTL DEF Spec

-----------------------------------------------------------------------------
(* Fault budgets *)

(* A request that has not begun took nothing; the takers of a plan and what *)
(* is left of it add up to its Times.                                       *)
BudgetInv ==
  /\ \A r \in Requests : req[r].pc = "new" => trace[r].plan = 0
  /\ \A p \in DOMAIN armed :
       /\ IsFiniteSet(Takers(p))
       /\ Cardinality(Takers(p)) <= armed[p].times
       /\ faults[armed[p].op].plan = p =>
            Cardinality(Takers(p)) + faults[armed[p].op].times
              = armed[p].times

LEMMA BudgetStep ==
  ASSUME TypeOK, PlanInv, BudgetInv, [Next]_vars
  PROVE  BudgetInv'
<1>0. /\ \A p \in DOMAIN armed : /\ p \in Nat \ {0}
                                 /\ armed[p].times \in Nat
                                 /\ armed[p].op \in Operations
      /\ \A op \in Operations : faults[op].times \in Nat
  <2>1. \A p \in DOMAIN armed : armed[p] \in ArmedPlan /\ p \in Nat \ {0}
    BY DEF TypeOK
  <2> QED BY <2>1 DEF ArmedPlan, TypeOK, FaultPlan
<1>1. ASSUME NEW r \in Requests, NEW op \in Operations, Arrives(r, op)
      PROVE  BudgetInv'
  <2>1. /\ trace[r].plan = 0 /\ armed' = armed
        /\ trace'[r].plan = faults[op].plan
        /\ \A q \in Requests \ {r} : trace'[q] = trace[q]
    BY <1>1 DEF Arrives, Alone, BudgetInv
  <2>2. \A q \in Requests : req'[q].pc = "new" => trace'[q].plan = 0
    BY <1>1 DEF Arrives, Alone, BudgetInv
  <2>3. ASSUME NEW p \in DOMAIN armed, faults[op].plan # p
        PROVE  /\ Takers(p)' = Takers(p)
               /\ faults'[armed[p].op].plan = p =>
                    faults'[armed[p].op] = faults[armed[p].op]
    <3>1. Takers(p)' = Takers(p)
      BY <1>0, <2>1, <2>3 DEF Takers
    <3>2. ASSUME faults'[armed[p].op].plan = p
          PROVE  faults'[armed[p].op] = faults[armed[p].op]
      <4>1. /\ \A o \in Operations \ {op} : faults'[o] = faults[o]
            /\ faults'[op] = faults[op] \/ faults'[op].plan = 0
               \/ faults'[op].plan = faults[op].plan
        BY <1>0, <1>1, TakeFaultView DEF Arrives, NoPlan
      <4> QED BY <1>0, <2>3, <3>2, <4>1
    <3> QED BY <3>1, <3>2
  <2>4. ASSUME NEW p \in DOMAIN armed, faults[op].plan = p
        PROVE  /\ IsFiniteSet(Takers(p)')
               /\ Cardinality(Takers(p)') <= armed[p].times
               /\ faults'[armed[p].op].plan = p =>
                    Cardinality(Takers(p)') + faults'[armed[p].op].times
                      = armed[p].times
    <3>1. armed[p].op = op /\ faults[op].times # 0
      BY <1>0, <2>4 DEF PlanInv
    <3>2. Takers(p)' = Takers(p) \cup {r} /\ r \notin Takers(p)
      BY <1>0, <2>1, <2>4 DEF Takers
    <3>3. /\ IsFiniteSet(Takers(p))
          /\ Cardinality(Takers(p)) + faults[op].times = armed[p].times
      BY <2>4, <3>1 DEF BudgetInv
    <3>4. /\ IsFiniteSet(Takers(p)') /\ Cardinality(Takers(p)) \in Nat
          /\ Cardinality(Takers(p)') = Cardinality(Takers(p)) + 1
      BY <3>2, <3>3, FS_AddElement, FS_CardinalityType
    <3>5. /\ faults[op].times = 1 => faults'[op].plan = 0
          /\ faults[op].times > 1 => faults'[op].times = faults[op].times - 1
      BY <1>1, TakeFaultView DEF Arrives, NoPlan
    <3> HIDE DEF Takers
    <3> QED BY <1>0, <2>4, <3>1, <3>3, <3>4, <3>5
  <2> QED BY <2>1, <2>2, <2>3, <2>4 DEF BudgetInv
<1>2. ASSUME NEW r \in Requests,
             Works(r) \/ Draws(r) \/ Appends(r) \/ Returns(r)
      PROVE  BudgetInv'
  <2>1. /\ \A q \in Requests : trace'[q].plan = trace[q].plan
        /\ \A q \in Requests : req'[q].pc = "new" => req[q].pc = "new"
        /\ UNCHANGED <<faults, armed>>
    BY <1>2 DEF Works, Draws, Appends, Returns, Keeps, Alone
  <2>2. \A p \in DOMAIN armed : Takers(p)' = Takers(p)
    BY <2>1 DEF Takers
  <2> QED BY <2>1, <2>2 DEF BudgetInv
<1>3. ASSUME NEW op \in ClientOps, NEW times \in 1 .. MaxTimes,
             NEW fault \in FaultKinds, handleFault(op, times, fault)
      PROVE  BudgetInv'
  <2> DEFINE n == Len(armed) + 1
             a == [op |-> op, times |-> times, generation |-> generation]
             f == [times |-> times, fault |-> fault, plan |-> n]
  <2>0. op \in Operations /\ times \in Nat
    BY FixtureAssumption
  <2>1. /\ a \in ArmedPlan /\ a.op = op /\ a.times = times
        /\ f.times = times /\ f.plan = n
    BY <2>0 DEF ArmedPlan, TypeOK
  <2>2. /\ armed' = Append(armed, a) /\ armed \in Seq(ArmedPlan)
        /\ faults' = [faults EXCEPT ![op] = f]
        /\ faults \in [Operations -> FaultPlan] /\ UNCHANGED <<req, trace>>
    BY <1>3 DEF handleFault, TypeOK
  <2> HIDE DEF a, f
  <2>3. /\ DOMAIN armed' = DOMAIN armed \cup {n} /\ armed'[n] = a
        /\ \A p \in DOMAIN armed : armed'[p] = armed[p] /\ p # n
        /\ n # 0
    BY <2>1, <2>2
  <2>4. \A p : Takers(p)' = Takers(p)
    BY <2>2 DEF Takers
  <2> HIDE DEF n
  <2>5. Takers(n) = {}
    BY <2>3 DEF Takers, PlanInv
  <2>6. /\ faults'[op] = f
        /\ \A o \in Operations \ {op} : faults'[o] = faults[o]
    BY <2>0, <2>2
  <2>7. ASSUME NEW p \in DOMAIN armed'
        PROVE  /\ IsFiniteSet(Takers(p))
               /\ Cardinality(Takers(p)) <= armed'[p].times
               /\ faults'[armed'[p].op].plan = p =>
                    Cardinality(Takers(p)) + faults'[armed'[p].op].times
                      = armed'[p].times
    <3>1. CASE p = n
      BY <2>0, <2>1, <2>3, <2>5, <2>6, <3>1, FS_EmptySet
    <3>2. CASE p \in DOMAIN armed
      BY <1>0, <2>1, <2>3, <2>6, <3>2 DEF BudgetInv
    <3> QED BY <2>3, <3>1, <3>2
  <2> QED BY <2>2, <2>4, <2>7 DEF BudgetInv
<1>4. CASE handleClearFaults \/ handleReset
  <2>1. /\ UNCHANGED <<req, trace, armed>>
        /\ \A o \in Operations : faults'[o].plan = 0
    BY <1>4 DEF handleClearFaults, handleReset, NoPlan
  <2>2. \A p : Takers(p)' = Takers(p)
    BY <2>1 DEF Takers
  <2> QED BY <1>0, <2>1, <2>2 DEF BudgetInv
<1>5. CASE \/ \E id \in Intents : handleRotateOVN(id)
           \/ ResetSequence \/ UNCHANGED vars
  <2>1. UNCHANGED <<req, trace, armed, faults>>
    BY <1>5 DEF handleRotateOVN, ResetSequence, vars
  <2>2. \A p : Takers(p)' = Takers(p)
    BY <2>1 DEF Takers
  <2> QED BY <2>1, <2>2 DEF BudgetInv
<1> QED BY <1>1, <1>2, <1>3, <1>4, <1>5, HandleView DEF Next, Control

(* A fault plan fires at most Times times, and as long as it is installed   *)
(* exactly its unfired part is left, for any number of concurrent takers.   *)
THEOREM BudgetsHold == Spec => []FaultBudget
<1>1. Init => BudgetInv
  BY DEF Init, BudgetInv
<1>2. TypeOK /\ RecordInv /\ BudgetInv /\ [Next]_vars => BudgetInv'
  BY BudgetStep DEF RecordInv
<1>3. TypeOK /\ RecordInv /\ BudgetInv => FaultBudget
  <2> SUFFICES ASSUME TypeOK, RecordInv, BudgetInv, NEW p \in DOMAIN armed
               PROVE  \A r \in Takers(p) : call[r].op = armed[p].op
    BY DEF FaultBudget, BudgetInv
  <2>1. p # 0
    BY DEF TypeOK
  <2> QED BY <2>1 DEF Takers, RecordInv, PlanInv
<1> QED BY <1>1, <1>2, <1>3, RecordInvariant, PTL DEF Spec
=============================================================================
