--------------------------- MODULE ScenarioProofs ---------------------------
(***************************************************************************)
(* Theorems about ScenarioRunner for any operations, names and faults, and *)
(* for any number of stories, steps and requests on their way.             *)
(***************************************************************************)
EXTENDS ScenarioRunner, FiniteSetTheorems, SequenceTheorems, TLAPS

-----------------------------------------------------------------------------
(* Sequences of cleanups *)

LEMMA FrontAndLast ==
  ASSUME NEW S, NEW c \in Seq(S), c # <<>>
  PROVE  /\ Len(c) \in Nat \ {0} /\ Last(c) = c[Len(c)] /\ Last(c) \in S
         /\ Front(c) \in Seq(S) /\ Len(Front(c)) = Len(c) - 1
         /\ \A i \in 1 .. Len(c) - 1 : Front(c)[i] = c[i]
<1>1. Len(c) \in Nat \ {0}
  BY EmptySeq
<1>2. Last(c) = c[Len(c)] /\ Last(c) \in S
  BY <1>1 DEF Last
<1>3. \A i \in 1 .. Len(c) - 1 : c[i] \in S
  BY <1>1
<1>4. /\ SubSeq(c, 1, Len(c) - 1) \in Seq(S)
      /\ Len(SubSeq(c, 1, Len(c) - 1))
           = IF 1 <= Len(c) - 1 THEN Len(c) - 1 - 1 + 1 ELSE 0
      /\ \A i \in 1 .. Len(c) - 1 - 1 + 1 :
           SubSeq(c, 1, Len(c) - 1)[i] = c[1 + i - 1]
  BY <1>1, <1>3, SubSeqProperties
<1>5. Front(c) = SubSeq(c, 1, Len(c) - 1)
  BY DEF Front
<1>6. Front(c) \in Seq(S) /\ Len(Front(c)) = Len(c) - 1
  <2>1. \A n \in Nat \ {0} :
          (IF 1 <= n - 1 THEN n - 1 - 1 + 1 ELSE 0) = n - 1
    OBVIOUS
  <2> QED BY <1>1, <1>4, <1>5, <2>1, Zenon
<1>7. ASSUME NEW i \in 1 .. Len(c) - 1
      PROVE  Front(c)[i] = c[i]
  <2>1. i \in 1 .. Len(c) - 1 - 1 + 1 /\ 1 + i - 1 = i
    BY <1>1
  <2> QED BY <1>4, <1>5, <2>1
<1> QED BY <1>1, <1>2, <1>6, <1>7

LEMMA ReverseIs ==
  ASSUME NEW S, NEW s \in Seq(S)
  PROVE  /\ Reverse(s) \in Seq(S) /\ Len(Reverse(s)) = Len(s)
         /\ \A i \in 1 .. Len(s) : Reverse(s)[i] = s[Len(s) - i + 1]
  BY DEF Reverse

(* Calling the last cleanup and dropping it moves it from the reversed rest *)
(* to the end of what was called.                                           *)
LEMMA PopReversed ==
  ASSUME NEW S, NEW c \in Seq(S), c # <<>>, NEW u \in Seq(S)
  PROVE  Append(u, Last(c)) \o Reverse(Front(c)) = u \o Reverse(c)
<1> DEFINE n == Len(c)
           v == Append(u, Last(c))
           d == Reverse(Front(c))
           r == Reverse(c)
<1>1. /\ n \in Nat \ {0} /\ Last(c) = c[n] /\ Last(c) \in S
      /\ Front(c) \in Seq(S) /\ Len(Front(c)) = n - 1
      /\ \A i \in 1 .. n - 1 : Front(c)[i] = c[i]
  BY FrontAndLast
<1>2. /\ d \in Seq(S) /\ Len(d) = n - 1
      /\ \A i \in 1 .. n - 1 : d[i] = Front(c)[n - 1 - i + 1]
  BY <1>1, ReverseIs
<1>3. r \in Seq(S) /\ Len(r) = n /\ \A i \in 1 .. n : r[i] = c[n - i + 1]
  BY ReverseIs
<1>4. /\ v \in Seq(S) /\ Len(v) = Len(u) + 1
      /\ \A i \in 1 .. Len(u) : v[i] = u[i]
      /\ v[Len(u) + 1] = c[n]
  BY <1>1, AppendProperties
<1>5. /\ v \o d \in Seq(S) /\ Len(v \o d) = Len(v) + Len(d)
      /\ \A i \in 1 .. Len(v) + Len(d) :
           (v \o d)[i] = IF i <= Len(v) THEN v[i] ELSE d[i - Len(v)]
  BY <1>2, <1>4, ConcatProperties
<1> HIDE DEF n, v, d, r
<1>6. /\ u \o r \in Seq(S) /\ Len(u \o r) = Len(u) + n
      /\ \A i \in 1 .. Len(u) + n :
           (u \o r)[i] = IF i <= Len(u) THEN u[i] ELSE r[i - Len(u)]
  BY <1>3, ConcatProperties, Zenon
<1>7. Len(u) \in Nat
  OBVIOUS
<1>8. ASSUME NEW i \in 1 .. Len(u) + n
      PROVE  (v \o d)[i] = (u \o r)[i]
  <2>1. i \in 1 .. Len(v) + Len(d)
    BY <1>1, <1>2, <1>4, <1>7
  <2>2. CASE i <= Len(u)
    BY <1>4, <1>5, <1>6, <1>7, <2>1, <2>2
  <2>3. CASE i = Len(u) + 1
    <3>1. (v \o d)[i] = c[n]
      BY <1>4, <1>5, <1>7, <2>1, <2>3
    <3>2. (u \o r)[i] = r[1]
      BY <1>6, <1>7, <2>3
    <3>3. r[1] = c[n]
      BY <1>1, <1>3
    <3> QED BY <3>1, <3>2, <3>3
  <2>4. CASE i > Len(u) + 1
    <3>1. PICK k \in 2 .. n : i = Len(u) + k
      <4>1. i - Len(u) \in 2 .. n /\ i = Len(u) + (i - Len(u))
        BY <1>1, <1>7, <2>4
      <4> QED BY <4>1
    <3>2. (u \o r)[i] = r[k]
      <4>1. i - Len(u) = k /\ ~(i <= Len(u))
        BY <1>1, <1>7, <3>1
      <4> QED BY <1>6, <4>1
    <3>3. r[k] = c[n - k + 1]
      BY <1>1, <1>3, <3>1
    <3>4. (v \o d)[i] = d[k - 1]
      <4>1. i - Len(v) = k - 1 /\ ~(i <= Len(v))
        BY <1>1, <1>4, <1>7, <3>1
      <4> QED BY <1>5, <2>1, <4>1
    <3>5. /\ k - 1 \in 1 .. n - 1 /\ n - 1 - (k - 1) + 1 = n - k + 1
          /\ n - k + 1 \in 1 .. n - 1
      BY <1>1, <3>1
    <3>6. d[k - 1] = Front(c)[n - k + 1]
      BY <1>2, <3>5
    <3>7. Front(c)[n - k + 1] = c[n - k + 1]
      BY <1>1, <3>5, Zenon
    <3> QED BY <3>2, <3>3, <3>4, <3>6, <3>7, Zenon
  <2>5. i <= Len(u) \/ i = Len(u) + 1 \/ i > Len(u) + 1
    BY <1>1, <1>7
  <2> QED BY <2>2, <2>3, <2>4, <2>5, Zenon
<1>9. Len(v \o d) = Len(u) + n
  BY <1>1, <1>2, <1>4, <1>5, <1>7
<1>10. v \o d = u \o r
  BY <1>5, <1>6, <1>8, <1>9, SeqEqual
<1> QED BY <1>10 DEF v, d, r
-----------------------------------------------------------------------------
(* The inductive invariant *)

(* The variables agree on where the runner is.  The context of the cleanups *)
(* never ends unnoticed, no registration waits while they run, and no       *)
(* request carries the identity of no request at all.                       *)
Shape ==
  /\ IsFiniteSet(wire) /\ \A q \in wire : q.id # 0
  /\ phase = "idle" => /\ cleanups = <<>> /\ appended = <<>>
                       /\ undone = <<>> /\ ~Waiting
  /\ phase \in Storied => undone = <<>> /\ cleanups = appended
  /\ phase # "cleanup" => ~err
  /\ phase = "cleanup" =>
       /\ calling.registers = <<>>
       /\ Waiting => cleanups # <<>>
       /\ expired => lost

(* The receipt that stands for what a request arms.                         *)
Undo(q) ==
  [injector |-> IF q.what = "arm" THEN "fixture" ELSE "toxiproxy",
   target |-> q.target]

(* A request that takes back what a receipt stands for.                     *)
Undoes(q, receipt) ==
  /\ receipt.injector = "fixture" => q.what = "clear"
  /\ receipt.injector = "toxiproxy" =>
       q.what = "remove" /\ q.target = receipt.target

(* A request on its way is the one the runner waits for; when it arms, its  *)
(* receipt will be registered, and when it is a cleanup's, it is what the   *)
(* last receipt asks for.                                                   *)
Expected ==
  \A q \in wire :
    /\ wire = {q} /\ Waiting /\ q.id = calling.id /\ calling.answer = "none"
    /\ q.what \in {"arm", "add"} =>
         phase \in Storied /\ calling.registers = <<Undo(q)>>
    /\ phase = "cleanup" => Undoes(q, Last(cleanups))

(* The receipts that are registered, or will be once the answer is read.    *)
Cover ==
  Range(cleanups) \cup
  (IF calling.answer = "ok" THEN Range(calling.registers) ELSE {})

(* Whatever is armed has a receipt.                                         *)
Covered ==
  /\ \A op \in Operations :
       plans[op] > 0 => \E r \in Cover : r.injector = "fixture"
  /\ \A t \in toxics :
       \E r \in Cover : r.injector = "toxiproxy" /\ r.target = t

(* Once a cleanup is answered, what it undoes is gone.                      *)
Answered ==
  phase = "cleanup" /\ calling.answer # "none" =>
    /\ Last(cleanups).injector = "fixture" =>
         \A op \in Operations : ~(plans[op] > 0)
    /\ Last(cleanups).injector = "toxiproxy" =>
         Last(cleanups).target \notin toxics

(* As long as no answer was lost, or no error was returned.                 *)
Accounted == ~lost \/ (~failed /\ ~err)
Accounts == Accounted => Expected /\ Covered /\ Answered

-----------------------------------------------------------------------------
(* Requests *)

(* There is always an identity that no request on its way carries.          *)
LEMMA NewIdIsNew ==
  ASSUME IsFiniteSet(wire)
  PROVE  NewId \in Nat \ {0} /\ \A q \in wire : q.id # NewId
<1> DEFINE ids == {q.id : q \in wire}
           f == [q \in wire |-> q.id]
           n == Cardinality(wire)
<1>1. f \in [wire -> ids] /\ \A t \in ids : \E q \in wire : f[q] = t
  OBVIOUS
<1>2. f \in Surjection(wire, ids)
  BY <1>1 DEF Surjection
<1>3. IsFiniteSet(ids) /\ Cardinality(ids) <= n
  <2> HIDE DEF f, ids
  <2> QED BY <1>2, FS_Surjection
<1>4. n \in Nat
  BY FS_CardinalityType
<1>5. Cardinality(ids) \in Nat
  BY <1>3, FS_CardinalityType
<1>6. Cardinality(1 .. n + 1) = n + 1
  <2>1. \A m \in Nat : (IF 1 > m + 1 THEN 0 ELSE (m + 1) - 1 + 1) = m + 1
    OBVIOUS
  <2>2. n + 1 \in Int /\ 1 \in Int
    BY <1>4
  <2> HIDE DEF n
  <2>3. Cardinality(1 .. n + 1)
          = IF 1 > n + 1 THEN 0 ELSE (n + 1) - 1 + 1
    BY <2>2, FS_Interval
  <2> QED BY <1>4, <2>1, <2>3, Zenon
<1> HIDE DEF n, ids
<1>7. ~((1 .. n + 1) \subseteq ids)
  <2>1. SUFFICES ASSUME (1 .. n + 1) \subseteq ids
                 PROVE  FALSE
    OBVIOUS
  <2>2. Cardinality(1 .. n + 1) <= Cardinality(ids)
    BY <1>3, <2>1, FS_Subset
  <2> QED BY <1>3, <1>4, <1>5, <1>6, <2>2
<1>8. \E m \in 1 .. n + 1 : \A q \in wire : q.id # m
  BY <1>7 DEF ids
<1>9. NewId \in 1 .. n + 1 /\ \A q \in wire : q.id # NewId
  BY <1>8 DEF NewId, n
<1> QED BY <1>4, <1>9

(* What Enable sends, and what it registers for the answer.                 *)
LEMMA EnableSends ==
  ASSUME NEW f \in Faults, Validate(f), Injectable(f), IsFiniteSet(wire)
  PROVE  /\ EnableRequest(f) \in Request
         /\ EnableRequest(f).id = NewId
         /\ ReceiptOf(f) = Undo(EnableRequest(f)) /\ ReceiptOf(f) \in Receipt
<1>1. NewId \in Nat
  BY NewIdIsNew
<1>2. f \in Fault
  BY RunnerAssumption
<1>3. /\ f.injector \in {"fixture", "toxiproxy"} /\ f.count \in Nat
      /\ f.name \in Names \cup {NoName}
      /\ f.operation \in Operations \cup {NoOperation}
  BY <1>2 DEF Fault, Injectors
<1>4. CASE f.injector = "fixture"
  <2>1. f.operation \in Operations
    BY <1>3, <1>4 DEF Injectable
  <2> DEFINE times == IF f.count = 0 THEN 1 ELSE f.count
  <2>2. times \in Nat \ {0}
    BY <1>3
  <2>3. EnableRequest(f)
          = [id |-> NewId, what |-> "arm", target |-> f.operation,
             times |-> times]
    BY <1>4 DEF EnableRequest
  <2>4. ReceiptOf(f) = [injector |-> "fixture", target |-> f.operation]
    BY <1>4 DEF ReceiptOf
  <2> HIDE DEF times
  <2> QED BY <1>1, <2>1, <2>2, <2>3, <2>4 DEF Request, Receipt, Undo
<1>5. CASE f.injector = "toxiproxy"
  <2>1. f.name \in Names
    BY <1>3 DEF Validate
  <2>2. EnableRequest(f)
          = [id |-> NewId, what |-> "add", target |-> f.name, times |-> 0]
    BY <1>5 DEF EnableRequest
  <2>3. ReceiptOf(f) = [injector |-> "toxiproxy", target |-> f.name]
    BY <1>5 DEF ReceiptOf
  <2> QED BY <1>1, <2>1, <2>2, <2>3 DEF Request, Receipt, Undo
<1> QED BY <1>3, <1>4, <1>5

LEMMA DisableSends ==
  ASSUME NEW receipt \in Receipt, receipt # Other, IsFiniteSet(wire)
  PROVE  /\ DisableRequest(receipt) \in Request
         /\ DisableRequest(receipt).id = NewId
         /\ DisableRequest(receipt).what \notin {"arm", "add"}
         /\ Undoes(DisableRequest(receipt), receipt)
<1>1. NewId \in Nat
  BY NewIdIsNew
<1>2. CASE receipt \in [injector : {"fixture"}, target : Operations]
  <2>1. receipt.injector = "fixture"
    BY <1>2
  <2>2. DisableRequest(receipt)
          = [id |-> NewId, what |-> "clear", target |-> NoName, times |-> 0]
    BY <2>1 DEF DisableRequest
  <2> QED BY <1>1, <2>1, <2>2 DEF Request, Undoes
<1>3. CASE receipt \in [injector : {"toxiproxy"}, target : Names]
  <2>1. receipt.injector = "toxiproxy" /\ receipt.target \in Names
    BY <1>3
  <2>2. DisableRequest(receipt)
          = [id |-> NewId, what |-> "remove", target |-> receipt.target,
             times |-> 0]
    BY <2>1 DEF DisableRequest
  <2> QED BY <1>1, <2>1, <2>2 DEF Request, Undoes
<1> QED BY <1>2, <1>3 DEF Receipt

-----------------------------------------------------------------------------
(* The steps of the runner: a step of the story returns, a request leaves,  *)
(* or a cleanup returns                                                     *)

StepTaken ==
  \E failure \in BOOLEAN, registered \in Seq(Receipt) :
    /\ phase \in Storied
    /\ StepReturns(StepStatus(failure), failure, registered)
    /\ calling' = Idle /\ UNCHANGED external
    /\ \/ ~Waiting /\ lost' = lost
       \/ /\ calling.answer # "none" /\ lost' = lost
          /\ calling.answer = "ok" => registered = calling.registers
       \/ failure /\ lost' = TRUE

RequestSent ==
  \E q \in Request, registers \in Seq(Receipt) :
    /\ phase # "idle" /\ ~Waiting /\ q.id = NewId
    /\ Send(q, registers)
    /\ q.what \in {"arm", "add"} =>
         phase \in Storied /\ registers = <<Undo(q)>>
    /\ phase = "cleanup" =>
         registers = <<>> /\ cleanups # <<>> /\ Undoes(q, Last(cleanups))
    /\ UNCHANGED <<plans, toxics, phase, cleanups, expired, err, story,
                   steps, appended, undone, record, failed, botched, lost>>

CleanupTaken ==
  \E failure \in BOOLEAN :
    /\ phase = "cleanup" /\ cleanups # <<>>
    /\ CleanupReturns(failure)
    /\ calling' = Idle /\ UNCHANGED external
    /\ \/ Last(cleanups) = Other /\ ~Waiting /\ lost' = lost
       \/ calling.answer # "none" /\ lost' = lost
       \/ failure /\ lost' = TRUE

LEMMA StepFailsView ==
  ASSUME phase \in Storied, StepFails, calling' = Idle, UNCHANGED external,
         \/ ~Waiting /\ lost' = lost
         \/ calling.answer \notin {"none", "ok"} /\ lost' = lost
         \/ lost' = TRUE
  PROVE  StepTaken
<1>1. TRUE \in BOOLEAN /\ <<>> \in Seq(Receipt)
  BY EmptySeq
<1>2. StepReturns(StepStatus(TRUE), TRUE, <<>>)
  BY DEF StepFails
<1> QED BY <1>1, <1>2, Zenon DEF StepTaken

LEMMA OtherView ==
  ASSUME OtherStep
  PROVE  StepTaken
<1>1. phase \in Storied /\ ~Waiting /\ UNCHANGED external /\ lost' = lost
  BY DEF OtherStep, CanStep, Storied
<1>2. calling' = Idle
  BY DEF OtherStep, CanStep, Waiting
<1>3. PICK failure \in BOOLEAN, registered \in {<<>>, <<Other>>} :
        StepReturns(StepStatus(failure), failure, registered)
  BY DEF OtherStep
<1>4. Other \in Receipt
  BY DEF Receipt
<1>5. <<>> \in Seq(Receipt) /\ <<Other>> \in Seq(Receipt)
  BY <1>4
<1>6. registered \in Seq(Receipt)
  BY <1>3, <1>5, Zenon
<1> QED BY <1>1, <1>2, <1>3, <1>6, Zenon DEF StepTaken

LEMMA AssertionView ==
  ASSUME Assertion
  PROVE  StepTaken
<1>1. phase \in Storied /\ ~Waiting /\ UNCHANGED external /\ lost' = lost
  BY DEF Assertion, CanStep, Storied
<1>2. calling' = Idle
  BY DEF Assertion, CanStep, Waiting
<1>3. PICK outcome \in {"passed", "not passed", "error"} :
        StepReturns(AssertionStatus(outcome), outcome # "passed", <<>>)
  BY DEF Assertion
<1> DEFINE failure == outcome # "passed"
<1>4. AssertionStatus(outcome) = StepStatus(failure)
  BY DEF AssertionStatus, StepStatus
<1>5. failure \in BOOLEAN /\ StepReturns(StepStatus(failure), failure, <<>>)
  BY <1>3, <1>4, Zenon
<1> HIDE DEF failure
<1>6. <<>> \in Seq(Receipt)
  BY EmptySeq
<1> QED BY <1>1, <1>2, <1>5, <1>6, Zenon DEF StepTaken

LEMMA EnableView ==
  ASSUME Shape, NEW f \in Faults, EnableStep(f)
  PROVE  StepTaken \/ RequestSent
<1>1. phase \in Storied /\ phase # "idle" /\ phase # "cleanup" /\ ~Waiting
  BY DEF EnableStep, CanStep, Storied
<1>2. CASE StepFails /\ UNCHANGED <<external, calling, lost>>
  BY <1>1, <1>2, StepFailsView DEF Waiting
<1>3. CASE /\ Validate(f) /\ Injectable(f)
           /\ Send(EnableRequest(f), <<ReceiptOf(f)>>)
           /\ UNCHANGED <<plans, toxics, phase, cleanups, expired, err, story,
                          steps, appended, undone, record, failed, botched,
                          lost>>
  <2>1. /\ EnableRequest(f) \in Request /\ EnableRequest(f).id = NewId
        /\ ReceiptOf(f) = Undo(EnableRequest(f)) /\ ReceiptOf(f) \in Receipt
    BY <1>3, EnableSends DEF Shape
  <2>2. <<ReceiptOf(f)>> \in Seq(Receipt)
    BY <2>1
  <2>3. <<ReceiptOf(f)>> = <<Undo(EnableRequest(f))>>
    BY <2>1
  <2> QED BY <1>1, <1>3, <2>1, <2>2, <2>3, Zenon DEF RequestSent
<1> QED BY <1>2, <1>3 DEF EnableStep

LEMMA DisableView ==
  ASSUME TypeOK, Shape, NEW i \in DOMAIN cleanups, DisableStep(cleanups[i])
  PROVE  StepTaken \/ RequestSent
<1> DEFINE receipt == cleanups[i]
<1>1. phase \in Storied /\ phase # "idle" /\ phase # "cleanup" /\ ~Waiting
  BY DEF DisableStep, CanStep, Storied
<1>2. receipt \in Receipt /\ receipt # Other
  BY DEF DisableStep, TypeOK
<1> HIDE DEF receipt
<1>3. CASE StepFails /\ UNCHANGED <<external, calling, lost>>
  BY <1>1, <1>3, StepFailsView DEF Waiting
<1>4. CASE /\ Send(DisableRequest(receipt), <<>>)
           /\ UNCHANGED <<plans, toxics, phase, cleanups, expired, err, story,
                          steps, appended, undone, record, failed, botched,
                          lost>>
  <2>1. /\ DisableRequest(receipt) \in Request
        /\ DisableRequest(receipt).id = NewId
        /\ DisableRequest(receipt).what \notin {"arm", "add"}
    BY <1>2, DisableSends DEF Shape
  <2>2. <<>> \in Seq(Receipt)
    BY EmptySeq
  <2> QED BY <1>1, <1>4, <2>1, <2>2, Zenon DEF RequestSent
<1> QED BY <1>3, <1>4 DEF DisableStep, receipt

LEMMA AnsweredView ==
  ASSUME TypeOK, StepAnswered
  PROVE  StepTaken
<1>1. /\ phase \in Storied /\ calling.answer # "none" /\ calling' = Idle
      /\ UNCHANGED external /\ lost' = lost
  BY DEF StepAnswered
<1>2. calling.registers \in Seq(Receipt)
  BY DEF TypeOK
<1>3. CASE /\ calling.answer = "ok"
           /\ StepReturns(StepStatus(FALSE), FALSE, calling.registers)
  BY <1>1, <1>2, <1>3, Zenon DEF StepTaken
<1>4. CASE calling.answer = "refused" /\ StepFails
  BY <1>1, <1>4, StepFailsView
<1> QED BY <1>3, <1>4 DEF StepAnswered

LEMMA CleanupView ==
  ASSUME TypeOK, Shape, CallCleanup \/ DisableAnswered \/ DisableAbandoned
  PROVE  RequestSent \/ CleanupTaken
<1>1. CASE CallCleanup
  <2>1. phase = "cleanup" /\ ~Waiting /\ cleanups # <<>> /\ phase # "idle"
    BY <1>1 DEF CallCleanup
  <2>2. ASSUME NEW failure \in BOOLEAN, Last(cleanups) = Other,
               CleanupReturns(failure), UNCHANGED <<external, calling, lost>>
        PROVE  CleanupTaken
    BY <2>1, <2>2, Zenon DEF CleanupTaken, Waiting
  <2>3. CASE /\ expired /\ CleanupReturns(TRUE)
             /\ UNCHANGED <<external, calling, lost>>
    <3>1. lost' = TRUE
      BY <2>1, <2>3 DEF Shape, TypeOK
    <3> QED BY <2>1, <2>3, <3>1, Zenon DEF CleanupTaken, Waiting
  <2>4. CASE /\ Last(cleanups) # Other
             /\ Send(DisableRequest(Last(cleanups)), <<>>)
             /\ UNCHANGED <<plans, toxics, phase, cleanups, expired, err,
                            story, steps, appended, undone, record, failed,
                            botched, lost>>
    <3>1. Last(cleanups) \in Receipt
      BY <2>1, FrontAndLast DEF TypeOK
    <3>2. /\ DisableRequest(Last(cleanups)) \in Request
          /\ DisableRequest(Last(cleanups)).id = NewId
          /\ DisableRequest(Last(cleanups)).what \notin {"arm", "add"}
          /\ Undoes(DisableRequest(Last(cleanups)), Last(cleanups))
      BY <2>4, <3>1, DisableSends DEF Shape
    <3>3. <<>> \in Seq(Receipt)
      BY EmptySeq
    <3> QED BY <2>1, <2>4, <3>2, <3>3, Zenon DEF RequestSent
  <2> QED BY <1>1, <2>2, <2>3, <2>4 DEF CallCleanup
<1>2. CASE DisableAnswered
  <2>1. cleanups # <<>>
    BY <1>2 DEF DisableAnswered, Shape, Waiting, Idle
  <2> QED BY <1>2, <2>1, Zenon DEF DisableAnswered, CleanupTaken
<1>3. CASE DisableAbandoned
  <2>1. cleanups # <<>>
    BY <1>3 DEF DisableAbandoned, Shape
  <2> QED BY <1>3, <2>1, Zenon DEF DisableAbandoned, CleanupTaken
<1> QED BY <1>1, <1>2, <1>3

LEMMA RunView ==
  ASSUME TypeOK, Shape, Run
  PROVE  StepTaken \/ RequestSent \/ CleanupTaken \/ NextPhase \/ Finish
<1>1. CASE OtherStep
  BY <1>1, OtherView
<1>2. CASE \E f \in Faults : EnableStep(f)
  BY <1>2, EnableView
<1>3. CASE \E i \in DOMAIN cleanups : DisableStep(cleanups[i])
  BY <1>3, DisableView
<1>4. CASE StepAnswered
  BY <1>4, AnsweredView
<1>5. CASE StepAbandoned
  BY <1>5, StepFailsView DEF StepAbandoned
<1>6. CASE Assertion
  BY <1>6, AssertionView
<1>7. CASE CallCleanup \/ DisableAnswered \/ DisableAbandoned
  BY <1>7, CleanupView
<1> QED BY <1>1, <1>2, <1>3, <1>4, <1>5, <1>6, <1>7 DEF Run

-----------------------------------------------------------------------------
(* Types and shape are kept *)

LEMMA IdleType ==
  /\ Idle \in [id : Nat, answer : {"none", "ok", "refused"},
               registers : Seq(Receipt)]
  /\ Idle.id = 0 /\ Idle.answer = "none" /\ Idle.registers = <<>>
  BY EmptySeq DEF Idle

LEMMA InitShape ==
  ASSUME Init
  PROVE  TypeOK /\ Shape
<1>1. plans \in [Operations -> Nat]
  BY DEF Init
<1>2. {unwritten, failed, botched, lost} \subseteq BOOLEAN
  BY Zenon DEF Init
<1>3. /\ toxics \subseteq Names /\ wire \subseteq Request /\ phase = "idle"
      /\ expired \in BOOLEAN /\ err \in BOOLEAN
      /\ story \in Nat /\ steps \in Nat /\ timeline \subseteq {"pass", "fail"}
  BY DEF Init
<1>4. cleanups = <<>> /\ appended = <<>> /\ undone = <<>> /\ calling = Idle
  BY DEF Init
<1>5. TypeOK
  BY <1>1, <1>2, <1>3, <1>4, IdleType, EmptySeq DEF TypeOK
<1>6. Shape
  BY <1>4, FS_EmptySet DEF Init, Shape, Waiting, Storied
<1> QED BY <1>5, <1>6

LEMMA StepTakenShape ==
  ASSUME TypeOK, Shape, StepTaken
  PROVE  TypeOK' /\ Shape'
<1>1. PICK failure \in BOOLEAN, registered \in Seq(Receipt) :
        /\ phase \in Storied
        /\ StepReturns(StepStatus(failure), failure, registered)
        /\ calling' = Idle /\ UNCHANGED external
        /\ lost' = lost \/ lost' = TRUE
  BY DEF StepTaken
<1>2. /\ steps' = steps + 1 /\ Record(StepStatus(failure))
      /\ cleanups' = cleanups \o registered
      /\ appended' = appended \o registered
      /\ UNCHANGED <<story, undone, failed, botched>>
      /\ \/ phase' = "cleanup" /\ err' = TRUE /\ expired' = FALSE
         \/ UNCHANGED <<phase, err, expired>>
  BY <1>1 DEF StepReturns, StartCleanup
<1>3. StepStatus(failure) \in {"pass", "fail"}
  BY DEF StepStatus
<1>4. timeline' \subseteq {"pass", "fail"}
  BY <1>2, <1>3 DEF Record, TypeOK
<1>5. {unwritten', failed', botched', lost'} \subseteq BOOLEAN
  BY <1>1, <1>2, Zenon DEF Record, TypeOK
<1>6. expired' \in BOOLEAN /\ err' \in BOOLEAN
  BY <1>2, Zenon DEF TypeOK
<1>7. cleanups' \in Seq(Receipt) /\ appended' \in Seq(Receipt)
  BY <1>2, ConcatProperties DEF TypeOK
<1>8. UNCHANGED <<plans, toxics, wire>>
  BY <1>1 DEF external
<1>9. TypeOK'
  BY <1>1, <1>2, <1>4, <1>5, <1>6, <1>7, <1>8, IdleType DEF TypeOK, Storied
<1>10. Shape'
  BY <1>1, <1>2, <1>8, IdleType DEF Shape, Storied, Waiting
<1> QED BY <1>9, <1>10

LEMMA RequestSentShape ==
  ASSUME TypeOK, Shape, RequestSent
  PROVE  TypeOK' /\ Shape'
<1>1. PICK q \in Request, registers \in Seq(Receipt) :
        /\ phase # "idle" /\ ~Waiting /\ q.id = NewId
        /\ Send(q, registers)
        /\ phase = "cleanup" => registers = <<>> /\ cleanups # <<>>
        /\ UNCHANGED <<plans, toxics, phase, cleanups, expired, err, story,
                       steps, appended, undone, record, failed, botched, lost>>
  BY DEF RequestSent
<1>2. /\ wire' = wire \cup {q}
      /\ calling' = [id |-> q.id, answer |-> "none", registers |-> registers]
  BY <1>1 DEF Send
<1>3. q.id \in Nat \ {0}
  BY <1>1, NewIdIsNew DEF Shape
<1>4. TypeOK'
  BY <1>1, <1>2, <1>3 DEF TypeOK, record
<1>5. IsFiniteSet(wire')
  BY <1>2, FS_AddElement DEF Shape
<1>6. Shape'
  BY <1>1, <1>2, <1>3, <1>5 DEF Shape, Storied, Waiting
<1> QED BY <1>4, <1>6

LEMMA CleanupTakenShape ==
  ASSUME TypeOK, Shape, CleanupTaken
  PROVE  TypeOK' /\ Shape'
<1>1. PICK failure \in BOOLEAN :
        /\ phase = "cleanup" /\ cleanups # <<>>
        /\ CleanupReturns(failure)
        /\ calling' = Idle /\ UNCHANGED external
        /\ lost' = lost \/ lost' = TRUE
  BY DEF CleanupTaken
<1>2. /\ undone' = Append(undone, Last(cleanups))
      /\ cleanups' = Front(cleanups)
      /\ err' = (err \/ failure) /\ botched' = (botched \/ failure)
      /\ UNCHANGED <<phase, expired, story, steps, appended, record, failed>>
  BY <1>1 DEF CleanupReturns
<1>3. {unwritten', failed', botched', lost'} \subseteq BOOLEAN
  BY <1>1, <1>2, Zenon DEF TypeOK, record
<1>4. expired' \in BOOLEAN /\ err' \in BOOLEAN
  BY <1>2, Zenon DEF TypeOK
<1>5. Last(cleanups) \in Receipt /\ Front(cleanups) \in Seq(Receipt)
  BY <1>1, FrontAndLast DEF TypeOK
<1>6. undone' \in Seq(Receipt) /\ cleanups' \in Seq(Receipt)
  BY <1>2, <1>5, AppendProperties DEF TypeOK
<1>7. UNCHANGED <<plans, toxics, wire>> /\ UNCHANGED timeline
  BY <1>1, <1>2 DEF external, record
<1>8. TypeOK'
  BY <1>1, <1>2, <1>3, <1>4, <1>6, <1>7, IdleType DEF TypeOK
<1>9. Shape'
  BY <1>1, <1>2, <1>7, IdleType DEF Shape, Storied, Waiting
<1> QED BY <1>8, <1>9

LEMMA RunShape ==
  ASSUME TypeOK, Shape, NextPhase \/ Finish
  PROVE  TypeOK' /\ Shape'
<1>1. CASE NextPhase
  <2>1. TypeOK'
    BY <1>1 DEF NextPhase, StartCleanup, TypeOK, Storied, external, record
  <2>2. Shape'
    BY <1>1, IdleType
    DEF NextPhase, StartCleanup, Shape, Storied, external, Waiting
  <2> QED BY <2>1, <2>2
<1>2. CASE Finish
  <2>1. {unwritten', failed', botched', lost'} \subseteq BOOLEAN
    BY <1>2, Zenon DEF Finish, TypeOK
  <2>2. TypeOK'
    BY <1>2, <2>1, EmptySeq DEF Finish, TypeOK, external
  <2>3. Shape'
    BY <1>2 DEF Finish, Shape, Storied, external, Waiting
  <2> QED BY <2>2, <2>3
<1> QED BY <1>1, <1>2

LEMMA BeginShape ==
  ASSUME TypeOK, Shape, Begin
  PROVE  TypeOK' /\ Shape'
<1>1. /\ phase = "idle" /\ story' = story + 1
      /\ UNCHANGED <<toxics, cleanups, calling, expired, err, steps, appended,
                     undone, timeline, unwritten, botched>>
  BY DEF Begin, record
<1>2. CASE /\ plans' = [op \in Operations |-> 0] /\ phase' = "given"
           /\ UNCHANGED <<wire, failed, lost>>
  <2>1. TypeOK'
    BY <1>1, <1>2 DEF TypeOK, Storied
  <2>2. Shape'
    BY <1>1, <1>2 DEF Shape, Storied, Waiting
  <2> QED BY <2>1, <2>2
<1>3. CASE /\ failed' = TRUE /\ lost' = TRUE
           /\ wire' = wire \cup {[id |-> NewId, what |-> "clear",
                                  target |-> NoName, times |-> 0]}
           /\ UNCHANGED <<plans, phase>>
  <2> DEFINE q == [id |-> NewId, what |-> "clear", target |-> NoName,
                   times |-> 0]
  <2>1. NewId \in Nat \ {0}
    BY NewIdIsNew DEF Shape
  <2>2. q \in Request /\ q.id # 0
    BY <2>1 DEF Request
  <2>3. wire' = wire \cup {q}
    BY <1>3
  <2> HIDE DEF q
  <2>4. {unwritten', failed', botched', lost'} \subseteq BOOLEAN
    BY <1>1, <1>3, Zenon DEF TypeOK
  <2>5. UNCHANGED <<plans, phase>> /\ lost' = TRUE
    BY <1>3
  <2>6. TypeOK'
    BY <1>1, <2>2, <2>3, <2>4, <2>5 DEF TypeOK
  <2>7. IsFiniteSet(wire')
    BY <2>3, FS_AddElement DEF Shape
  <2>8. Shape'
    BY <1>1, <2>2, <2>3, <2>5, <2>7 DEF Shape, Storied, Waiting
  <2> QED BY <2>6, <2>8
<1> QED BY <1>2, <1>3 DEF Begin

(* What a request is, by what it asks for.                                  *)
LEMMA RequestCases ==
  ASSUME NEW q \in Request
  PROVE  /\ q.id \in Nat /\ q.what \in {"arm", "clear", "add", "remove"}
         /\ q.what = "arm" => q.target \in Operations /\ q.times \in Nat \ {0}
         /\ q.what \in {"add", "remove"} => q.target \in Names
  BY DEF Request

(* The planes, by what is asked for.                                        *)
LEMMA ApplyView ==
  ASSUME TypeOK, NEW q \in wire, Apply(q)
  PROVE  /\ wire' = wire \ {q}
         /\ q.what = "arm" =>
              plans' = [plans EXCEPT ![q.target] = q.times] /\ toxics' = toxics
         /\ q.what = "clear" =>
              plans' = [op \in Operations |-> 0] /\ toxics' = toxics
         /\ q.what = "add" =>
              plans' = plans /\ toxics' = toxics \cup {q.target}
         /\ q.what = "remove" =>
              plans' = plans /\ toxics' = toxics \ {q.target}
         /\ calling' = IF calling.id = q.id
                       THEN [calling EXCEPT !.answer = Verdict(q)] ELSE calling
         /\ UNCHANGED <<phase, cleanups, expired, err, story, steps, appended,
                        undone, timeline, unwritten, failed, botched, lost>>
<1>1. q.what \in {"arm", "clear", "add", "remove"}
  BY RequestCases DEF TypeOK
<1>2. /\ plans' = CASE q.what = "arm" -> [plans EXCEPT ![q.target] = q.times]
                  [] q.what = "clear" -> [op \in Operations |-> 0]
                  [] OTHER -> plans
      /\ toxics' = CASE q.what = "add" -> toxics \cup {q.target}
                   [] q.what = "remove" -> toxics \ {q.target}
                   [] OTHER -> toxics
  BY DEF Apply
<1>3. /\ q.what = "arm" => plans' = [plans EXCEPT ![q.target] = q.times]
      /\ q.what = "clear" => plans' = [op \in Operations |-> 0]
      /\ q.what \in {"add", "remove"} => plans' = plans
  BY <1>2
<1>4. /\ q.what \in {"arm", "clear"} => toxics' = toxics
      /\ q.what = "add" => toxics' = toxics \cup {q.target}
      /\ q.what = "remove" => toxics' = toxics \ {q.target}
  BY <1>2
<1>5. /\ wire' = wire \ {q}
      /\ calling' = IF calling.id = q.id
                    THEN [calling EXCEPT !.answer = Verdict(q)] ELSE calling
      /\ UNCHANGED <<phase, cleanups, expired, err, story, steps, appended,
                     undone, timeline, unwritten, failed, botched, lost>>
  BY DEF Apply, record
<1> QED BY <1>3, <1>4, <1>5

LEMMA VerdictView ==
  ASSUME TypeOK, NEW q \in wire,
         calling' = [calling EXCEPT !.answer = Verdict(q)]
  PROVE  /\ calling' \in [id : Nat, answer : {"none", "ok", "refused"},
                          registers : Seq(Receipt)]
         /\ calling'.id = calling.id /\ calling'.answer = Verdict(q)
         /\ calling'.registers = calling.registers /\ calling'.answer # "none"
<1>1. Verdict(q) \in {"ok", "refused"}
  BY DEF Verdict
<1> QED BY <1>1 DEF TypeOK

LEMMA ApplyShape ==
  ASSUME TypeOK, Shape, NEW q \in wire, Apply(q)
  PROVE  TypeOK' /\ Shape'
<1>1. /\ wire' = wire \ {q}
      /\ UNCHANGED <<phase, cleanups, expired, err, story, steps, appended,
                     undone, timeline, unwritten, failed, botched, lost>>
  BY ApplyView
<1>2. q \in Request /\ q.id # 0
  BY DEF TypeOK, Shape
<1>3. plans' \in [Operations -> Nat] /\ toxics' \subseteq Names
  <2>1. CASE q.what = "arm"
    BY <1>2, <2>1, ApplyView, RequestCases DEF TypeOK
  <2>2. CASE q.what = "clear"
    BY <2>2, ApplyView DEF TypeOK
  <2>3. CASE q.what \in {"add", "remove"}
    BY <1>2, <2>3, ApplyView, RequestCases DEF TypeOK
  <2> QED BY <1>2, <2>1, <2>2, <2>3, RequestCases
<1>4. /\ calling' \in [id : Nat, answer : {"none", "ok", "refused"},
                       registers : Seq(Receipt)]
      /\ calling'.registers = calling.registers
      /\ calling' # Idle => calling # Idle
  <2>1. CASE calling.id = q.id
    <3>1. calling # Idle
      BY <1>2, <2>1, IdleType
    <3> QED BY <2>1, <3>1, ApplyView, VerdictView
  <2>2. CASE calling.id # q.id
    BY <2>2, ApplyView DEF TypeOK
  <2> QED BY <2>1, <2>2
<1>5. IsFiniteSet(wire')
  BY <1>1, FS_RemoveElement DEF Shape
<1>6. TypeOK'
  BY <1>1, <1>3, <1>4 DEF TypeOK
<1>7. Shape'
  BY <1>1, <1>4, <1>5 DEF Shape, Waiting
<1> QED BY <1>6, <1>7

LEMMA EnvironmentShape ==
  ASSUME TypeOK, Shape, Environment
  PROVE  TypeOK' /\ Shape'
<1>1. CASE \E q \in wire : Apply(q)
  BY <1>1, ApplyShape
<1>2. CASE \E q \in wire : Drop(q)
  <2>1. PICK q \in wire : Drop(q)
    BY <1>2
  <2>2. TypeOK'
    BY <2>1 DEF Drop, TypeOK, record
  <2>3. IsFiniteSet(wire')
    BY <2>1, FS_RemoveElement DEF Drop, Shape
  <2>4. Shape'
    BY <2>1, <2>3 DEF Drop, Shape, Waiting
  <2> QED BY <2>2, <2>4
<1>3. CASE \E op \in Operations : Fire(op)
  <2>1. PICK op \in Operations : Fire(op)
    BY <1>3
  <2>2. plans' \in [Operations -> Nat]
    BY <2>1 DEF Fire, TypeOK
  <2>3. TypeOK'
    BY <2>1, <2>2 DEF Fire, TypeOK, record
  <2>4. Shape'
    BY <2>1 DEF Fire, Shape, Waiting
  <2> QED BY <2>3, <2>4
<1>4. CASE ContextEnds
  <2>1. {unwritten', failed', botched', lost'} \subseteq BOOLEAN
    BY <1>4, Zenon DEF ContextEnds, TypeOK, record
  <2>2. TypeOK'
    BY <1>4, <2>1 DEF ContextEnds, TypeOK, external, record
  <2>3. phase = "cleanup" => lost'
    BY <1>4 DEF ContextEnds
  <2>4. /\ phase # "idle" /\ expired' = TRUE
        /\ UNCHANGED <<wire, phase, cleanups, calling, err, appended, undone>>
    BY <1>4 DEF ContextEnds, external
  <2>5. Shape'
    BY <2>3, <2>4 DEF Shape, Waiting
  <2> QED BY <2>2, <2>5
<1> QED BY <1>1, <1>2, <1>3, <1>4 DEF Environment

LEMMA StutterShape ==
  ASSUME TypeOK, Shape, UNCHANGED vars
  PROVE  TypeOK' /\ Shape'
  BY DEF vars, TypeOK, Shape, Waiting

LEMMA NextShape ==
  ASSUME TypeOK, Shape, [Next]_vars
  PROVE  TypeOK' /\ Shape'
  BY RunView, StepTakenShape, RequestSentShape, CleanupTakenShape, RunShape,
     BeginShape, EnvironmentShape, StutterShape
  DEF Next

LEMMA ScenarioShape == Spec => [](TypeOK /\ Shape)
<1>1. Init => TypeOK /\ Shape
  BY InitShape
<1>2. (TypeOK /\ Shape) /\ [Next]_vars => (TypeOK /\ Shape)'
  BY NextShape
<1> QED BY <1>1, <1>2, PTL DEF Spec

(* Every variable keeps its shape; in particular a plan is only asked for   *)
(* with a positive Times, and a toxic only under the name of its fault      *)
(* (Enable, Disable).                                                       *)
THEOREM ScenarioTypes == Spec => []TypeOK
  BY ScenarioShape, PTL

-----------------------------------------------------------------------------
(* The cleanups *)

LEMMA NothingUndone ==
  ASSUME NEW a \in Seq(Receipt)
  PROVE  <<>> \o Reverse(a) = Reverse(a)
<1>1. Reverse(a) \in Seq(Receipt)
  BY ReverseIs
<1> QED BY <1>1, ConcatEmptySeq

LEMMA CleanupsUntouched ==
  ASSUME EveryCleanupInReverse, UNCHANGED <<cleanups, appended, undone>>
  PROVE  EveryCleanupInReverse'
<1>1. cleanups' = cleanups /\ appended' = appended /\ undone' = undone
  OBVIOUS
<1> QED BY <1>1, Zenon DEF EveryCleanupInReverse

LEMMA NextReverse ==
  ASSUME TypeOK, Shape, EveryCleanupInReverse, [Next]_vars
  PROVE  EveryCleanupInReverse'
<1>1. TypeOK' /\ Shape'
  BY NextShape
<1>2. CASE StepTaken
  <2>1. undone' = <<>> /\ cleanups' = appended'
    BY <1>2 DEF StepTaken, StepReturns, Shape
  <2>2. appended' \in Seq(Receipt)
    BY <1>1 DEF TypeOK
  <2>3. <<>> \o Reverse(appended') = Reverse(appended')
    BY <2>2, NothingUndone
  <2> QED BY <2>1, <2>3, Zenon DEF EveryCleanupInReverse
<1>3. CASE CleanupTaken
  <2>1. /\ cleanups # <<>> /\ undone' = Append(undone, Last(cleanups))
        /\ cleanups' = Front(cleanups) /\ appended' = appended
    BY <1>3 DEF CleanupTaken, CleanupReturns
  <2>2. cleanups \in Seq(Receipt) /\ undone \in Seq(Receipt)
    BY DEF TypeOK
  <2>3. Append(undone, Last(cleanups)) \o Reverse(Front(cleanups))
          = undone \o Reverse(cleanups)
    BY <2>1, <2>2, PopReversed
  <2> QED BY <2>1, <2>3, Zenon DEF EveryCleanupInReverse
<1>4. CASE Finish
  <2>1. undone' = <<>> /\ cleanups' = appended'
    BY <1>4 DEF Finish
  <2>2. appended' \in Seq(Receipt)
    BY <1>1 DEF TypeOK
  <2>3. <<>> \o Reverse(appended') = Reverse(appended')
    BY <2>2, NothingUndone
  <2> QED BY <2>1, <2>3, Zenon DEF EveryCleanupInReverse
<1>5. CASE RequestSent \/ NextPhase \/ Begin \/ Environment \/ UNCHANGED vars
  <2>1. UNCHANGED <<cleanups, appended, undone>>
    BY <1>5
    DEF RequestSent, NextPhase, Begin, Environment, Apply, Drop, Fire,
        ContextEnds, vars
  <2> QED BY <2>1, CleanupsUntouched
<1> QED BY <1>2, <1>3, <1>4, <1>5, RunView DEF Next

(* Each cleanup that was registered is called once, in reverse order,       *)
(* whatever the cleanups before it return and whenever a context ends, in   *)
(* stories of any length (Run's deferred function).                         *)
THEOREM CleanupsRunInReverse == Spec => []EveryCleanupInReverse
<1>1. Init => EveryCleanupInReverse
  <2>1. Init => undone = <<>> /\ cleanups = <<>> /\ appended = <<>>
    BY DEF Init
  <2>2. <<>> \o Reverse(<<>>) = Reverse(<<>>)
    BY EmptySeq, NothingUndone
  <2> QED BY <2>1, <2>2, Zenon DEF EveryCleanupInReverse
<1>2. TypeOK /\ Shape /\ EveryCleanupInReverse /\ [Next]_vars
        => EveryCleanupInReverse'
  BY NextReverse
<1> QED BY <1>1, <1>2, ScenarioShape, PTL DEF Spec

-----------------------------------------------------------------------------
(* The evidence *)

LEMMA StepEvidence ==
  ASSUME TypeOK, Shape, EvidenceTellsResult, StepTaken
  PROVE  EvidenceTellsResult'
<1>1. PICK failure \in BOOLEAN, registered \in Seq(Receipt) :
        /\ phase \in Storied
        /\ StepReturns(StepStatus(failure), failure, registered)
  BY DEF StepTaken
<1>2. ~err /\ "fail" \notin timeline
  BY <1>1 DEF Shape, EvidenceTellsResult, Storied
<1>3. CASE failure = TRUE
  <2>1. StepStatus(failure) = "fail"
    BY <1>3 DEF StepStatus
  <2>2. \/ timeline' = timeline \cup {"fail"}
        \/ unwritten' = TRUE
    BY <1>1, <2>1 DEF StepReturns, Record
  <2>3. phase' = "cleanup" /\ err' = TRUE
    BY <1>1, <1>3 DEF StepReturns, StartCleanup
  <2> QED BY <2>2, <2>3 DEF EvidenceTellsResult
<1>4. CASE failure = FALSE
  <2>1. StepStatus(failure) = "pass"
    BY <1>4 DEF StepStatus
  <2>2. "fail" \notin timeline'
    BY <1>1, <1>2, <2>1 DEF StepReturns, Record
  <2>3. ~err'
    BY <1>1, <1>2, <1>4 DEF StepReturns
  <2> QED BY <2>2, <2>3 DEF EvidenceTellsResult
<1> QED BY <1>3, <1>4

LEMMA NextEvidence ==
  ASSUME TypeOK, Shape, EvidenceTellsResult, [Next]_vars
  PROVE  EvidenceTellsResult'
<1>1. CASE StepTaken
  BY <1>1, StepEvidence
<1>2. CASE CleanupTaken
  <2>1. PICK failure \in BOOLEAN :
          phase = "cleanup" /\ CleanupReturns(failure)
    BY <1>2 DEF CleanupTaken
  <2>2. /\ err' = (err \/ failure) /\ botched' = (botched \/ failure)
        /\ UNCHANGED <<phase, timeline, unwritten>>
    BY <2>1 DEF CleanupReturns, record
  <2> QED BY <2>1, <2>2 DEF EvidenceTellsResult
<1>3. CASE Finish
  BY <1>3 DEF Finish, EvidenceTellsResult
<1>4. CASE NextPhase
  <2>1. ~err /\ "fail" \notin timeline
    BY <1>4 DEF NextPhase, Shape, EvidenceTellsResult, Storied
  <2>2. ~err' /\ timeline' = timeline
    BY <1>4, <2>1 DEF NextPhase, StartCleanup, record
  <2> QED BY <2>1, <2>2 DEF EvidenceTellsResult
<1>5. CASE Begin
  <2>1. ~err /\ "fail" \notin timeline
    BY <1>5 DEF Begin, Shape, EvidenceTellsResult
  <2>2. err' = err /\ timeline' = timeline
    BY <1>5 DEF Begin, record
  <2> QED BY <2>1, <2>2 DEF EvidenceTellsResult
<1>6. CASE RequestSent \/ Environment \/ UNCHANGED vars
  <2>1. UNCHANGED <<phase, err, timeline, unwritten, botched>>
    BY <1>6
    DEF RequestSent, Environment, Apply, Drop, Fire, ContextEnds, record, vars
  <2> QED BY <2>1 DEF EvidenceTellsResult
<1> QED BY <1>1, <1>2, <1>3, <1>4, <1>5, <1>6, RunView DEF Next

(* The checkpoints tell the result of a story of any length: one that says  *)
(* fail is the last and makes Run return an error, and an error without one *)
(* comes from a cleanup or from a checkpoint that could not be written      *)
(* (Run, runSteps).                                                         *)
THEOREM CheckpointsTellResult == Spec => []EvidenceTellsResult
<1>1. Init => EvidenceTellsResult
  BY DEF Init, EvidenceTellsResult
<1>2. TypeOK /\ Shape /\ EvidenceTellsResult /\ [Next]_vars
        => EvidenceTellsResult'
  BY NextEvidence
<1> QED BY <1>1, <1>2, ScenarioShape, PTL DEF Spec

-----------------------------------------------------------------------------
(* What is armed is accounted for *)

LEMMA RangeFacts ==
  /\ Range(<<>>) = {}
  /\ \A r : Range(<<r>>) = {r}
  BY DEF Range

LEMMA RangePop ==
  ASSUME NEW S, NEW c \in Seq(S), c # <<>>, NEW r \in Range(c)
  PROVE  r \in Range(Front(c)) \/ r = Last(c)
<1>1. /\ Len(c) \in Nat \ {0} /\ Last(c) = c[Len(c)]
      /\ Front(c) \in Seq(S) /\ Len(Front(c)) = Len(c) - 1
      /\ \A i \in 1 .. Len(c) - 1 : Front(c)[i] = c[i]
  BY FrontAndLast
<1>2. PICK i \in 1 .. Len(c) : r = c[i]
  BY RangeEquality
<1>3. CASE i = Len(c)
  BY <1>1, <1>2, <1>3
<1>4. CASE i # Len(c)
  <2>1. i \in 1 .. Len(c) - 1 /\ i \in 1 .. Len(Front(c))
    BY <1>1, <1>4
  <2>2. r = Front(c)[i]
    BY <1>1, <1>2, <2>1, Zenon
  <2>3. Range(Front(c)) = {Front(c)[j] : j \in 1 .. Len(Front(c))}
    BY <1>1, RangeEquality
  <2> QED BY <2>1, <2>2, <2>3, Zenon
<1> QED BY <1>3, <1>4

(* When the runner waits for no answer, or has one, nothing is on its way.  *)
LEMMA NothingOnItsWay ==
  ASSUME Expected, ~Waiting \/ calling.answer # "none"
  PROVE  wire = {}
  BY DEF Expected

(* While no answer has arrived, or none that registers, the receipts are    *)
(* the registered ones.                                                     *)
LEMMA CoverIs ==
  ASSUME TypeOK
  PROVE  /\ calling.answer # "ok" => Cover = Range(cleanups)
         /\ calling.registers = <<>> => Cover = Range(cleanups)
         /\ calling.answer = "ok" =>
              Cover = Range(cleanups) \cup Range(calling.registers)
  BY RangeFacts DEF Cover

LEMMA StepAccounts ==
  ASSUME TypeOK, Shape, Accounts, StepTaken, Accounted'
  PROVE  Expected' /\ Covered' /\ Answered'
<1>1. PICK failure \in BOOLEAN, registered \in Seq(Receipt) :
        /\ phase \in Storied
        /\ StepReturns(StepStatus(failure), failure, registered)
        /\ calling' = Idle /\ UNCHANGED external
        /\ \/ ~Waiting /\ lost' = lost
           \/ /\ calling.answer # "none" /\ lost' = lost
              /\ calling.answer = "ok" => registered = calling.registers
           \/ failure /\ lost' = TRUE
  BY DEF StepTaken
<1>2. /\ cleanups' = cleanups \o registered /\ failed' = failed
      /\ failure => err' = TRUE
  BY <1>1 DEF StepReturns, StartCleanup
<1>3. ~err
  BY <1>1 DEF Shape, Storied
<1>4. /\ lost' = lost /\ (~Waiting \/ calling.answer # "none")
      /\ calling.answer = "ok" => registered = calling.registers
  BY <1>1, <1>2, IdleType DEF Accounted, Waiting
<1>5. Expected /\ Covered
  BY <1>2, <1>3, <1>4 DEF Accounted, Accounts
<1>6. wire' = {} /\ plans' = plans /\ toxics' = toxics
  BY <1>1, <1>4, <1>5, NothingOnItsWay DEF external
<1>7. Range(cleanups') = Range(cleanups) \cup Range(registered)
  BY <1>2, RangeConcatenation DEF TypeOK
<1>8. Range(cleanups') \subseteq Cover'
  BY DEF Cover
<1>9. Cover \subseteq Cover'
  BY <1>4, <1>7, <1>8, CoverIs
<1>10. Covered'
  BY <1>5, <1>6, <1>9 DEF Covered
<1>11. Expected' /\ Answered'
  BY <1>1, <1>6, IdleType DEF Expected, Answered
<1> QED BY <1>10, <1>11

LEMMA SentAccounts ==
  ASSUME TypeOK, Shape, Accounts, RequestSent, Accounted'
  PROVE  Expected' /\ Covered' /\ Answered'
<1>1. PICK q \in Request, registers \in Seq(Receipt) :
        /\ phase # "idle" /\ ~Waiting /\ q.id = NewId
        /\ Send(q, registers)
        /\ q.what \in {"arm", "add"} =>
             phase \in Storied /\ registers = <<Undo(q)>>
        /\ phase = "cleanup" =>
             registers = <<>> /\ cleanups # <<>> /\ Undoes(q, Last(cleanups))
        /\ UNCHANGED <<plans, toxics, phase, cleanups, expired, err, story,
                       steps, appended, undone, record, failed, botched, lost>>
  BY DEF RequestSent
<1>2. Expected /\ Covered
  BY <1>1 DEF Accounted, Accounts
<1>3. wire' = {q}
  BY <1>1, <1>2, NothingOnItsWay DEF Send
<1>4. /\ calling'.id = q.id /\ calling'.answer = "none"
      /\ calling'.registers = registers
  BY <1>1 DEF Send
<1>5. calling' # Idle
  BY <1>1, <1>4, NewIdIsNew, IdleType DEF Shape
<1>6. Expected'
  BY <1>1, <1>3, <1>4, <1>5 DEF Expected, Waiting
<1>7. Cover = Range(cleanups)
  BY <1>1, CoverIs, IdleType DEF Waiting
<1>8. Cover' = Range(cleanups)
  BY <1>1, <1>4 DEF Cover
<1>9. Covered'
  BY <1>1, <1>2, <1>7, <1>8 DEF Covered
<1>10. Answered'
  BY <1>4 DEF Answered
<1> QED BY <1>6, <1>9, <1>10

LEMMA CleanupAccounts ==
  ASSUME TypeOK, Shape, Accounts, CleanupTaken, Accounted'
  PROVE  Expected' /\ Covered' /\ Answered'
<1>1. PICK failure \in BOOLEAN :
        /\ phase = "cleanup" /\ cleanups # <<>>
        /\ CleanupReturns(failure)
        /\ calling' = Idle /\ UNCHANGED external
        /\ \/ Last(cleanups) = Other /\ ~Waiting /\ lost' = lost
           \/ calling.answer # "none" /\ lost' = lost
           \/ failure /\ lost' = TRUE
  BY DEF CleanupTaken
<1>2. /\ cleanups' = Front(cleanups) /\ failed' = failed
      /\ err' = (err \/ failure)
  BY <1>1 DEF CleanupReturns
<1>3. /\ lost' = lost
      /\ (Last(cleanups) = Other /\ ~Waiting) \/ calling.answer # "none"
  BY <1>1, <1>2, Zenon DEF Accounted
<1>4. Accounted
  BY <1>2, <1>3, Zenon DEF Accounted
<1>5. Expected /\ Covered /\ Answered
  BY <1>4 DEF Accounts
<1>6. wire' = {} /\ plans' = plans /\ toxics' = toxics
  BY <1>1, <1>3, <1>5, NothingOnItsWay DEF external
<1>7. Cover = Range(cleanups)
  BY <1>1, CoverIs DEF Shape
<1>8. Cover' = Range(Front(cleanups))
  BY <1>1, <1>2, IdleType DEF Cover
<1>9. \A r \in Cover : r \in Cover' \/ r = Last(cleanups)
  BY <1>1, <1>7, <1>8, RangePop DEF TypeOK
<1>10. Other.injector = "other"
  BY DEF Other
<1>11. ASSUME NEW op \in Operations, plans'[op] > 0
       PROVE  \E r \in Cover' : r.injector = "fixture"
  <2>1. PICK r \in Cover : r.injector = "fixture"
    BY <1>5, <1>6, <1>11 DEF Covered
  <2>2. r # Last(cleanups)
    BY <1>1, <1>3, <1>5, <1>6, <1>10, <1>11, <2>1 DEF Answered
  <2> QED BY <1>9, <2>1, <2>2
<1>12. ASSUME NEW t \in toxics'
       PROVE  \E r \in Cover' : r.injector = "toxiproxy" /\ r.target = t
  <2>1. PICK r \in Cover : r.injector = "toxiproxy" /\ r.target = t
    BY <1>5, <1>6, <1>12 DEF Covered
  <2>2. r # Last(cleanups)
    BY <1>1, <1>3, <1>5, <1>6, <1>10, <1>12, <2>1 DEF Answered
  <2> QED BY <1>9, <2>1, <2>2
<1>13. Covered'
  BY <1>11, <1>12 DEF Covered
<1>14. Expected' /\ Answered'
  BY <1>1, <1>6, IdleType DEF Expected, Answered
<1> QED BY <1>13, <1>14

LEMMA PhaseAccounts ==
  ASSUME TypeOK, Shape, Accounts, NextPhase \/ Finish, Accounted'
  PROVE  Expected' /\ Covered' /\ Answered'
<1>1. /\ ~Waiting /\ UNCHANGED <<external, cleanups, calling>>
  BY DEF NextPhase, Finish
<1>2. Accounted
  <2>1. CASE NextPhase
    BY <2>1 DEF NextPhase, Shape, Storied, Accounted
  <2>2. CASE Finish
    <3>1. failed' = (failed \/ err) /\ lost' = lost
      BY <2>2 DEF Finish
    <3> QED BY <3>1, Zenon DEF Accounted
  <2> QED BY <2>1, <2>2
<1>3. Expected /\ Covered
  BY <1>2 DEF Accounts
<1>4. wire' = {} /\ plans' = plans /\ toxics' = toxics
  BY <1>1, <1>3, NothingOnItsWay DEF external
<1>5. Cover' = Cover
  BY <1>1 DEF Cover
<1>6. Covered'
  BY <1>3, <1>4, <1>5 DEF Covered
<1>7. Expected' /\ Answered'
  BY <1>1, <1>4, IdleType DEF Expected, Answered, Waiting
<1> QED BY <1>6, <1>7

LEMMA BeginAccounts ==
  ASSUME TypeOK, Shape, Accounts, Begin, Accounted'
  PROVE  Expected' /\ Covered' /\ Answered'
<1>1. /\ ~Waiting /\ UNCHANGED <<toxics, cleanups, calling, err>>
  BY DEF Begin, Shape
<1>2. /\ plans' = [op \in Operations |-> 0] /\ phase' = "given"
      /\ UNCHANGED <<wire, failed, lost>>
  BY DEF Begin, Accounted
<1>3. Expected /\ Covered
  BY <1>1, <1>2 DEF Accounted, Accounts
<1>4. wire' = {}
  BY <1>1, <1>2, <1>3, NothingOnItsWay
<1>5. Cover' = Cover
  BY <1>1 DEF Cover
<1>6. \A op \in Operations : ~(plans'[op] > 0)
  BY <1>2
<1>7. Covered'
  BY <1>1, <1>3, <1>5, <1>6 DEF Covered
<1>8. Expected' /\ Answered'
  BY <1>2, <1>4 DEF Expected, Answered
<1> QED BY <1>7, <1>8

(* The awaited request is applied: what it arms is covered by the receipt   *)
(* its answer registers, and what it undoes is gone.                        *)
LEMMA ApplyAccounts ==
  ASSUME TypeOK, Shape, Accounts, NEW q \in wire, Apply(q), Accounted'
  PROVE  Expected' /\ Covered' /\ Answered'
<1>1. /\ wire' = wire \ {q}
      /\ UNCHANGED <<phase, cleanups, err, failed, lost>>
  BY ApplyView
<1>2. Expected /\ Covered
  BY <1>1 DEF Accounted, Accounts
<1>3. /\ wire = {q} /\ q.id = calling.id /\ calling.answer = "none"
      /\ q.what \in {"arm", "add"} =>
           phase \in Storied /\ calling.registers = <<Undo(q)>>
      /\ phase = "cleanup" => Undoes(q, Last(cleanups))
  BY <1>2 DEF Expected
<1>4. calling'.answer = Verdict(q) /\ calling'.registers = calling.registers
  BY <1>3, ApplyView, VerdictView
<1>5. Cover = Range(cleanups)
  BY <1>3, CoverIs
<1>6. Cover \subseteq Cover'
  BY <1>1, <1>5 DEF Cover
<1>7. q \in Request
  BY DEF TypeOK
<1>8. Expected'
  BY <1>1, <1>3 DEF Expected
<1>9. ASSUME q.what \in {"arm", "add"}, Verdict(q) = "ok"
       PROVE  Undo(q) \in Cover'
  <2>1. calling'.registers = <<Undo(q)>> /\ calling'.answer = "ok"
    BY <1>3, <1>4, <1>9
  <2>2. Range(<<Undo(q)>>) = {Undo(q)}
    BY RangeFacts, Zenon
  <2>3. Range(calling'.registers) \subseteq Cover'
    BY <2>1, Zenon DEF Cover
  <2>4. Undo(q) \in Range(calling'.registers)
    BY <2>1, <2>2, Zenon
  <2> QED BY <2>3, <2>4, Zenon
<1>10. CASE q.what = "arm"
  <2>1. toxics' = toxics
    BY <1>10, ApplyView
  <2>2. Verdict(q) = "ok"
    BY <1>10 DEF Verdict
  <2>3. Undo(q) \in Cover'
    BY <1>10, <1>9, <2>2
  <2>4. Undo(q).injector = "fixture"
    BY <1>10 DEF Undo
  <2>5. Covered'
    BY <1>2, <1>6, <2>1, <2>3, <2>4 DEF Covered
  <2>6. Answered'
    BY <1>1, <1>3, <1>10 DEF Answered, Storied
  <2> QED BY <1>8, <2>5, <2>6
<1>11. CASE q.what = "clear"
  <2>1. plans' = [op \in Operations |-> 0] /\ toxics' = toxics
    BY <1>11, ApplyView
  <2>2. \A op \in Operations : ~(plans'[op] > 0)
    BY <2>1
  <2>3. Covered'
    BY <1>2, <1>6, <2>1, <2>2 DEF Covered
  <2>4. Answered'
    BY <1>1, <1>3, <1>11, <2>2 DEF Answered, Undoes
  <2> QED BY <1>8, <2>3, <2>4
<1>12. CASE q.what = "add"
  <2>1. plans' = plans /\ toxics' = toxics \cup {q.target}
    BY <1>12, ApplyView
  <2>2. CASE q.target \in toxics
    <3>1. toxics' = toxics
      BY <2>1, <2>2
    <3>2. Covered'
      BY <1>2, <1>6, <2>1, <3>1 DEF Covered
    <3>3. Answered'
      BY <1>1, <1>3, <1>12 DEF Answered, Storied
    <3> QED BY <1>8, <3>2, <3>3
  <2>3. CASE q.target \notin toxics
    <3>1. Verdict(q) = "ok"
      BY <2>3 DEF Verdict
    <3>2. Undo(q) \in Cover'
      BY <1>12, <1>9, <3>1
    <3>3. Undo(q).injector = "toxiproxy" /\ Undo(q).target = q.target
      BY <1>12 DEF Undo
    <3>4. Covered'
      BY <1>2, <1>6, <2>1, <3>2, <3>3 DEF Covered
    <3>5. Answered'
      BY <1>1, <1>3, <1>12 DEF Answered, Storied
    <3> QED BY <1>8, <3>4, <3>5
  <2> QED BY <2>2, <2>3
<1>13. CASE q.what = "remove"
  <2>1. plans' = plans /\ toxics' = toxics \ {q.target}
    BY <1>13, ApplyView
  <2>2. Covered'
    BY <1>2, <1>6, <2>1 DEF Covered
  <2>3. Answered'
    BY <1>1, <1>3, <1>13, <2>1 DEF Answered, Undoes
  <2> QED BY <1>8, <2>2, <2>3
<1> QED BY <1>7, <1>10, <1>11, <1>12, <1>13, RequestCases

LEMMA EnvironmentAccounts ==
  ASSUME TypeOK, Shape, Accounts, Environment \/ UNCHANGED vars, Accounted'
  PROVE  Expected' /\ Covered' /\ Answered'
<1>1. CASE \E q \in wire : Apply(q)
  BY <1>1, ApplyAccounts
<1>2. CASE \E q \in wire : Drop(q)
  <2>1. PICK q \in wire : Drop(q)
    BY <1>2
  <2>2. /\ wire' = wire \ {q}
        /\ UNCHANGED <<plans, toxics, phase, cleanups, calling, err, failed,
                       lost>>
    BY <2>1 DEF Drop
  <2>3. Expected /\ Covered /\ Answered
    BY <2>2 DEF Accounted, Accounts
  <2>4. wire' = {}
    BY <2>2, <2>3 DEF Expected
  <2>5. Cover' = Cover
    BY <2>2 DEF Cover
  <2> QED BY <2>2, <2>3, <2>4, <2>5 DEF Expected, Covered, Answered
<1>3. CASE \E op \in Operations : Fire(op)
  <2>1. PICK op \in Operations : Fire(op)
    BY <1>3
  <2>2. /\ plans' = [plans EXCEPT ![op] = @ - 1] /\ plans[op] > 0
        /\ UNCHANGED <<toxics, wire, phase, cleanups, calling, err, failed,
                       lost>>
    BY <2>1 DEF Fire
  <2>3. \A o \in Operations : plans'[o] > 0 => plans[o] > 0
    BY <2>2 DEF TypeOK
  <2>4. Expected /\ Covered /\ Answered
    BY <2>2 DEF Accounted, Accounts
  <2>5. Cover' = Cover
    BY <2>2 DEF Cover
  <2>6. Expected'
    BY <2>2, <2>4 DEF Expected, Waiting
  <2>7. Covered'
    BY <2>2, <2>3, <2>4, <2>5 DEF Covered
  <2>8. Answered'
    BY <2>2, <2>3, <2>4 DEF Answered
  <2> QED BY <2>6, <2>7, <2>8
<1>4. CASE ContextEnds \/ UNCHANGED vars
  <2>1. /\ UNCHANGED <<plans, toxics, wire, phase, cleanups, calling, err,
                       failed>>
        /\ lost' = lost \/ lost' = (lost \/ phase = "cleanup")
    BY <1>4, Zenon DEF ContextEnds, external, vars
  <2>2. Accounted
    BY <2>1, Zenon DEF Accounted
  <2>3. Expected /\ Covered /\ Answered
    BY <2>2 DEF Accounts
  <2>4. Cover' = Cover
    BY <2>1 DEF Cover
  <2> QED BY <2>1, <2>3, <2>4 DEF Expected, Covered, Answered, Waiting
<1> QED BY <1>1, <1>2, <1>3, <1>4 DEF Environment

LEMMA NextAccounts ==
  ASSUME TypeOK, Shape, Accounts, [Next]_vars
  PROVE  Accounts'
<1>1. SUFFICES ASSUME Accounted'
               PROVE  Expected' /\ Covered' /\ Answered'
  BY DEF Accounts
<1> QED
  BY <1>1, RunView, StepAccounts, SentAccounts, CleanupAccounts,
     PhaseAccounts, BeginAccounts, EnvironmentAccounts
  DEF Next

LEMMA ScenarioAccounts == Spec => []Accounts
<1>1. Init => Accounts
  <2>1. Init => /\ wire = {} /\ toxics = {} /\ phase = "idle"
                /\ plans = [op \in Operations |-> 0]
    BY DEF Init
  <2>2. Init => \A op \in Operations : ~(plans[op] > 0)
    BY <2>1
  <2> QED BY <2>1, <2>2 DEF Accounts, Expected, Covered, Answered
<1>2. TypeOK /\ Shape /\ Accounts /\ [Next]_vars => Accounts'
  BY NextAccounts
<1> QED BY <1>1, <1>2, ScenarioShape, PTL DEF Spec

(* Between stories nothing is registered, so nothing can be armed.          *)
LEMMA NothingArmed ==
  ASSUME TypeOK, Shape, Accounts, Accounted, phase = "idle"
  PROVE  Armed = {}
<1>1. Expected /\ Covered
  BY DEF Accounts
<1>2. cleanups = <<>> /\ ~Waiting /\ calling.answer = "none"
  BY IdleType DEF Shape, Waiting
<1>3. wire = {}
  BY <1>1, <1>2, NothingOnItsWay
<1>4. Cover = {}
  BY <1>2, CoverIs, RangeFacts
<1>5. toxics = {} /\ \A op \in Operations : ~(plans[op] > 0)
  BY <1>1, <1>4 DEF Covered
<1> QED BY <1>3, <1>5 DEF Armed

(* As long as every control request was answered and the cleanups had their *)
(* time, a story leaves nothing armed and nothing on its way, whatever its  *)
(* steps, its assertions and its cleanups returned (Run, the injectors).    *)
THEOREM AnsweredStoriesLeaveNothing == Spec => []OnlyLostAnswersLeak
<1>1. TypeOK /\ Shape /\ Accounts => OnlyLostAnswersLeak
  BY NothingArmed DEF OnlyLostAnswersLeak, Accounted
<1> QED BY <1>1, ScenarioShape, ScenarioAccounts, PTL

(* As long as every story passed, none has left anything armed or on its    *)
(* way, although answers were lost (Run, the injectors).                    *)
THEOREM PassingStoriesLeaveNothing == Spec => []LeftoversAreReported
<1>1. TypeOK /\ Shape /\ Accounts => LeftoversAreReported
  BY NothingArmed DEF LeftoversAreReported, Accounted, Shape
<1> QED BY <1>1, ScenarioShape, ScenarioAccounts, PTL
=============================================================================
