---------------------------- MODULE ProbeProofs ----------------------------
(***************************************************************************)
(* Theorems about Probe for any intervals, versions, rotations and numbers *)
(* of samples.                                                             *)
(***************************************************************************)
EXTENDS Probe, SequenceTheorems, TLAPS

-----------------------------------------------------------------------------
(* The authorities *)

Local == [version : Nat \ {0},
          status : {"submitted", "accepted", "active", "ended"}]
States == {"", "Accepted", "Activated", "Withdrawn"}
Syncs == {"", "pending", "blocked", "confirmed", "withdrawn"}
Row == [desired : Nat, published : Nat, state : States, confirmed : States,
        sync : Syncs]
Reference == [exists : BOOLEAN, version : Nat, state : States, holds : Nat,
              skipped : BOOLEAN]

AuthorityTypes == local \in Local /\ publication \in Row /\ dss \in Reference

(* A version is wanted before it is confirmed and submitted before it is    *)
(* wanted; once the wanted version is confirmed, a reference in the DSS was *)
(* written for it; and the DSS, which counts writes, has counted as far as  *)
(* the version it holds unless one was skipped.                             *)
Versions ==
  /\ publication.desired <= local.version
  /\ publication.published <= publication.desired
  /\ local.status = "submitted" => publication.desired < local.version
  /\ dss.exists /\ publication.published = publication.desired =>
       dss.holds = publication.desired
  /\ ~dss.skipped => dss.holds <= dss.version

SystemStep ==
  \/ Accept \/ Block \/ Retry \/ Write \/ Confirm \/ RequestActivation
  \/ Activate \/ Modify \/ End \/ Withdraw \/ Rotate \/ Tripwire

LEMMA PendingIs ==
  ASSUME AuthorityTypes, NEW d \in Nat, NEW s \in States
  PROVE  /\ Pending(d, s) \in Row
         /\ Pending(d, s).desired = d
         /\ Pending(d, s).published = publication.published
  BY DEF Pending, AuthorityTypes, Row, Syncs

LEMMA StatusIs ==
  ASSUME AuthorityTypes,
         NEW s \in {"submitted", "accepted", "active", "ended"}
  PROVE  /\ [local EXCEPT !.status = s] \in Local
         /\ [local EXCEPT !.status = s].version = local.version
         /\ [local EXCEPT !.status = s].status = s
  BY DEF AuthorityTypes, Local

LEMMA SyncIs ==
  ASSUME AuthorityTypes, NEW s \in Syncs
  PROVE  /\ [publication EXCEPT !.sync = s] \in Row
         /\ [publication EXCEPT !.sync = s].desired = publication.desired
         /\ [publication EXCEPT !.sync = s].published = publication.published
  BY DEF AuthorityTypes, Row

LEMMA SystemKeeps ==
  ASSUME AuthorityTypes, Versions, SystemStep
  PROVE  AuthorityTypes' /\ Versions'
<1>1. /\ local.version \in Nat \ {0} 
      /\ publication.desired \in Nat /\ publication.published \in Nat
      /\ publication.state \in States /\ dss.holds \in Nat
      /\ dss.version \in Nat
  BY DEF AuthorityTypes, Local, Row, Reference
<1>2. CASE Accept
  <2>1. /\ local' \in Local /\ local'.version = local.version
        /\ local'.status = "accepted"
    BY <1>2, StatusIs DEF Accept
  <2>2. /\ publication' \in Row /\ publication'.desired = local.version
        /\ publication'.published = publication.published /\ dss' = dss
    BY <1>1, <1>2, PendingIs DEF Accept, States
  <2>3. publication.desired < local.version
    BY <1>2 DEF Accept, Versions
  <2> QED BY <1>1, <2>1, <2>2, <2>3 DEF AuthorityTypes, Versions
<1>3. CASE Block \/ Retry
  <2>1. /\ publication' \in Row /\ publication'.desired = publication.desired
        /\ publication'.published = publication.published
        /\ local' = local /\ dss' = dss
    BY <1>3, SyncIs DEF Block, Retry, Syncs
  <2> QED BY <2>1 DEF AuthorityTypes, Versions
<1>4. CASE Write
  <2> DEFINE skips == dss.skipped \/ publication.desired > dss.holds + 1
  <2>1. /\ dss' = [exists |-> TRUE, version |-> dss.version + 1,
                   state |-> publication.state, holds |-> publication.desired,
                   skipped |-> skips]
        /\ local' = local /\ publication' = publication
    BY <1>4 DEF Write
  <2>2. skips \in BOOLEAN
    BY Zenon
  <2>3. ~skips => publication.desired <= dss.version + 1
    <3>1. ~skips => ~dss.skipped /\ publication.desired <= dss.holds + 1
      BY <1>1
    <3> QED BY <1>1, <3>1 DEF Versions
  <2> HIDE DEF skips
  <2>4. /\ dss' \in Reference /\ dss'.holds = publication.desired
        /\ dss'.version = dss.version + 1 /\ dss'.skipped = skips
    BY <1>1, <2>1, <2>2 DEF Reference
  <2>5. ~dss'.skipped => dss'.holds <= dss'.version
    BY <2>3, <2>4
  <2> QED BY <2>1, <2>4, <2>5 DEF AuthorityTypes, Versions
<1>5. CASE Confirm
  <2>1. /\ publication' \in Row /\ publication'.desired = publication.desired
        /\ publication'.published = publication.desired
        /\ local' = local /\ dss' = dss /\ dss.holds = publication.desired
    BY <1>1, <1>5 DEF Confirm, Written, AuthorityTypes, Row, Syncs
  <2> QED BY <1>1, <2>1 DEF AuthorityTypes, Versions
<1>6. CASE RequestActivation
  <2>1. /\ publication' \in Row /\ publication'.desired = local.version
        /\ publication'.published = publication.published
        /\ publication.published = local.version /\ local' = local
        /\ dss' = dss /\ local.status = "accepted"
    BY <1>1, <1>6, PendingIs DEF RequestActivation, States
  <2>2. publication.desired = local.version
    BY <1>1, <2>1 DEF Versions
  <2> QED BY <1>1, <2>1, <2>2 DEF AuthorityTypes, Versions
<1>7. CASE Activate
  <2>1. /\ local' \in Local /\ local'.version = local.version
        /\ local'.status = "active" /\ publication' = publication
        /\ dss' = dss
    BY <1>7, StatusIs DEF Activate
  <2> QED BY <2>1 DEF AuthorityTypes, Versions
<1>8. CASE Modify
  <2>1. /\ local' \in Local /\ local'.version = local.version + 1
        /\ publication' = publication /\ dss' = dss
    BY <1>1, <1>8 DEF Modify, Local
  <2> QED BY <1>1, <2>1 DEF AuthorityTypes, Versions
<1>9. CASE End
  <2>1. /\ local' \in Local /\ local'.version = local.version
        /\ local'.status = "ended"
    BY <1>9, StatusIs DEF End
  <2>2. /\ publication' \in Row /\ publication'.desired = publication.desired
        /\ publication'.published = publication.published /\ dss' = dss
    BY <1>1, <1>9, PendingIs DEF End, States
  <2> QED BY <2>1, <2>2 DEF AuthorityTypes, Versions
<1>10. CASE Withdraw
  <2>1. CASE /\ dss' = NoReference /\ UNCHANGED <<local, publication>>
    <3>1. /\ NoReference \in Reference /\ NoReference.exists = FALSE
          /\ NoReference.holds <= NoReference.version
      BY DEF NoReference, Reference, States
    <3> QED BY <2>1, <3>1 DEF AuthorityTypes, Versions
  <2>2. CASE /\ publication' = [publication EXCEPT !.sync = "withdrawn"]
             /\ UNCHANGED <<local, dss>>
    <3>1. /\ publication' \in Row
          /\ publication'.desired = publication.desired
          /\ publication'.published = publication.published
      BY <2>2, SyncIs DEF Syncs
    <3> QED BY <2>2, <3>1 DEF AuthorityTypes, Versions
  <2> QED BY <1>10, <2>1, <2>2 DEF Withdraw
<1>11. CASE Rotate
  <2>1. /\ dss' = [dss EXCEPT !.version = dss.version + 1]
        /\ local' = local /\ publication' = publication
    BY <1>11 DEF Rotate
  <2>2. dss.version + 1 \in Nat
    BY <1>1
  <2>3. /\ dss' \in Reference /\ dss'.holds = dss.holds
        /\ dss'.exists = dss.exists /\ dss'.skipped = dss.skipped
        /\ dss'.version = dss.version + 1
    BY <2>1, <2>2 DEF AuthorityTypes, Reference
  <2>4. ~dss'.skipped => dss'.holds <= dss'.version
    BY <1>1, <2>3 DEF Versions
  <2> QED BY <2>1, <2>3, <2>4 DEF AuthorityTypes, Versions
<1>12. CASE Tripwire
  <2>1. CASE /\ local' = [local EXCEPT !.status = "active"]
             /\ UNCHANGED <<publication, dss>>
    <3>1. /\ local' \in Local /\ local'.version = local.version
          /\ local'.status = "active"
      BY <2>1, StatusIs
    <3> QED BY <2>1, <3>1 DEF AuthorityTypes, Versions
  <2>2. CASE /\ publication' = [publication EXCEPT !.sync = "blocked"]
             /\ UNCHANGED <<local, dss>>
    <3>1. /\ publication' \in Row
          /\ publication'.desired = publication.desired
          /\ publication'.published = publication.published
      BY <2>2, SyncIs DEF Syncs
    <3> QED BY <2>2, <3>1 DEF AuthorityTypes, Versions
  <2> QED BY <1>12, <2>1, <2>2 DEF Tripwire
<1> QED BY <1>2, <1>3, <1>4, <1>5, <1>6, <1>7, <1>8, <1>9, <1>10, <1>11,
           <1>12 DEF SystemStep

(* A publication that is blocked before and after a step of the system is   *)
(* blocked on the same version.                                             *)
LEMMA BlockedOnOneVersion ==
  ASSUME AuthorityTypes, SystemStep,
         publication.sync = "blocked", publication'.sync = "blocked"
  PROVE  publication'.desired = publication.desired
<1>1. \A d, s : Pending(d, s).sync = "pending"
  BY DEF Pending, AuthorityTypes, Row
<1>2. ~Accept /\ ~RequestActivation /\ ~End
  BY <1>1 DEF Accept, RequestActivation, End
<1>3. ~Block /\ ~Confirm
  BY DEF Block, Confirm
<1>4. ~Retry
  BY DEF Retry, AuthorityTypes, Row
<1>5. CASE Write \/ Activate \/ Modify \/ Withdraw \/ Rotate \/ Tripwire
  BY <1>5 DEF Write, Activate, Modify, Withdraw, Rotate, Tripwire
<1> QED BY <1>2, <1>3, <1>4, <1>5 DEF SystemStep

-----------------------------------------------------------------------------
(* Types *)

View == [local : [version : Nat, status : {"", "submitted", "accepted",
                                           "active", "ended"}],
         publication : Row, dss : Reference]
Watch == [quiet : BOOLEAN, cause : BOOLEAN, lasting : BOOLEAN, lost : BOOLEAN]

(* Where the Snapshot of a sample is, and what its parts may be.            *)
Control ==
  /\ pc = "sampling" => turn \in 1 .. 3
  /\ pc = "authorized" => turn = 3
  /\ snapshot \in View /\ watch \in Watch

(* The delays an interval allows.                                           *)
Delays(i) ==
  IF i <= 0 THEN 1 .. Second ELSE i .. (IF i < Second THEN Second ELSE i)

LEMMA NextDelayIs ==
  ASSUME NEW i \in Int, NEW d \in Delays(i)
  PROVE  NextDelay(d) \in Delays(i)
<1>1. Second \in Nat \ {0}
  BY ProbeAssumption
<1>2. CASE i <= 0
  BY <1>1, <1>2 DEF NextDelay, Delays
<1>3. CASE i > 0 /\ i < Second
  BY <1>1, <1>3 DEF NextDelay, Delays
<1>4. CASE i > 0 /\ ~(i < Second)
  BY <1>1, <1>4 DEF NextDelay, Delays
<1> QED BY <1>1, <1>2, <1>3, <1>4

LEMMA ReadOrderIs ==
  ASSUME turn \in 0 .. 3
  PROVE  /\ reading("local") <=> pc = "sampling" /\ turn = 1
         /\ reading("publication") <=> pc = "sampling" /\ turn = 2
         /\ reading("dss") <=> pc = "sampling" /\ turn = 3
<1>1. /\ ReadOrder[1] = "local" /\ ReadOrder[2] = "publication"
      /\ ReadOrder[3] = "dss"
  BY DEF ReadOrder
<1>2. \A t \in 1 .. 3 : t = 1 \/ t = 2 \/ t = 3
  OBVIOUS
<1>3. /\ "local" # "publication" /\ "local" # "dss"
      /\ "publication" # "dss"
  OBVIOUS
<1>4. 1 \in 1 .. 3 /\ 2 \in 1 .. 3 /\ 3 \in 1 .. 3
  OBVIOUS
<1> QED BY <1>1, <1>2, <1>3, <1>4, Zenon DEF reading

LEMMA ChecksAre ==
  /\ DOMAIN Checks = {1, 2}
  /\ Checks[1] = "active" /\ Checks[2] = "blocked"
  /\ Range(Checks) = {"active", "blocked"}
<1>1. /\ DOMAIN Checks = {1, 2}
      /\ Checks[1] = "active" /\ Checks[2] = "blocked"
  BY DEF Checks
<1>2. Range(Checks) = {Checks[i] : i \in {1, 2}}
  BY <1>1 DEF Range
<1> QED BY <1>1, <1>2

LEMMA CheckIsBoolean ==
  ASSUME NEW n, NEW s
  PROVE  check(n, s) \in BOOLEAN
  BY Zenon
  DEF check, ActiveRequiresDSSActivated, BlockedVersionHasNoDSSReference

(* Both observers see the reference of the DSS, if there is one.            *)
LEMMA ObserversAgree ==
  fixtureDSSObserver = ReferenceObserver
<1> DEFINE peer == [id |-> "peer",
                    reference |-> [NoReference EXCEPT !.exists = TRUE]]
           mine == [id |-> "own", reference |-> dss]
           listed == {peer} \cup (IF dss.exists THEN {mine} ELSE {})
           own == {r \in listed : r.id = "own"}
<1>1. peer.id = "peer" /\ mine.id = "own" /\ mine.reference = dss
  OBVIOUS
<1>2. fixtureDSSObserver
        = IF own = {} THEN NoReference ELSE (CHOOSE r \in own : TRUE).reference
  BY DEF fixtureDSSObserver
<1> HIDE DEF peer, mine
<1>3. CASE dss.exists
  <2>1. own = {mine}
    BY <1>1, <1>3
  <2>2. (CHOOSE r \in own : TRUE) = mine /\ own # {}
    BY <2>1
  <2> HIDE DEF own
  <2> QED BY <1>1, <1>2, <1>3, <2>2 DEF ReferenceObserver
<1>4. CASE ~dss.exists
  <2>1. own = {}
    BY <1>1, <1>4
  <2> HIDE DEF own
  <2> QED BY <1>2, <1>4, <2>1 DEF ReferenceObserver
<1> QED BY <1>3, <1>4

LEMMA Constants ==
  /\ NoRow \in Row /\ NoReference \in Reference /\ NoSnapshot \in View
  /\ NoSnapshot.publication = NoRow /\ NoRow.confirmed = ""
  /\ NoRow.published = 0 /\ NoRow.sync = ""
  /\ Unwatched \in Watch
  /\ Unwatched.quiet = TRUE /\ Unwatched.cause = FALSE
  /\ Unwatched.lost = FALSE
<1>1. NoRow \in Row /\ NoReference \in Reference
  BY DEF NoRow, NoReference, Row, Reference, States, Syncs
<1>2. NoSnapshot \in View /\ NoSnapshot.publication = NoRow
  BY <1>1 DEF NoSnapshot, View
<1>3. NoRow.confirmed = "" /\ NoRow.published = 0 /\ NoRow.sync = ""
  BY DEF NoRow
<1>4. /\ Unwatched \in Watch
      /\ Unwatched.quiet = TRUE /\ Unwatched.cause = FALSE
      /\ Unwatched.lost = FALSE
  BY DEF Unwatched, Watch
<1> QED BY <1>1, <1>2, <1>3, <1>4

-----------------------------------------------------------------------------
(* The steps of a Snapshot *)

Elsewhere == <<authorities, observer, pool, expired, interval, delay, samples,
               last, failed>>

LocalRead ==
  /\ pc = "sampling" /\ turn = 1 /\ pc' = "sampling" /\ turn' = 2
  /\ snapshot' \in View /\ snapshot'.local = local
  /\ snapshot'.publication = snapshot.publication
  /\ watch' \in Watch /\ watch'.quiet = TRUE
  /\ watch'.cause = ForbiddenActive /\ watch'.lost = FALSE
  /\ watch'.lasting = ForbiddenBlocked
  /\ UNCHANGED Elsewhere

PublicationRead ==
  /\ pc = "sampling" /\ turn = 2 /\ pc' = "sampling" /\ turn' = 3
  /\ snapshot' \in View /\ snapshot'.local = snapshot.local
  /\ watch' \in Watch /\ watch'.quiet = watch.quiet
  /\ watch'.cause = watch.cause /\ watch'.lasting = watch.lasting
  /\ \/ snapshot'.publication = publication /\ watch'.lost = watch.lost
     \/ /\ snapshot'.publication = snapshot.publication
        /\ watch'.lost = TRUE
  /\ UNCHANGED Elsewhere

ReferenceRead ==
  /\ pc \in {"sampling", "authorized"} /\ turn = 3
  /\ pc' = "checking" /\ turn' = 0
  /\ snapshot' \in View /\ snapshot'.local = snapshot.local
  /\ snapshot'.publication = snapshot.publication
  /\ snapshot'.dss.exists = dss.exists
  /\ dss.exists => /\ snapshot'.dss.state = dss.state
                   /\ snapshot'.dss.version = dss.version
  /\ watch' = watch
  /\ UNCHANGED Elsewhere

Abandoned ==
  /\ pc \in {"sampling", "authorized"}
  /\ pc' = "sleeping" /\ turn' = 0 /\ snapshot' = NoSnapshot
  /\ watch' = watch
  /\ UNCHANGED Elsewhere

Authorised ==
  /\ pc = "sampling" /\ turn = 3 /\ pc' = "authorized"
  /\ UNCHANGED <<turn, snapshot, watch>>
  /\ UNCHANGED Elsewhere

LEMMA ReadLocalView ==
  ASSUME TypeOK, Control, AuthorityTypes, ReadLocal
  PROVE  LocalRead \/ Abandoned
<1>1. turn \in 0 .. 3
  BY DEF TypeOK
<1>2. pc = "sampling" /\ turn = 1
  BY <1>1, ReadOrderIs DEF ReadLocal
<1>3. UNCHANGED Elsewhere
  BY DEF ReadLocal, Elsewhere
<1>4. CASE Abandon /\ UNCHANGED watch
  BY <1>2, <1>3, <1>4 DEF Abandon, Abandoned
<1>5. CASE /\ snapshot' = [snapshot EXCEPT !.local = local]
           /\ watch' = [Watched EXCEPT !.cause = ForbiddenActive,
                                       !.lasting = ForbiddenBlocked]
           /\ Advance
  <2>1. pc' = "sampling" /\ turn' = 2
    BY <1>2, <1>5 DEF Advance
  <2>2. /\ snapshot' \in View /\ snapshot'.local = local
        /\ snapshot'.publication = snapshot.publication
    BY <1>5 DEF Control, AuthorityTypes, View, Local
  <2>3. watch' = [Unwatched EXCEPT !.cause = ForbiddenActive,
                                   !.lasting = ForbiddenBlocked]
    BY <1>2, <1>5 DEF Watched
  <2>4. ForbiddenActive \in BOOLEAN /\ ForbiddenBlocked \in BOOLEAN
    BY Zenon DEF ForbiddenActive, ForbiddenBlocked
  <2>5. /\ watch' \in Watch /\ watch'.quiet = TRUE
        /\ watch'.cause = ForbiddenActive /\ watch'.lost = FALSE
        /\ watch'.lasting = ForbiddenBlocked
    <3> DEFINE b == ForbiddenActive
               l == ForbiddenBlocked
    <3>1. watch' = [quiet |-> TRUE, cause |-> b, lasting |-> l, lost |-> FALSE]
      BY <2>3, Constants DEF Unwatched
    <3> HIDE DEF b, l
    <3>2. /\ watch'.quiet = TRUE /\ watch'.cause = b /\ watch'.lasting = l
          /\ watch'.lost = FALSE
      BY <3>1
    <3>3. watch' \in Watch
      BY <2>4, <3>1 DEF Watch, b, l
    <3> QED BY <3>2, <3>3 DEF b, l
  <2> QED BY <1>2, <1>3, <2>1, <2>2, <2>5 DEF LocalRead
<1> QED BY <1>4, <1>5 DEF ReadLocal

LEMMA ReadPublicationView ==
  ASSUME TypeOK, Control, AuthorityTypes, ReadPublication
  PROVE  PublicationRead
<1>1. turn \in 0 .. 3
  BY DEF TypeOK
<1>2. pc = "sampling" /\ turn = 2
  BY <1>1, ReadOrderIs DEF ReadPublication
<1>3. UNCHANGED Elsewhere
  BY DEF ReadPublication, Elsewhere
<1>4. pc' = "sampling" /\ turn' = 3
  BY <1>2 DEF ReadPublication, Advance
<1>5. Watched = watch
  BY <1>2 DEF Watched
<1>6. CASE /\ snapshot' = [snapshot EXCEPT !.publication = publication]
           /\ watch' = Watched
  <2>1. /\ snapshot' \in View /\ snapshot'.local = snapshot.local
        /\ snapshot'.publication = publication
    BY <1>6 DEF Control, AuthorityTypes, View
  <2> QED BY <1>2, <1>3, <1>4, <1>5, <1>6, <2>1 DEF PublicationRead, Control
<1>7. CASE /\ snapshot' = snapshot
           /\ watch' = [Watched EXCEPT !.lost = TRUE]
  <2>1. watch' = [watch EXCEPT !.lost = TRUE]
    BY <1>5, <1>7
  <2>2. /\ watch' \in Watch /\ watch'.quiet = watch.quiet
        /\ watch'.cause = watch.cause /\ watch'.lasting = watch.lasting
        /\ watch'.lost = TRUE
    BY <2>1 DEF Control, Watch
  <2> QED BY <1>2, <1>3, <1>4, <1>7, <2>2 DEF PublicationRead, Control
<1> QED BY <1>6, <1>7 DEF ReadPublication

LEMMA ObserveView ==
  ASSUME TypeOK, Control, AuthorityTypes, ObserveDSSReference
  PROVE  ReferenceRead \/ Abandoned
<1>1. turn \in 0 .. 3
  BY DEF TypeOK
<1>2. pc \in {"sampling", "authorized"} /\ turn = 3
  BY <1>1, ReadOrderIs DEF ObserveDSSReference, Control
<1>3. UNCHANGED Elsewhere
  BY DEF ObserveDSSReference, Elsewhere
<1> DEFINE reference == IF observer = "real" THEN ReferenceObserver
                        ELSE fixtureDSSObserver
<1>4. reference = ReferenceObserver
  BY ObserversAgree
<1>5. \/ /\ snapshot' = [snapshot EXCEPT !.dss =
                             [reference EXCEPT !.holds = 0, !.skipped = FALSE]]
         /\ watch' = Watched /\ Advance
      \/ Abandon /\ UNCHANGED watch
  BY DEF ObserveDSSReference
<1> HIDE DEF reference
<1>6. CASE Abandon /\ UNCHANGED watch
  BY <1>2, <1>3, <1>6 DEF Abandon, Abandoned
<1>7. CASE /\ snapshot' = [snapshot EXCEPT !.dss =
                             [reference EXCEPT !.holds = 0, !.skipped = FALSE]]
           /\ watch' = Watched /\ Advance
  <2>1. pc' = "checking" /\ turn' = 0
    BY <1>2, <1>7 DEF Advance
  <2>2. watch' = watch
    BY <1>2, <1>7 DEF Watched
  <2> DEFINE seen == [reference EXCEPT !.holds = 0, !.skipped = FALSE]
  <2>3. /\ reference \in Reference /\ reference.exists = dss.exists
        /\ dss.exists => reference = dss
    BY <1>4, Constants DEF ReferenceObserver, AuthorityTypes, NoReference,
       Reference
  <2>4. /\ seen \in Reference /\ seen.exists = reference.exists
        /\ seen.state = reference.state /\ seen.version = reference.version
    BY <2>3 DEF Reference
  <2>5. snapshot' = [snapshot EXCEPT !.dss = seen]
    BY <1>7
  <2> HIDE DEF seen
  <2>6. /\ snapshot' \in View /\ snapshot'.local = snapshot.local
        /\ snapshot'.publication = snapshot.publication
        /\ snapshot'.dss = seen
    BY <2>4, <2>5 DEF Control, View
  <2>7. /\ snapshot'.dss.exists = dss.exists
        /\ dss.exists => /\ snapshot'.dss.state = dss.state
                         /\ snapshot'.dss.version = dss.version
    BY <2>3, <2>4, <2>6
  <2> QED BY <1>2, <1>3, <2>1, <2>2, <2>6, <2>7 DEF ReferenceRead
<1> QED BY <1>5, <1>6, <1>7

LEMMA TokenView ==
  ASSUME TypeOK, token
  PROVE  Authorised \/ Abandoned
<1>1. turn \in 0 .. 3
  BY DEF TypeOK
<1>2. pc = "sampling" /\ turn = 3
  BY <1>1, ReadOrderIs DEF token
<1>3. UNCHANGED Elsewhere /\ watch' = watch
  BY DEF token, Elsewhere
<1> QED BY <1>2, <1>3 DEF token, Abandon, Abandoned, Authorised

-----------------------------------------------------------------------------
(* The inductive invariant *)

(* The Snapshot has read the first k authorities.                           *)
HasRead(k) ==
  \/ pc = "checking"
  \/ pc = "authorized" /\ k <= 2
  \/ pc = "sampling" /\ turn > k

(* What was not read, or could not be, is empty.                            *)
Unread ==
  /\ ~HasRead(2) \/ watch.lost => snapshot.publication = NoRow
  /\ HasRead(1) /\ ~HasRead(2) => ~watch.lost

(* While nothing changes, what was read is what is there.                   *)
Quiet ==
  watch.quiet =>
    /\ HasRead(1) => snapshot.local = local
    /\ HasRead(2) /\ ~watch.lost => snapshot.publication = publication
    /\ HasRead(3) =>
         /\ snapshot.dss.exists = dss.exists
         /\ dss.exists => /\ snapshot.dss.state = dss.state
                          /\ snapshot.dss.version = dss.version

(* While the intent stays as it was read and the forbidden state does not   *)
(* occur, an active intent was found backed by each authority read so far.  *)
Backed ==
  ~watch.cause =>
    /\ HasRead(1) => snapshot.local = local /\ ~ForbiddenActive
    /\ HasRead(2) /\ ~watch.lost /\ snapshot.local.status = "active" =>
         /\ snapshot.publication.published = snapshot.local.version
         /\ snapshot.publication.confirmed = "Activated"
    /\ HasRead(3) /\ snapshot.local.status = "active" =>
         snapshot.dss.exists /\ snapshot.dss.state = "Activated"

(* While a blocked version is published, the version the publication is     *)
(* blocked on does not change, so what was read of it is what is there.     *)
Lasting ==
  watch.lasting =>
    /\ HasRead(1) => ForbiddenBlocked
    /\ HasRead(2) /\ ~watch.lost =>
         /\ snapshot.publication.sync = publication.sync
         /\ snapshot.publication.desired = publication.desired
    /\ HasRead(3) =>
         /\ snapshot.dss.exists = dss.exists
         /\ dss.exists => snapshot.dss.version = dss.version

(* The results kept are those of the last sample, and Eventually goes on    *)
(* only after a sample with a check that failed.                            *)
Results ==
  /\ last = <<>> <=> samples = <<>>
  /\ samples # <<>> =>
       last = [i \in DOMAIN Checks |->
                 [name |-> Checks[i], passed |-> Last(samples)[Checks[i]]]]
  /\ pc \in {"new", "ready"} => samples = <<>>
  /\ pc \in {"sampling", "authorized", "checking", "sleeping"}
       /\ samples # <<>> => \E i \in DOMAIN last : ~last[i].passed
  /\ pc \notin {"returned", "closed"} => failed = FALSE

ProbeInv ==
  /\ TypeOK /\ Control /\ AuthorityTypes /\ Versions
  /\ Unread /\ Quiet /\ Backed /\ Lasting

-----------------------------------------------------------------------------
(* Init *)

LEMMA InitProbe ==
  ASSUME Init
  PROVE  ProbeInv
<1>1. pool = (pc \notin {"new", "closed"})
  BY Zenon DEF Init
<1>2. TypeOK
  <2>1. /\ samples \in Seq([{"active", "blocked"} -> BOOLEAN])
        /\ last \in Seq([name : {"active", "blocked"}, passed : BOOLEAN])
    BY EmptySeq, Zenon DEF Init
  <2>2. /\ pc = "new" /\ turn \in 0 .. 3 /\ interval \in Intervals
        /\ observer \in {"none", "fixture", "real"}
        /\ expired = FALSE /\ failed = FALSE
    BY DEF Init
  <2> QED BY <1>1, <2>1, <2>2 DEF TypeOK
<1>3. Control
  BY Constants DEF Init, Control
<1>4. local \in Local /\ local.version = 1
  BY DEF Init, Local
<1>5. publication = NoRow /\ dss = NoReference
  BY DEF Init
<1>6. /\ NoRow.desired = 0 /\ NoReference.exists = FALSE
      /\ NoReference.holds <= NoReference.version
  BY DEF NoRow, NoReference
<1>7. AuthorityTypes /\ Versions
  <2>1. AuthorityTypes
    BY <1>4, <1>5, Constants DEF AuthorityTypes
  <2>2. /\ publication.desired = 0 /\ publication.published = 0
        /\ ~dss.exists /\ dss.holds <= dss.version
    BY <1>5, <1>6, Constants
  <2> QED BY <1>4, <2>1, <2>2 DEF Versions
<1>8. ~HasRead(1) /\ ~HasRead(2) /\ ~HasRead(3)
  BY DEF Init, HasRead
<1>9. snapshot.publication = NoRow
  BY Constants DEF Init
<1>10. Unread /\ Quiet /\ Backed /\ Lasting
  BY <1>8, <1>9 DEF Unread, Quiet, Backed, Lasting
<1> QED BY <1>2, <1>3, <1>7, <1>10 DEF ProbeInv

-----------------------------------------------------------------------------
(* The system moves *)

LEMMA SystemProbe ==
  ASSUME ProbeInv, System
  PROVE  ProbeInv'
<1>1. /\ TypeOK /\ Control /\ AuthorityTypes /\ Versions /\ Unread
      /\ Quiet /\ Backed /\ Lasting
  BY DEF ProbeInv
<1>2. /\ SystemStep /\ pc # "checking"
      /\ watch' = IF Reading
                  THEN [watch EXCEPT !.quiet = FALSE,
                          !.cause = @ \/ local' # local \/ ForbiddenActive',
                          !.lasting = @ /\ ForbiddenBlocked']
                  ELSE watch
      /\ UNCHANGED probe
  BY DEF System, SystemStep
<1>3. AuthorityTypes' /\ Versions'
  BY <1>1, <1>2, SystemKeeps
<1>4. UNCHANGED <<pc, turn, observer, pool, expired, interval, delay,
                  snapshot, samples, last, failed>>
  BY <1>2 DEF probe
<1>5. TypeOK'
  BY <1>1, <1>4 DEF TypeOK
<1>6. /\ HasRead(1)' <=> HasRead(1)
      /\ HasRead(2)' <=> HasRead(2)
      /\ HasRead(3)' <=> HasRead(3)
  BY <1>4 DEF HasRead
<1>7. CASE ~Reading
  <2>1. watch' = watch
    BY <1>2, <1>7
  <2>2. ~HasRead(1) /\ ~HasRead(2) /\ ~HasRead(3)
    BY <1>1, <1>2, <1>7 DEF Reading, HasRead, Control, TypeOK
  <2>3. Control'
    BY <1>1, <1>4, <2>1 DEF Control
  <2>4. Unread' /\ Quiet' /\ Backed' /\ Lasting'
    BY <1>1, <1>4, <1>6, <2>1, <2>2 DEF Unread, Quiet, Backed, Lasting
  <2> QED BY <1>3, <1>5, <2>3, <2>4 DEF ProbeInv
<1>8. CASE Reading
  <2> DEFINE c == watch.cause \/ local' # local \/ ForbiddenActive'
             l == watch.lasting /\ ForbiddenBlocked'
  <2>1. watch' = [watch EXCEPT !.quiet = FALSE, !.cause = c, !.lasting = l]
    BY <1>2, <1>8
  <2>2. c \in BOOLEAN /\ l \in BOOLEAN
    BY Zenon
  <2> HIDE DEF c, l
  <2>3. /\ watch' \in Watch /\ watch'.quiet = FALSE /\ watch'.cause = c
        /\ watch'.lasting = l /\ watch'.lost = watch.lost
    BY <1>1, <2>1, <2>2 DEF Control, Watch
  <2>4. Control'
    BY <1>1, <1>4, <2>3 DEF Control
  <2>5. Unread' /\ Quiet'
    BY <1>1, <1>4, <1>6, <2>3 DEF Unread, Quiet
  <2>6. ~HasRead(3)
    BY <1>1, <1>2 DEF HasRead, Control, TypeOK
  <2>7. ASSUME ~watch'.cause
        PROVE  ~watch.cause /\ local' = local /\ ~ForbiddenActive'
    BY <2>3, <2>7, Zenon DEF c
  <2>8. Backed'
    BY <1>1, <1>4, <1>6, <2>3, <2>6, <2>7 DEF Backed
  <2>9. ASSUME watch'.lasting
        PROVE  watch.lasting /\ ForbiddenBlocked'
    BY <2>3, <2>9, Zenon DEF l
  <2>10. ASSUME watch.lasting, ForbiddenBlocked', HasRead(1)
         PROVE  /\ publication'.desired = publication.desired
                /\ publication'.sync = publication.sync
    <3>1. publication.sync = "blocked" /\ publication'.sync = "blocked"
      BY <1>1, <2>10 DEF Lasting, ForbiddenBlocked
    <3> QED BY <1>1, <1>2, <3>1, BlockedOnOneVersion
  <2>11. HasRead(2) => HasRead(1)
    BY <1>1 DEF HasRead, TypeOK
  <2>12. Lasting'
    BY <1>1, <1>4, <1>6, <2>3, <2>6, <2>9, <2>10, <2>11 DEF Lasting
  <2> QED BY <1>3, <1>5, <2>4, <2>5, <2>8, <2>12 DEF ProbeInv
<1> QED BY <1>7, <1>8

-----------------------------------------------------------------------------
(* A Snapshot is read *)

LEMMA ElsewhereIs ==
  ASSUME UNCHANGED Elsewhere
  PROVE  /\ local' = local /\ publication' = publication /\ dss' = dss
         /\ observer' = observer /\ pool' = pool /\ expired' = expired
         /\ interval' = interval /\ delay' = delay /\ samples' = samples
         /\ last' = last /\ failed' = failed
         /\ AuthorityTypes => AuthorityTypes'
         /\ Versions => Versions'
         /\ ForbiddenActive' <=> ForbiddenActive
         /\ ForbiddenBlocked' <=> ForbiddenBlocked
  BY DEF Elsewhere, authorities, AuthorityTypes, Versions, ForbiddenActive,
         ForbiddenBlocked

(* TypeOK depends on pc through the pool and the delay.                     *)
LEMMA BusyTypes ==
  ASSUME TypeOK, UNCHANGED Elsewhere,
         pc \in {"sampling", "authorized", "checking", "sleeping"},
         pc' \in {"sampling", "authorized", "checking", "sleeping"},
         turn' \in 0 .. 3
  PROVE  TypeOK'
<1>1. pool' = (pc' \notin {"new", "closed"})
  BY ElsewhereIs DEF TypeOK
<1> QED BY <1>1, ElsewhereIs DEF TypeOK

LEMMA LocalReadProbe ==
  ASSUME ProbeInv, LocalRead
  PROVE  ProbeInv'
<1>1. /\ TypeOK /\ Control /\ AuthorityTypes /\ Versions /\ Unread
  BY DEF ProbeInv
<1>2. /\ pc = "sampling" /\ turn = 1 /\ pc' = "sampling" /\ turn' = 2
      /\ snapshot' \in View /\ snapshot'.local = local
      /\ snapshot'.publication = snapshot.publication
      /\ watch' \in Watch /\ watch'.cause = ForbiddenActive
      /\ watch'.lasting = ForbiddenBlocked
      /\ watch'.lost = FALSE /\ UNCHANGED Elsewhere
  BY DEF LocalRead
<1>3. TypeOK' /\ Control' /\ AuthorityTypes' /\ Versions'
  BY <1>1, <1>2, BusyTypes, ElsewhereIs DEF Control
<1>4. HasRead(1)' /\ ~HasRead(2)' /\ ~HasRead(3)' /\ ~HasRead(2)
  BY <1>2 DEF HasRead
<1>5. snapshot'.publication = NoRow
  BY <1>1, <1>2, <1>4 DEF Unread
<1>6. /\ local' = local /\ (ForbiddenActive' <=> ForbiddenActive)
      /\ ForbiddenBlocked' <=> ForbiddenBlocked
  BY <1>2, ElsewhereIs
<1>7. Unread' /\ Quiet'
  BY <1>2, <1>4, <1>5, <1>6 DEF Unread, Quiet
<1>8. Backed' /\ Lasting'
  BY <1>2, <1>4, <1>6 DEF Backed, Lasting
<1> QED BY <1>3, <1>7, <1>8 DEF ProbeInv

LEMMA PublicationReadProbe ==
  ASSUME ProbeInv, PublicationRead
  PROVE  ProbeInv'
<1>1. /\ TypeOK /\ Control /\ AuthorityTypes /\ Versions /\ Unread
      /\ Quiet /\ Backed /\ Lasting
  BY DEF ProbeInv
<1>2. /\ pc = "sampling" /\ turn = 2 /\ pc' = "sampling" /\ turn' = 3
      /\ snapshot' \in View /\ snapshot'.local = snapshot.local
      /\ watch' \in Watch /\ watch'.quiet = watch.quiet
      /\ watch'.cause = watch.cause /\ watch'.lasting = watch.lasting
      /\ \/ snapshot'.publication = publication /\ watch'.lost = watch.lost
         \/ /\ snapshot'.publication = snapshot.publication
            /\ watch'.lost = TRUE
      /\ UNCHANGED Elsewhere
  BY DEF PublicationRead
<1>3. TypeOK' /\ Control' /\ AuthorityTypes' /\ Versions'
  BY <1>1, <1>2, BusyTypes, ElsewhereIs DEF Control
<1>4. /\ HasRead(1)' /\ HasRead(2)' /\ ~HasRead(3)'
      /\ HasRead(1) /\ ~HasRead(2) /\ ~HasRead(3)
  BY <1>2 DEF HasRead
<1>5. snapshot.publication = NoRow
  BY <1>1, <1>4 DEF Unread
<1>6. /\ local' = local /\ publication' = publication
      /\ ForbiddenActive' <=> ForbiddenActive
      /\ ForbiddenBlocked' <=> ForbiddenBlocked
  BY <1>2, ElsewhereIs
<1>7. Quiet'
  BY <1>1, <1>2, <1>4, <1>6 DEF Quiet
<1>8. Backed'
  BY <1>1, <1>2, <1>4, <1>6 DEF Backed, ForbiddenActive
<1>9. Unread'
  BY <1>1, <1>2, <1>4, <1>5 DEF Unread
<1>10. Lasting'
  BY <1>1, <1>2, <1>4, <1>6 DEF Lasting
<1> QED BY <1>3, <1>7, <1>8, <1>9, <1>10 DEF ProbeInv

LEMMA ReferenceReadProbe ==
  ASSUME ProbeInv, ReferenceRead
  PROVE  ProbeInv'
<1>1. /\ TypeOK /\ Control /\ AuthorityTypes /\ Versions /\ Unread
      /\ Quiet /\ Backed /\ Lasting
  BY DEF ProbeInv
<1>2. /\ pc \in {"sampling", "authorized"} /\ turn = 3
      /\ pc' = "checking" /\ turn' = 0
      /\ snapshot' \in View /\ snapshot'.local = snapshot.local
      /\ snapshot'.publication = snapshot.publication
      /\ snapshot'.dss.exists = dss.exists
      /\ dss.exists => /\ snapshot'.dss.state = dss.state
                       /\ snapshot'.dss.version = dss.version
      /\ watch' = watch /\ UNCHANGED Elsewhere
  BY DEF ReferenceRead
<1>3. TypeOK' /\ Control' /\ AuthorityTypes' /\ Versions'
  BY <1>1, <1>2, BusyTypes, ElsewhereIs DEF Control
<1>4. /\ HasRead(1)' /\ HasRead(2)' /\ HasRead(3)' /\ HasRead(1) /\ HasRead(2)
  BY <1>2 DEF HasRead
<1>5. /\ local' = local /\ publication' = publication /\ dss' = dss
      /\ ForbiddenActive' <=> ForbiddenActive
      /\ ForbiddenBlocked' <=> ForbiddenBlocked
  BY <1>2, ElsewhereIs
<1>6. Unread'
  BY <1>1, <1>2, <1>4 DEF Unread
<1>7. Quiet'
  BY <1>1, <1>2, <1>4, <1>5 DEF Quiet
<1>8. Backed'
  <2>1. SUFFICES ASSUME ~watch.cause PROVE Backed'
    BY <1>2 DEF Backed
  <2>2. snapshot.local = local /\ ~ForbiddenActive
    BY <1>1, <1>4, <2>1 DEF Backed
  <2>3. local.status = "active" => dss.exists /\ dss.state = "Activated"
    BY <2>2 DEF ForbiddenActive
  <2> QED BY <1>1, <1>2, <1>4, <1>5, <2>1, <2>2, <2>3 DEF Backed
<1>9. Lasting'
  BY <1>1, <1>2, <1>4, <1>5 DEF Lasting
<1> QED BY <1>3, <1>6, <1>7, <1>8, <1>9 DEF ProbeInv

LEMMA AuthorisedProbe ==
  ASSUME ProbeInv, Authorised
  PROVE  ProbeInv'
<1>1. /\ TypeOK /\ Control /\ AuthorityTypes /\ Versions /\ Unread
      /\ Quiet /\ Backed /\ Lasting
  BY DEF ProbeInv
<1>2. /\ pc = "sampling" /\ turn = 3 /\ pc' = "authorized"
      /\ turn' = turn /\ snapshot' = snapshot /\ watch' = watch
      /\ UNCHANGED Elsewhere
  BY DEF Authorised
<1>3. TypeOK' /\ Control' /\ AuthorityTypes' /\ Versions'
  BY <1>1, <1>2, BusyTypes, ElsewhereIs DEF Control
<1>4. /\ HasRead(1)' <=> HasRead(1)
      /\ HasRead(2)' <=> HasRead(2)
      /\ HasRead(3)' <=> HasRead(3)
  BY <1>2 DEF HasRead
<1>5. /\ local' = local /\ publication' = publication /\ dss' = dss
      /\ ForbiddenActive' <=> ForbiddenActive
      /\ ForbiddenBlocked' <=> ForbiddenBlocked
  BY <1>2, ElsewhereIs
<1>6. Unread' /\ Quiet'
  BY <1>1, <1>2, <1>4, <1>5 DEF Unread, Quiet
<1>7. Backed' /\ Lasting'
  BY <1>1, <1>2, <1>4, <1>5 DEF Backed, Lasting
<1> QED BY <1>3, <1>6, <1>7 DEF ProbeInv

(* Outside a Snapshot nothing has been read.                                *)
LEMMA NothingRead ==
  ASSUME pc' \notin {"checking", "authorized"},
         pc' = "sampling" => turn' = 1,
         snapshot'.publication = NoRow
  PROVE  Unread' /\ Quiet' /\ Backed' /\ Lasting'
<1>1. ~HasRead(1)' /\ ~HasRead(2)' /\ ~HasRead(3)'
  BY DEF HasRead
<1> QED BY <1>1 DEF Unread, Quiet, Backed, Lasting

LEMMA AbandonedProbe ==
  ASSUME ProbeInv, Abandoned
  PROVE  ProbeInv'
<1>1. TypeOK /\ Control /\ AuthorityTypes /\ Versions
  BY DEF ProbeInv
<1>2. /\ pc \in {"sampling", "authorized"}
      /\ pc' = "sleeping" /\ turn' = 0 /\ snapshot' = NoSnapshot
      /\ watch' = watch /\ UNCHANGED Elsewhere
  BY DEF Abandoned
<1>3. TypeOK' /\ Control' /\ AuthorityTypes' /\ Versions'
  <2>1. NoSnapshot \in View
    BY Constants
  <2>2. turn' \in 0 .. 3
    BY <1>2
  <2>3. TypeOK' /\ AuthorityTypes' /\ Versions'
    BY <1>1, <1>2, <2>2, BusyTypes, ElsewhereIs
  <2> QED BY <1>1, <1>2, <2>1, <2>3 DEF Control
<1>4. Unread' /\ Quiet' /\ Backed' /\ Lasting'
  BY <1>2, NothingRead, Constants
<1> QED BY <1>3, <1>4 DEF ProbeInv

-----------------------------------------------------------------------------
(* Eventually *)

JudgedResults ==
  [i \in DOMAIN Checks |->
     [name |-> Checks[i], passed |-> check(Checks[i], snapshot)]]
JudgedSample == [n \in Range(Checks) |-> check(n, snapshot)]

LEMMA JudgedIs ==
  /\ JudgedResults
       \in Seq([name : {"active", "blocked"}, passed : BOOLEAN])
  /\ JudgedResults # <<>>
  /\ JudgedSample \in [{"active", "blocked"} -> BOOLEAN]
  /\ JudgedResults = [i \in DOMAIN Checks |->
       [name |-> Checks[i], passed |-> JudgedSample[Checks[i]]]]
  /\ DOMAIN JudgedResults = DOMAIN Checks
<1>1. \A i \in DOMAIN Checks : Checks[i] \in {"active", "blocked"}
  BY ChecksAre
<1>2. \A i \in DOMAIN Checks : check(Checks[i], snapshot) \in BOOLEAN
  BY CheckIsBoolean
<1>3. \A i \in DOMAIN Checks : JudgedSample[Checks[i]]
                                 = check(Checks[i], snapshot)
  BY <1>1, ChecksAre DEF JudgedSample
<1>4. JudgedResults \in [DOMAIN Checks ->
        [name : {"active", "blocked"}, passed : BOOLEAN]]
  BY <1>1, <1>2, Zenon DEF JudgedResults
<1>5. DOMAIN Checks = 1 .. 2
  BY ChecksAre
<1>6. JudgedResults
        \in Seq([name : {"active", "blocked"}, passed : BOOLEAN])
  <2> DEFINE R == [name : {"active", "blocked"}, passed : BOOLEAN]
  <2> HIDE DEF R
  <2>1. \A s \in [1 .. 2 -> R] : s \in Seq(R)
    BY SeqDef
  <2> QED BY <1>4, <1>5, <2>1, Zenon DEF R
<1>7. JudgedResults # <<>>
  <2>1. 1 \in DOMAIN JudgedResults
    BY <1>5 DEF JudgedResults
  <2>2. DOMAIN <<>> = {}
    OBVIOUS
  <2> QED BY <2>1, <2>2
<1>8. JudgedSample \in [{"active", "blocked"} -> BOOLEAN]
  BY ChecksAre, CheckIsBoolean, Zenon DEF JudgedSample
<1>9. JudgedResults = [i \in DOMAIN Checks |->
        [name |-> Checks[i], passed |-> JudgedSample[Checks[i]]]]
  BY <1>3, Zenon DEF JudgedResults
<1>10. DOMAIN JudgedResults = DOMAIN Checks
  BY Zenon DEF JudgedResults
<1> QED BY <1>6, <1>7, <1>8, <1>9, <1>10

Judged ==
  /\ pc = "checking"
  /\ samples' = Append(samples, JudgedSample)
  /\ last' = JudgedResults
  /\ pc' = IF \A i \in DOMAIN JudgedResults : JudgedResults[i].passed
           THEN "returned" ELSE "sleeping"
  /\ snapshot' = NoSnapshot /\ watch' = Unwatched
  /\ UNCHANGED <<authorities, turn, observer, pool, expired, interval, delay,
                 failed>>

LEMMA JudgeView ==
  ASSUME Judge
  PROVE  Judged
  BY Zenon DEF Judge, Judged, JudgedResults, JudgedSample, Kept

LEMMA JudgedProbe ==
  ASSUME ProbeInv, Judged
  PROVE  ProbeInv'
<1>1. TypeOK /\ Control /\ AuthorityTypes /\ Versions
  BY DEF ProbeInv
<1>2. /\ pc = "checking" /\ pc' \in {"returned", "sleeping"}
      /\ snapshot' = NoSnapshot /\ watch' = Unwatched
      /\ UNCHANGED <<authorities, turn, observer, pool, expired, interval,
                     delay, failed>>
  BY Zenon DEF Judged
<1>3. samples' \in Seq([{"active", "blocked"} -> BOOLEAN])
  <2> DEFINE B == [{"active", "blocked"} -> BOOLEAN]
  <2>1. samples \in Seq(B) /\ JudgedSample \in B
    BY <1>1, JudgedIs DEF TypeOK
  <2>2. samples' = Append(samples, JudgedSample)
    BY DEF Judged
  <2> HIDE DEF B
  <2>3. samples' \in Seq(B)
    BY <2>1, <2>2, AppendProperties
  <2> QED BY <2>3 DEF B
<1>4. last' \in Seq([name : {"active", "blocked"}, passed : BOOLEAN])
  BY JudgedIs DEF Judged
<1>5. pool' = (pc' \notin {"new", "closed"})
  BY <1>1, <1>2 DEF TypeOK
<1>6. TypeOK'
  BY <1>1, <1>2, <1>3, <1>4, <1>5 DEF TypeOK
<1>7. AuthorityTypes' /\ Versions'
  BY <1>1, <1>2 DEF AuthorityTypes, Versions, authorities
<1>8. Control'
  BY <1>1, <1>2, Constants DEF Control
<1>9. Unread' /\ Quiet' /\ Backed' /\ Lasting'
  BY <1>2, NothingRead, Constants
<1> QED BY <1>6, <1>7, <1>8, <1>9 DEF ProbeInv

LEMMA IdleSnapshot ==
  ASSUME ProbeInv, pc \notin {"checking", "authorized", "sampling"}
  PROVE  snapshot.publication = NoRow
<1>1. ~HasRead(2)
  BY DEF HasRead
<1> QED BY <1>1 DEF ProbeInv, Unread

LEMMA ControlProbe ==
  ASSUME ProbeInv,
         NewProbeWithObserver \/ Close \/ Eventually \/ TimerFires
           \/ ContextDone
  PROVE  ProbeInv'
<1>1. TypeOK /\ Control /\ AuthorityTypes /\ Versions
  BY DEF ProbeInv
<1>2. snapshot.publication = NoRow
  BY IdleSnapshot
  DEF NewProbeWithObserver, Close, Eventually, TimerFires, ContextDone
<1>3. /\ UNCHANGED <<authorities, snapshot>>
      /\ watch' = watch \/ watch' = Unwatched
      /\ pc' \notin {"checking", "authorized"}
      /\ pc' = "sampling" => turn' = 1
  BY DEF NewProbeWithObserver, Close, Eventually, TimerFires, ContextDone
<1>4. AuthorityTypes' /\ Versions'
  BY <1>1, <1>3 DEF AuthorityTypes, Versions, authorities
<1>5. Control'
  <2>1. Unwatched \in Watch
    BY Constants
  <2>2. snapshot' \in View /\ watch' \in Watch
    BY <1>1, <1>3, <2>1, Zenon DEF Control
  <2>3. 1 \in 1 .. 3
    OBVIOUS
  <2> QED BY <1>3, <2>2, <2>3, Zenon DEF Control
<1>6. Unread' /\ Quiet' /\ Backed' /\ Lasting'
  BY <1>2, <1>3, NothingRead
<1>7. TypeOK'
  <2>1. interval \in Int /\ Second \in Nat \ {0}
    BY <1>1, ProbeAssumption DEF TypeOK
  <2>2. CASE NewProbeWithObserver
    <3>1. pool' = (pc' \notin {"new", "closed"})
      BY <2>2, Zenon DEF NewProbeWithObserver
    <3> QED BY <1>1, <2>2, <3>1 DEF NewProbeWithObserver, TypeOK
  <2>3. CASE Close
    <3>1. pool' = (pc' \notin {"new", "closed"})
      BY <2>3, Zenon DEF Close
    <3> QED BY <1>1, <2>3, <3>1 DEF Close, TypeOK
  <2>4. CASE Eventually
    <3>1. pool' = (pc' \notin {"new", "closed"})
      BY <1>1, <2>4 DEF Eventually, TypeOK
    <3>2. delay' \in Delays(interval')
      BY <2>1, <2>4 DEF Eventually, Delays
    <3> QED BY <1>1, <2>4, <3>1, <3>2 DEF Eventually, TypeOK, Delays
  <2>5. CASE TimerFires
    <3>1. pool' = (pc' \notin {"new", "closed"})
      BY <1>1, <2>5 DEF TimerFires, TypeOK
    <3>2. delay \in Delays(interval)
      BY <1>1, <2>5 DEF TimerFires, TypeOK, Delays
    <3>3. delay' \in Delays(interval')
      BY <2>1, <2>5, <3>2, NextDelayIs DEF TimerFires
    <3> QED BY <1>1, <2>5, <3>1, <3>3 DEF TimerFires, TypeOK, Delays
  <2>6. CASE ContextDone
    <3>1. pool' = (pc' \notin {"new", "closed"})
      BY <1>1, <2>6 DEF ContextDone, TypeOK
    <3> QED BY <1>1, <2>6, <3>1 DEF ContextDone, TypeOK
  <2> QED BY <2>2, <2>3, <2>4, <2>5, <2>6
<1> QED BY <1>4, <1>5, <1>6, <1>7 DEF ProbeInv

LEMMA StillProbe ==
  ASSUME ProbeInv, Expire \/ UNCHANGED vars
  PROVE  ProbeInv'
<1>1. /\ TypeOK /\ Control /\ AuthorityTypes /\ Versions /\ Unread
      /\ Quiet /\ Backed /\ Lasting
  BY DEF ProbeInv
<1>2. /\ local' = local /\ publication' = publication /\ dss' = dss
      /\ pc' = pc /\ turn' = turn /\ snapshot' = snapshot /\ watch' = watch
  BY DEF Expire, vars, authorities, probe
<1>3. /\ observer' = observer /\ pool' = pool /\ interval' = interval
      /\ delay' = delay /\ samples' = samples /\ last' = last
      /\ failed' = failed /\ (expired' = expired \/ expired' = TRUE)
  BY DEF Expire, vars, probe
<1>4. expired' \in BOOLEAN
  BY <1>1, <1>3, Zenon DEF TypeOK
<1>5. TypeOK'
  BY <1>1, <1>2, <1>3, <1>4 DEF TypeOK
<1>6. Control' /\ AuthorityTypes' /\ Versions'
  BY <1>1, <1>2 DEF Control, AuthorityTypes, Versions
<1>7. Unread' /\ Quiet' /\ Backed' /\ Lasting'
  BY <1>1, <1>2 DEF Unread, Quiet, Backed, Lasting, HasRead, ForbiddenActive,
                    ForbiddenBlocked
<1> QED BY <1>5, <1>6, <1>7 DEF ProbeInv

LEMMA NextProbe ==
  ASSUME ProbeInv, [Next]_vars
  PROVE  ProbeInv'
<1>1. TypeOK /\ Control /\ AuthorityTypes
  BY DEF ProbeInv
<1>2. CASE System
  BY <1>2, SystemProbe
<1>3. CASE ReadLocal
  BY <1>1, <1>3, ReadLocalView, LocalReadProbe, AbandonedProbe
<1>4. CASE ReadPublication
  BY <1>1, <1>4, ReadPublicationView, PublicationReadProbe
<1>5. CASE ObserveDSSReference
  BY <1>1, <1>5, ObserveView, ReferenceReadProbe, AbandonedProbe
<1>6. CASE token
  BY <1>1, <1>6, TokenView, AuthorisedProbe, AbandonedProbe
<1>7. CASE Judge
  BY <1>7, JudgeView, JudgedProbe
<1>8. CASE NewProbeWithObserver \/ Close \/ Eventually \/ TimerFires
             \/ ContextDone
  BY <1>8, ControlProbe
<1>9. CASE Expire \/ UNCHANGED vars
  BY <1>9, StillProbe
<1> QED BY <1>2, <1>3, <1>4, <1>5, <1>6, <1>7, <1>8, <1>9 DEF Next, Sampling

LEMMA ProbeInvariant == Spec => []ProbeInv
<1>1. Init => ProbeInv
  BY InitProbe
<1>2. ProbeInv /\ [Next]_vars => ProbeInv'
  BY NextProbe
<1> QED BY <1>1, <1>2, PTL DEF Spec

-----------------------------------------------------------------------------
(* Theorems *)

(* The pool is open exactly while the probe is in use, and the delay stays  *)
(* in the range its interval sets however often it is doubled (Close,       *)
(* Eventually).                                                             *)
THEOREM ProbeTypes == Spec => []TypeOK
<1>1. ProbeInv => TypeOK
  BY DEF ProbeInv
<1> QED BY <1>1, ProbeInvariant, PTL

(* Versions, rotations and samples without bound: on a snapshot during      *)
(* which nothing changed the Active check misses no forbidden state and     *)
(* reports only those, unless the publication query failed.  It needs that  *)
(* a confirmed version is the one the reference was written for, as the     *)
(* check does not see what the reference holds.                             *)
THEOREM QuietActiveVerdicts == Spec => []QuietActiveVerdictIsTrue
<1>1. ProbeInv => QuietActiveVerdictIsTrue
  <2>1. SUFFICES ASSUME ProbeInv, pc = "checking", watch.quiet
                 PROVE  IF ActiveRequiresDSSActivated(snapshot)
                        THEN ~ForbiddenActive
                        ELSE ForbiddenActive \/ watch.lost
    BY DEF QuietActiveVerdictIsTrue
  <2>2. /\ AuthorityTypes /\ Versions /\ Unread /\ Quiet
        /\ HasRead(1) /\ HasRead(2) /\ HasRead(3)
    BY <2>1 DEF ProbeInv, HasRead
  <2>3. /\ snapshot.local = local /\ snapshot.dss.exists = dss.exists
        /\ dss.exists => snapshot.dss.state = dss.state
    BY <2>1, <2>2 DEF Quiet
  <2>4. CASE watch.lost
    <3>1. snapshot.publication.confirmed = ""
      BY <2>2, <2>4, Constants DEF Unread
    <3>2. ActiveRequiresDSSActivated(snapshot) => local.status # "active"
      BY <2>3, <3>1 DEF ActiveRequiresDSSActivated
    <3> QED BY <2>4, <3>2 DEF ForbiddenActive
  <2>5. CASE ~watch.lost
    <3>1. snapshot.publication = publication
      BY <2>1, <2>2, <2>5 DEF Quiet
    <3>2. publication.published = local.version /\ dss.exists =>
            dss.holds = local.version
      <4>1. /\ local.version \in Nat /\ publication.desired \in Nat
            /\ publication.published \in Nat
        BY <2>2 DEF AuthorityTypes, Local, Row
      <4> QED BY <2>2, <4>1 DEF Versions
    <3>3. ActiveRequiresDSSActivated(snapshot) <=> ~ForbiddenActive
      BY <2>3, <3>1, <3>2 DEF ActiveRequiresDSSActivated, ForbiddenActive
    <3> QED BY <3>3
  <2> QED BY <2>4, <2>5
<1> QED BY <1>1, ProbeInvariant, PTL

(* Versions, rotations and samples without bound: a blocked version that    *)
(* the DSS holds all the time a Snapshot is read is caught, whatever else   *)
(* moves under it, as long as the publication was read and no version was   *)
(* skipped in writing the reference.  It needs that the publication stays   *)
(* blocked on one version, and that the DSS has counted as many writes as   *)
(* the version it holds.                                                    *)
THEOREM LastingBlockedVerdicts == Spec => []LastingBlockedIsCaught
<1>1. ProbeInv => LastingBlockedIsCaught
  <2>1. SUFFICES ASSUME ProbeInv, pc = "checking", watch.lasting, ~watch.lost,
                        ~dss.skipped
                 PROVE  ~BlockedVersionHasNoDSSReference(snapshot)
    BY DEF LastingBlockedIsCaught
  <2>2. /\ AuthorityTypes /\ Versions /\ Lasting
        /\ HasRead(1) /\ HasRead(2) /\ HasRead(3)
    BY <2>1 DEF ProbeInv, HasRead
  <2>3. /\ ForbiddenBlocked
        /\ snapshot.publication.sync = publication.sync
        /\ snapshot.publication.desired = publication.desired
        /\ snapshot.dss.exists = dss.exists
        /\ dss.exists => snapshot.dss.version = dss.version
    BY <2>1, <2>2 DEF Lasting
  <2>4. /\ dss.holds \in Nat /\ dss.version \in Nat
        /\ publication.desired \in Nat
    BY <2>2 DEF AuthorityTypes, Row, Reference
  <2>5. publication.desired <= dss.version
    BY <2>1, <2>2, <2>3, <2>4 DEF Versions, ForbiddenBlocked
  <2> QED BY <2>3, <2>4, <2>5
          DEF BlockedVersionHasNoDSSReference, ForbiddenBlocked
<1> QED BY <1>1, ProbeInvariant, PTL

(* However the system moves between the reads of a Snapshot, an Active      *)
(* alarm has a cause: the forbidden state occurred while it was read, or    *)
(* the intent left the state it was read in.                                *)
THEOREM AlarmsHaveACause == Spec => []AlarmHasACause
<1>1. ProbeInv => AlarmHasACause
  <2>1. SUFFICES ASSUME ProbeInv, pc = "checking", ~watch.lost, ~watch.cause
                 PROVE  ActiveRequiresDSSActivated(snapshot)
    BY DEF AlarmHasACause
  <2>2. Backed /\ HasRead(2) /\ HasRead(3)
    BY <2>1 DEF ProbeInv, HasRead
  <2> QED BY <2>1, <2>2 DEF Backed, ActiveRequiresDSSActivated
<1> QED BY <1>1, ProbeInvariant, PTL

-----------------------------------------------------------------------------
(* What Eventually returns *)

LEMMA LastOfAppend ==
  ASSUME NEW S, NEW s \in Seq(S), NEW e \in S
  PROVE  Last(Append(s, e)) = e /\ Append(s, e) # <<>>
<1>1. /\ Append(s, e) # <<>> /\ Len(Append(s, e)) = Len(s) + 1
      /\ Append(s, e)[Len(s) + 1] = e
  BY AppendProperties
<1> QED BY <1>1, Zenon DEF Last

LEMMA JudgedResultsKept ==
  ASSUME ProbeInv, Results, Judged
  PROVE  Results' /\ ResultsTellTheLastSample'
<1> DEFINE B == [{"active", "blocked"} -> BOOLEAN]
<1>1. samples \in Seq(B) /\ JudgedSample \in B
  BY JudgedIs DEF ProbeInv, TypeOK
<1>2. samples' = Append(samples, JudgedSample) /\ last' = JudgedResults
  BY DEF Judged
<1> HIDE DEF B
<1>3. Last(samples') = JudgedSample /\ samples' # <<>>
  BY <1>1, <1>2, LastOfAppend
<1>4. last' # <<>> /\ DOMAIN last' = DOMAIN Checks
  BY <1>2, JudgedIs
<1>5. last' = [i \in DOMAIN Checks |->
        [name |-> Checks[i], passed |-> Last(samples')[Checks[i]]]]
  BY <1>2, <1>3, JudgedIs, Zenon
<1>6. failed' = FALSE
  BY DEF Judged, Results
<1>7. /\ pc' \in {"returned", "sleeping"}
      /\ pc' = "returned" <=> \A i \in DOMAIN last' : last'[i].passed
  BY <1>2 DEF Judged
<1>8. Results'
  BY <1>3, <1>4, <1>5, <1>6, <1>7, Zenon DEF Results
<1>9. ResultsTellTheLastSample'
  BY <1>3, <1>4, <1>5, <1>6, <1>7, Zenon DEF ResultsTellTheLastSample
<1> QED BY <1>8, <1>9

LEMMA NextResults ==
  ASSUME ProbeInv, Results, ResultsTellTheLastSample, [Next]_vars
  PROVE  Results' /\ ResultsTellTheLastSample'
<1>1. TypeOK /\ Control /\ AuthorityTypes
  BY DEF ProbeInv
<1>2. CASE Judge
  BY <1>2, JudgeView, JudgedResultsKept
<1>3. CASE ContextDone
  <2>1. /\ pc = "sleeping" /\ pc' = "returned" /\ failed' = TRUE
        /\ samples' = samples /\ last' = last
    BY <1>3 DEF ContextDone
  <2>2. DOMAIN <<>> = {}
    OBVIOUS
  <2>3. Results'
    BY <2>1, Zenon DEF Results
  <2>4. ResultsTellTheLastSample'
    BY <2>1, Zenon DEF Results, ResultsTellTheLastSample
  <2> QED BY <2>3, <2>4
<1>4. CASE NewProbeWithObserver \/ Close \/ Eventually \/ TimerFires
  <2>1. /\ samples' = samples /\ last' = last /\ failed' = failed
        /\ pc' # "returned"
        /\ pc' \in {"new", "ready"} => pc \in {"new", "ready"}
        /\ pc' \in {"sampling", "authorized", "checking", "sleeping"} =>
             pc \in {"ready", "sleeping"}
        /\ pc' \notin {"returned", "closed"} =>
             pc \notin {"returned", "closed"}
    BY <1>4 DEF NewProbeWithObserver, Close, Eventually, TimerFires
  <2>2. Results'
    BY <2>1 DEF Results
  <2>3. ResultsTellTheLastSample'
    BY <2>1 DEF ResultsTellTheLastSample
  <2> QED BY <2>2, <2>3
<1>5. CASE LocalRead \/ PublicationRead \/ ReferenceRead \/ Abandoned
             \/ Authorised
  <2>1. /\ samples' = samples /\ last' = last /\ failed' = failed
        /\ pc \in {"sampling", "authorized"}
        /\ pc' \in {"sampling", "authorized", "checking", "sleeping"}
    BY <1>5, ElsewhereIs
    DEF LocalRead, PublicationRead, ReferenceRead, Abandoned, Authorised
  <2>2. Results'
    BY <2>1 DEF Results
  <2>3. ResultsTellTheLastSample'
    BY <2>1 DEF ResultsTellTheLastSample
  <2> QED BY <2>2, <2>3
<1>6. CASE System \/ Expire \/ UNCHANGED vars
  <2>1. UNCHANGED <<samples, last, failed, pc>>
    BY <1>6 DEF System, Expire, vars, probe
  <2> QED BY <2>1 DEF Results, ResultsTellTheLastSample
<1> QED BY <1>1, <1>2, <1>3, <1>4, <1>5, <1>6, ReadLocalView,
           ReadPublicationView, ObserveView, TokenView DEF Next, Sampling

(* However many samples Eventually took, what it returns fits together: the *)
(* results are those of the last sample, nil comes with a sample on which   *)
(* every check passed, and an error never comes with results that all pass. *)
THEOREM ResultsFitTogether == Spec => []ResultsTellTheLastSample
<1>1. Init => Results /\ ResultsTellTheLastSample
  BY DEF Init, Results, ResultsTellTheLastSample
<1>2. ProbeInv /\ (Results /\ ResultsTellTheLastSample) /\ [Next]_vars
        => (Results /\ ResultsTellTheLastSample)'
  BY NextResults
<1> QED BY <1>1, <1>2, ProbeInvariant, PTL DEF Spec
=============================================================================
