------------------------------- MODULE Probe -------------------------------
(***************************************************************************)
(* The invariant probe (assertions/invariants.go): Snapshot reads three    *)
(* authorities one after the other while the system changes under it, and  *)
(* Eventually samples until all checks pass or its context ends.  DSS      *)
(* observers: the fixture's and the real one (internal/realdss/stack.go).  *)
(*                                                                         *)
(* External, from how the probe and the suites use them: the Aero Arc API, *)
(* which goes active only once the publication is confirmed Activated and  *)
(* ends locally before it withdraws; the DSS, whose version counts writes; *)
(* the suite's tripwires, which write forbidden states into the database.  *)
(***************************************************************************)
EXTENDS Integers, Sequences, FiniteSets, SequencesExt

CONSTANTS
  Intervals,     \* the intervals Eventually is called with, in units of the
                 \* default interval of 100ms
  Second,        \* a second in these units, 10 in the code
  MaxVersion,    \* bound: versions of the intent
  MaxRotations,  \* bound: the DSS version the fixture's rotation goes up to
  MaxSamples     \* bound: samples of one Eventually

ASSUME ProbeAssumption ==
  /\ Intervals \subseteq Int /\ Second \in Nat \ {0}
  /\ MaxVersion \in Nat /\ MaxRotations \in Nat /\ MaxSamples \in Nat

VARIABLES
  local,        \* latest row of operational_intents
  publication,  \* row of operational_intent_publications, sync "" if none
  dss,          \* the reference; history: the intent version it was written
                \* for, and whether its writes skipped an intent version
  pc, turn,     \* of Eventually, and of Snapshot within it
  observer,     \* which DSSReferenceObserver the probe has
  pool,         \* the database pool is open
  expired,      \* the context has ended
  interval, delay, snapshot, samples, last, failed,  \* of Eventually
  watch         \* history: what happened since this Snapshot began to read:
                \* nothing changed; the intent moved on or the forbidden
                \* state occurred; a blocked version was published all the
                \* time; the publication query failed

authorities == <<local, publication, dss>>
probe == <<pc, turn, observer, pool, expired, interval, delay, snapshot,
           samples, last, failed>>
vars == <<authorities, probe, watch>>

NoRow == [desired |-> 0, published |-> 0, state |-> "", confirmed |-> "",
          sync |-> ""]
NoReference == [exists |-> FALSE, version |-> 0, state |-> "", holds |-> 0,
                skipped |-> FALSE]
NoSnapshot == [local |-> [version |-> 0, status |-> ""],
               publication |-> NoRow, dss |-> NoReference]
Unwatched == [quiet |-> TRUE, cause |-> FALSE, lasting |-> FALSE,
              lost |-> FALSE]

-----------------------------------------------------------------------------
(* The checks *)

(* Mutant of ActiveRequiresDSSActivated: versions are not compared.         *)
ActiveRequiresDSSActivatedAnyVersion(s) ==
  s.local.status = "active" =>
    /\ s.publication.confirmed = "Activated"
    /\ s.dss.exists /\ s.dss.state = "Activated"

ActiveRequiresDSSActivated(s) ==
  s.local.status = "active" =>
    /\ s.publication.published = s.local.version
    /\ s.publication.confirmed = "Activated"
    /\ s.dss.exists /\ s.dss.state = "Activated"

(* Mutant of BlockedVersionHasNoDSSReference: off by one.                   *)
BlockedVersionHasNoDSSReferenceOrEqual(s) ==
  s.publication.sync = "blocked" =>
    ~s.dss.exists \/ s.dss.version <= s.publication.desired

BlockedVersionHasNoDSSReference(s) ==
  s.publication.sync = "blocked" =>
    ~s.dss.exists \/ s.dss.version < s.publication.desired

Checks == <<"active", "blocked">>
check(name, s) == IF name = "active" THEN ActiveRequiresDSSActivated(s)
                  ELSE BlockedVersionHasNoDSSReference(s)

(* What the two invariants are about, on the authorities themselves.        *)
ForbiddenActive ==
  /\ local.status = "active"
  /\ \/ publication.published # local.version
     \/ publication.confirmed # "Activated"
     \/ ~dss.exists \/ dss.state # "Activated" \/ dss.holds # local.version
ForbiddenBlocked ==
  publication.sync = "blocked" /\ dss.exists /\ dss.holds >= publication.desired

(* The probe's pool is open exactly while it is in use; the delay doubles   *)
(* up to a second and never leaves the range the interval sets.             *)
TypeOK ==
  /\ pc \in {"new", "ready", "sampling", "authorized", "checking", "sleeping",
             "returned", "closed"}
  /\ pool = (pc \notin {"new", "closed"})
  /\ turn \in 0 .. 3 /\ observer \in {"none", "fixture", "real"}
  /\ expired \in BOOLEAN /\ failed \in BOOLEAN
  /\ interval \in Intervals
  /\ pc \in {"sampling", "authorized", "checking", "sleeping"} =>
       delay \in IF interval <= 0 THEN 1 .. Second
                 ELSE interval .. (IF interval < Second THEN Second
                                   ELSE interval)
  /\ samples \in Seq([{"active", "blocked"} -> BOOLEAN])
  /\ last \in Seq([name : {"active", "blocked"}, passed : BOOLEAN])

Init ==
  /\ local = [version |-> 1, status |-> "submitted"]
  /\ publication = NoRow /\ dss = NoReference
  /\ pc = "new" /\ turn = 0 /\ observer \in {"none", "fixture", "real"}
  /\ pool = FALSE /\ expired = FALSE
  /\ interval \in Intervals /\ delay = 0
  /\ snapshot = NoSnapshot /\ samples = <<>> /\ last = <<>> /\ failed = FALSE
  /\ watch = Unwatched

-----------------------------------------------------------------------------
(* External: the authorities *)

Pending(desired, state) ==
  [publication EXCEPT !.desired = desired, !.state = state,
                      !.sync = "pending"]

Accept ==
  /\ local.status = "submitted"
  /\ local' = [local EXCEPT !.status = "accepted"]
  /\ publication' = Pending(local.version, "Accepted")
  /\ dss' = dss

Written == dss.exists /\ dss.state = publication.state
                      /\ dss.holds = publication.desired

(* A conflict blocks the desired version; the worker tries again later.     *)
Block ==
  /\ publication.sync = "pending" /\ publication.state = "Accepted"
  /\ ~Written
  /\ publication' = [publication EXCEPT !.sync = "blocked"]
  /\ UNCHANGED <<local, dss>>
Retry ==
  /\ publication.sync = "blocked"
  /\ publication' = [publication EXCEPT !.sync = "pending"]
  /\ UNCHANGED <<local, dss>>

Write ==
  /\ publication.sync = "pending" /\ publication.state # "Withdrawn"
  /\ ~Written
  /\ dss' = [exists |-> TRUE, version |-> dss.version + 1,
             state |-> publication.state, holds |-> publication.desired,
             skipped |-> dss.skipped \/ publication.desired > dss.holds + 1]
  /\ UNCHANGED <<local, publication>>
Confirm ==
  /\ publication.sync = "pending" /\ Written
  /\ publication' = [publication EXCEPT !.published = publication.desired,
                       !.confirmed = publication.state, !.sync = "confirmed"]
  /\ UNCHANGED <<local, dss>>

RequestActivation ==
  /\ local.status = "accepted" /\ publication.sync = "confirmed"
  /\ publication.published = local.version
  /\ publication.confirmed = "Accepted"
  /\ publication' = Pending(local.version, "Activated")
  /\ UNCHANGED <<local, dss>>
Activate ==
  /\ local.status = "accepted"
  /\ publication.published = local.version
  /\ publication.confirmed = "Activated"
  /\ local' = [local EXCEPT !.status = "active"]
  /\ UNCHANGED <<publication, dss>>

Modify ==
  /\ local.status \in {"accepted", "active"} /\ local.version < MaxVersion
  /\ local' = [version |-> local.version + 1, status |-> "submitted"]
  /\ UNCHANGED <<publication, dss>>
End ==
  /\ local.status \in {"accepted", "active"}
  /\ local' = [local EXCEPT !.status = "ended"]
  /\ publication' = Pending(publication.desired, "Withdrawn")
  /\ dss' = dss
Withdraw ==
  /\ publication.sync = "pending" /\ publication.state = "Withdrawn"
  /\ \/ /\ dss.exists /\ dss' = NoReference
        /\ UNCHANGED <<local, publication>>
     \/ /\ ~dss.exists
        /\ publication' = [publication EXCEPT !.sync = "withdrawn"]
        /\ UNCHANGED <<local, dss>>

(* The fixture's control plane moves the reference on without a new intent  *)
(* version.                                                                 *)
Rotate ==
  /\ dss.exists /\ dss.version < MaxRotations
  /\ dss' = [dss EXCEPT !.version = @ + 1]
  /\ UNCHANGED <<local, publication>>

(* What the probe is there to find: the suite's tripwires, in the place of  *)
(* an API that goes active too early or publishes what it has blocked.      *)
Tripwire ==
  /\ local.status = "accepted"
  /\ \/ /\ local' = [local EXCEPT !.status = "active"]
        /\ UNCHANGED publication
     \/ /\ publication.sync = "confirmed"
        /\ publication' = [publication EXCEPT !.sync = "blocked"]
        /\ UNCHANGED local
  /\ dss' = dss

(* A step of the system beside the probe, noted while a Snapshot is read.   *)
(* The checks only look at the snapshot, so none is needed beside them.     *)
Reading == pc = "authorized" \/ (pc = "sampling" /\ turn > 1)
System ==
  /\ \/ Accept \/ Block \/ Retry \/ Write \/ Confirm \/ RequestActivation
     \/ Activate \/ Modify \/ End \/ Withdraw \/ Rotate \/ Tripwire
  /\ pc \notin {"checking", "returned", "closed"}
  /\ watch' = IF Reading
              THEN [watch EXCEPT !.quiet = FALSE,
                      !.cause = @ \/ local' # local \/ ForbiddenActive',
                      !.lasting = @ /\ ForbiddenBlocked']
              ELSE watch
  /\ UNCHANGED probe

Expire ==
  /\ ~expired /\ pc \in {"sampling", "authorized", "sleeping"}
  /\ expired' = TRUE
  /\ UNCHANGED <<authorities, pc, turn, observer, pool, interval, delay,
                 snapshot, samples, last, failed, watch>>

-----------------------------------------------------------------------------
(* The probe *)

(* No observer, or no database: an error, and no pool stays open.           *)
NewProbeWithObserver ==
  /\ pc = "new"
  /\ \/ observer # "none" /\ pc' = "ready" /\ pool' = TRUE
     \/ pc' = "closed" /\ pool' = FALSE
  /\ UNCHANGED <<authorities, turn, observer, expired, interval, delay,
                 snapshot, samples, last, failed, watch>>

Close ==
  /\ pc \in {"ready", "returned"}
  /\ pc' = "closed" /\ pool' = FALSE
  /\ UNCHANGED <<authorities, turn, observer, expired, interval, delay,
                 snapshot, samples, last, failed, watch>>

Eventually ==
  /\ pc = "ready"
  /\ pc' = "sampling" /\ turn' = 1
  /\ delay' = IF interval <= 0 THEN 1 ELSE interval
  /\ UNCHANGED <<authorities, observer, pool, expired, interval, snapshot,
                 samples, last, failed, watch>>

(* Mutant of ReadOrder: the DSS is asked first.                             *)
ReadOrderReversed == <<"dss", "publication", "local">>

ReadOrder == <<"local", "publication", "dss">>

reading(authority) == pc = "sampling" /\ turn \in 1 .. 3
                                      /\ ReadOrder[turn] = authority
Watched == IF turn = 1 THEN Unwatched ELSE watch
Advance ==
  /\ turn' = (turn + 1) % 4
  /\ pc' = IF turn = 3 THEN "checking" ELSE "sampling"

(* An error ends the Snapshot without a sample.                             *)
Abandon == pc' = "sleeping" /\ turn' = 0 /\ snapshot' = NoSnapshot

ReadLocal ==
  /\ reading("local")
  /\ \/ /\ ~expired
        /\ snapshot' = [snapshot EXCEPT !.local = local]
        /\ watch' = [Watched EXCEPT !.cause = ForbiddenActive,
                                    !.lasting = ForbiddenBlocked]
        /\ Advance
     \/ Abandon /\ UNCHANGED watch
  /\ UNCHANGED <<authorities, observer, pool, expired, interval, delay,
                 samples, last, failed>>

(* No row and any error look the same: the fields stay empty.               *)
ReadPublication ==
  /\ reading("publication")
  /\ \/ /\ ~expired
        /\ snapshot' = [snapshot EXCEPT !.publication = publication]
        /\ watch' = Watched
     \/ snapshot' = snapshot /\ watch' = [Watched EXCEPT !.lost = TRUE]
  /\ Advance
  /\ UNCHANGED <<authorities, observer, pool, expired, interval, delay,
                 samples, last, failed>>

(* The fixture lists every reference it has; the probe looks for its own.   *)
fixtureDSSObserver ==
  LET listed == {[id |-> "peer", reference |-> [NoReference EXCEPT
                                                  !.exists = TRUE]]}
                  \cup (IF dss.exists THEN {[id |-> "own", reference |-> dss]}
                        ELSE {})
      own == {r \in listed : r.id = "own"}
  IN IF own = {} THEN NoReference ELSE (CHOOSE r \in own : TRUE).reference

(* The real DSS answers 200 with the reference, or 404.                     *)
ReferenceObserver == IF dss.exists THEN dss ELSE NoReference

(* The real observer needs a token first.                                   *)
token ==
  /\ reading("dss") /\ observer = "real"
  /\ \/ ~expired /\ pc' = "authorized" /\ UNCHANGED <<turn, snapshot>>
     \/ Abandon
  /\ UNCHANGED <<authorities, observer, pool, expired, interval, delay,
                 samples, last, failed, watch>>

(* An answer other than these, or none, is an error.  What the reference    *)
(* was written for is not in the answer.                                    *)
ObserveDSSReference ==
  /\ pc = "authorized" \/ (reading("dss") /\ observer = "fixture")
  /\ LET reference == IF observer = "real" THEN ReferenceObserver
                      ELSE fixtureDSSObserver
     IN \/ /\ ~expired
           /\ snapshot' = [snapshot EXCEPT !.dss =
                             [reference EXCEPT !.holds = 0,
                                              !.skipped = FALSE]]
           /\ watch' = Watched /\ Advance
        \/ Abandon /\ UNCHANGED watch
  /\ UNCHANGED <<authorities, observer, pool, expired, interval, delay,
                 samples, last, failed>>

(* Mutant of Kept: the former results are not dropped.                      *)
KeptAppended(results) == last \o results

(* The results of the latest sample replace those of the one before.        *)
Kept(results) == results

(* The sample is kept and judged; Eventually returns once all checks pass.  *)
Judge ==
  /\ pc = "checking"
  /\ LET results == [i \in DOMAIN Checks |->
           [name |-> Checks[i], passed |-> check(Checks[i], snapshot)]]
     IN /\ samples' = Append(samples, [n \in Range(Checks) |->
                                         check(n, snapshot)])
        /\ last' = Kept(results)
        /\ pc' = IF \A i \in DOMAIN results : results[i].passed
                 THEN "returned" ELSE "sleeping"
  /\ snapshot' = NoSnapshot /\ watch' = Unwatched
  /\ UNCHANGED <<authorities, turn, observer, pool, expired, interval, delay,
                 failed>>

(* Mutant of NextDelay: doubling without the cap.                           *)
NextDelayUncapped(d) == IF d < Second THEN 2 * d ELSE d

NextDelay(d) ==
  IF d < Second THEN (IF 2 * d > Second THEN Second ELSE 2 * d) ELSE d

TimerFires ==
  /\ pc = "sleeping" /\ Len(samples) < MaxSamples
  /\ pc' = "sampling" /\ turn' = 1 /\ delay' = NextDelay(delay)
  /\ watch' = Unwatched
  /\ UNCHANGED <<authorities, observer, pool, expired, interval, snapshot,
                 samples, last, failed>>

(* Mutant of ContextDone: the sleep does not listen to the context.         *)
ContextDoneDeaf == pc = "sleeping" /\ FALSE /\ UNCHANGED vars

ContextDone ==
  /\ pc = "sleeping" /\ expired
  /\ pc' = "returned" /\ failed' = TRUE
  /\ UNCHANGED <<authorities, turn, observer, pool, expired, interval, delay,
                 snapshot, samples, last, watch>>

Sampling == ReadLocal \/ ReadPublication \/ token \/ ObserveDSSReference
              \/ Judge \/ TimerFires

Next == System \/ Expire \/ NewProbeWithObserver \/ Close \/ Eventually
          \/ Sampling \/ ContextDone

(* The goroutine of Eventually keeps running: queries, requests and timers  *)
(* end.  Go's select picks any ready case, so a context that has ended is   *)
(* chosen if it is ready again and again.                                   *)
Spec == Init /\ [][Next]_vars /\ WF_vars(Sampling) /\ SF_vars(ContextDone)

-----------------------------------------------------------------------------
(* Properties *)

(* On a snapshot during which nothing changed the Active check misses no    *)
(* forbidden state, and what it reports is one unless the publication query *)
(* failed: a lost answer fails closed (Snapshot,                            *)
(* ActiveRequiresDSSActivated).                                             *)
QuietActiveVerdictIsTrue ==
  pc = "checking" /\ watch.quiet =>
    IF ActiveRequiresDSSActivated(snapshot) THEN ~ForbiddenActive
    ELSE ForbiddenActive \/ watch.lost

(* A blocked version that the DSS holds all the time a snapshot is read is  *)
(* caught, although the snapshot is torn and the intent, its status and the *)
(* DSS version move under it: no transition between the reads hides it.     *)
(* Two cases are left: the publication query failed, and the DSS version,   *)
(* which counts writes, lags behind the intent version because a version    *)
(* was never written, the case BlockedPublicationIsRejected is about        *)
(* (Snapshot, BlockedVersionHasNoDSSReference).                             *)
LastingBlockedIsCaught ==
  pc = "checking" /\ watch.lasting /\ ~watch.lost /\ ~dss.skipped =>
    ~BlockedVersionHasNoDSSReference(snapshot)

(* An Active alarm on a torn snapshot is never made by the tearing alone:   *)
(* the forbidden state really occurred while it was read, or the intent     *)
(* left the state it was read in.  It holds because the intent is read      *)
(* before the authorities that back it (Snapshot).                          *)
AlarmHasACause ==
  pc = "checking" /\ ~watch.lost /\ ~ActiveRequiresDSSActivated(snapshot)
    => watch.cause

(* What Eventually returns fits together: the results are those of the last *)
(* sample, nil comes with a sample on which every check passed, and an      *)
(* error never comes with results that all pass (Eventually).               *)
ResultsTellTheLastSample ==
  pc = "returned" =>
    /\ last = <<>> <=> samples = <<>>
    /\ samples # <<>> =>
         last = [i \in DOMAIN Checks |->
                   [name |-> Checks[i], passed |-> Last(samples)[Checks[i]]]]
    /\ failed <=> \/ samples = <<>>
                  \/ \E i \in DOMAIN last : ~last[i].passed

(* Eventually returns once its context has ended, whatever the authorities  *)
(* do and however often their queries fail (Eventually).                    *)
ReturnsAfterTheDeadline == expired ~> pc \in {"returned", "closed"}

(* assertions/invariants.go: BlockedVersionHasNoDSSReference "rejects       *)
(* publication of a desired version after durable coordination has declared *)
(* it blocked".  It does so whenever that state lasted while the snapshot   *)
(* was read (line 74 compares the DSS version with the intent version).     *)
BlockedPublicationIsRejected ==
  pc = "checking" /\ watch.lasting /\ ~watch.lost =>
    ~BlockedVersionHasNoDSSReference(snapshot)
=============================================================================
