--------------------------- MODULE ReferenceStore ---------------------------
(***************************************************************************)
(* What a scenario may assume of a DSS: an atomic store of operational     *)
(* intent references with optimistic locking.  A call names an intent and, *)
(* unless it creates, the version it read.  It takes effect at one moment  *)
(* between its submission and its answer, at most once, and only on the    *)
(* version it named; or it is settled without effect, for whatever reason, *)
(* and then stays without effect.  The manager of a reference may advance  *)
(* it on its own, and the whole store may be emptied.                      *)
(***************************************************************************)
EXTENDS Naturals

CONSTANTS Callers, Intents

Kinds == {"create", "update", "delete", "read"}

VARIABLES
  register,  \* the version of every intent's reference; 0: there is none
  call,      \* what a caller asked for; a caller asks once
  outcome    \* "pending", "applied" or "unapplied"

storeVars == <<register, call, outcome>>

NoCall == [kind |-> "none"]
Call == [kind : Kinds, id : Intents, expected : Nat]

StoreInit ==
  /\ register = [id \in Intents |-> 0]
  /\ call = [c \in Callers |-> NoCall]
  /\ outcome = [c \in Callers |-> "pending"]

(* A call that fails before it reaches the store is settled as it is made.  *)
Submit(c) ==
  /\ call[c] = NoCall
  /\ call'[c] \in Call
  /\ call' = [call EXCEPT ![c] = call'[c]]
  /\ outcome' \in {outcome, [outcome EXCEPT ![c] = "unapplied"]}
  /\ UNCHANGED register

(* The compare-and-swap.                                                    *)
Matches(c) ==
  \/ call[c].kind = "create" /\ register[call[c].id] = 0
  \/ /\ call[c].kind \in {"update", "delete"}
     /\ register[call[c].id] > 0
     /\ register[call[c].id] = call[c].expected

Apply(c) ==
  /\ call[c] # NoCall /\ outcome[c] = "pending"
  /\ Matches(c)
  /\ register' = [register EXCEPT ![call[c].id] =
                    IF call[c].kind = "delete" THEN 0 ELSE @ + 1]
  /\ outcome' = [outcome EXCEPT ![c] = "applied"]
  /\ UNCHANGED call

Settle(c) ==
  /\ call[c] # NoCall /\ outcome[c] = "pending"
  /\ outcome' = [outcome EXCEPT ![c] = "unapplied"]
  /\ UNCHANGED <<register, call>>

Advance(id) ==
  /\ register[id] > 0
  /\ register' = [register EXCEPT ![id] = @ + 1]
  /\ UNCHANGED <<call, outcome>>

Empty ==
  /\ register' = [id \in Intents |-> 0]
  /\ UNCHANGED <<call, outcome>>

StoreNext ==
  \/ \E c \in Callers : Submit(c) \/ Apply(c) \/ Settle(c)
  \/ \E id \in Intents : Advance(id)
  \/ Empty

StoreSpec == StoreInit /\ [][StoreNext]_storeVars
=============================================================================
