----------------------------- MODULE MCFixture -----------------------------
(***************************************************************************)
(* Instances of FixtureServer for TLC.  The fault shapes are the ones the  *)
(* scenarios arm: an injected status, a delayed commit whose answer is     *)
(* withheld, and cut JSON.                                                 *)
(***************************************************************************)
EXTENDS FixtureServer, TLC

Shape(status, delayed, close, malformed) ==
  [status |-> status, delayed |-> delayed, close |-> close,
   malformed |-> malformed]

Failure == Shape(503, FALSE, FALSE, FALSE)
LostAnswer == Shape(0, TRUE, TRUE, FALSE)
CutAnswer == Shape(0, FALSE, FALSE, TRUE)

OnlyLostAnswer == {LostAnswer}
EveryFault == {Failure, LostAnswer, CutAnswer}

(* The fixture answers a subscription query as it answers a reference query, *)
(* in one action of the model.                                              *)
Handlers == Operations \ {"subscriptions"}

RequestSymmetry == Permutations(Requests)
=============================================================================
