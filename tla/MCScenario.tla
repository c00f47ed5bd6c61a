----------------------------- MODULE MCScenario -----------------------------
(***************************************************************************)
(* Instances of ScenarioRunner for TLC: the fixture and network faults the *)
(* E2E suite arms, and two that an injector turns down.                    *)
(***************************************************************************)
EXTENDS ScenarioRunner

DroppedAnswer ==
  [injector |-> "fixture", kind |-> "drop_response_after_commit",
   name |-> "drop", operation |-> "dss.create_reference", count |-> 1,
   timed |-> FALSE]
SlowFixture ==
  [injector |-> "fixture", kind |-> "latency", name |-> "delay",
   operation |-> "dss.create_reference", count |-> 0, timed |-> TRUE]
SlowProxy ==
  [injector |-> "toxiproxy", kind |-> "latency", name |-> "latency",
   operation |-> NoOperation, count |-> 0, timed |-> TRUE]
Unbounded == [SlowProxy EXCEPT !.timed = FALSE]
WrongInjector == [SlowProxy EXCEPT !.kind = "http_status"]

StoryFaults == {DroppedAnswer, SlowFixture, SlowProxy,
                Unbounded, WrongInjector}
=============================================================================
