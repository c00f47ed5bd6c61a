\* Two stories of up to three steps.
SPECIFICATION Spec
CONSTANTS
  Operations = {"dss.create_reference"}
  Names = {"latency", "drop", "delay"}
  Faults <- StoryFaults
  MaxSteps = 3
  MaxStories = 2
  MaxWire = 3
INVARIANTS
  TypeOK
  LeftoversAreReported
  OnlyLostAnswersLeak
  EveryCleanupInReverse
  EvidenceTellsResult
\* After the last story nothing is left to do.
CHECK_DEADLOCK FALSE
