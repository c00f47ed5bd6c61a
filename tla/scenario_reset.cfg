\* A story after one whose toxic was not removed.
SPECIFICATION Spec
CONSTANTS
  Operations = {"dss.create_reference"}
  Names = {"latency", "drop", "delay"}
  Faults <- StoryFaults
  MaxSteps = 2
  MaxStories = 2
  MaxWire = 2
INVARIANT NetworkStartsClean
CHECK_DEADLOCK FALSE
