\* The default interval and one above a second; an intent with one amendment.
SPECIFICATION Spec
CONSTANTS
  Intervals = {0, 5}
  Second = 3
  MaxVersion = 2
  MaxRotations = 2
  MaxSamples = 2
INVARIANTS
  TypeOK
  QuietActiveVerdictIsTrue
  LastingBlockedIsCaught
  AlarmHasACause
  ResultsTellTheLastSample
PROPERTY ReturnsAfterTheDeadline
\* A closed probe does nothing more.
CHECK_DEADLOCK FALSE
