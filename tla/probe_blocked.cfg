\* An intent that is amended before its first version reached the DSS.
SPECIFICATION Spec
CONSTANTS
  Intervals = {0}
  Second = 3
  MaxVersion = 2
  MaxRotations = 0
  MaxSamples = 1
INVARIANT BlockedPublicationIsRejected
CHECK_DEADLOCK FALSE
