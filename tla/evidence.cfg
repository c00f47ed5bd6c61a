\* A suite with two subtests, after none or about twenty other runs.
SPECIFICATION Spec
CONSTANTS
  Suites = {"TestF"}
  Subtests = {"a", "b"}
  Observers = {o1, o2}
  Durations = {10}
  Earlier = {0, 18, 19}
INVARIANTS
  TypeOK
  SummaryTellsTheTruth
  JUnitAgrees
  CheckpointsSurvive
  TimelineRespectsRealTime
  FailedRunIsListed
  CampaignAddsUp
  PercentileIsNearestRank
\* A campaign ends with its report.
CHECK_DEADLOCK FALSE
