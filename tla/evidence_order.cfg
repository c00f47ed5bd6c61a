\* Two observers that record at the same time.
SPECIFICATION Spec
CONSTANTS
  Suites = {"TestF"}
  Subtests = {"a"}
  Observers = {o1, o2}
  Durations = {10}
  Earlier = {0}
INVARIANT TimelineIsChronological
CHECK_DEADLOCK FALSE
