\* An API that is stopped, restarted in vain and replaced.
SPECIFICATION Spec
CONSTANTS
  MaxContainers = 6
  MaxBoots = 2
  MaxExits = 0
INVARIANT PreviousIsStopped
CHECK_DEADLOCK FALSE
