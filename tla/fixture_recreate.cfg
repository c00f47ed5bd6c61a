\* An OVN of a deleted reference meets the reference created after it.
SPECIFICATION Spec
CONSTANTS
  Requests = {r1, r2, r3, r4}
  Intents = {i1}
  ClientOps = {"create", "delete"}
  FaultKinds = {}
  MaxVersion = 0
  MaxTimes = 0
  MaxPlans = 0
  MaxResets = 0
SYMMETRY RequestSymmetry
INVARIANT StaleOVNNeverWins
CHECK_DEADLOCK FALSE
