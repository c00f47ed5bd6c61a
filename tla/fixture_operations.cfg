\* Two requests of any handler, every fault shape, a plan of up to two firings
\* and a reset.
SPECIFICATION Spec
CONSTANTS
  Requests = {r1, r2}
  Intents = {i1}
  ClientOps <- Handlers
  FaultKinds <- EveryFault
  MaxVersion = 1
  MaxTimes = 2
  MaxPlans = 1
  MaxResets = 1
SYMMETRY RequestSymmetry
INVARIANTS
  TypeOK
  AnsweredIsJournaled
  ResetBoundary
  FaultBudget
  JournalRealTimeOrder
  JournalNumbering
CHECK_DEADLOCK FALSE
