\* Three writers of one intent, with a rotation and one delayed commit whose
\* answer is withheld.
SPECIFICATION Spec
CONSTANTS
  Requests = {r1, r2, r3}
  Intents = {i1}
  ClientOps <- Mutations
  FaultKinds <- OnlyLostAnswer
  MaxVersion = 2
  MaxTimes = 1
  MaxPlans = 1
  MaxResets = 0
SYMMETRY RequestSymmetry
PROPERTY ImplementsReferenceStore
INVARIANTS
  OneWinnerPerOVN
  JournalMatchesCommit
\* The requests are finitely many, so the server comes to rest.
CHECK_DEADLOCK FALSE
