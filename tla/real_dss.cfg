\* Two refused calls and one death during a run.
SPECIFICATION Spec
CONSTANTS
  MaxRefusals = 2
  MaxExits = 1
INVARIANTS
  TypeOK
  NothingRunsUnsupported
  FailureIsLogged
  CloseIsComplete
  HandoverIsAFederation
\* A closed environment does nothing more.
CHECK_DEADLOCK FALSE
