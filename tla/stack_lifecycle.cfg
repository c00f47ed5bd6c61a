\* Six containers: a complete stack and two more APIs.
SPECIFICATION Spec
CONSTANTS
  MaxContainers = 6
  MaxBoots = 2
  MaxExits = 1
INVARIANTS
  TypeOK
  OneWorker
  HandoverUsableUnlessTainted
  CloseRemovesWhatIsNamed
PROPERTIES
  CaptureIsComplete
  StartAPIReturns
\* A closed stack does nothing more.
CHECK_DEADLOCK FALSE
