SPECIFICATION Spec
CONSTANTS
  InitialCapacity = 8
  FirstCollection = 1024
  Texts <- StuckTexts
  Leftovers <- MCLeftovers
INVARIANTS
  CompleteTextNeverLoops
CHECK_DEADLOCK FALSE
