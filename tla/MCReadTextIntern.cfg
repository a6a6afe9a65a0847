SPECIFICATION Spec
CONSTANTS
  InitialCapacity = 8
  FirstCollection = 1024
  Texts <- CollectingTexts
  Leftovers <- MCLeftovers
PROPERTIES
  GreyIsNotUsed
CHECK_DEADLOCK FALSE
