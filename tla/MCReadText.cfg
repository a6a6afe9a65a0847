SPECIFICATION FairSpec
CONSTANTS
  InitialCapacity = 8
  FirstCollection = 1024
  Texts <- MCTexts
  Leftovers <- MCLeftovers
INVARIANTS
  TypeOK
  OneSymbolPerName
  ReadsWhatIsTyped
  SummaryIsRight
PROPERTIES
  CollectionsFindRoots
  HeldIsReached
  EveryTextIsRead
CHECK_DEADLOCK FALSE
