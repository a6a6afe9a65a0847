SPECIFICATION Spec
CONSTANTS
  BlockSize = 11
  HeaderSize = 2
  Requests <- MCRequests
  InitialGcCheck = 2
  Word = 16
  Null = Null
INVARIANTS
  SweepRemovesAllGrey
\* The program ends once cleanup_manager has given the block back.
CHECK_DEADLOCK FALSE
