SPECIFICATION Spec
CONSTANTS
  Programs <- MCEdges
  Analyze <- Compile
  Reading <- Read
  InitialCapacity = 8
  MaxReads = 3
  MaxEnvs = 24
INVARIANTS
  TypeOK
  FramesChainEnvironments
  TagsBelongToBytecode
\* The program ends by (QUIT) or an assertion, or waits for a form.
CHECK_DEADLOCK FALSE
