SPECIFICATION Spec
CONSTANTS
  Programs <- Leaving
  Analyze <- Compile
  Reading <- Read
  InitialCapacity = 8
  MaxReads = 2
  MaxEnvs = 24
INVARIANTS
  FramesFollowCalls
\* The program ends by (QUIT) or an assertion, or waits for a form.
CHECK_DEADLOCK FALSE
