SPECIFICATION FairSpec
CONSTANTS
  Programs <- MCPrograms
  Language <- MCLanguage
  Analyze <- CompiledOnce
  Reading <- Read
  InitialCapacity = 8
  MaxReads = 2
  MaxEnvs = 24
INVARIANTS
  PromptIsClean
  CallPopsItsOwn
  FramesFollowCalls
  ScopesAreLeft
PROPERTIES
  AnswersAsPromised
  AnswersEveryForm
\* The program ends by (QUIT), or waits for a form.
CHECK_DEADLOCK FALSE
