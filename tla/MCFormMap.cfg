SPECIFICATION Spec
CONSTANTS
  Word = 8
INVARIANTS
  NewPairsAreNew
