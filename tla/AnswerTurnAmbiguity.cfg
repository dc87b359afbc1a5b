CONSTANTS
  Cases = {k1, k2}
  NoCase = NoCase
  MaxRetries = 2
  MaxEvidence = 1
  MaxTurns = 1
SPECIFICATION Spec
INVARIANTS AmbiguityAsks
CHECK_DEADLOCK FALSE
