CONSTANTS
  Cases = {k1}
  NoCase = NoCase
  MaxRetries = 2
  MaxEvidence = 1
  MaxTurns = 2
SPECIFICATION FairSpec
INVARIANTS TypeOK TargetsHaveOutputs WithinRecursionLimit ContextIsGraded MissingIsNamed AnswerIsGrounded ScopedWhenResolved
PROPERTIES TurnEnds
CHECK_DEADLOCK FALSE
