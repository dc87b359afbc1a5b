CONSTANTS
  k1 = k1
  k2 = k2
  h1 = h1
  h2 = h2
  Cases = {k1, k2}
  Held = {k1, k2}
  Chunks = {h1, h2}
  CaseOf <- MCCaseOf
  NoChunk = NoChunk
  Calls = {1, 2}
  MaxIterations = 1
SPECIFICATION Spec
INVARIANTS LookupsResolve
CHECK_DEADLOCK FALSE
