CONSTANTS
  k1 = k1
  k2 = k2
  h1 = h1
  h2 = h2
  Cases = {k1, k2}
  Held = {k1}
  Chunks = {h1, h2}
  CaseOf <- MCCaseOf
  NoChunk = NoChunk
  Calls = {1, 2}
  MaxIterations = 2
  p1 = p1
  p2 = p2
  co1 = co1
  co2 = co2
  co3 = co3
  good = good
  twin = twin
  Procs = {p1, p2}
  Callers = {co1, co2, co3}
  ProcOf <- MCProcOf
  Models = {good, twin}
  Expected = good
  Dim <- MCDim
  ExpectedDim = 1
  Fields = {f1}
  NoModel = NoModel
  Nobody = Nobody
  MaxEvents = 1
SPECIFICATION MCSpec
INVARIANTS KeepsContract ChunksOnce EnsuredIsUsable PointsOfExpectedModel LockHeldByChecker
PROPERTIES KeepsPromise AmbiguityStays AgentComesBack
CHECK_DEADLOCK FALSE
