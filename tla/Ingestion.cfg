CONSTANTS
  c1 = c1
  c2 = c2
  c3 = c3
  Entities = {e1}
  Contents = {c1, c2}
  Absent = Absent
  NoPoint = NoPoint
  NumKeys = 1
  MaxChunks = 2
  ChunkCount <- MCChunkCount
  First <- MCFirst
  Runs = {r1, r2}
  MaxEdits = 2
  MaxFaults = 2
  AllowRevert = TRUE
SYMMETRY RunSymmetry
SPECIFICATION Spec
INVARIANTS TypeOK EmbeddedIsExact SkippedWasComplete
PROPERTIES KeepsIndexPromise
