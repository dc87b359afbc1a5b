CONSTANTS
  c1 = c1
  c2 = c2
  c3 = c3
  Entities = {e1, e2}
  Contents = {c1, c2, c3}
  Absent = Absent
  NoPoint = NoPoint
  NumKeys = 2
  MaxChunks = 2
  ChunkCount <- MCChunkCount
  First <- MCFirst
  Runs = {r1}
  MaxEdits = 2
  MaxFaults = 1
  AllowRevert = FALSE
SPECIFICATION FairSpec
INVARIANTS SkippedIsExact
PROPERTIES Converges
