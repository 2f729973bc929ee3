SPECIFICATION Spec
CONSTANTS
  w1 = w1
  w2 = w2
  Nobody = Nobody
  a = a
  b = b
  c = c
  Messages = {a, b, c}
  InitialLog <- MCLog
  Versions = {1}
  Workers = {w1, w2}
  Operations = {"append", "assemble", "fast", "deep", "forget", "retain"}
  TailLimit = 2
  ChunkSize = 1
  MaxCalls = 4
  MaxFaults = 1
SYMMETRY MCSymmetry
INVARIANTS ContextClean ArchiveWhole
PROPERTIES HotTailExact ErasureExact
CHECK_DEADLOCK FALSE
