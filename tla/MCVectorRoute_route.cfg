SPECIFICATION Spec
CONSTANTS
  m1 = m1
  m2 = m2
  p1 = p1
  w1 = w1
  w2 = w2
  Nobody = Nobody
  Repairer = Repairer
  Memories = {m1, m2}
  Existing = {m1}
  Plans = {p1}
  Shadow <- MCShadow
  Target <- MCTarget
  Logical = "logical"
  BaseModel = "base"
  Dim <- MCDim
  Inputs = {1}
  Workers = {w1, w2}
  Operations = {"ingest", "reembed", "rollback", "forget", "search", "repair"}
  MaxCalls = 4
  MaxCrashes = 1
  MaxLapses = 0
SYMMETRY MCSymmetry
INVARIANTS RouteConsistent IndexExact
PROPERTIES RolledBackFinal
CHECK_DEADLOCK FALSE
