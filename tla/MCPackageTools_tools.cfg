SPECIFICATION ToolsFairSpec
CONSTANTS
  p1 = p1
  p2 = p2
  k1 = k1
  t1 = t1
  u1 = u1
  x1 = x1
  x2 = x2
  None = None
  Unset = Unset
  NoKey = NoKey
  Callers = {1, 2, 3, 4}
  First <- MCFirst
  Batches = {1, 2, 3}
  Ids = {p1, p2}
  IdempotencyKeys = {k1}
  Allowed = {"private", "shared"}
  ToolWorkloads <- MCToolWorkloads
  MaxBatch = 2
  MaxPolicyFaults = 1
  MaxBatchFaults = 1
  MaxOverruns = 1
INVARIANTS AnswersReal
PROPERTIES BatchesExact BatchesEnd
CHECK_DEADLOCK FALSE
