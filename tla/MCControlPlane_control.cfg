\* Two hosts, three experiments of which two exist at the start, one fault.
SPECIFICATION FairSpec
CONSTANTS
  e1 = e1  e2 = e2  e3 = e3  h1 = h1  h2 = h2  o1 = o1  o2 = o2
  Ids = {e1, e2, e3}
  PolicyVersions = {"v1", "v2"}
  Weights = {"tuned"}
  Budgets = {800, 900}
  TopKs = {}
  None = None
  Severities = {"warning"}
  Decisions = {"constrain", "continue"}
  InitialVersion = "v1"
  InitialSafety <- MCSafety
  InitialExperiments <- MCInitial
  Callers = {h1, h2}
  Owners = {o1, o2}
  DefaultBudget = 1800
  DefaultTopK = 12
  ConfigWeights = "configured"
  ConfigBudget = 1000
  ConfigTopK = 10
  Experiments <- MCExperiments
  Requests <- MCRequests
  MaxCalls = 4
  MaxFaults = 1
INVARIANTS PolicyConsistent
PROPERTIES ImplementsRegistry LeaseFrees
CHECK_DEADLOCK FALSE
