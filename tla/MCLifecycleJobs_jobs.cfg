SPECIFICATION MCSpec
CONSTANTS
  r = r
  i = i
  c = c
  m1 = m1
  m2 = m2
  w1 = w1
  w2 = w2
  NoOwner = NoOwner
  Jobs = {r, i, c}
  Memories = {m1, m2}
  Workers = {w1, w2}
  Hosts = {"h1"}
  Owners <- MCOwners
  Owner <- MCOwnersCollide
  Kind <- MCKind
  Items <- MCItems
  MaxAttempts = 2
  Limit = 2
  Store = "memory"
  EffectsFail = TRUE
  MaxFaults = 2
  MaxActivity = 1
INVARIANTS CompletedIsReal ClaimsSound
PROPERTIES ProgressKept TerminalFinal JobsSettle
CHECK_DEADLOCK FALSE
