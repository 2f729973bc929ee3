SPECIFICATION MCSpec
CONSTANTS
  m1 = m1
  m2 = m2
  s1 = s1
  c1 = c1
  c2 = c2
  w1 = w1
  w2 = w2
  Nobody = Nobody
  Sources = {s1}
  Memories = {m1, m2}
  SourcesOf <- MCShared
  Clients = {c1, c2}
  Workers = {w1, w2}
  Operations = {"ingest", "forget", "redact", "replay"}
  MaxAttempts = 1
  StoresFail = TRUE
  MaxCalls = 3
  MaxClock = 4
  MaxCrashes = 1
  MaxLapses = 1
INVARIANTS ForgottenGone IndexesSound
PROPERTIES  OutboxSettles
CHECK_DEADLOCK FALSE
