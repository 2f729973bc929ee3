SPECIFICATION FairSpec
CONSTANTS
  h0 = h0
  m0 = m0
  m1 = m1
  c1 = c1
  c2 = c2
  c3 = c3
  x1 = x1
  x2 = x2
  r1 = r1
  r2 = r2
  r3 = r3
  r4 = r4
  r5 = r5
  r6 = r6
  r7 = r7
  r8 = r8
  r9 = r9
  r10 = r10
  r11 = r11
  r12 = r12
  r13 = r13
  r14 = r14
  r15 = r15
  s1 = s1
  s2 = s2
  k1 = "k1"
  k2 = "k2"
  Nobody = Nobody
  Unknown = Unknown
  Holders = {h0, m0, m1, c1, c2, c3}
  HostHolder = h0
  MainHolder = m0
  ToolHolder = m1
  Lines = {"malformed", "response", "ping", "initialize", "initialized", "list", "call"}
  MaxLines = 4
  Settings <- MCSettings
  Spans = {x1, x2}
  QueueCap = 1
  KeyIds = {"k1", "k2"}
  RefreshAfter = 2
  MaxRotations = 2
  MaxOutages = 1
  Modes = {"http", "grpc", "graphql"}
  Requests = {r1, r2, r3, r4, r5, r6, r7, r8, r9, r10, r11, r12, r13, r14, r15}
  Request <- MCRequest
  MaxInFlight = 1
  MaxBuckets = 1
  IdleTime = 1
  MaxTime = 2
  Workloads <- MCWorkloads
INVARIANTS TelemetrySound RequestsBounded ToolsAfterHandshake
PROPERTIES ServiceRecovers
CHECK_DEADLOCK FALSE
