SPECIFICATION FairSpec
CONSTANTS
  c1 = c1
  c2 = c2
  h1 = h1
  h2 = h2
  s1 = s1
  None = None
  Calls = {c1, c2}
  Hosts = {h1, h2, s1}
  Kind <- MCKind
  Threads <- MCThreads
  MaxForeground = 1
  MaxIdle = 2
  Sizes = {2, 3}
  MaxPayload = 2
  Limits <- MCLimits
  MaxTx = 1
  MaxTicks = 1
INVARIANTS CapacityExact
PROPERTIES EverythingEnds DrainedIdle Implements
CHECK_DEADLOCK FALSE
