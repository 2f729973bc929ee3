SPECIFICATION MCSpec
CONSTANTS
  w1 = w1
  w2 = w2
  c1 = c1
  r1 = r1
  r2 = r2
  Nobody = Nobody
  Reminders = {r1, r2}
  Workers = {w1, w2}
  Clients = {c1}
  MaxRetries = 1
  HostTargets = {"cancelled"}
  MaxCalls = 3
  MaxCrashes = 1
  MaxLapses = 1
  ForgetMayLapse = FALSE
  MaxQuiet = 1
INVARIANTS DeliveryRecorded ForgetFinal
PROPERTIES NothingReopened RemindersSettle
CHECK_DEADLOCK FALSE
