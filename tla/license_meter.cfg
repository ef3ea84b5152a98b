CONSTANTS
  a1 = a1
  a2 = a2
  d1 = d1
  d2 = d2
  Agents = {a1}
  Devices = {d1}
  DeviceOf <- OneDevice
  Threads = {t1, t2}
  RunIds = {r1, r2, r3}
  Quota = 1
  DeviceLimit = 1
  GraceDays = 1
  OfflineGrace = 1
  Subscriptions <- Periods
  MaxDay = 3
  MaxActivations = 2
SPECIFICATION Spec
SYMMETRY MCSymmetry
CHECK_DEADLOCK FALSE
INVARIANTS TypeOK OverrunBounded WarnedIsFinal
PROPERTIES StartsAreCovered QueuedRunsKept
