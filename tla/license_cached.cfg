CONSTANTS
  a1 = a1
  a2 = a2
  d1 = d1
  d2 = d2
  Agents = {a1, a2}
  Devices = {d1, d2}
  DeviceOf <- TwoDevices
  Threads = {t1}
  RunIds = {r1, r2}
  Quota = 1
  DeviceLimit = 2
  GraceDays = 0
  OfflineGrace = 1
  Subscriptions <- OnePeriod
  MaxDay = 2
  MaxActivations = 2
SPECIFICATION Spec
SYMMETRY DeviceSymmetry
CHECK_DEADLOCK FALSE
PROPERTY StartsHaveQuota
