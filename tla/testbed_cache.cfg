\* Two runs, three calls, two commits, one kill or failed write, two moments, later is expired.
SPECIFICATION FairSpec
CONSTANTS
  Run = {r1, r2}
  MaxCommit = 2
  MaxTime = 1
  TTL = 0
  MaxCalls = 3
  MaxFaults = 1
INVARIANTS TypeOK CachedIsPrepared StagingRemoved
PROPERTIES ServedCurrent CallsEnd
CHECK_DEADLOCK FALSE
