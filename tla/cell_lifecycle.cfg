CONSTANTS
  Runs = {r1, r2}
  Clients = {}
  NumPhases = 3
  GeneratePhase = 1
  ExecutePhase = 2
  Policies = {"stub", "bad_delay", "bad_hosts", "agent", "agent_with_secret"}
  MaxCrashes = 1
  TornWrites = FALSE
  Shutdowns = TRUE
  SlowClients = FALSE
SPECIFICATION Spec
CHECK_DEADLOCK FALSE
SYMMETRY MCSymmetry
INVARIANTS StatusMatchesLog StubPhases
PROPERTY LifecycleSpec
