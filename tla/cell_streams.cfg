CONSTANTS
  Runs = {r1}
  Clients = {c1}
  NumPhases = 3
  GeneratePhase = 1
  ExecutePhase = 2
  Policies = {"stub", "bad_delay", "bad_hosts", "agent", "agent_with_secret"}
  MaxCrashes = 1
  TornWrites = TRUE
  Shutdowns = TRUE
  SlowClients = TRUE
SPECIFICATION FairSpec
CHECK_DEADLOCK FALSE
INVARIANTS TypeOK SeqIncreasing SeqGapFree ClientSawPrefix StreamComplete
PROPERTIES QuietAfterEnd RunsEnd StreamsEnd
