\* Two streams, of two runs or twice of one, in every mode; one symbol decides what is committed.
SPECIFICATION FairSpec
CONSTANTS
  MaxStreams = 2
  MaxSymbols = 1
  Modes = {"structural", "sandbox", "automation"}
  MaxRuns = 2
INVARIANTS TypeOK ResultsAreReal EndIsRecorded
PROPERTIES EventsSaved
CHECK_DEADLOCK FALSE
