\* One structural run, opened once by a client that waits for the end.
SPECIFICATION ServerSpec
CONSTANTS
  MaxStreams = 1
  MaxSymbols = 2
  Modes = {"structural"}
  MaxRuns = 1
PROPERTIES StreamsEnd
CHECK_DEADLOCK FALSE
