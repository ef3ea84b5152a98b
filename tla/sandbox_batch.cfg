\* Three runs, two at a time, with and without fail_fast.
SPECIFICATION FairSpec
CONSTANTS
  NumSpecs = 3
  Concurrency = 2
  FailFast = {TRUE, FALSE}
INVARIANTS TypeOK SandboxesAccounted ReportIsTrue
PROPERTIES BatchEnds
CHECK_DEADLOCK FALSE
