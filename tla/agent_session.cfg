\* Two tool calls and plans of up to three steps, one retry, a limit two completions may reach.
SPECIFICATION FairSpec
CONSTANTS
  Call = {k1, k2}
  NoCall = NoCall
  MaxSteps = 3
  MaxRetries = 1
  MaxRepetitions = 2
  MaxTokens = 2
  Usages = {1, 2}
INVARIANTS TypeOK BudgetHolds PassedIsEarned BrowserGone
PROPERTIES SessionEnds
CHECK_DEADLOCK FALSE
