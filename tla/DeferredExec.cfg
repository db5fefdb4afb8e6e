SPECIFICATION FairSpec
CONSTANTS
  Slots = 2
  Tokens = 4
  Clock = 13
  Delays = {1, 2}
  Rush = FALSE
  MaxLag = 2
  MaxJobs = 4
  MaxCalls = 2
INVARIANTS TypeOK TokensUnique NotForgotten
PROPERTIES RunsOnTime Runs
