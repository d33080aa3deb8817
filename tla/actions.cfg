SPECIFICATION FairSpec
CONSTANTS
  lookup = lookup  block = block  notify = notify
  NoOne = NoOne  Executor = Executor
  Actions = {lookup, block, notify}
  Retries <- SomeRetries
  MaxDbErrors = 1
INVARIANTS FailureIsFinal ReturnedIsRecorded InTurnExact
PROPERTY RunEnds
CHECK_DEADLOCK FALSE
