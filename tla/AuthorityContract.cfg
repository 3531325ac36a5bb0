CONSTANTS
  f1 = f1
  f2 = f2
  Filings <- MCFilings
  Scenarios = {"dup_callback", "no_callback_done", "reject", "timeout_lost", "rate_limit_exhausted"}
  NoOperation = NoOperation
  MaxRestarts = 2
  MaxLateWrites = 0
SPECIFICATION FairSpec
INVARIANTS
  ObservedIsDurable
  CallbacksAreTruthful
PROPERTIES
  ImplementsProvider
  RecordedIsFinished
