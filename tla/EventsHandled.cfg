CONSTANTS
  f1 = f1
  Filings <- OneFiling
  Scenarios = {"ok", "reject"}
  NoOperation = NoOperation
  Events <- ConflictingEvents
  Unreadable = Unreadable
  Partitions = {1}
  PartitionOf <- OnePartition
  MaxLog = 2
  MaxCrashes = 2
  MaxFailures = 2
  MaxRemovals = 1
  NoInput = NoInput
SPECIFICATION ConsumingSpec
CHECK_DEADLOCK FALSE
INVARIANTS
  EventsTypeOK
  NothingSkippedUnlessFailed
  LoserNeverRan
  OperatorIsToldTheTruth
PROPERTIES
  CommitCoversItsPoll
  EventsAreHandled
