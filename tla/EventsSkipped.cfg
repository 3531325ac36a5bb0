CONSTANTS
  f1 = f1
  Filings <- OneFiling
  Scenarios = {"ok", "reject"}
  NoOperation = NoOperation
  Events <- ConflictingEvents
  Unreadable = Unreadable
  Partitions = {1}
  PartitionOf <- OnePartition
  MaxLog = 2
  MaxCrashes = 0
  MaxFailures = 1
  MaxRemovals = 0
  NoInput = NoInput
SPECIFICATION EventsSpec
CHECK_DEADLOCK FALSE
INVARIANTS
  CommittedIsHandled
