CONSTANTS
  f1 = f1
  Filings <- MCFilings
  Scenarios = {"reject"}
  Details <- ReconciliationDetails
  NoOperation = NoOperation
  NoCommand = NoCommand
  NoMessage = NoMessage
  NoRow = NoRow
  StepRetries = 0
  StatusPolls = 1
  MaxRecovery = 0
  MaxResumes = 0
  MaxLosses = 0
  OperatorOutcomes = {}
  Reconcilers = {"scheduled"}
  MaxBackups = 0
  MaxDeletes = 1
SPECIFICATION ReconcilingSpec
CHECK_DEADLOCK FALSE
INVARIANTS
  RInv
  RefusedOnlyWhenSettled
  FailsOnlyWhenSettled
  SuccessMatchesBooks
PROPERTIES
  ImplementsContract
  ReviewIsResolved
  LostWorkIsRecreated
