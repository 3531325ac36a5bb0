CONSTANTS
  f1 = f1
  Filings <- MCFilings
  Scenarios = {"no_callback_done"}
  Details <- ReconciliationDetails
  NoOperation = NoOperation
  NoCommand = NoCommand
  NoMessage = NoMessage
  NoRow = NoRow
  StepRetries = 0
  StatusPolls = 1
  MaxRecovery = 0
  MaxResumes = 0
  MaxLosses = 1
  OperatorOutcomes = {"rejected"}
  Reconcilers = {}
  MaxBackups = 1
  MaxDeletes = 0
SPECIFICATION RSpec
CHECK_DEADLOCK FALSE
INVARIANTS
  RInv
  SuccessMatchesBooks
PROPERTIES
  ImplementsContract
