CONSTANTS
  f1 = f1
  Filings <- MCFilings
  Scenarios = {"ok"}
  Details <- ReconciliationDetails
  NoOperation = NoOperation
  NoCommand = NoCommand
  NoMessage = NoMessage
  NoRow = NoRow
  StepRetries = 0
  StatusPolls = 1
  MaxRecovery = 0
  MaxResumes = 0
  MaxLosses = 0
  OperatorOutcomes = {}
  Reconcilers = {"operator"}
  MaxBackups = 0
  MaxDeletes = 2
SPECIFICATION RSpec
CHECK_DEADLOCK FALSE
PROPERTIES
  OnlyFailedAreRecreated
