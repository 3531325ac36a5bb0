CONSTANTS
  f1 = f1
  Filings <- MCFilings
  Scenarios = {"rate_limit"}
  Details <- WorkflowDetails
  NoOperation = NoOperation
  NoCommand = NoCommand
  NoMessage = NoMessage
  StepRetries = 1
  StatusPolls = 1
  MaxRecovery = 1
  MaxResumes = 1
  MaxLosses = 0
  OperatorOutcomes = {}
SPECIFICATION SFairSpec
CHECK_DEADLOCK FALSE
INVARIANTS
  SInv
  IntentBeforeEffect
  TruthfulOutcome
PROPERTIES
  ImplementsContract
  BothRunDown
  Settles
