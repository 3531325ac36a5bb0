CONSTANTS
  f1 = f1
  Filings <- MCFilings
  Scenarios = {"ok"}
  Details <- WorkflowDetails
  NoOperation = NoOperation
  NoCommand = NoCommand
  NoMessage = NoMessage
  StepRetries = 0
  StatusPolls = 1
  MaxRecovery = 0
  MaxResumes = 0
  MaxLosses = 0
  OperatorOutcomes = {}
SPECIFICATION Spec
CHECK_DEADLOCK FALSE
PROPERTIES
  NotFoundProvesNoEffect
