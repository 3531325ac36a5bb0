CONSTANTS
  f1 = f1
  f2 = f2
  Filings <- MCFilings
  Scenarios = {"ok"}
  Details = {"via callback", "via status poll"}
  NoOperation = NoOperation
  NoCommand = NoCommand
SPECIFICATION AccountableSpec
SYMMETRY MCSymmetry
INVARIANTS
  AccountableTypeOK
  OperationOwnedOnce
  IntentLoggedFirst
  StateExplainedByCommands
PROPERTIES
  EffectsAreLoggedAndForward
