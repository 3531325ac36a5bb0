CONSTANTS
  f1 = f1
  Filings <- MCFilings
  Scenarios = {"ok"}
  NoOperation = NoOperation
  MaxRollbacks = 2
  MaxCrashes = 3
SPECIFICATION UpgradeFairSpec
CHECK_DEADLOCK FALSE
INVARIANTS
  UpgradeTypeOK
  HistoryIsOneProgram
  NothingFiledUnchecked
  UpgradeNeverFails
PROPERTIES
  UpgradeCompletes
