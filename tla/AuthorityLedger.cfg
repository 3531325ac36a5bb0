CONSTANTS
  f1 = f1
  f2 = f2
  Filings <- MCFilings
  Scenarios = {"reject", "transient_5xx"}
  NoOperation = NoOperation
  MaxRestarts = 1
  MaxLateWrites = 1
SPECIFICATION Spec
SYMMETRY MCSymmetry
INVARIANTS
  TypeOK
  EffectsCountedOnce
  UnfinishedIsUnderWay
