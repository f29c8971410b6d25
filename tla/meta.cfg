SPECIFICATION Spec
CONSTANTS
  Setups <- MCSetups
  MaxRounds = 2
  MaxFails = 1
INVARIANTS
  SplitsResolve
  PartsMakeTheWhole
  GraphsFit
