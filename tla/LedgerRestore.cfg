SPECIFICATION Spec
CONSTANTS
  Conv = {c1, c2}
  None = None
  Tiers <- AllTiers
  Conditions <- MCConditions
  MaxDeaths = 2
  MaxReboots = 1
  MaxStarts = 2
  MaxRun = 3
  MaxId = 3
  MaxRestores = 1
CONSTRAINT Bound
SYMMETRY Symmetry
INVARIANTS TypeOK  EndedIsUnlisted EndedStaysEnded
 
CHECK_DEADLOCK FALSE
