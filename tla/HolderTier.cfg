CONSTANTS
  Daemon = {d1, d2}
  Holder = {h1, h2}
  Entry = {e1, e2, e3}
  None = None
  MaxId = 2
  SpawnTries = 0
  AdoptTries = 0
  Overlap = FALSE
  StartDuringBoot = FALSE
  PromptClose = TRUE
SPECIFICATION Spec
SYMMETRY Symmetry
CHECK_DEADLOCK FALSE
INVARIANTS
  TypeOK
  HangUpIsWanted
  ServingMeansReachable
  SurvivorsAdopted
