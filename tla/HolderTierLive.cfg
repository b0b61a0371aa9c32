CONSTANTS
  Daemon = {d1, d2}
  Holder = {h1}
  Entry = {e1, e2}
  None = None
  MaxId = 1
  SpawnTries = 1
  AdoptTries = 1
  Overlap = TRUE
  StartDuringBoot = TRUE
  PromptClose = FALSE
SPECIFICATION FairSpec
CHECK_DEADLOCK FALSE
INVARIANTS
  SingleAttachment
  AliveMeansRunning
  DeadMeansEnded
PROPERTIES
  KillEndsSession
  ExitLearned
  RehydrateEnds
