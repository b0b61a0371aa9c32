CONSTANTS
  Launcher = {l1, l2}
  Daemon = {d1, d2}
  None = None
  Retries = 1
  MaxDeaths = 3
  Conditions <- MCConditions
SPECIFICATION FairSpec
INVARIANTS
  TypeOK
  
  OneLauncher
PROPERTY Recovers
CHECK_DEADLOCK FALSE
