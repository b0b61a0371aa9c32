SPECIFICATION FairSpec
CONSTANTS
  b1 = b1  b2 = b2  b3 = b3  none = none
  Bridge = {b1, b2, b3}
  MaxPrint = 4
  MaxDeaths = 2
  Cap = 2
  None = none
INVARIANT TypeOK
PROPERTIES IsTerminal EndIsTold
CHECK_DEADLOCK FALSE
