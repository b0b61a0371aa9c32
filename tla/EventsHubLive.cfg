SPECIFICATION FairSpec
CONSTANTS
  a1 = a1  a2 = a2  r1 = r1  r2 = r2  c1 = c1  w1 = w1  none = none
  Pty = {a1}
  Sweeper = {r1, r2}
  Client = {}
  Waiter = {}
  None = none
  MaxChunks = 1
  MaxWrites = 1
  MaxReads = 1
  HookStatus = {"waiting"}
  Target = {"idle"}
  DialFails = FALSE
PROPERTIES Watched Settles DeadFades
CHECK_DEADLOCK FALSE
