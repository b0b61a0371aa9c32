SPECIFICATION Spec
CONSTANTS
  b1 = b1  b2 = b2  k1 = k1  k2 = k2  n1 = n1
  none = none  noAnswer = noAnswer
  Browser = {b1, b2}
  Fresh = {b1}
  Key = {k1}
  Name = {n1}
  NoName = none
  NoAnswer = noAnswer
  MaxRenames = 2
  MaxFaults = 1
  Tries = 2
INVARIANTS TypeOK Converges
CHECK_DEADLOCK FALSE
