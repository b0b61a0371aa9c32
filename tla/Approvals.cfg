SPECIFICATION Spec
CONSTANTS
  s1 = s1  s2 = s2  c1 = c1  c2 = c2  b1 = b1  b2 = b2  none = none
  Server = {s1, s2}
  Call = {c1, c2}
  Browser = {b1, b2}
  None = none
  Budget = 1
  MaxStarts = 3
SYMMETRY Symmetry
INVARIANT TypeOK
PROPERTY IsApproval
CHECK_DEADLOCK FALSE
