SPECIFICATION Spec
CONSTANTS
  w = w
  q1 = q1
  q2 = q2
  none = none
  NoSlug = none
  Slug = {w}
  Request = {q1, q2}
  MaxWrites = 2
  MaxCrashes = 2
SYMMETRY Symmetry
INVARIANT MergeDestroysNothing
