SPECIFICATION JSSpec
CONSTANTS
  c1 = c1  c2 = c2  c3 = c3  x = x  y = y  unx = unx  wipe = wipe
  missing = missing  corrupt = corrupt
  Caller = {c1, c2, c3}
  Value <- Sets
  Empty = {}
  Missing = missing
  Corrupt = corrupt
  Op <- Updates
  Blind <- Writes
  Apply <- Result
  Attempts = 3
  ReadErrors = FALSE
PROPERTY IsAtomic
