CONSTANTS
  IdCount = 3
  Names = {ann, bob}
  NoName = noname
  Texts = {hello}
  Conns = {c1, c2}
  Backlog = 2
  Capacity = 2
  LongNames = {}
  SplitReads = FALSE
  Missing = missing
  PaddedName = padded
SPECIFICATION Spec
CHECK_DEADLOCK FALSE
INVARIANT UniqueIds
