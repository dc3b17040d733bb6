CONSTANTS
  IdCount = 3
  Names = {ann, bob}
  NoName = noname
  Texts = {hello}
  Conns = {c1, c2, c3}
  Backlog = 2
  Capacity = 2
  LongNames = {}
  SplitReads = TRUE
  Missing = missing
  PaddedName = padded
SPECIFICATION Spec
SYMMETRY ConnSymmetry
CHECK_DEADLOCK FALSE
INVARIANTS
  TypeOK
  UniqueIdsUnlessRaced
  IdsBoundedByRegistrations
  UsersListIsCurrent
