CONSTANTS
  IdCount = 2
  Names = {ann}
  NoName = noname
  Texts = {hi}
  NoId = noid
  Clients = {c1, c2}
  MaxMsgs = 1
  MaxHanded = 2
  MaxRestarts = 1
  MaxLate = 2
SPECIFICATION Spec
CHECK_DEADLOCK FALSE
SYMMETRY ClientSymmetry
INVARIANT OnlyReceivedMessages
