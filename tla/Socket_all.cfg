CONSTANTS
  Clients = {c1, c2}
  c1 = c1
  c2 = c2
  MsgLen <- LongAndShort
  Want = 2
  BufSize = 2
  Backlog = 1
  MaxStarts = 2
SPECIFICATION FairSpec
CHECK_DEADLOCK FALSE
INVARIANTS
  TypeOK
  BytesInOrder
  BytesAccounted
PROPERTIES
  ConnectReturns
  SendReturns
  ReceiveReturns
