CONSTANTS
  c1 = c1
  c2 = c2
  ann = ann
  bob = bob
  Typed <- OneNameEach
  IdCount = 3
  Names = {ann, bob}
  NoName = noname
  Texts = {hello}
  Conns = {c1, c2}
  Backlog = 2
  Capacity = 3
  ClientCapacity = 2
  LongNames = {bob}
  SplitReads = FALSE
  Missing = missing
  PaddedName = padded
  MaxFaults = 1
SPECIFICATION ChatSpec
CONSTRAINT WholeListsAfterRace
CHECK_DEADLOCK FALSE
INVARIANTS
  ChatTypeOK
  OwnIds
  ListedAreOthers
PROPERTIES
  EventuallyListed
  RequestsComplete
