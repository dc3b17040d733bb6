CONSTANTS
  IdCount = 3
  Names = {ann}
  NoName = noname
  MaxMail = 1
  Answers <- ReliableServer
SPECIFICATION FairSpec
CHECK_DEADLOCK FALSE
PROPERTIES
  UsersPoll
  MessagesPoll
