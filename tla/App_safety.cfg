CONSTANTS
  IdCount = 2
  Names = {ann}
  NoName = noname
  MaxMail = 1
  Answers <- ProtocolServer
SPECIFICATION Spec
CHECK_DEADLOCK FALSE
INVARIANTS
  TypeOK
  NoWrongSender
  SendTargetListedUnlessShrunk
  MapsAgreeUnlessRaced
