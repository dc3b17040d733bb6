CONSTANTS
  IdCount = 3
  Names = {ann, bob}
  NoName = noname
  MaxMail = 1
  Answers <- ServerAppAnswers
SPECIFICATION FairSpec
CHECK_DEADLOCK FALSE
PROPERTY MessagesPoll
