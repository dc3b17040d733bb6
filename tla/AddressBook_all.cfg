CONSTANTS
  Writers = {w1, w2}
  Strings = {x}
  Blank = blank
  TypedIds = {7}
  TypedTypes = {"home"}
  MaxPhones = 2
  Unset = unset
  Absent = absent
  Fragment = fragment
  Failed = failed
SPECIFICATION FairSpec
CHECK_DEADLOCK FALSE
INVARIANTS
  TypeOK
  CommittedKept
  NoPhantomPeople
PROPERTIES
  BrokenFileKept
  PromptEnds
