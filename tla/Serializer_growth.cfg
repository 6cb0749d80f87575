CONSTANTS
  b1 = b1
  b2 = b2
  b3 = b3
  Badges <- MCBadges
  Contents <- MCContents
  Registers <- MCRegisters
  Transferred <- MCTransferred
  ChildLists <- MCChildLists
  PageSize = 8
  BinarySize = 16
  RecordSize = 1
  OffsetSize = 1
  Word = 72
  UNUSED = unused
  INVALID_ID = invalid
  SlotSize = 2
  KcapRange = 8
SPECIFICATION Spec
CHECK_DEADLOCK FALSE
INVARIANTS
  MessageFits
