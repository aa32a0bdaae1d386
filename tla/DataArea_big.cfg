SPECIFICATION Spec
CONSTANTS
  NumBlocks = 4
  PagesPerBlock = 4
  Big = TRUE
  SlotPages = 2
  DataBase = 0
  DataLimit = 4
  KindOrder <- TwoKinds
  Content <- BigContent
  Pages <- BigPages
  Supply <- TwoSupply
  MaxVersion = 2
  MaxFiles = 1
  MaxBad = 1
  WearsUnderFiles = FALSE
INVARIANTS NewestCopyIsLive BlocksApart NoStaleCopy NewestRootFound
PROPERTY BadMarksKept
CHECK_DEADLOCK FALSE
