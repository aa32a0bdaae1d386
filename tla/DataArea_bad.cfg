SPECIFICATION Spec
CONSTANTS
  NumBlocks = 5
  PagesPerBlock = 3
  Big = FALSE
  SlotPages = 1
  DataBase = 0
  DataLimit = 5
  KindOrder <- OneKind
  Content <- SmallContent
  Pages <- SmallPages
  Supply <- OneSupply
  MaxVersion = 2
  MaxFiles = 1
  MaxBad = 1
  WearsUnderFiles = TRUE
PROPERTY BuildKeepsBadMarks
CHECK_DEADLOCK FALSE
