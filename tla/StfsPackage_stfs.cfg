SPECIFICATION Spec
CONSTANTS
  PerTable = 2
  HeaderBlocks = 1
  MaxBlock = 40
  Shape <- MCShape
  Package <- MCPackage
  Fold <- MCFold
  BadName = {"bad", "noise"}
  Rooted = {"/"}
  Excluding <- MCExcluding
INVARIANTS
  ReadsBack
  VerifiedIsPublished
  PlannedBeforeWritten
PROPERTY
  CallReturns
CHECK_DEADLOCK FALSE
