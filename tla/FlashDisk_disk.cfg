SPECIFICATION SavingSpec
CONSTANTS
  NumBlocks = 3
  Ratio = 2
  BaseCluster = 2
  MaxEntries = 2
  ClusterBytes = 2
  Name <- DiskName
  Fold <- DiskFold
  LayableName <- DiskName
  Content <- DiskContent
  Length <- DiskLength
  NoContent = NoContent
  RootChoice <- NoChoice
  BoundaryChoice <- DiskBoundary
  ReserveChoice <- DiskReserve
  WithholdChoice <- DiskWithhold
  Fresh <- DiskFresh
  Mixed = "mixed"
  UsableBlock <- DiskUsable
  CursorChoice <- DiskCursor
INVARIANTS
  TableStable
  WriteNeedsOnlySpace
PROPERTIES
  ImplementsSavedStore
