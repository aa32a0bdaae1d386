SPECIFICATION Spec
CONSTANTS
  NumBlocks = 5
  Ratio = 1
  BaseCluster = 0
  MaxEntries = 3
  ClusterBytes = 2
  Name <- FilesName
  Fold <- FilesFold
  LayableName <- FilesName
  Content <- FilesContent
  Length <- FilesLength
  NoContent = NoContent
  RootChoice <- NoChoice
  BoundaryChoice <- OneBoundary
  ReserveChoice <- NoChoice
  WithholdChoice <- NoChoice
INVARIANTS
  FilesApart
  ClustersAccountedFor
  ChainHoldsFile
PROPERTIES
  OtherFilesKept
  InsertKeepsBackToBack
  ImplementsStore
