SPECIFICATION Spec
CONSTANTS
  NumBlocks = 5
  Ratio = 2
  BaseCluster = 2
  MaxEntries = 1
  ClusterBytes = 2
  Name <- SpaceName
  Fold <- SpaceFold
  LayableName <- SpaceLayable
  Content <- SpaceContent
  Length <- SpaceLength
  NoContent = NoContent
  RootChoice <- SpaceRoot
  BoundaryChoice <- SpaceBoundary
  ReserveChoice <- SpaceReserve
  WithholdChoice <- SpaceWithhold
INVARIANTS
  RootHeld
PROPERTIES
  WithheldStays
