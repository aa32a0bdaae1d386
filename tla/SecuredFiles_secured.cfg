SPECIFICATION Spec
CONSTANTS
  Name <- MCName
  Copy <- MCCopy
  CpuKey <- MCCpuKey
  Setting <- MCSetting
  Draw = {"drawn1", "drawn2"}
  MaxLayers = 3
INVARIANTS
  SealedForConsole
PROPERTIES
  SealingKept
  RebuildKeeps
