CONSTANTS
  Concern = "all"
  Requests <- MCRequests
SPECIFICATION Spec
INVARIANTS
  ConsoleFromBestSource
  ListedFromRootsOrDonor
  OnlyNeededFromDonor
  OnceInIniOrder
  EveryStageKept
  PayloadsOnceFromBestSource
CHECK_DEADLOCK FALSE
