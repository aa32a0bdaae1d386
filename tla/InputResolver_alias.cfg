CONSTANTS
  Concern = "alias"
  Requests <- MCRequests
SPECIFICATION Spec
INVARIANTS
  EveryStageKept
CHECK_DEADLOCK FALSE
