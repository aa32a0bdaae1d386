CONSTANTS
  Concern = "twice"
  Requests <- MCRequests
SPECIFICATION Spec
INVARIANTS
  OnlyNeededFromDonor
CHECK_DEADLOCK FALSE
