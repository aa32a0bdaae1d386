CONSTANTS
  Concern = "backslash"
  Requests <- MCRequests
SPECIFICATION Spec
INVARIANTS
  ListedFromRootsOrDonor
CHECK_DEADLOCK FALSE
