CONSTANTS
  Concern = "nosus"
  Requests <- MCRequests
SPECIFICATION Spec
INVARIANTS
  ListedFromRootsOrDonor
CHECK_DEADLOCK FALSE
