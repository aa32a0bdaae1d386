CONSTANTS
  Roots = 2
  Files = {1}
  Contents <- MCContents
  Disks <- MCDisks
  Requests <- MCRequests
  Security <- MCSecurity
  MaxClock = 1
  Listings = {"closed"}
  Policies = {"Strict"}
  Wide = FALSE
SPECIFICATION Spec
INVARIANT StrictFailsWhereItCannotLook
CHECK_DEADLOCK FALSE
