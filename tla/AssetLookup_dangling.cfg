CONSTANTS
  Roots = 1
  Files = {1, 2}
  Contents <- MCContents
  Disks <- MCDisks
  Requests <- MCRequests
  Security <- MCSecurity
  MaxClock = 1
  Listings = {"dangling"}
  Policies = {"Strict"}
  Wide = FALSE
SPECIFICATION Spec
INVARIANT FirstPackageTaken
CHECK_DEADLOCK FALSE
