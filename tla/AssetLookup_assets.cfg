CONSTANTS
  Roots = 2
  Files = {1, 2}
  Contents <- MCContents
  Disks <- MCDisks
  Requests <- MCRequests
  Security <- MCSecurity
  MaxClock = 3
  Listings = {"open", "breaks"}
  Policies = {"Strict", "Lenient"}
  Wide = TRUE
SPECIFICATION Spec
INVARIANTS
  AnswersFresh
  CachedBytesCurrent
CHECK_DEADLOCK FALSE
