CONSTANT
  MaxRequests = 3
SPECIFICATION FairSpec
CHECK_DEADLOCK FALSE
INVARIANTS ResidencyExact RequestsIsolated
PROPERTIES StagesAscend RevokedWindsDown CancelledEnds
