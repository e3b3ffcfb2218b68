SPECIFICATION Spec
CONSTANTS
  Hosts = {h1, h2, h3}
  None = None
  Targets = {"coding"}
  Lease = 1
  MaxComments = 3
  MaxStamp = 3
  MaxClock = 1
  MaxFaults = 1
  Overlap = TRUE
SYMMETRY HostSymmetry
INVARIANTS AtMostOneClaimWinner FirstCommentStays
CHECK_DEADLOCK FALSE
