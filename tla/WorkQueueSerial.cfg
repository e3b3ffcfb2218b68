SPECIFICATION Spec
CONSTANTS
  Hosts = {h1, h2}
  None = None
  Targets = {"coding", "queued", "done"}
  Lease = 1
  MaxComments = 2
  MaxStamp = 6
  MaxClock = 3
  MaxFaults = 2
  Overlap = FALSE
SYMMETRY HostSymmetry
INVARIANTS LeaseExclusive NoLostUpdate NoReleaseWhileLive LabelsAgree
PROPERTIES RefinesRecord
CHECK_DEADLOCK FALSE
