SPECIFICATION FairSpec
CONSTANTS
  Lanes = {l1, l2}
  Lease = 1
  MaxClock = 2
  MaxBeats = 2
  MaxFaults = 1
INVARIANTS ReportRecoverable
PROPERTIES ReceiptsStick LateWritesRejected WaveEnds
CHECK_DEADLOCK FALSE
