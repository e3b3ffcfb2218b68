SPECIFICATION FairSpec
CONSTANTS
  MaxRuns = 2
  MaxCrashes = 1
  MaxFaults = 2
  MaxMeddling = 2
INVARIANTS OwnedRecorded LanesHaveCheckouts
PROPERTIES HumanKept RetainedRemoved
CHECK_DEADLOCK FALSE
