SPECIFICATION FairSpec
CONSTANTS
  Issues = {1, 2}
  MaxRounds = 1
  MaxFailures = 2
  MaxMeddling = 1
INVARIANTS OneDeveloper
PROPERTIES EveryReadyServed
CHECK_DEADLOCK FALSE
