SPECIFICATION Spec
CONSTANTS
  Reviewers = {r1}
  MaxCoder = 2
  MaxFailures = 2
  MaxRounds = 2
  MaxIterations = 2
  MaxStagnant = 2
  MaxCommits = 2
  MaxCrashes = 1
  MaxFaults = 2
  MaxMeddling = 0
SYMMETRY ReviewerSymmetry
INVARIANTS LanesStoppedWhenReleased
CHECK_DEADLOCK FALSE
