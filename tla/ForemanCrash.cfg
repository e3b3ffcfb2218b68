SPECIFICATION Spec
CONSTANTS
  Reviewers = {r1, r2}
  MaxCoder = 2
  MaxFailures = 2
  MaxRounds = 2
  MaxIterations = 2
  MaxStagnant = 2
  MaxCommits = 2
  MaxCrashes = 1
  MaxFaults = 1
  MaxMeddling = 0
SYMMETRY ReviewerSymmetry
INVARIANTS NoPromptTwice
PROPERTIES ReceiptsKept
CHECK_DEADLOCK FALSE
