SPECIFICATION FairSpec
CONSTANTS
  Reviewers = {r1}
  MaxCoder = 2
  MaxFailures = 2
  MaxRounds = 2
  MaxIterations = 2
  MaxStagnant = 2
  MaxCommits = 2
  MaxCrashes = 1
  MaxFaults = 1
  MaxMeddling = 1
INVARIANTS OnlyReviewedPublished DeveloperStoppedWhenReleased
PROPERTIES DoneIsVerified RefinesContract EventuallySettled
CHECK_DEADLOCK FALSE
