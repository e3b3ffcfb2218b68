SPECIFICATION PlanSpec
CONSTANTS
  Items = {1, 2}
  Runs = {1, 2}
  Reviewers = {"correctness", "tests"}
  Names = {11, 12, 13, 14, 15, 16, 17, 18, 21, 22}
  Inputs <- MCInputs
INVARIANTS OneBranchPerRun NothingLeasedCleaned RecoveryNeedsLease
CHECK_DEADLOCK FALSE
