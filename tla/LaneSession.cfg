SPECIFICATION FairSpec
CONSTANTS
  MaxTurns = 2
  Models = {1, 2}
  Settle = 2
  Pause = 1
  MaxCrashes = 1
  MaxFaults = 2
INVARIANTS PromptOnce AnswerIsOwn QuietAfterAnswer
PROPERTIES TurnEnds
CHECK_DEADLOCK FALSE
