SPECIFICATION FairQASpec
CONSTANTS
  Intents <- MCIntents
  Workers = {w1, w2}
  Pages <- MCPages
  Durations <- MCDurations
  Conflicts <- MCConflicts
  NULL = NULL
INVARIANTS
  RecordsAreOfOneRun
  SuccessIsRecorded
PROPERTIES
  EveryIntentSettles
CHECK_DEADLOCK FALSE
