SPECIFICATION FinalizerSpec
CONSTANTS
  Intents <- MCIntents
  Workers = {w1, w2}
  Outcomes = {o1}
  OtherRecords = {}
  ErrorCodes = {e1}
  Instants <- MCInstants
  LeaseTerms <- MCLeaseTerms
  RetryDelays <- MCRetryDelays
  Offsets <- MCOffsets
  MaxAttempts = 2
  NULL = NULL
PROPERTY
  RetryNotVisibleEarly
CHECK_DEADLOCK FALSE
