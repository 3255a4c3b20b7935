SPECIFICATION AttemptsSpec
CONSTANTS
  Intents <- MCIntents
  Workers = {w1, w2}
  Outcomes = {o1}
  OtherRecords = {x1}
  ErrorCodes = {e1}
  Instants <- MCInstants
  LeaseTerms <- MCLeaseTerms
  RetryDelays <- MCRetryDelays
  MaxAttempts = 2
  NULL = NULL
INVARIANT
  CompletedByAnOutcome
CHECK_DEADLOCK FALSE
