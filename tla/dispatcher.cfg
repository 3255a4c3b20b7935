SPECIFICATION DispatcherSpec
CONSTANTS
  Intents <- MCIntents
  Workers = {w1, w2}
  Outcomes = {o1}
  OtherRecords = {}
  ErrorCodes = {e1}
  Instants <- MCInstants
  LeaseTerms <- MCLeaseTerms
  RetryDelays <- MCRetryDelays
  Offsets <- MCUtcOnly
  MaxAttempts = 3
  NULL = NULL
INVARIANTS
  DispatcherTypeOK
  CallsAreDocumented
  AttemptsAreExclusive
  CompletedByTheTool
  ReportsHold
PROPERTIES
  UsesFinalizer
CHECK_DEADLOCK FALSE
