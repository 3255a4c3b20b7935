SPECIFICATION FinalizerSpec
CONSTANTS
  Intents <- MCIntents
  Workers = {w1, w2}
  Outcomes = {o1}
  OtherRecords = {}
  ErrorCodes = {e1}
  Instants <- MCInstants
  LeaseTerms <- MCLeaseTerms
  RetryDelays <- MCRetryDelays
  Offsets <- MCUtcOnly
  MaxAttempts = 2
  NULL = NULL
INVARIANTS
  TypeOK
  EvidenceAgrees
  SuccessIsFinal
  AttemptsInOrder
  NothingDangles
PROPERTIES
  LeaseDiscipline
  RetryNotVisibleEarly
  ImplementsDelivery
CHECK_DEADLOCK FALSE
