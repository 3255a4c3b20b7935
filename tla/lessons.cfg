SPECIFICATION MCSpec
CONSTANTS
  Lessons <- MCLessonRecords
  Reflections <- MCReflections
  Evidence <- MCEvidence
  OtherRecords <- MCOtherRecords
  Queries <- MCQueries
  Criteria <- MCCriteria
  Applications <- MCApplications
  Observations <- MCObservations
  Evaluations <- MCEvaluations
  NULL = NULL
INVARIANTS
  ApplicationsTypeOK
  RetriesAreAnswered
  EvaluationsAreGrounded
  CorrectionsKeepTheSubject
  RecallGivesTheBest
  RiskCutsTheEnd
PROPERTIES
  EvidenceCountsLate
CHECK_DEADLOCK FALSE
