SPECIFICATION AccessSpec
CONSTANTS
  data = data
  other = other
  grant = grant
  ban = ban
  alice = alice
  e1 = e1
  Keys = {data, other, grant, ban}
  Records = {e1}
  Cites <- MCCites
  Mutations <- MCMutations
  Clients = {c1}
  Readers = {r1}
  Queries <- MCQueries
  MaxVersion = 2
  MaxClock = 2
  SecondStarts = {2, 4}
  Times <- MCTimes
  Malformed = Malformed
  NULL = NULL
INVARIANTS
  ExposureIsJustified
  AnswersAreReproducible
PROPERTY
  DenialIsSilent
CHECK_DEADLOCK FALSE
