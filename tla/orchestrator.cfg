SPECIFICATION OrchestratorSpec
CONSTANTS
  data = data
  grant = grant
  ban = ban
  o1 = o1
  o2 = o2
  alice = alice
  a1 = a1
  a2 = a2
  Keys = {data, grant, ban}
  Records = {o1, o2}
  Cites <- MCCites
  Mutations <- MCMutations
  Clients = {p1, p2}
  Readers = {}
  Queries <- MCQueries
  MaxVersion = 1
  MaxClock = 1
  SecondStarts = {1}
  Times <- MCTimes
  Malformed = Malformed
  NULL = NULL
  Processes = {p1, p2}
  Outcomes = {o1, o2}
  DecisionProposals = {a1, a2}
  Decide <- MCDecide
  Captures <- MCCaptures
  MaxTraces = 3
  MaxExecutions = 2
INVARIANTS
  AccountsAreLines
  ActionsAreExplained
  RetriesExecuteOnce
PROPERTIES
  ResultsHold
SYMMETRY Symmetry
CHECK_DEADLOCK FALSE
