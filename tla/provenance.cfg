SPECIFICATION CarefulSpec
CONSTANTS
  k1 = k1
  e1 = e1
  e2 = e2
  Keys = {k1}
  Records = {e1, e2}
  Cites <- MCCites
  Mutations <- MCMutations
  Clients = {c1, c2}
  MaxVersion = 3
  MaxClock = 2
  SecondStarts = {2, 4}
  NULL = NULL
INVARIANT
  MemoriesHaveProvenance
CHECK_DEADLOCK FALSE
