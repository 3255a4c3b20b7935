SPECIFICATION StoreSpec
CONSTANTS
  k1 = k1
  k2 = k2
  e1 = e1
  Keys = {k1, k2}
  Records = {e1}
  Cites <- MCCites
  Mutations <- MCMutations
  Clients = {c1}
  MaxVersion = 3
  MaxClock = 3
  SecondStarts = {2, 4}
  Times <- MCTimes
  NULL = NULL
PROPERTY
  PastViewsAreFrozen
CHECK_DEADLOCK FALSE
