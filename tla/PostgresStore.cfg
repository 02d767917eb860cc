SPECIFICATION FairSpec
CONSTANTS
  n1 = n1
  n2 = n2
  e1 = e1
  c1 = c1
  c2 = c2
  c3 = c3
  None = none
  Calls = {c1, c2, c3}
  Nodes = {n1, n2}
  Edges = {e1}
  EndsOf <- MCEndsOf
  Workloads <- Mixed
  Before = {n1, n2}
  PoolSize = 2
  MaxFaults = 1
CHECK_DEADLOCK FALSE
INVARIANTS
  TypeOK
PROPERTIES
  AppliesBatches
  EveryCallSettles
