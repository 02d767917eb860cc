SPECIFICATION Spec
CONSTANTS
  n1 = n1
  n2 = n2
  e1 = e1
  c1 = c1
  c2 = c2
  c3 = c3
  None = none
  Calls = {c1, c2}
  Nodes = {n1, n2}
  Edges = {e1}
  EndsOf <- MCEndsOf
  Workloads <- WriteAndForget
  Before = {n1, n2}
  PoolSize = 2
  MaxFaults = 0
CHECK_DEADLOCK FALSE
INVARIANT
  Serializable
