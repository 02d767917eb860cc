SPECIFICATION FairSpec
CONSTANTS
  e1 = e1
  e2 = e2
  e3 = e3
  k1 = k1
  k2 = k2
  None = None
  Pages = {1}
  Executes = {e1, e2, e3}
  Cancels = {}
  Snapshots = {s1}
  Keys = {k1, k2}
  KeyOf <- MCKeyOf
  MaxQueued = 2
  KeyTtl = 2
  RequestTtl = 1
  MaxTime = 0
  MaxFaults = 1
CHECK_DEADLOCK FALSE
PROPERTIES
  ServesInOrder
  EveryActionAnswered
