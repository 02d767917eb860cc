SPECIFICATION Spec
CONSTANTS
  e1 = e1
  e2 = e2
  e3 = e3
  k1 = k1
  k2 = k2
  None = None
  Pages = {1, 2}
  Executes = {e1, e2, e3}
  Cancels = {c1}
  Snapshots = {}
  Keys = {k1, k2}
  KeyOf <- MCKeyOf
  MaxQueued = 1
  KeyTtl = 2
  RequestTtl = 1
  MaxTime = 2
  MaxFaults = 1
CHECK_DEADLOCK FALSE
SYMMETRY SameKey
INVARIANTS
  TypeOK
  AnswersHonest
  NoLateDuplicate
PROPERTIES
  CancelHolds
