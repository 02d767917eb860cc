SPECIFICATION Spec
CONSTANTS
  Writers = {w1, w2}
  Forgets = {f1, f2}
  Jobs = {}
  Batches <- Given
  Names <- AllNames
  Domains = {"shop"}
  Requests = {"node", "edge", "domain", "timeRange", "pause"}
  Related <- Close
  None = none
SYMMETRY Interchangeable
CHECK_DEADLOCK FALSE
INVARIANTS
  TypeOK
  OneNodePerKey
  CascadeHolds
  ForgottenStays
