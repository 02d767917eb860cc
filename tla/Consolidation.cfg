SPECIFICATION SpecAll
CONSTANTS
  Writers = {w1}
  Forgets = {f1}
  Jobs = {j1, j2}
  Batches <- Given
  Names <- AllNames
  Domains = {"shop"}
  Requests = {"node"}
  Related = {}
  None = none
  MinActions = 2
  MinCluster = 2
  MinSuccesses = 2
  MaxDecayed = 1
SYMMETRY Interchangeable
CHECK_DEADLOCK FALSE
INVARIANTS
  OneEpisodePerAction
  OneValueInForce
PROPERTIES
  LinksSurvive
