SPECIFICATION Spec
CONSTANTS
  Starts = {s1, s2}
  Sockets = {w1, w2}
  Events = {e1}
  Chunks = {}
  None = none
  Rejected = rejected
  MicLimit = 1
  ReplayLimit = 1
  MaxTimers = 2
  MaxFaults = 1
SYMMETRY Interchangeable
INVARIANTS
  TypeOK
  ProgressIsReal
PROPERTIES
  QuietStop
