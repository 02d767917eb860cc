SPECIFICATION Spec
CONSTANTS
  Starts = {s1}
  Sockets = {w1}
  Events = {e1, e2, e3}
  Chunks = {e1, e2, e3}
  None = none
  Rejected = rejected
  MicLimit = 2
  ReplayLimit = 2
  MaxTimers = 1
  MaxFaults = 1
SYMMETRY Interchangeable
INVARIANTS
  ExactlyOnce
