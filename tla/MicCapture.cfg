SPECIFICATION Spec
CONSTANTS
  None = none
  MaxAsks = 2
  MaxToggles = 3
  MaxPages = 2
  MaxRestarts = 1
  MaxBroadcasts = 1
CHECK_DEADLOCK FALSE
INVARIANTS
  MicAgrees
  NoStrayStream
  BargeInSilences
