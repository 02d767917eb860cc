SPECIFICATION FairSpec
CONSTANTS
  alice = alice
  Runs = {r1, r2}
  Streams = {s1, s2}
  OwnerOf <- MCOwnerOf
  Installs = {alice, bob}
  MaxHistory = 3
  MaxEvents = 6
CHECK_DEADLOCK FALSE
INVARIANTS
  TypeOK
  HoldsOpenStreams
  EndIsSeen
PROPERTIES
  ReadsTheLog
  StreamsEnd
