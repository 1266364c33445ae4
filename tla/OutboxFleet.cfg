SPECIFICATION FairSpec
CONSTANTS
  Entities = {e1}
  Writers = {w1}
  Relays = {r1, r2}
  Nobody = Nobody
  MaxRows = 2
  BatchLimit = 1
  MaxFaults = 1
  Isolation = {"committed"}
  Reclaimed = {"Published", "Superseded", "Failed"}
INVARIANTS
  NewestNotLost
  DuplicatesNeedFaults
PROPERTIES
  EventuallyAnnounced
CHECK_DEADLOCK FALSE
