SPECIFICATION FairSpec
CONSTANTS
  Entities = {e1, e2}
  Writers = {w1, w2}
  Relays = {r1}
  Nobody = Nobody
  MaxRows = 2
  BatchLimit = 2
  MaxFaults = 1
  Isolation = {"committed", "fixed"}
  Reclaimed = {}
INVARIANTS
  
  LogOrder
PROPERTIES
  CommitsInEnqueueOrder
  ImplementsSnapshotTopic
CHECK_DEADLOCK FALSE
