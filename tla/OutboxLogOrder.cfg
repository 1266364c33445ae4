SPECIFICATION Spec
CONSTANTS
  Entities = {e1}
  Writers = {w1, w2}
  Relays = {r1, r2}
  Nobody = Nobody
  MaxRows = 2
  BatchLimit = 1
  MaxFaults = 0
  Isolation = {"committed", "fixed"}
  Reclaimed = {}
INVARIANTS
  LogOrder
SYMMETRY Symmetry
CHECK_DEADLOCK FALSE
