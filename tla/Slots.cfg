SPECIFICATION Spec
CONSTANTS
  n1 = n1
  n2 = n2
  Devices = {d1, d2}
  Nodes = {n1, n2}
  Limit = 1
  TTL = 2
  MinTTL = 2
  Window = 3
  Delay <- OneIsSlow
  MaxTime = 5
  MaxRestarts <- OneIsSlow
SYMMETRY SameDevices
INVARIANTS TypeOK SlotsWithinLimit
PROPERTIES NewcomerKeepsSlot OldAssociationKeepsSlot
CHECK_DEADLOCK FALSE
