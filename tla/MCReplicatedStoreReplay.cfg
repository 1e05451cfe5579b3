SPECIFICATION Spec
CONSTANTS
  Name = {n1}
  Value = {v}
  NoValue = NoValue
  Absent = Absent
  Replica = {r1, r2}
  MaxRequests = 2
  MaxRv = 2
  MaxRestarts = 1
SYMMETRY Interchangeable
INVARIANTS
  IdenticalStores
CHECK_DEADLOCK FALSE
