SPECIFICATION Spec
CONSTANTS
  Name = {n1}
  Value = {v}
  NoValue = NoValue
  Absent = Absent
  Writer = {w1}
  Watcher = {x}
  FromRvs = {0}
  Capacity = 2
  MaxRv = 2
INVARIANTS
  NothingSlipsThrough
CHECK_DEADLOCK FALSE
