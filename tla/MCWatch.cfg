SPECIFICATION FairSpec
CONSTANTS
  Name = {n1, n2}
  Value = {v}
  NoValue = NoValue
  Absent = Absent
  Writer = {w1, w2}
  Watcher = {x}
  FromRvs = {0, 1}
  Capacity = 1
  MaxRv = 3
INVARIANTS
  NoDuplicateDelivery
  LiveStreamIsComplete
  ViewIsCurrent
PROPERTIES
  UpdatesHitWhatWasRead
  EventsArrive
CHECK_DEADLOCK FALSE
