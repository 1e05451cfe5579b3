SPECIFICATION BootSpec
CONSTANTS
  s1 = s1
  s2 = s2
  s3 = s3
  x = x
  Server = {s1, s2, s3}
  Command = {x}
  Nil = Nil
  StorageFaults = {"PersistError"}
  MaxElections = 2
  MaxLog = 0
  MaxCrashes = 1
INVARIANTS
  ElectionSafety
CHECK_DEADLOCK FALSE
