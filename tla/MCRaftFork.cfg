SPECIFICATION ForkedSpec
CONSTANTS
  s1 = s1
  s2 = s2
  s3 = s3
  x = x
  Server = {s1, s2, s3}
  Command = {x}
  Nil = Nil
  StorageFaults = {"PersistError"}
  MaxElections = 1
  MaxLog = 2
  MaxCrashes = 0
INVARIANTS
  TypeOK
  LogMatching
  LeaderCompleteness
  MatchIndexSound
CONSTRAINT ForkBounds
CHECK_DEADLOCK FALSE
