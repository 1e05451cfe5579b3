SPECIFICATION BootOrEstablishedSpec
CONSTANTS
  s1 = s1
  s2 = s2
  s3 = s3
  x = x
  Server = {s1, s2, s3}
  Command = {x}
  Nil = Nil
  StorageFaults = {}
  MaxElections = 2
  MaxLog = 1
  MaxCrashes = 2
SYMMETRY Servers
INVARIANTS
  ChosenIsDurable
  ElectionSafety
PROPERTIES
  ImplementsReplicatedLog
  VotesAreFinal
CHECK_DEADLOCK FALSE
