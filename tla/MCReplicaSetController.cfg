SPECIFICATION FairSpec
CONSTANTS
  NumSets = 1
  NumPods = 3
  Absent = Absent
  MaxReplicas = 2
  MaxEdits = 2
  MaxMishaps = 1
PROPERTIES
  LeavesOthersAlone
  NoOvershoot
  SetsSettle
  GoesQuiet
  CascadeCompletes
