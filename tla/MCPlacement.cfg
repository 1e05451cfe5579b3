SPECIFICATION FairSpec
CONSTANTS
  NumNodes = 2
  NumPods = 1
  Absent = Absent
  NoCidr = NoCidr
  MaxIndex = 1
  MaxRestarts = 1
  MaxMishaps = 1
INVARIANTS
  TypeOK
  SeenSlicesDiffer
PROPERTIES
  SlicesSurviveRestarts
  PlacedPodsStayPut
  NodesBecomeReady
  EveryPodIsPlaced
