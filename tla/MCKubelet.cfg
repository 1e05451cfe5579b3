SPECIFICATION FairSpec
CONSTANTS
  NumPods = 2
  BroadcastHost = 5
  NoIp = NoIp
  Absent = Absent
  RuntimeFaults = {"pause", "network", "app", "start"}
  MaxLives = 1
  MaxBehind = 2
  MaxMishaps = 1
INVARIANTS
  AllocatorSound
  ShownAddressIsReal
  TrackersBelongToPods
PROPERTIES
  LivePodsAreKept
  Converges
CHECK_DEADLOCK FALSE
