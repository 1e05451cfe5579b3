SPECIFICATION MCSpec
CONSTANTS
  NumServices = 2
  NumPods = 2
  Absent = Absent
  NoVip = NoVip
  MaxVip = 1
  MaxEdits = 2
  MaxMishaps = 1
INVARIANTS
  RoutesAreWhole
PROPERTIES
  RoutesConverge
  EndpointsGo
