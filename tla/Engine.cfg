SPECIFICATION Spec
CONSTANTS
  p1 = p1 p2 = p2 p3 = p3
  r1 = r1 r2 = r2 r3 = r3
  Requests = {r1, r2, r3}
  Pairs = {p1, p2, p3}
  Naming <- TwoAndOne
  Supported = {p1, p2}
  Capacity = 1
  MaxCrashes = 1
INVARIANTS
  TypeOK
  ChannelsKeepOrder
  RoutedInOrder
  CommittedOnce
PROPERTIES
  BacklogDrains
