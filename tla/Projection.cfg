SPECIFICATION Spec
CONSTANTS
  Orders = {o1}
  Stored = {o1}
  Takers = {o1}
  Quantity = 3
  MaxRetries = 1
  MaxTrades = 1
  MaxCrashes = 1
CHECK_DEADLOCK FALSE
INVARIANTS
  TypeOK
  NothingSkipped
  NoGaps
  RowIsALastEvent
PROPERTIES
  EventsSettled
  ImplementsAtLeastOnce
