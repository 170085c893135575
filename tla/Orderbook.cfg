SPECIFICATION Spec
CONSTANTS
  Users = {u1, u2}
  Prices = {1, 2}
  Quantities = {1, 2}
  MaxOrders = 3
  MaxSeeded = 2
  MaxLost = 1
INVARIANTS
  TypeOK
  TradesWithinLimits
  SelfTradeSkipped
  EventsTellTheBook
PROPERTIES
  ImplementsExchange
  MatchEnds
