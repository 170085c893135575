SPECIFICATION Spec
CONSTANTS
  Users = {u1, u2}
  Prices = {1, 2}
  Quantities = {1, 2}
  MaxOrders = 4
  MaxSeeded = 3
  MaxLost = 0
SYMMETRY UserSymmetry
PROPERTY
  PriceTimePriority

