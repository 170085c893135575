SPECIFICATION Spec
CONSTANTS
  t1 = t1
  t2 = t2
  t3 = t3
  u1 = u1
  u2 = u2
  Tabs = {t1, t2, t3}
  Users = {u1, u2}
  ConnIDs = {u1, u2}
  Rooms = {r1}
  Casts = {b1}
  Slow = {t1}
  UserOf <- MCUserOf
  ConnIDOf <- RouterIDs
CHECK_DEADLOCK FALSE
PROPERTY
  SlowClientsDontBlock
