SPECIFICATION Spec
CONSTANTS
  u1 = u1 u2 = u2 m1 = m1
  Users = {u1, u2}
  Registers = {g1, g2}
  Mocks = {m1}
  Resends = {s1}
  Verifies = {v1}
  Asking <- OneOrTwo
  MaxRetry = 1
CHECK_DEADLOCK FALSE
INVARIANTS
  TypeOK
  RegisteredOnce
  KeysAreApart
  VerifiedByMail
