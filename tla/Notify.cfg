SPECIFICATION Spec
CONSTANTS
  Topics = {submitted, trade}
  Users = {u1, u2}
  NoUser = NoUser
  MaxRecords = 2
  MaxCrashes = 2
SYMMETRY UserSymmetry
INVARIANTS
  TypeOK
  NoneMissed
  ToldOncePerRun
