-------------------------------- MODULE MCHub --------------------------------
(* Instances of Hub for TLC. *)
EXTENDS Hub, TLC

CONSTANTS t1, t2, t3, u1, u2

\* t1 and t2 are two tabs of one user, t3 is one of another.
MCUserOf == [t \in Tabs |-> IF t = t3 THEN u2 ELSE u1]

\* router.go:94, NewClient(user.ID.String(), user.ID.String(), conn).
RouterIDs == MCUserOf
==============================================================================
