----------------------------- MODULE MCTenants -----------------------------
(* Two tenants, one of which pays, and a key that is given to one of them   *)
(* and goes to the other.                                                   *)
EXTENDS Tenants, TLC
CONSTANTS u1, u2, e1, k1

OnePayer == [p \in Payments |-> u1]
OneKey == [e \in Events |-> k1]
Give == {1, -2}
=============================================================================
