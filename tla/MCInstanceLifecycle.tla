------------------------ MODULE MCInstanceLifecycle -------------------------
(* Instances of InstanceLifecycle small enough for TLC.                    *)
EXTENDS InstanceLifecycle, TLC

CONSTANTS p1, p2, s1, s2, k1, r1, r2, u1, u2, d1, x1

NoToken == [d \in {} |-> None]
OneToken == (x1 :> p2)
=============================================================================
