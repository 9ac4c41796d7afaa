-------------------------- MODULE MCServiceServer --------------------------
(*************************************************************************)
(* Instances of ServiceServer.  Call x2 is about service s2, every other *)
(* call about s1.                                                        *)
(*************************************************************************)
EXTENDS ServiceServer, TLC

CONSTANTS s1, s2, x1, y1, x2, u1, p1, q1

MCOf == [c \in Request \cup StopCall |-> IF c = x2 THEN s2 ELSE s1]

Symmetry == Permutations({x1, y1}) \cup Permutations({p1, q1})
=============================================================================
