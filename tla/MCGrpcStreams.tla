--------------------------- MODULE MCGrpcStreams ---------------------------
(***************************************************************************)
(* Instances of GrpcStreams: two streams of one subscriber that have, or   *)
(* have not, the same name, and a call that stops one of them.             *)
(***************************************************************************)
EXTENDS GrpcStreams

CONSTANTS u1, i1, i2, h1, h2, s1, t1, e1

TwinOrSibling == [h \in Handler |-> IF h = h1 THEN {<<u1, i1>>} ELSE {<<u1, i1>>, <<u1, i2>>}]
Once == [h \in Handler |-> <<t1>>]
NoneOrTwice == [h \in Handler |-> IF h = h1 THEN << >> ELSE <<t1, t1>>]
OnFirst == [e \in Event |-> t1]
StopFirst == [s \in Stop |-> <<u1, i1>>]

=============================================================================
