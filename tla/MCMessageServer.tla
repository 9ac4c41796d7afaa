-------------------------- MODULE MCMessageServer --------------------------
(*************************************************************************)
(* Instances of MessageServer.  Batch m1 has two messages, the others    *)
(* one.  Call r3 reads for ann when it reads from the beginning and for  *)
(* bob otherwise; r1 and r2 read for ann.                                *)
(*************************************************************************)
EXTENDS MessageServer

CONSTANTS q1, ann, bob, m1, m2, r1, r2, r3, w1, w2

MCSize == [b \in Batch |-> IF b = m1 THEN 2 ELSE 1]
MCTarget == [b \in Batch |-> q1]
MCReader == [g \in Get |-> IF g = r3 /\ r3 \notin FromBegin THEN bob ELSE ann]
MCSource == [g \in Get |-> q1]
=============================================================================
