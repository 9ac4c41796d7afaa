-------------------------- MODULE MCServiceWaiters --------------------------
(*************************************************************************)
(* An instance of ServiceWaiters: x1 executes and p1 stops service s1,   *)
(* x2 executes s2, and call v1 waits for one of them or for all.         *)
(*************************************************************************)
EXTENDS ServiceWaiters

CONSTANTS s1, s2, x1, x2, p1, v1

MCOf == [c \in Request \cup StopCall |-> IF c = x2 THEN s2 ELSE s1]
=============================================================================
