----------------------------- MODULE MCExchange -----------------------------
(***************************************************************************)
(* Instances of Exchange, about one queue and one receiver: executions e1  *)
(* and e2 of one service, or e1 and a gRPC call g1; SendMessages call s1   *)
(* with two messages or with one.                                          *)
(***************************************************************************)
EXTENDS Exchange

CONSTANTS q1, ann, m1, m2, e1, e2, g1, ch1, s1, w1

MCOne == [b \in Batch |-> 1]
MCTarget == [b \in Batch |-> q1]
MCReader == [g \in Get |-> ann]
MCSource == [g \in Get |-> q1]
MCInto == [e \in Execution |-> ch1]
MCMsgs == [s \in Request |-> <<m1, m2>>]
MCMsg == [s \in Request |-> <<m1>>]

=============================================================================
