---------------------------- MODULE MCServiceBus ----------------------------
(***************************************************************************)
(* Instances of ServiceBus: the program may run the bus itself or leave it *)
(* to the gRPC handler, which is run twice; one request for the message    *)
(* server's host and one for that or the event server's.                   *)
(***************************************************************************)
EXTENDS ServiceBus

CONSTANTS b1, g1, g2, q1, q2

SecondMayBeEs == [q \in Request |-> IF q = q1 THEN {"ms"} ELSE {"ms", "es"}]

=============================================================================
