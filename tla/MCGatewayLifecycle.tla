------------------------ MODULE MCGatewayLifecycle ------------------------
(* Instances of GatewayLifecycle for TLC: which calls each caller makes.   *)
EXTENDS GatewayLifecycle

CONSTANTS c1, f1, f2, f3

\* One host coroutine that calls anything; the other callers are the facade's.
AnyOps == [c \in Callers |-> IF c = c1 THEN Calls ELSE {}]
=============================================================================
