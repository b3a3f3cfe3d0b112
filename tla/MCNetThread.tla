----------------------------- MODULE MCNetThread ------------------------------
(* NetThread on a small instance: one fixed port besides "any port", and two *)
(* values for the other fields, one of which applyEndpoint clamps.           *)
EXTENDS NetThread

CONSTANTS r1, rOdd

MCPorts == {7}
MCRest == {r1, rOdd}
MCData == {"x"}
MCDefault == [port |-> 7, rest |-> r1]
MCNormal(c) == IF c.rest = rOdd THEN [c EXCEPT !.rest = r1] ELSE c
===============================================================================
