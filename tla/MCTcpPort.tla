------------------------------ MODULE MCTcpPort -------------------------------
(* TcpPort with two peers: a listener and two connections fit into three     *)
(* descriptors, a third connection meets the limit.                          *)
EXTENDS TcpPort
===============================================================================
