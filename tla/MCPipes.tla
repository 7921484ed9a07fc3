------------------------------ MODULE MCPipes ------------------------------
(* Two processes, started by the controller or by each other.              *)
EXTENDS Pipes
CONSTANTS p1, p2
MCIds == {p1, p2}
MCOne == {p1}
MCNone == {}
MCBoth == {0, 1}
============================================================================
