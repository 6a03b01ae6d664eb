------------------------------ MODULE MCXplHub ------------------------------
(* A small instance of XplHub for TLC.                                     *)
EXTENDS XplHub

(* An interval that is cut down to MaxInterval; none is the shortest.      *)
MCIntervals == {3}
MCPorts == {1, 2, 3}
Forward == {"forward"}
=============================================================================
