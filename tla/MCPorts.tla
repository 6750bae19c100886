------------------------------ MODULE MCPorts ------------------------------
(* Ports for TLC: two sessions in every pair of network modes.  Two         *)
(* ephemeral ports are enough for the sessions to run out of ports, and for *)
(* one session to find the same port twice or the port another one lost.    *)
EXTENDS Ports

=============================================================================
