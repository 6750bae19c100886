------------------------------ MODULE MCRelay ------------------------------
(* Relay for TLC: two bytes up and one down through sockets that hold one,  *)
(* so that the upward copy has to wait for a server that does not read.     *)
EXTENDS Relay

TwoUpOneDown == [d \in Dirs |-> IF d = "up" THEN 2 ELSE 1]

=============================================================================
