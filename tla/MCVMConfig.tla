------------------------------ MODULE MCVMConfig ------------------------------
(* One process of each command, as often as they like.  The numbers are the *)
(* limits of validateConfig and their neighbours; -1 and 0 mean "not set".  *)
(* MemLimit stands for 2^32, which is beyond TLC's integers.             *)
EXTENDS VMConfig

MCFlagCPUs == {-1, 0, 1, 127}
MCInitCPUs == {-1, 0, 255, 256, 257}
=============================================================================
