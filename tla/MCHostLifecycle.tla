--------------------------- MODULE MCHostLifecycle ---------------------------
(* HostLifecycle for TLC: which services may fail on their own.            *)
EXTENDS HostLifecycle

NetworkOnly == {"network"}

=============================================================================
