---------------------------- MODULE MCGuestAgent ----------------------------
(* GuestAgent for TLC: the senders are model values, the other constants    *)
(* numbers and a Boolean, all given by the configurations.                  *)
EXTENDS GuestAgent

=============================================================================
