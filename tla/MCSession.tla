------------------------------ MODULE MCSession ------------------------------
(* Three processes of one session name: one that cleans up, one that waits  *)
(* on the same inode and one that arrives after the unlink.  Four inodes    *)
(* are one more than can be open at once, so OpenLock is never short of one.*)
EXTENDS Session, TLC

MCSymmetry == Permutations(Procs) \cup Permutations(Inodes)
=============================================================================
