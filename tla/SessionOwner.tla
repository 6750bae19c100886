---------------------------- MODULE SessionOwner ----------------------------
(***************************************************************************)
(* What the lock of a session is for: a session has at most one owner, its *)
(* workspace and its /var disk are changed by that owner only, and one     *)
(* owner ends before the next one begins.  The promise is void once the    *)
(* lock is broken, that is, once a lock file was unlinked while another    *)
(* process had it open.                                                    *)
(*                                                                         *)
(* Session implements this specification.                                  *)
(***************************************************************************)
CONSTANTS Procs, NoProc

VARIABLES owner,   \* the process that owns the session, or NoProc
          content, \* the process whose files are in the workspace, or NoProc
          disk,    \* the /var disk: "none", "fresh", "used"
          broken   \* the lock no longer keeps anybody out

vars == <<owner, content, disk, broken>>

Init ==
    /\ owner = NoProc
    /\ content = NoProc
    /\ disk = "none"
    /\ broken = FALSE

Acquire(p) ==
    /\ ~broken /\ owner = NoProc
    /\ owner' = p
    /\ UNCHANGED <<content, disk, broken>>

Fill(p) ==
    /\ owner = p
    /\ content' = p
    /\ UNCHANGED <<owner, disk, broken>>

\* The disk is made once and then used; an owner never starts it over.
UseDisk(p) ==
    /\ owner = p /\ content = p
    /\ disk' = IF disk = "none" THEN "fresh" ELSE "used"
    /\ UNCHANGED <<owner, content, broken>>

\* Whoever wipes is the owner; the files may be those of an earlier one that
\* ended without wiping.
Wipe(p) ==
    /\ owner = p
    /\ content' = NoProc
    /\ disk' = "none"
    /\ UNCHANGED <<owner, broken>>

\* The owner ends; its files stay where they are.
Release(p) ==
    /\ owner = p
    /\ owner' = NoProc
    /\ UNCHANGED <<content, disk, broken>>

Break ==
    /\ broken' = TRUE
    /\ owner' = NoProc
    /\ UNCHANGED <<content, disk>>

\* Nothing is promised any more.
Chaos ==
    /\ broken /\ broken' = TRUE
    /\ owner' = NoProc
    /\ content' \in Procs \cup {NoProc}
    /\ disk' \in {"none", "fresh", "used"}

Next ==
    \/ \E p \in Procs :
          Acquire(p) \/ Fill(p) \/ UseDisk(p) \/ Wipe(p) \/ Release(p)
    \/ Break \/ Chaos

Spec == Init /\ [][Next]_vars

=============================================================================
