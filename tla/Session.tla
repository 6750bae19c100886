------------------------------- MODULE Session -------------------------------
(***************************************************************************)
(* Session ownership: every `ovm start --id X` derives the same workspace  *)
(* directory ~/.cache/ovm-krun/X and the same lock file X.lock beside it.  *)
(* The processes of one session name meet in the file system only: they    *)
(* open the lock file, wait for flock(2) on whatever inode the open gave   *)
(* them, build the workspace, run a VM, and either exit with the guest or  *)
(* run the cleanup callbacks that buildMachine registered.                 *)
(*                                                                         *)
(* pkg/librevm/machine.go, pkg/librevm/vm.go, pkg/librevm/config.go,       *)
(* pkg/system/callback.go.                                                 *)
(***************************************************************************)
CONSTANTS Procs,    \* processes started with the same session name
          NoProc,   \* nobody's files are in the workspace
          Inodes,   \* inodes the file system can give to the lock path
          NoIno     \* no file: nothing opened, or nothing at the path

ASSUME NoProcAssumption == NoProc \notin Procs
ASSUME NoInoAssumption == NoIno \notin Inodes

VARIABLES
    pc,        \* where each process is
    lockPath,  \* the inode that <workspace>.lock names
    fd,        \* the inode of the lock file each process has open
    holds,     \* the processes flock(2) has granted their inode to
    wsOwner,   \* the process whose keys, rootfs and sockets fill the workspace
    logLinked, \* the processes whose open log file is the one in the workspace
    varDisk,   \* data/data.img in the workspace: none, fresh, used by a guest
    forked     \* history: a lock file was unlinked while another had it open

vars == <<pc, lockPath, fd, holds, wsOwner, logLinked, varDisk, forked>>

PC == {"idle", "logged", "waiting", "cancelled", "failed", "building", "prepared",
       "built", "running", "booted", "wipe", "unlock", "unlink"}

\* The stages in which a process acts as the owner of the session.
OwnerPC == {"building", "prepared", "built", "running", "booted", "wipe", "unlock"}

InUse == {lockPath} \cup {fd[p] : p \in Procs}

-----------------------------------------------------------------------------
(* Plausible bugs of the actions below; none of them is part of Next.      *)

\* The lock file is kept inside the workspace, so removing the workspace also
\* removes it.
RemoveWorkspaceWithLock(p) ==
    /\ pc[p] = "wipe"
    /\ pc' = [pc EXCEPT ![p] = "unlock"]
    /\ wsOwner' = NoProc
    /\ logLinked' = {}
    /\ varDisk' = "none"
    /\ lockPath' = NoIno
    /\ UNCHANGED <<fd, holds, forked>>

\* The cleanup callbacks are registered before setupWorkspace, so a start that
\* never got the lock still removes the workspace.
CancelLockAndClean(p) ==
    /\ pc[p] = "waiting"
    /\ pc' = [pc EXCEPT ![p] = "wipe"]
    /\ UNCHANGED <<lockPath, fd, holds, wsOwner, logLinked, varDisk, forked>>

\* flock is taken shared (RLock) instead of exclusive.
GrantShared(p) ==
    /\ pc[p] \in {"waiting", "cancelled"}
    /\ p \notin holds
    /\ holds' = holds \cup {p}
    /\ pc' = [pc EXCEPT ![p] = IF @ = "waiting" THEN "building" ELSE @]
    /\ UNCHANGED <<lockPath, fd, wsOwner, logLinked, varDisk, forked>>

-----------------------------------------------------------------------------

Init ==
    /\ pc = [p \in Procs |-> "idle"]
    /\ lockPath = NoIno
    /\ fd = [p \in Procs |-> NoIno]
    /\ holds = {}
    /\ wsOwner = NoProc
    /\ logLinked = {}
    /\ varDisk = "none"
    /\ forked = FALSE

\* New -> setupLoggers: the log file inside the workspace is created and
\* opened before anything is locked.
OpenLog(p) ==
    /\ pc[p] = "idle"
    /\ pc' = [pc EXCEPT ![p] = "logged"]
    /\ logLinked' = logLinked \cup {p}
    /\ UNCHANGED <<lockPath, fd, holds, wsOwner, varDisk, forked>>

\* setupWorkspace up to the flock(2) call: the workspace directory is made and
\* the lock path opened with O_CREATE.  The descriptor stays on that inode.
OpenLock(p) ==
    /\ pc[p] = "logged"
    /\ \/ /\ lockPath # NoIno
          /\ UNCHANGED lockPath
       \/ /\ lockPath = NoIno
          /\ lockPath' \in Inodes \ InUse
    /\ fd' = [fd EXCEPT ![p] = lockPath']
    /\ pc' = [pc EXCEPT ![p] = "waiting"]
    /\ UNCHANGED <<holds, wsOwner, logLinked, varDisk, forked>>

\* flock(2) is exclusive on the inode.  The goroutine of lock() also receives
\* the grant after its caller gave up (ctx.Done).
Grant(p) ==
    /\ pc[p] \in {"waiting", "cancelled"}
    /\ p \notin holds
    /\ \A q \in holds : fd[q] # fd[p]
    /\ holds' = holds \cup {p}
    /\ pc' = [pc EXCEPT ![p] = IF @ = "waiting" THEN "building" ELSE @]
    /\ UNCHANGED <<lockPath, fd, wsOwner, logLinked, varDisk, forked>>

\* The ctx.Done arm of lock().  Its Unlock needs the mutex that Lock holds inside
\* flock(2): if it came first it did nothing, and the grant, when it comes,
\* stays with the process ...
CancelLock(p) ==
    /\ pc[p] = "waiting"
    /\ pc' = [pc EXCEPT ![p] = "cancelled"]
    /\ UNCHANGED <<lockPath, fd, holds, wsOwner, logLinked, varDisk, forked>>

\* ... otherwise it waits and gives the grant back.  setupWorkspace fails before
\* any callback is registered, so CleanIfErr has nothing to run.
UnlockCancelled(p) ==
    /\ pc[p] = "cancelled" /\ p \in holds
    /\ pc' = [pc EXCEPT ![p] = "failed"]
    /\ holds' = holds \ {p}
    /\ fd' = [fd EXCEPT ![p] = NoIno]
    /\ UNCHANGED <<lockPath, wsOwner, logLinked, varDisk, forked>>

\* configureSSH .. configurePodman: the owner replaces the keys and the rootfs
\* in the directories it finds or makes.
PrepareRootfs(p) ==
    /\ pc[p] = "building"
    /\ pc' = [pc EXCEPT ![p] = "prepared"]
    /\ wsOwner' = p
    /\ UNCHANGED <<lockPath, fd, holds, logLinked, varDisk, forked>>

\* withVarDisk .. configureVMCtlAPI: data/data.img is made if it is missing, the
\* guest agent is copied and stale sockets are removed.
BuildMachine(p) ==
    /\ pc[p] = "prepared"
    /\ pc' = [pc EXCEPT ![p] = "built"]
    /\ varDisk' = IF varDisk = "none" THEN "fresh" ELSE varDisk
    /\ UNCHANGED <<lockPath, fd, holds, wsOwner, logLinked, forked>>

\* createUserSymlinks and newProvider succeeded; RunDocker goes on.
StartRun(p) ==
    /\ pc[p] = "built"
    /\ pc' = [pc EXCEPT ![p] = "running"]
    /\ UNCHANGED <<lockPath, fd, holds, wsOwner, logLinked, varDisk, forked>>

\* StartVirtualMachine enters the guest, which mounts the disk at /var and
\* writes to it.  A successful krun_start_enter never returns.
Boot(p) ==
    /\ pc[p] = "running"
    /\ pc' = [pc EXCEPT ![p] = "booted"]
    /\ varDisk' = IF varDisk = "none" THEN "none" ELSE "used"
    /\ UNCHANGED <<lockPath, fd, holds, wsOwner, logLinked, forked>>

\* An error of buildMachine (CleanIfErr), of createUserSymlinks or newProvider
\* (cleanup()), or an error return of RunDocker (deferred Close).
Fail(p) ==
    /\ pc[p] \in {"building", "prepared", "built", "running"}
    /\ pc' = [pc EXCEPT ![p] = "wipe"]
    /\ UNCHANGED <<lockPath, fd, holds, wsOwner, logLinked, varDisk, forked>>

\* The callbacks run last-registered first: RemoveAll(workspace) ...
RemoveWorkspace(p) ==
    /\ pc[p] = "wipe"
    /\ pc' = [pc EXCEPT ![p] = "unlock"]
    /\ wsOwner' = NoProc
    /\ logLinked' = {}
    /\ varDisk' = "none"
    /\ UNCHANGED <<lockPath, fd, holds, forked>>

\* ... then fileLock.Unlock(), which also closes the descriptor ...
Unlock(p) ==
    /\ pc[p] = "unlock"
    /\ pc' = [pc EXCEPT ![p] = "unlink"]
    /\ holds' = holds \ {p}
    /\ fd' = [fd EXCEPT ![p] = NoIno]
    /\ UNCHANGED <<lockPath, wsOwner, logLinked, varDisk, forked>>

\* ... then os.Remove(<workspace>.lock), by name, and the process ends.
RemoveLockFile(p) ==
    /\ pc[p] = "unlink"
    /\ pc' = [pc EXCEPT ![p] = "idle"]
    /\ lockPath' = NoIno
    /\ forked' = (forked \/ \E q \in Procs : fd[q] # NoIno)
    /\ logLinked' = logLinked \ {p}
    /\ UNCHANGED <<fd, holds, wsOwner, varDisk>>

\* The process ends without its cleanup: krun_start_enter exits with the guest,
\* a signal kills it, a cancelled start returns.  The kernel drops the lock.
Exit(p) ==
    /\ pc[p] # "idle"
    /\ pc' = [pc EXCEPT ![p] = "idle"]
    /\ holds' = holds \ {p}
    /\ fd' = [fd EXCEPT ![p] = NoIno]
    /\ logLinked' = logLinked \ {p}
    /\ UNCHANGED <<lockPath, wsOwner, varDisk, forked>>

ProcNext(p) ==
    \/ OpenLog(p)      \/ OpenLock(p)     \/ Grant(p)
    \/ CancelLock(p)   \/ UnlockCancelled(p)
    \/ PrepareRootfs(p) \/ BuildMachine(p) \/ StartRun(p)
    \/ Boot(p)
    \/ Fail(p)         \/ RemoveWorkspace(p)
    \/ Unlock(p)       \/ RemoveLockFile(p)
    \/ Exit(p)

Next == \E p \in Procs : ProcNext(p)

Spec == Init /\ [][Next]_vars

-----------------------------------------------------------------------------

TypeOK ==
    /\ pc \in [Procs -> PC]
    /\ lockPath \in Inodes \cup {NoIno}
    /\ fd \in [Procs -> Inodes \cup {NoIno}]
    /\ holds \subseteq Procs
    /\ wsOwner \in Procs \cup {NoProc}
    /\ logLinked \subseteq Procs
    /\ varDisk \in {"none", "fresh", "used"}
    /\ forked \in BOOLEAN

\* Two processes never act as the owner of one session at the same time.  This
\* is what the usage text of --id promises ("sessions with the same name are
\* mutually exclusive via flock").
MutualExclusion ==
    \A p, q \in Procs : pc[p] \in OwnerPC /\ pc[q] \in OwnerPC => p = q

\* The promise does hold as long as RemoveLockFile never unlinked a lock file
\* that another process had open: whatever the order of starts, kills, failed
\* builds and late grants, only that unlink can produce a second owner.
ExclusiveUnlessForked == ~forked => MutualExclusion

\* Under the same condition the files an owner built stay in the workspace
\* until that owner ends or fails itself: neither a waiter, a cancelled waiter
\* nor the cleanup of an earlier session removes or replaces them.
WorkspaceIntactUnlessForked ==
    ~forked => \A p \in Procs : pc[p] \in {"prepared", "built", "running", "booted"} =>
                                   wsOwner = p

\* Under the same condition nobody unlinks what an owner is using: its log stays
\* at the documented path and data/data.img stays in place from the grant on.
\* (A process that still waits does lose its log to the owner's RemoveAll.)
OwnerFilesKept ==
    [][~forked => \A p \in Procs :
          pc[p] \in {"building", "prepared", "built", "running", "booted"} =>
              /\ p \in logLinked => p \in logLinked' \/ pc'[p] = "idle"
              /\ varDisk # "none" => varDisk' # "none"]_vars

\* Why: an owner holds the flock of the inode it opened, flock is exclusive per
\* inode, and without a fork every descriptor is on the inode at the lock path.
OwnersHold ==
    \A p \in Procs :
        /\ pc[p] \in OwnerPC => p \in holds
        /\ pc[p] \in {"idle", "logged", "failed", "unlink"} => p \notin holds
        /\ pc[p] \in {"idle", "logged", "failed", "unlink"} <=> fd[p] = NoIno

ExclusivePerInode ==
    \A p, q \in holds : fd[p] = fd[q] => p = q

SameInodeUnlessForked ==
    ~forked => \A p \in Procs : fd[p] # NoIno => fd[p] = lockPath

\* The inductive strengthening of the two properties above: ownership follows
\* from the flock of lock(), and the flock means the session only as long as
\* every process that opened <workspace>.lock got the same inode.
SessionInv ==
    /\ TypeOK
    /\ OwnersHold
    /\ ExclusivePerInode
    /\ SameInodeUnlessForked
    /\ WorkspaceIntactUnlessForked
-----------------------------------------------------------------------------
(* Refinement.                                                             *)

\* The process that acts as the owner, as long as the lock means anything.
Owner ==
    IF forked \/ \A p \in Procs : pc[p] \notin OwnerPC
    THEN NoProc
    ELSE CHOOSE p \in Procs : pc[p] \in OwnerPC

\* flock, the lock file's path and the order of the cleanup callbacks implement
\* an owner: only it changes the workspace and the disk, and its successor
\* begins after it ended.
Ownership == INSTANCE SessionOwner WITH
    owner <- Owner, content <- wsOwner, disk <- varDisk, broken <- forked

ImplementsOwnership == Ownership!Spec

=============================================================================
