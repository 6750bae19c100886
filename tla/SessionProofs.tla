---------------------------- MODULE SessionProofs ----------------------------
(* Proofs about Session for any number of processes and inodes, and about   *)
(* VMConfig, which decides the session and the disk of a start.             *)
EXTENDS Session, VMConfig, TLAPS

\* No process has started, nothing is open and nothing is locked: the initial
\* state satisfies every part of the invariant.
LEMMA InitInv == Init => SessionInv
BY NoProcAssumption, NoInoAssumption
   DEF Init, SessionInv, TypeOK, OwnersHold, ExclusivePerInode,
       SameInodeUnlessForked, WorkspaceIntactUnlessForked, PC, OwnerPC

\* Every step of every process keeps the types.
LEMMA TypePreserved ==
    ASSUME TypeOK, NEW p \in Procs, ProcNext(p)
    PROVE  TypeOK'
<1> USE DEF TypeOK, PC
<1>1. CASE OpenLock(p)
  BY <1>1 DEF OpenLock
<1>2. CASE Grant(p) \/ CancelLock(p)
  BY <1>2 DEF Grant, CancelLock
<1>3. CASE PrepareRootfs(p) \/ BuildMachine(p) \/ Boot(p) \/ RemoveWorkspace(p)
  BY <1>3 DEF PrepareRootfs, BuildMachine, Boot, RemoveWorkspace
<1>4. CASE Unlock(p) \/ UnlockCancelled(p) \/ RemoveLockFile(p) \/ Exit(p)
  BY <1>4 DEF Unlock, UnlockCancelled, RemoveLockFile, Exit
<1>5. CASE OpenLog(p) \/ StartRun(p) \/ Fail(p)
  BY <1>5 DEF OpenLog, StartRun, Fail
<1> QED
  BY <1>1, <1>2, <1>3, <1>4, <1>5 DEF ProcNext

\* A process is in an owner's stage only while flock has granted it its inode,
\* and has the lock file open exactly between OpenLock and Unlock or Exit.
LEMMA OwnersHoldPreserved ==
    ASSUME TypeOK, OwnersHold, NEW p \in Procs, ProcNext(p)
    PROVE  OwnersHold'
<1> USE NoInoAssumption DEF TypeOK, OwnersHold, OwnerPC
<1>1. CASE OpenLock(p)
  BY <1>1 DEF OpenLock
<1>2. CASE Grant(p)
  BY <1>2 DEF Grant
<1>3. CASE Unlock(p) \/ UnlockCancelled(p) \/ RemoveLockFile(p) \/ Exit(p)
  BY <1>3 DEF Unlock, UnlockCancelled, RemoveLockFile, Exit
<1>4. CASE OpenLog(p) \/ CancelLock(p) \/ PrepareRootfs(p) \/ BuildMachine(p) \/ StartRun(p)
           \/ Boot(p) \/ Fail(p) \/ RemoveWorkspace(p)
  BY <1>4 DEF OpenLog, CancelLock, PrepareRootfs, BuildMachine, StartRun, Boot, Fail,
              RemoveWorkspace
<1> QED
  BY <1>1, <1>2, <1>3, <1>4 DEF ProcNext

\* flock never grants one inode twice, and a descriptor does not move to
\* another inode while its process holds the lock.
LEMMA ExclusivePreserved ==
    ASSUME TypeOK, OwnersHold, ExclusivePerInode, NEW p \in Procs, ProcNext(p)
    PROVE  ExclusivePerInode'
<1> USE DEF TypeOK, ExclusivePerInode
<1>1. CASE OpenLock(p)
  BY <1>1 DEF OpenLock, OwnersHold
<1>2. CASE Grant(p)
  BY <1>2 DEF Grant
<1>3. CASE Unlock(p) \/ UnlockCancelled(p) \/ Exit(p)
  BY <1>3 DEF Unlock, UnlockCancelled, Exit
<1>4. CASE OpenLog(p) \/ CancelLock(p) \/ PrepareRootfs(p) \/ BuildMachine(p) \/ StartRun(p)
           \/ Boot(p) \/ Fail(p) \/ RemoveWorkspace(p) \/ RemoveLockFile(p)
  BY <1>4 DEF OpenLog, CancelLock, PrepareRootfs, BuildMachine, StartRun, Boot, Fail,
              RemoveWorkspace, RemoveLockFile
<1> QED
  BY <1>1, <1>2, <1>3, <1>4 DEF ProcNext

\* Only RemoveLockFile separates the path from an open descriptor, and then it
\* records the fork.
LEMMA SameInodePreserved ==
    ASSUME TypeOK, OwnersHold, SameInodeUnlessForked,
           NEW p \in Procs, ProcNext(p)
    PROVE  SameInodeUnlessForked'
<1> USE DEF TypeOK, SameInodeUnlessForked
<1>1. CASE OpenLock(p)
  BY <1>1, NoInoAssumption DEF OpenLock
<1>2. CASE RemoveLockFile(p)
  BY <1>2 DEF RemoveLockFile
<1>3. CASE Unlock(p) \/ UnlockCancelled(p) \/ Exit(p)
  BY <1>3 DEF Unlock, UnlockCancelled, Exit
<1>4. CASE OpenLog(p) \/ Grant(p) \/ CancelLock(p) \/ PrepareRootfs(p) \/ BuildMachine(p)
           \/ StartRun(p) \/ Boot(p) \/ Fail(p) \/ RemoveWorkspace(p)
  BY <1>4 DEF OpenLog, Grant, CancelLock, PrepareRootfs, BuildMachine, StartRun, Boot, Fail,
              RemoveWorkspace
<1> QED
  BY <1>1, <1>2, <1>3, <1>4 DEF ProcNext

\* Two owners hold two locks; without a fork both are on the inode at the lock
\* path, which flock grants once.
LEMMA InvExcludes ==
    ASSUME TypeOK, OwnersHold, ExclusivePerInode, SameInodeUnlessForked
    PROVE  ExclusiveUnlessForked
<1> SUFFICES ASSUME ~forked, NEW p \in Procs, NEW q \in Procs,
                    pc[p] \in OwnerPC, pc[q] \in OwnerPC
             PROVE  p = q
  BY DEF ExclusiveUnlessForked, MutualExclusion
<1>1. p \in holds /\ q \in holds
  BY DEF OwnersHold
<1>2. fd[p] # NoIno /\ fd[q] # NoIno
  BY DEF OwnersHold, OwnerPC
<1>3. fd[p] = lockPath /\ fd[q] = lockPath
  BY <1>2 DEF SameInodeUnlessForked
<1> QED
  BY <1>1, <1>3 DEF ExclusivePerInode

\* The workspace is written by BuildMachine and emptied by RemoveWorkspace,
\* both steps of an owner, and there is no other owner.
LEMMA IntactPreserved ==
    ASSUME SessionInv, NEW p \in Procs, ProcNext(p)
    PROVE  WorkspaceIntactUnlessForked'
<1> USE DEF SessionInv, TypeOK, WorkspaceIntactUnlessForked
<1>0. ExclusiveUnlessForked
  BY InvExcludes
<1>1. CASE PrepareRootfs(p)
  <2> SUFFICES ASSUME ~forked, NEW q \in Procs,
                      pc'[q] \in {"prepared", "built", "running", "booted"}
               PROVE  wsOwner' = q
    BY <1>1 DEF PrepareRootfs
  <2>1. pc[q] \in OwnerPC /\ pc[p] \in OwnerPC
    BY <1>1 DEF PrepareRootfs, OwnerPC
  <2>2. q = p
    BY <2>1, <1>0 DEF ExclusiveUnlessForked, MutualExclusion
  <2> QED
    BY <1>1, <2>2 DEF PrepareRootfs
<1>2. CASE RemoveWorkspace(p)
  <2> SUFFICES ASSUME ~forked, NEW q \in Procs,
                      pc'[q] \in {"prepared", "built", "running", "booted"}
               PROVE  FALSE
    BY <1>2 DEF RemoveWorkspace
  <2>1. pc[q] \in OwnerPC /\ pc[p] \in OwnerPC /\ q # p
    BY <1>2 DEF RemoveWorkspace, OwnerPC
  <2> QED
    BY <2>1, <1>0 DEF ExclusiveUnlessForked, MutualExclusion
<1>3. CASE OpenLog(p) \/ UnlockCancelled(p) \/ BuildMachine(p) \/ OpenLock(p) \/ Grant(p) \/ CancelLock(p)
           \/ StartRun(p) \/ Boot(p) \/ Fail(p) \/ Unlock(p)
           \/ RemoveLockFile(p) \/ Exit(p)
  BY <1>3 DEF OpenLog, UnlockCancelled, BuildMachine, OpenLock, Grant, CancelLock, StartRun, Boot, Fail,
              Unlock, RemoveLockFile, Exit
<1> QED
  BY <1>1, <1>2, <1>3 DEF ProcNext

\* SessionInv is an inductive invariant of the flock and cleanup protocol.
THEOREM SessionInvariant == Spec => []SessionInv
<1>1. Init => SessionInv
  BY InitInv
<1>2. SessionInv /\ [Next]_vars => SessionInv'
  <2> SUFFICES ASSUME SessionInv, [Next]_vars
               PROVE  SessionInv'
    OBVIOUS
  <2>1. CASE Next
    <3>1. PICK p \in Procs : ProcNext(p)
      BY <2>1 DEF Next
    <3>2. TypeOK /\ OwnersHold /\ ExclusivePerInode /\ SameInodeUnlessForked
      BY DEF SessionInv
    <3>3. TypeOK' /\ OwnersHold' /\ ExclusivePerInode' /\ SameInodeUnlessForked'
      BY <3>1, <3>2, TypePreserved, OwnersHoldPreserved, ExclusivePreserved,
         SameInodePreserved
    <3>4. WorkspaceIntactUnlessForked'
      BY <3>1, IntactPreserved
    <3> QED
      BY <3>3, <3>4 DEF SessionInv
  <2>2. CASE UNCHANGED vars
    BY <2>2 DEF vars, SessionInv, TypeOK, OwnersHold, ExclusivePerInode,
                SameInodeUnlessForked, WorkspaceIntactUnlessForked
  <2> QED
    BY <2>1, <2>2
<1> QED
  BY <1>1, <1>2, PTL DEF Spec

\* For any number of processes: as long as no lock file was unlinked while
\* another process had it open, a session name has at most one owner.
THEOREM Exclusion == Spec => []ExclusiveUnlessForked
<1>1. SessionInv => ExclusiveUnlessForked
  BY InvExcludes DEF SessionInv
<1> QED
  BY <1>1, SessionInvariant, PTL

\* ... and the files of that owner are not removed or replaced under it.
THEOREM WorkspaceIntact == Spec => []WorkspaceIntactUnlessForked
<1>1. SessionInv => WorkspaceIntactUnlessForked
  BY DEF SessionInv
<1> QED
  BY <1>1, SessionInvariant, PTL

\* ... and neither its log nor the default /var disk is unlinked under it: only
\* RemoveWorkspace unlinks them, and the process that runs it owns the session.
THEOREM OwnerKeepsFiles == Spec => OwnerFilesKept
<1> DEFINE Kept ==
      ~forked => \A p \in Procs :
          pc[p] \in {"building", "prepared", "built", "running", "booted"} =>
              /\ p \in logLinked => p \in logLinked' \/ pc'[p] = "idle"
              /\ varDisk # "none" => varDisk' # "none"
<1>1. SessionInv /\ [Next]_vars => [Kept]_vars
  <2> SUFFICES ASSUME SessionInv, ~forked, NEW p \in Procs, NEW q \in Procs,
                      ProcNext(q),
                      pc[p] \in {"building", "prepared", "built", "running",
                                "booted"}
               PROVE  /\ p \in logLinked => p \in logLinked' \/ pc'[p] = "idle"
                      /\ varDisk # "none" => varDisk' # "none"
    BY DEF Next
  <2>1. CASE RemoveWorkspace(q)
    <3>1. pc[p] \in OwnerPC /\ pc[q] \in OwnerPC /\ p # q
      BY <2>1 DEF RemoveWorkspace, OwnerPC
    <3> QED
      BY <3>1, InvExcludes DEF SessionInv, ExclusiveUnlessForked,
                               MutualExclusion
  <2>2. CASE RemoveLockFile(q) \/ Exit(q)
    BY <2>2 DEF RemoveLockFile, Exit, SessionInv, TypeOK
  <2>3. CASE OpenLog(q) \/ BuildMachine(q) \/ Boot(q)
    BY <2>3 DEF OpenLog, BuildMachine, Boot
  <2>4. CASE \/ OpenLock(q) \/ Grant(q) \/ CancelLock(q) \/ UnlockCancelled(q)
             \/ PrepareRootfs(q) \/ StartRun(q) \/ Fail(q) \/ Unlock(q)
    BY <2>4 DEF OpenLock, Grant, CancelLock, UnlockCancelled, PrepareRootfs,
                StartRun, Fail, Unlock
  <2> QED
    BY <2>1, <2>2, <2>3, <2>4 DEF ProcNext
<1> QED
  BY <1>1, SessionInvariant, PTL DEF Spec, OwnerFilesKept
-----------------------------------------------------------------------------
(* Session implements SessionOwner.                                        *)

\* The process that Owner chooses, in any state with one process in an owner's
\* stage: stated for values, so that it serves the state before a step as well
\* as the one after it.
LEMMA OneIsChosen ==
    ASSUME NEW S, NEW c, NEW p \in S, c[p] \in OwnerPC,
           \A q \in S : c[q] \in OwnerPC => q = p
    PROVE  (CHOOSE q \in S : c[q] \in OwnerPC) = p
OBVIOUS

\* Before a fork the owner is the one process in an owner's stage, after a fork
\* or without such a process it is nobody.
OwnerExact ==
    /\ \A p \in Procs : ~forked /\ pc[p] \in OwnerPC => Owner = p
    /\ forked => Owner = NoProc
    /\ (\A p \in Procs : pc[p] \notin OwnerPC) => Owner = NoProc

\* OwnerExact follows from the exclusion that flock gives.
LEMMA OwnerIs == SessionInv => OwnerExact
<1> SUFFICES ASSUME SessionInv PROVE OwnerExact
  OBVIOUS
<1>1. ASSUME NEW p \in Procs, ~forked, pc[p] \in OwnerPC
      PROVE  Owner = p
  <2>1. \A q \in Procs : pc[q] \in OwnerPC => q = p
    BY <1>1, InvExcludes DEF SessionInv, ExclusiveUnlessForked, MutualExclusion
  <2>2. (CHOOSE q \in Procs : pc[q] \in OwnerPC) = p
    BY <1>1, <2>1, OneIsChosen
  <2> QED
    BY <1>1, <2>2 DEF Owner
<1> QED
  BY <1>1 DEF Owner, OwnerExact

\* A step that leaves everybody's ownership as it was leaves Owner alone.
LEMMA OwnerKept ==
    ASSUME SessionInv, OwnerExact, OwnerExact', ~forked, ~forked',
           \A p \in Procs : pc[p] \in OwnerPC <=> pc'[p] \in OwnerPC
    PROVE  Owner' = Owner
<1>1. CASE \E p \in Procs : pc[p] \in OwnerPC
  BY <1>1 DEF OwnerExact
<1>2. CASE \A p \in Procs : pc[p] \notin OwnerPC
  BY <1>2 DEF OwnerExact
<1> QED
  BY <1>1, <1>2

\* Every step of a process before a fork is a step of SessionOwner or leaves the
\* owner and its files alone.
LEMMA StepBeforeFork ==
    ASSUME SessionInv, SessionInv', OwnerExact, OwnerExact', ~forked,
           NEW p \in Procs, ProcNext(p)
    PROVE  [Ownership!Next]_(Ownership!vars)
<1> USE DEF Ownership!vars
<1> DEFINE Stays == \A q \in Procs : pc[q] \in OwnerPC <=> pc'[q] \in OwnerPC
<1>t. pc \in [Procs -> PC] /\ varDisk \in {"none", "fresh", "used"}
  BY DEF SessionInv, TypeOK
<1>1. CASE OpenLog(p) \/ OpenLock(p) \/ CancelLock(p) \/ UnlockCancelled(p)
           \/ StartRun(p) \/ Fail(p)
  <2>1. Stays /\ UNCHANGED <<wsOwner, varDisk, forked>>
    BY <1>t, <1>1 DEF OpenLog, OpenLock, CancelLock, UnlockCancelled, StartRun,
                      Fail, OwnerPC
  <2> QED
    BY <2>1, OwnerKept
<1>2. CASE Grant(p)
  <2>1. UNCHANGED <<wsOwner, varDisk, forked>>
    BY <1>2 DEF Grant
  <2>2. CASE pc[p] = "cancelled"
    <3>1. Stays
      BY <1>t, <1>2, <2>2 DEF Grant, OwnerPC
    <3> QED
      BY <2>1, <3>1, OwnerKept
  <2>3. CASE pc[p] = "waiting"
    <3>1. pc'[p] \in OwnerPC /\ Owner' = p
      BY <1>t, <1>2, <2>1, <2>3 DEF Grant, OwnerPC, OwnerExact
    <3>2. ASSUME NEW q \in Procs, pc[q] \in OwnerPC PROVE FALSE
      <4>1. q # p
        BY <2>3, <3>2 DEF OwnerPC
      <4>2. pc'[q] \in OwnerPC
        BY <1>t, <1>2, <3>2, <4>1 DEF Grant
      <4> QED
        BY <2>1, <3>1, <4>1, <4>2 DEF OwnerExact
    <3>3. Owner = NoProc
      BY <3>2 DEF OwnerExact
    <3>4. Ownership!Acquire(p)
      BY <2>1, <3>1, <3>3 DEF Ownership!Acquire
    <3> QED
      BY <3>4 DEF Ownership!Next
  <2> QED
    BY <1>2, <2>2, <2>3 DEF Grant
<1>3. CASE PrepareRootfs(p)
  <2>1. Stays /\ wsOwner' = p /\ UNCHANGED <<varDisk, forked>> /\ Owner = p
    BY <1>t, <1>3 DEF PrepareRootfs, OwnerPC, OwnerExact
  <2>2. Ownership!Fill(p)
    BY <2>1, OwnerKept DEF Ownership!Fill
  <2> QED
    BY <2>2 DEF Ownership!Next
<1>4. CASE BuildMachine(p) \/ Boot(p)
  <2>1. /\ Stays /\ UNCHANGED <<wsOwner, forked>>
        /\ Owner = p /\ wsOwner = p
    BY <1>t, <1>4 DEF BuildMachine, Boot, OwnerPC, OwnerExact, SessionInv,
                      WorkspaceIntactUnlessForked
  <2>2. Owner' = Owner
    BY <2>1, OwnerKept
  <2>3. CASE varDisk' = varDisk
    BY <2>1, <2>2, <2>3
  <2>4. CASE varDisk' # varDisk
    <3>1. varDisk' = IF varDisk = "none" THEN "fresh" ELSE "used"
      BY <1>t, <1>4, <2>4 DEF BuildMachine, Boot
    <3>2. Ownership!UseDisk(p)
      BY <2>1, <2>2, <3>1 DEF Ownership!UseDisk
    <3> QED
      BY <3>2 DEF Ownership!Next
  <2> QED
    BY <2>3, <2>4
<1>5. CASE RemoveWorkspace(p)
  <2>1. /\ Stays /\ UNCHANGED forked /\ Owner = p
        /\ wsOwner' = NoProc /\ varDisk' = "none"
    BY <1>t, <1>5 DEF RemoveWorkspace, OwnerPC, OwnerExact
  <2>2. Ownership!Wipe(p)
    BY <2>1, OwnerKept DEF Ownership!Wipe
  <2> QED
    BY <2>2 DEF Ownership!Next
<1>6. CASE Unlock(p) \/ Exit(p)
  <2>1. /\ UNCHANGED <<wsOwner, varDisk, forked>>
        /\ pc'[p] \notin OwnerPC
        /\ \A q \in Procs \ {p} : pc'[q] = pc[q]
    BY <1>t, <1>6 DEF Unlock, Exit, OwnerPC
  <2>2. CASE pc[p] \notin OwnerPC
    <3>1. Stays
      BY <2>1, <2>2
    <3> QED
      BY <2>1, <3>1, OwnerKept
  <2>3. CASE pc[p] \in OwnerPC
    <3>1. Owner = p
      BY <2>3 DEF OwnerExact
    <3>2. \A q \in Procs : pc'[q] \notin OwnerPC
      BY <2>1, <3>1 DEF OwnerExact
    <3>3. Owner' = NoProc
      BY <3>2 DEF OwnerExact
    <3>4. Ownership!Release(p)
      BY <2>1, <3>1, <3>3 DEF Ownership!Release
    <3> QED
      BY <3>4 DEF Ownership!Next
  <2> QED
    BY <2>2, <2>3
<1>7. CASE RemoveLockFile(p)
  <2>1. Stays /\ UNCHANGED <<wsOwner, varDisk>>
    BY <1>t, <1>7 DEF RemoveLockFile, OwnerPC
  <2>2. CASE forked'
    <3>1. Owner' = NoProc /\ forked' = TRUE
      BY <2>2, <1>7 DEF OwnerExact, RemoveLockFile
    <3>2. Ownership!Break
      BY <2>1, <3>1 DEF Ownership!Break
    <3> QED
      BY <3>2 DEF Ownership!Next
  <2>3. CASE ~forked'
    <3>1. UNCHANGED forked
      BY <2>3 DEF SessionInv, TypeOK
    <3> QED
      BY <2>1, <2>3, <3>1, OwnerKept
  <2> QED
    BY <2>2, <2>3
<1> QED
  BY <1>1, <1>2, <1>3, <1>4, <1>5, <1>6, <1>7 DEF ProcNext

\* The lock protocol implements an exclusive owner: whatever the order of starts,
\* kills, failures and late grants, what happens to the workspace and the disk is
\* what SessionOwner allows, which promises nothing after a fork.
THEOREM OwnershipImplemented == Spec => ImplementsOwnership
<1>1. Init => Ownership!Init
  BY DEF Init, Ownership!Init, Owner, OwnerPC
<1>2. SessionInv /\ SessionInv' /\ OwnerExact /\ OwnerExact' /\ [Next]_vars
        => [Ownership!Next]_(Ownership!vars)
  <2> SUFFICES ASSUME SessionInv, SessionInv', OwnerExact, OwnerExact', [Next]_vars
               PROVE  [Ownership!Next]_(Ownership!vars)
    OBVIOUS
  <2>1. CASE UNCHANGED vars
    BY <2>1 DEF vars, Ownership!vars, Owner
  <2>2. CASE Next /\ ~forked
    BY <2>2, StepBeforeFork DEF Next
  <2>3. CASE Next /\ forked
    <3>1. forked'
      BY <2>3 DEF Next, ProcNext, OpenLog, OpenLock, Grant, CancelLock,
                  UnlockCancelled, PrepareRootfs, BuildMachine, StartRun, Boot,
                  Fail, RemoveWorkspace, Unlock, RemoveLockFile, Exit
    <3>2. Ownership!Chaos
      BY <2>3, <3>1 DEF Ownership!Chaos, OwnerExact, SessionInv, TypeOK
    <3> QED
      BY <3>2 DEF Ownership!Next
  <2> QED
    BY <2>1, <2>2, <2>3
<1>3. SessionInv => OwnerExact
  BY OwnerIs
<1> QED
  BY <1>1, <1>2, <1>3, SessionInvariant, PTL
     DEF Spec, ImplementsOwnership, Ownership!Spec

-----------------------------------------------------------------------------
(* Which session a process takes part in, and which disk it opens there, is *)
(* decided by the Config it starts with: the properties of VMConfig, for any *)
(* CPU counts and amounts of memory on the command lines and in the file.    *)

Configs == [CPUs : Int, MemoryMB : Nat,
            text : [TextFields -> {"unset", "default", "flag", "file"}]]

\* What `ovm init` writes always names a session and a disk.
Files ==
    {f \in [state : {"whole"}, CPUs : Int, MemoryMB : Nat,
            text : [FileFields -> {"unset", "file"}]] :
        f.text["SessionID"] = "file" /\ f.text["VarDisk"] = "file"}

\* The file is what some init wrote, or the remains of a write; a Config that
\* has its session from the file has its disk from there; a start that got
\* past validateConfig has a valid Config.
ConfigInv ==
    /\ vmcfg \in {Absent, Torn} \cup Files
    /\ \/ initPC = [at |-> "idle"]
       \/ \E f \in Files : initPC = [at |-> "write", cfg |-> f]
    /\ inited => vmcfg # Absent
    /\ cfg \in Configs
    /\ cfg.text["SessionID"] = "file" => cfg.text["VarDisk"] = "file"
    /\ startPC = "started" => ValidateConfig(cfg)

\* Every `ovm init` writes one of these files.
LEMMA InitCfgType ==
    ASSUME NEW cpus \in InitCPUs, NEW mem \in InitMems, NEW mounts \in BOOLEAN
    PROVE  InitCfg(cpus, mem, mounts) \in Files
<1>1. cpus \in Int /\ mem \in Nat
  BY NumbersAssumption
<1> QED
  BY <1>1 DEF InitCfg, Files, FileFields

\* Flags and defaults give a Config that has nothing from the file.
LEMMA FlagCfgType ==
    ASSUME NEW fields, NEW cpus \in Int, NEW mem \in Nat
    PROVE  /\ FlagCfg(fields, cpus, mem) \in Configs
           /\ FlagCfg(fields, cpus, mem).text["SessionID"] # "file"
<1> DEFINE c == FlagCfg(fields, cpus, mem)
<1>1. c.CPUs \in Int /\ c.MemoryMB \in Nat
  BY DEF FlagCfg
<1>2. c \in Configs
  BY DEF FlagCfg, Configs
<1>3. "SessionID" \in TextFields
  BY DEF TextFields, FileFields
<1>4. c.text["SessionID"] # "file"
  BY <1>3 DEF FlagCfg
<1> QED
  BY <1>2, <1>4

\* OverwriteCfgFrom takes session and disk together.
LEMMA OverwriteType ==
    ASSUME NEW c \in Configs, NEW f \in Files
    PROVE  /\ OverwriteCfgFrom(c, f) \in Configs
           /\ OverwriteCfgFrom(c, f).text["VarDisk"] = "file"
<1> DEFINE o == OverwriteCfgFrom(c, f)
           t == [g \in TextFields |->
                   IF g \in FileFields /\ f.text[g] # "unset"
                   THEN f.text[g] ELSE c.text[g]]
<1>1. /\ f.CPUs \in Int /\ f.MemoryMB \in Nat /\ f.text["VarDisk"] = "file"
      /\ f.text \in [FileFields -> {"unset", "file"}]
  BY DEF Files
<1>2. t \in [TextFields -> {"unset", "default", "flag", "file"}]
  BY <1>1 DEF Configs
<1>3. /\ "VarDisk" \in FileFields
      /\ "VarDisk" \in TextFields
  BY DEF TextFields, FileFields
<1>4. t["VarDisk"] = "file"
  BY <1>1, <1>3
<1>5. o = [c EXCEPT !.CPUs = IF f.CPUs > 0 THEN f.CPUs ELSE @,
                    !.MemoryMB = IF f.MemoryMB > 0 THEN f.MemoryMB ELSE @,
                    !.text = t]
  BY DEF OverwriteCfgFrom, Configs
<1>6. o.text = t /\ o \in Configs
  BY <1>1, <1>2, <1>5 DEF Configs
<1> QED
  BY <1>4, <1>6

\* NormalizeConfig changes numbers only.
LEMMA NormalizeType ==
    ASSUME NEW c \in Configs
    PROVE  /\ NormalizeConfig(c) \in Configs
           /\ NormalizeConfig(c).text = c.text
<1> DEFINE cpus == IF c.CPUs <= 0 THEN HostCPUs ELSE c.CPUs
           mem == IF c.MemoryMB = 0 THEN HostMem ELSE c.MemoryMB
<1>1. cpus \in Int /\ mem \in Nat
  BY HostAssumption DEF Configs
<1>2. NormalizeConfig(c) = [c EXCEPT !.CPUs = cpus, !.MemoryMB = mem]
  BY DEF NormalizeConfig, Configs
<1> HIDE DEF cpus, mem
<1> QED
  BY <1>1, <1>2 DEF Configs

\* Every step of `ovm init` and `ovm start` keeps the invariant.
LEMMA ConfigPreserved ==
    ASSUME ConfigInv, [ConfigNext]_configVars
    PROVE  ConfigInv'
<1> USE DEF ConfigInv
<1>1. CASE InitTruncate
  <2>1. PICK cpus \in InitCPUs, mem \in InitMems, mounts \in BOOLEAN :
           initPC' = [at |-> "write", cfg |-> InitCfg(cpus, mem, mounts)]
    BY <1>1 DEF InitTruncate
  <2>2. InitCfg(cpus, mem, mounts) \in Files
    BY InitCfgType
  <2>3. Torn # Absent
    BY DEF Torn, Absent
  <2> QED
    BY <1>1, <2>1, <2>2, <2>3 DEF InitTruncate
<1>2. CASE InitWrite
  <2>1. PICK f \in Files : initPC = [at |-> "write", cfg |-> f]
    BY <1>2 DEF InitWrite
  <2>2. vmcfg' = f /\ f # Absent
    BY <1>2, <2>1 DEF InitWrite, Files, Absent
  <2> QED
    BY <1>2, <2>2 DEF InitWrite
<1>3. CASE InitDies
  BY <1>3 DEF InitDies
<1>4. CASE StartFlags
  <2>1. PICK fields \in SUBSET FlagFields, cpus \in FlagCPUs, mem \in FlagMems :
           cfg' = FlagCfg(fields, cpus, mem)
    BY <1>4 DEF StartFlags
  <2>2. cpus \in Int /\ mem \in Nat
    BY NumbersAssumption
  <2>3. cfg' \in Configs /\ cfg'.text["SessionID"] # "file"
    BY <2>1, <2>2, FlagCfgType
  <2> QED
    BY <1>4, <2>3 DEF StartFlags
<1>5. CASE StartLoad
  <2>1. CASE vmcfg.state = "whole"
    <3>1. vmcfg \in Files
      BY <2>1 DEF Absent, Torn
    <3>2. cfg' = OverwriteCfgFrom(cfg, vmcfg)
      BY <1>5, <2>1 DEF StartLoad
    <3>3. cfg' \in Configs /\ cfg'.text["VarDisk"] = "file"
      BY <3>1, <3>2, OverwriteType
    <3> QED
      BY <1>5, <3>3 DEF StartLoad
  <2>2. CASE vmcfg.state # "whole"
    BY <1>5, <2>2 DEF StartLoad
  <2> QED
    BY <2>1, <2>2
<1>6. CASE StartNew
  <2>1. cfg' = NormalizeConfig(cfg)
    BY <1>6 DEF StartNew
  <2>2. cfg' \in Configs /\ cfg'.text = cfg.text
    BY <2>1, NormalizeType
  <2>3. startPC' = "started" => ValidateConfig(cfg')
    BY <1>6 DEF StartNew
  <2>4. startPC' = "started" => ValidateConfig(cfg)'
    BY <2>3 DEF ValidateConfig
  <2> QED
    BY <1>6, <2>2, <2>4 DEF StartNew
<1>7. CASE StartEnds
  <2>1. cfg' = FlagCfg({}, 0, 0)
    BY <1>7 DEF StartEnds, NoCfg
  <2>2. cfg' \in Configs /\ cfg'.text["SessionID"] # "file"
    BY <2>1, FlagCfgType
  <2> QED
    BY <1>7, <2>2 DEF StartEnds
<1>8. CASE UNCHANGED configVars
  BY <1>8 DEF configVars, ValidateConfig
<1> QED
  BY <1>1, <1>2, <1>3, <1>4, <1>5, <1>6, <1>7, <1>8 DEF ConfigNext

\* ConfigInv holds whatever numbers the command lines and the host give.
THEOREM ConfigInvariant == ConfigSpec => []ConfigInv
<1>1. ConfigInit => ConfigInv
  <2> SUFFICES ASSUME ConfigInit PROVE ConfigInv
    OBVIOUS
  <2>1. cfg = FlagCfg({}, 0, 0)
    BY DEF ConfigInit, NoCfg
  <2>2. cfg \in Configs /\ cfg.text["SessionID"] # "file"
    BY <2>1, FlagCfgType
  <2> QED
    BY <2>2 DEF ConfigInit, ConfigInv
<1>2. ConfigInv /\ [ConfigNext]_configVars => ConfigInv'
  BY ConfigPreserved
<1> QED
  BY <1>1, <1>2, PTL DEF ConfigSpec

\* For every CPU count and amount of memory that flags, file and host may give: a
\* machine that gets built has its session, a CPU count that survives the uint8
\* conversion and, below 2^32 MB, memory that survives the uint32 one.
THEOREM BuiltMachineTheorem == ConfigSpec => []BuiltMachineValid
<1>1. ConfigInv => BuiltMachineValid
  <2> SUFFICES ASSUME ConfigInv, startPC = "started"
               PROVE  /\ cfg.text["SessionID"] # "unset"
                      /\ MachineCPUs(cfg) = cfg.CPUs /\ MachineCPUs(cfg) >= 1
                      /\ \/ /\ MachineMemory(cfg) = cfg.MemoryMB
                            /\ MachineMemory(cfg) >= 512
                         \/ cfg.MemoryMB >= MemLimit
    BY DEF BuiltMachineValid
  <2>1. /\ cfg.text["SessionID"] # "unset" /\ cfg.MemoryMB >= 512
        /\ cfg.CPUs >= 1 /\ cfg.CPUs <= 255 /\ cfg.CPUs \in Int
        /\ cfg.MemoryMB \in Nat
    BY DEF ConfigInv, ValidateConfig, Configs
  <2>2. \A n \in Int : n >= 1 /\ n <= 255 => n % 256 = n
    OBVIOUS
  <2>3. MemLimit \in Nat /\ MemLimit > 0
    BY MemLimitAssumption
  <2>4. \A n \in Nat : n < MemLimit => n % MemLimit = n
    BY <2>3, Z3
  <2>5. cfg.MemoryMB < MemLimit => MachineMemory(cfg) = cfg.MemoryMB
    BY <2>1, <2>4 DEF MachineMemory
  <2>6. MachineCPUs(cfg) = cfg.CPUs
    BY <2>1, <2>2 DEF MachineCPUs
  <2> QED
    BY <2>1, <2>3, <2>5, <2>6
<1> QED
  BY <1>1, ConfigInvariant, PTL

\* A session named by the file never runs on the default disk, which lies under
\* another session's lock.
THEOREM VarDiskLockedTheorem == ConfigSpec => []VarDiskUnderSessionLock
<1>1. ConfigInv => VarDiskUnderSessionLock
  BY DEF ConfigInv, VarDiskUnderSessionLock
<1> QED
  BY <1>1, ConfigInvariant, PTL

\* After a finished `ovm init`, a start that finds the file whole runs on the
\* disk the file names.
THEOREM InitDiskUsedTheorem == ConfigSpec => InitDiskUsedUnlessTorn
<1>1. ConfigInv /\ [ConfigNext]_configVars
        => [startPC = "flags" /\ startPC' = "loaded" /\ inited /\ ~tornLoad'
              => cfg'.text["VarDisk"] = "file"]_configVars
  <2> SUFFICES ASSUME ConfigInv, ConfigNext, startPC = "flags",
                      startPC' = "loaded", inited, ~tornLoad'
               PROVE  cfg'.text["VarDisk"] = "file"
    OBVIOUS
  <2>1. StartLoad
    BY DEF ConfigNext, InitTruncate, InitWrite, InitDies,
           StartFlags, StartNew, StartEnds
  <2>2. vmcfg # Torn
    <3> SUFFICES ASSUME vmcfg = Torn PROVE FALSE
      OBVIOUS
    <3>1. vmcfg.state = "torn"
      BY DEF Torn
    <3>2. tornLoad' = (vmcfg.state = "torn")
      BY <2>1, <3>1 DEF StartLoad
    <3> QED
      BY <3>1, <3>2
  <2>3. vmcfg \in Files /\ cfg \in Configs
    BY <2>2 DEF ConfigInv
  <2>4. cfg' = OverwriteCfgFrom(cfg, vmcfg)
    BY <2>1, <2>3 DEF StartLoad, Files
  <2> QED
    BY <2>3, <2>4, OverwriteType
<1> QED
  BY <1>1, ConfigInvariant, PTL DEF ConfigSpec, InitDiskUsedUnlessTorn
=============================================================================
