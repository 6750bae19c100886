------------------------------- MODULE RawDisk -------------------------------
(***************************************************************************)
(* Reconciliation of the raw disk images of a session: at every start      *)
(* buildMachine brings the /var disk and then each external disk to the    *)
(* state the configuration asks for (create, keep, or remove and recreate),*)
(* appends them to BlkDevs, and the guest mounts them by UUID.  The images *)
(* are files outside the program's control between two starts: a crash or  *)
(* an I/O error leaves them in whatever state the last step produced.      *)
(*                                                                         *)
(* pkg/librevm/storage.go, pkg/disk, pkg/static_resources,                 *)
(* pkg/filesystem/xattr*.go, cmd/guest-agent/pkg/service/mount.go.         *)
(***************************************************************************)
EXTENDS Naturals, Sequences

CONSTANTS Var,        \* the disk of --var-disk
          Externals,  \* the disks of --raw-disk, in command-line order
          CustomMnts, \* the values of mnt=
          NoMnt,
          Versions, NoVer,
          VarUUID,    \* define.VarDataDiskUUID
          ImageUUID,  \* the UUID inside the embedded ext4 image
          OtherUUIDs, \* any other: random, given with uuid=, OVMSourceDiskUUID
          NoUUID,
          MaxFaults   \* bound on crashes and I/O errors in a behaviour

Ext == {Externals[i] : i \in DOMAIN Externals}
Disks == {Var} \cup Ext
Order == <<Var>> \o Externals

ASSUME DiskAssumption == Var \notin Ext /\ Externals \in Seq(Ext)
ASSUME UUIDAssumption ==
    /\ VarUUID # ImageUUID
    /\ NoUUID \notin OtherUUIDs \cup {VarUUID, ImageUUID}
    /\ VarUUID \notin OtherUUIDs /\ ImageUUID \notin OtherUUIDs
ASSUME MntAssumption ==
    NoMnt \notin OtherUUIDs \cup {VarUUID, ImageUUID, NoUUID, "/var"} \cup CustomMnts
ASSUME VersionAssumption == NoVer \notin Versions
ASSUME FaultsAssumption == MaxFaults \in Nat

VARIABLES
    disk,     \* the image file at each path
    pc,       \* the step of the reconciliation of disk cur
    cur,      \* index into Order
    want,     \* the version each disk is asked to have in this start
    asked,    \* the UUID of each external disk in the configuration
    mnt,      \* diskSpec.Mnt of each disk
    planned,  \* the UUID and mount point this start should give each disk
    target,   \* the UUID generateRAWDisk is to write
    blkDevs,  \* Machine.BlkDevs
    mounted,  \* guest mount point -> disk
    misread,  \* a version that is stored was not read in this start
    faults    \* crashes and I/O errors so far

vars == <<disk, pc, cur, want, asked, mnt, planned, target, blkDevs, mounted, misread, faults>>

UUIDs == OtherUUIDs \cup {VarUUID, ImageUUID}

Image == [form : {"absent", "empty", "torn", "ext4"},
          uuid : UUIDs \cup {NoUUID},
          ver : Versions \cup {NoVer},
          used : BOOLEAN]

\* form "empty": the file exists without a superblock; "torn": the superblock
\* is there and the rest is not.
Absent == [form |-> "absent", uuid |-> NoUUID, ver |-> NoVer, used |-> FALSE]

UserImage(u, v) == [form |-> "ext4", uuid |-> u, ver |-> v, used |-> TRUE]

\* As a mount point a UUID stands for /mnt/<UUID>.
SlashVar == "/var"
MountPoints == {SlashVar} \cup UUIDs \cup CustomMnts

\* disk.Inspect: the probed mount target.
MountTo(u) == IF u = VarUUID THEN SlashVar ELSE u

Generating == {"remove", "extract", "uuid", "xattr"}

PC == {"idle", "stat", "inspect", "version", "attach", "boot", "running",
       "failed"} \cup Generating

D == Order[cur]

Attached == {blkDevs[i] : i \in DOMAIN blkDevs}

-----------------------------------------------------------------------------
(* Plausible bugs of the definitions below; none of them is part of Next.  *)

\* External disks without a version are regenerated like the var disk.
RegenerateUnversioned(d, stored) ==
    want[d] # NoVer /\ stored # want[d]

\* A new disk keeps the UUID of the embedded image.
WriteUUIDSkipped ==
    /\ pc = "uuid"
    /\ pc' = "xattr"
    /\ UNCHANGED <<disk, cur, want, asked, mnt, planned, target, blkDevs, mounted, misread, faults>>

\* The version is stamped before the image is complete.
ExtractStamped ==
    /\ pc = "extract"
    /\ \/ /\ disk[D].form = "absent"
          /\ disk' = [disk EXCEPT ![D] = [Absent EXCEPT !.form = "empty"]]
          /\ UNCHANGED pc
       \/ /\ disk[D].form = "empty"
          /\ disk' = [disk EXCEPT ![D].form = "torn", ![D].uuid = target, ![D].ver = want[D]]
          /\ UNCHANGED pc
       \/ /\ disk[D].form = "torn"
          /\ disk' = [disk EXCEPT ![D].form = "ext4"]
          /\ pc' = "uuid"
    /\ UNCHANGED <<cur, want, asked, mnt, planned, target, blkDevs, mounted, misread, faults>>

\* A var disk with another UUID is an error instead of being recreated.
InspectStrict ==
    /\ pc = "inspect"
    /\ target' = IF D = Var THEN VarUUID ELSE disk[D].uuid
    /\ pc' = IF disk[D].form = "empty" \/ (D = Var /\ disk[D].uuid # VarUUID)
             THEN "failed" ELSE "version"
    /\ UNCHANGED <<disk, cur, want, asked, mnt, planned, blkDevs, mounted, misread, faults>>

-----------------------------------------------------------------------------

\* Between two starts the paths hold nothing, or images the user brought: an
\* old or foreign disk at the var path, copies of each other, of a var disk or
\* of the embedded image.
Init ==
    /\ disk \in [Disks -> {Absent} \cup
                          {UserImage(u, v) : u \in UUIDs,
                                             v \in Versions \cup {NoVer}}]
    /\ pc = "idle"
    /\ cur = 1
    /\ want = [d \in Disks |-> NoVer]
    /\ asked = [d \in Ext |-> NoUUID]
    /\ mnt = [d \in Disks |-> NoMnt]
    /\ planned = [d \in Disks |-> [uuid |-> NoUUID, mnt |-> NoMnt]]
    /\ target = NoUUID
    /\ blkDevs = <<>>
    /\ mounted = <<>>
    /\ misread = FALSE
    /\ faults = 0

\* What a start should make of disk d: the fixed UUID on /var; the UUID an
\* external image has already, else the one asked for; the mount point given
\* with mnt=, else the one that goes with the UUID.
Plan(d, uuid, custom) ==
    LET exists == disk[d].form # "absent"
    IN  IF d = Var THEN [uuid |-> VarUUID, mnt |-> SlashVar]
        ELSE [uuid |-> IF exists THEN disk[d].uuid ELSE uuid,
              mnt |-> IF custom # NoMnt THEN custom
                      ELSE IF exists THEN MountTo(disk[d].uuid) ELSE uuid]

\* A start of the session with its configuration: any versions, any UUIDs (of
\* other disks too: uuid= is the user's, OVMSourceDiskUUID is fixed) and any
\* mount points.
Start ==
    /\ pc = "idle"
    /\ want' \in [Disks -> Versions \cup {NoVer}]
    /\ asked' \in [Ext -> UUIDs]
    /\ mnt' \in [Disks -> CustomMnts \cup {NoMnt, SlashVar}]
    /\ mnt'[Var] = SlashVar
    /\ planned' = [d \in Disks |->
                     Plan(d, IF d = Var THEN VarUUID ELSE asked'[d], mnt'[d])]
    /\ cur' = 1
    /\ blkDevs' = <<>>
    /\ mounted' = <<>>
    /\ misread' = FALSE
    /\ pc' = "stat"
    /\ UNCHANGED <<disk, target, faults>>

\* An external disk without mnt= gets mount point m.
SetMnt(m) ==
    mnt' = IF D # Var /\ mnt[D] = NoMnt THEN [mnt EXCEPT ![D] = m] ELSE mnt

\* os.Stat: a missing image is generated, an existing one looked at.
Stat ==
    /\ pc = "stat"
    /\ \/ /\ disk[D].form = "absent"
          /\ target' = IF D = Var THEN VarUUID ELSE asked[D]
          /\ SetMnt(asked[D])
          /\ pc' = "extract"
       \/ /\ disk[D].form # "absent"
          /\ pc' = "inspect"
          /\ UNCHANGED <<target, mnt>>
    /\ UNCHANGED <<disk, cur, want, asked, planned, blkDevs, mounted, misread, faults>>

\* Inspect: an error ends the start; a var disk with another UUID is recreated;
\* an external disk keeps the UUID it has.
Inspect ==
    /\ pc = "inspect"
    /\ \/ /\ disk[D].form = "empty"
          /\ pc' = "failed"
          /\ UNCHANGED <<target, mnt>>
       \/ /\ disk[D].form # "empty"
          /\ target' = IF D = Var THEN VarUUID ELSE disk[D].uuid
          /\ SetMnt(MountTo(disk[D].uuid))
          /\ pc' = IF D = Var /\ disk[D].uuid # VarUUID THEN "remove" ELSE "version"
    /\ UNCHANGED <<disk, cur, want, asked, planned, blkDevs, mounted, misread, faults>>

\* needsDiskRegeneration and its two callers: is disk d, whose version was read
\* as stored, to be removed and generated again?
NeedsRegeneration(d, stored) ==
    LET hasVersion == want[d] # NoVer /\ stored # NoVer
    IN  IF d = Var THEN ~hasVersion \/ stored # want[d]
                   ELSE hasVersion /\ stored # want[d]

\* GetXattr: its error is logged and taken for "no version".
ReadVersion ==
    /\ pc = "version"
    /\ \E stored \in {disk[D].ver, NoVer} :
          /\ \/ stored = disk[D].ver /\ UNCHANGED <<misread, faults>>
             \/ /\ stored # disk[D].ver
                /\ want[D] # NoVer
                /\ faults < MaxFaults
                /\ faults' = faults + 1
                /\ misread' = TRUE
          /\ pc' = IF NeedsRegeneration(D, stored) THEN "remove" ELSE "attach"
    /\ UNCHANGED <<disk, cur, want, asked, mnt, planned, target, blkDevs, mounted>>

\* recreateRAWDisk: os.Remove, then generateRAWDisk.
Remove ==
    /\ pc = "remove"
    /\ disk' = [disk EXCEPT ![D] = Absent]
    /\ pc' = "extract"
    /\ UNCHANGED <<cur, want, asked, mnt, planned, target, blkDevs, mounted, misread, faults>>

\* ExtractEmbeddedRawDisk writes the image front to back into its final path.
Extract ==
    /\ pc = "extract"
    /\ \/ /\ disk[D].form = "absent"
          /\ disk' = [disk EXCEPT ![D] = [Absent EXCEPT !.form = "empty"]]
          /\ UNCHANGED pc
       \/ /\ disk[D].form = "empty"
          /\ disk' = [disk EXCEPT ![D].form = "torn", ![D].uuid = ImageUUID]
          /\ UNCHANGED pc
       \/ /\ disk[D].form = "torn"
          /\ disk' = [disk EXCEPT ![D].form = "ext4"]
          /\ pc' = "uuid"
    /\ UNCHANGED <<cur, want, asked, mnt, planned, target, blkDevs, mounted, misread, faults>>

\* NewUUID -> ext2fs_set_uuid.
WriteUUID ==
    /\ pc = "uuid"
    /\ disk' = [disk EXCEPT ![D].uuid = target]
    /\ pc' = "xattr"
    /\ UNCHANGED <<cur, want, asked, mnt, planned, target, blkDevs, mounted, misread, faults>>

\* applyDiskXattrs; without a version there is nothing to write.
WriteVersion ==
    /\ pc = "xattr"
    /\ disk' = [disk EXCEPT ![D].ver = want[D]]
    /\ pc' = "attach"
    /\ UNCHANGED <<cur, want, asked, mnt, planned, target, blkDevs, mounted, misread, faults>>

\* addRAWDiskToBlkList inspects the image once more and appends it.
Attach ==
    /\ pc = "attach"
    /\ blkDevs' = Append(blkDevs, [disk |-> D, uuid |-> disk[D].uuid, mnt |-> mnt[D]])
    /\ IF cur < Len(Order)
       THEN cur' = cur + 1 /\ pc' = "stat"
       ELSE UNCHANGED cur /\ pc' = "boot"
    /\ UNCHANGED <<disk, want, asked, mnt, planned, target, mounted, misread, faults>>

\* MountBlockDevices in the guest: of the devices with the var UUID the last is
\* taken for the var disk and mounted; the others are mounted in order, unless
\* the mount point is in use, as /var is from MountAllPseudoMnt on.
ToMount ==
    {i \in DOMAIN blkDevs :
        IF blkDevs[i].uuid = VarUUID
        THEN \A j \in DOMAIN blkDevs : j > i => blkDevs[j].uuid # VarUUID
        ELSE blkDevs[i].mnt # SlashVar}

\* Is device i the one whose mount at t is attempted first?
FirstAt(i, t) ==
    /\ i \in ToMount /\ blkDevs[i].mnt = t
    /\ \A j \in ToMount \ {i} :
          blkDevs[j].mnt = t =>
              \/ blkDevs[i].uuid = VarUUID
              \/ blkDevs[j].uuid # VarUUID /\ i < j

\* `mount UUID=<u>` takes any attached device that carries the UUID.
MountCandidates(t) ==
    {b.disk : b \in {c \in Attached :
                       \E i \in ToMount : FirstAt(i, t) /\ c.uuid = blkDevs[i].uuid}}

GuestMount ==
    /\ pc = "boot"
    /\ LET points == {blkDevs[i].mnt : i \in ToMount}
       IN  /\ mounted' \in [points -> Disks]
           /\ \A t \in points : mounted'[t] \in MountCandidates(t)
           /\ disk' = [d \in Disks |->
                         IF \E t \in points : mounted'[t] = d
                         THEN [disk[d] EXCEPT !.used = TRUE] ELSE disk[d]]
    /\ pc' = "running"
    /\ UNCHANGED <<cur, want, asked, mnt, planned, target, blkDevs, misread, faults>>

\* The kernel may refuse a file system whose blocks are missing.
GuestMountFails ==
    /\ pc = "boot"
    /\ \E b \in Attached : disk[b.disk].form = "torn"
    /\ pc' = "failed"
    /\ UNCHANGED <<disk, cur, want, asked, mnt, planned, target, blkDevs, mounted, misread, faults>>

\* Only the image files outlive the process.
ProcessEnds ==
    /\ pc' = "idle"
    /\ cur' = 1
    /\ want' = [d \in Disks |-> NoVer]
    /\ asked' = [d \in Ext |-> NoUUID]
    /\ mnt' = [d \in Disks |-> NoMnt]
    /\ planned' = [d \in Disks |-> [uuid |-> NoUUID, mnt |-> NoMnt]]
    /\ target' = NoUUID
    /\ blkDevs' = <<>>
    /\ mounted' = <<>>
    /\ misread' = FALSE

\* The VM stops, or a failed start returns its error.
Exit ==
    /\ pc \in {"running", "failed"}
    /\ ProcessEnds
    /\ UNCHANGED <<disk, faults>>

\* The host process dies, or one of the calls of the start returns an error:
\* the image files stay as they are.
Interrupt ==
    /\ pc \notin {"idle", "running", "failed"}
    /\ faults < MaxFaults
    /\ faults' = faults + 1
    /\ ProcessEnds
    /\ UNCHANGED disk

Progress ==
    \/ Start \/ Stat \/ Inspect \/ ReadVersion \/ Remove \/ Extract
    \/ WriteUUID \/ WriteVersion \/ Attach \/ GuestMount \/ GuestMountFails
    \/ Exit

Next == Progress \/ Interrupt

\* The code runs its steps one after the other without waiting for anybody;
\* the launcher is assumed to start the session again after it has ended.
Spec == Init /\ [][Next]_vars /\ WF_vars(Progress)

-----------------------------------------------------------------------------

TypeOK ==
    /\ disk \in [Disks -> Image]
    /\ pc \in PC
    /\ cur \in DOMAIN Order
    /\ want \in [Disks -> Versions \cup {NoVer}]
    /\ asked \in [Ext -> UUIDs \cup {NoUUID}]
    /\ mnt \in [Disks -> MountPoints \cup {NoUUID, NoMnt}]
    /\ planned \in [Disks -> [uuid : UUIDs \cup {NoUUID},
                              mnt : MountPoints \cup {NoUUID, NoMnt}]]
    /\ target \in UUIDs \cup {NoUUID}
    /\ misread \in BOOLEAN
    /\ faults \in 0..MaxFaults

VarReady ==
    /\ disk[Var].form = "ext4"
    /\ disk[Var].uuid = VarUUID
    /\ want[Var] # NoVer => disk[Var].ver = want[Var]

\* Whatever was at the var path, and whatever crash or I/O error interrupted
\* earlier starts: a guest that runs has a complete image with the fixed UUID
\* and the requested version behind its var disk entry.
VarDiskSound == pc = "running" => VarReady

\* May the reconciliation drop the contents of disk d?  The README's tables:
\* a var disk with another UUID or version, an external disk with another
\* version; and two cases they do not list, a start without any version and a
\* version xattr that could not be read.
MayDrop(d) ==
    IF d = Var
    THEN \/ disk[d].uuid # VarUUID
         \/ disk[d].ver # want[d]
         \/ want[d] = NoVer
         \/ misread
    ELSE NoVer \notin {disk[d].ver, want[d]} /\ disk[d].ver # want[d]

\* Guest data is dropped in those cases only.
GuestDataKept ==
    [][\A d \in Disks : disk[d].used /\ ~disk'[d].used => MayDrop(d)]_vars

\* Why both hold: the fixed UUID is written only into a complete image, so a
\* var disk that carries it is never torn; the decision to remove is taken from
\* the version that is on disk; and the disks after the first in Order are not
\* the var disk, so nothing undoes its reconciliation.
AbsentClean == \A d \in Disks : disk[d].form = "absent" => disk[d] = Absent

VarUUIDMeansComplete == disk[Var].uuid = VarUUID => disk[Var].form = "ext4"

BlkDev == [disk : Disks, uuid : UUIDs \cup {NoUUID},
           mnt : MountPoints \cup {NoUUID, NoMnt}]

BlkDevsOK == blkDevs \in Seq(BlkDev)

AttachedPresent ==
    pc \notin {"idle", "failed"} =>
        \A i \in DOMAIN blkDevs :
            \/ disk[blkDevs[i].disk].form # "absent"
            \/ pc = "extract" /\ blkDevs[i].disk = D

StepReady ==
    /\ pc \in {"inspect", "version", "attach"} => disk[D].form # "absent"
    /\ pc = "extract" => disk[D].form # "ext4" /\ disk[D].uuid # VarUUID
    /\ pc \in {"uuid", "xattr"} => disk[D].form = "ext4"
    /\ pc = "remove" => MayDrop(D)
    /\ pc = "version" /\ D = Var => disk[Var].uuid = VarUUID
    /\ pc \in Generating /\ D = Var => target = VarUUID
    /\ pc = "version" /\ D = Var => target = VarUUID
    /\ pc = "xattr" /\ D = Var => disk[Var].uuid = VarUUID
    /\ pc = "attach" /\ D = Var => VarReady

VarDone ==
    (cur > 1 /\ pc \notin {"idle", "failed"}) \/ pc \in {"boot", "running"} => VarReady

\* The inductive strengthening of VarDiskSound and GuestDataKept: what each
\* step of reconcileVarRAWDisk leaves for the next one, crashes included.
RawDiskInv ==
    /\ TypeOK
    /\ AbsentClean
    /\ BlkDevsOK
    /\ AttachedPresent
    /\ VarUUIDMeansComplete
    /\ StepReady
    /\ VarDone

\* A running guest has every disk where the configuration and the images found
\* at the start say: each image ends with the UUID it had, or, if it was
\* missing, the one asked for, whatever was removed, generated again or cut
\* short before; and unless another disk is to have the same UUID (two copies,
\* a uuid= given twice, two images left with the UUID of the embedded one) or,
\* but for the var disk, the same mount point, it is this disk that the guest
\* mounts there.
GuestFindsDisks ==
    pc = "running" =>
        \A d \in Disks :
            /\ disk[d].uuid = planned[d].uuid
            /\ (\A e \in Disks \ {d} :
                   /\ planned[e].uuid # planned[d].uuid
                   /\ d = Var \/ planned[e].mnt # planned[d].mnt)
                => mounted[planned[d].mnt] = d

\* A start that found an image no later start can use: the file without a
\* superblock fails Inspect, the torn external disk may fail its mount.
Stuck ==
    \E d \in Disks : \/ disk[d].form = "empty"
                     \/ d \in Ext /\ disk[d].form = "torn"

\* After the last crash the session comes up again at every retry, except when
\* the crash left such an image behind.
RecoversUnlessStuck ==
    <>[](pc = "idle" => ~Stuck) => []<>(pc = "running")

=============================================================================
