---------------------------- MODULE RawDiskProofs ----------------------------
(* Proofs about RawDisk for any list of external disks, any versions and    *)
(* UUIDs, and any number of crashes and I/O errors.                         *)
EXTENDS RawDisk, TLAPS

\* The var disk is reconciled first and never again in the same start.
LEMMA OrderFacts ==
    /\ 1 \in DOMAIN Order
    /\ Order[1] = Var
    /\ \A i \in DOMAIN Order : i \in Nat /\ Order[i] \in Disks
    /\ \A i \in DOMAIN Order : i > 1 => Order[i] # Var
    /\ Len(Order) \in Nat /\ DOMAIN Order = 1..Len(Order)
<1>1. Externals \in Seq(Ext)
  BY DiskAssumption
<1>2. /\ Len(Order) = 1 + Len(Externals)
      /\ DOMAIN Order = 1..Len(Order)
      /\ Order[1] = Var
      /\ \A i \in 2..Len(Order) : Order[i] = Externals[i - 1]
  BY <1>1 DEF Order
<1>3. Len(Externals) \in Nat /\ \A i \in 1..Len(Externals) : Externals[i] \in Ext
  BY <1>1
<1>4. ASSUME NEW i \in DOMAIN Order, i > 1
      PROVE  Order[i] \in Ext
  BY <1>2, <1>3, <1>4
<1> QED
  BY <1>2, <1>3, <1>4, DiskAssumption DEF Disks

\* The disk of the current step is one of the disks, and the var disk exactly
\* at the first step.
LEMMA CurrentDisk ==
    ASSUME TypeOK
    PROVE  D \in Disks /\ Var \in Disks /\ (D = Var <=> cur = 1) /\ cur \in Nat
           /\ cur >= 1
BY OrderFacts DEF TypeOK, D, Disks

\* Writing a UUID, or a version, into an image gives an image.
LEMMA ImageUpdates ==
    ASSUME NEW im \in Image, NEW u \in UUIDs \cup {NoUUID},
           NEW v \in Versions \cup {NoVer}
    PROVE  /\ [im EXCEPT !.uuid = u] \in Image
           /\ [im EXCEPT !.ver = v] \in Image
           /\ [im EXCEPT !.used = TRUE] \in Image
<1>1. [im EXCEPT !.uuid = u] \in Image
  BY DEF Image
<1>2. [im EXCEPT !.ver = v] \in Image
  BY DEF Image
<1>3. [im EXCEPT !.used = TRUE] \in Image
  BY DEF Image
<1> QED
  BY <1>1, <1>2, <1>3

\* Images of the user and missing images satisfy every part of the invariant.
LEMMA InitInv == Init => RawDiskInv
<1> SUFFICES ASSUME Init PROVE RawDiskInv
  OBVIOUS
<1> USE DEF Init
<1>1. \A d \in Disks : \/ disk[d] = Absent
                       \/ \E u \in UUIDs,
                             v \in Versions \cup {NoVer} : disk[d] = UserImage(u, v)
  OBVIOUS
<1>2. Var \in Disks
  BY DEF Disks
<1>3. TypeOK
  <2>1. Absent \in Image
    BY DEF Absent, Image
  <2>2. ASSUME NEW u \in UUIDs, NEW v \in Versions \cup {NoVer}
        PROVE  UserImage(u, v) \in Image
    BY DEF UserImage, Image, UUIDs
  <2>3. disk \in [Disks -> Image]
    BY <1>1, <2>1, <2>2
  <2>4. pc \in PC
    BY DEF PC
  <2>5. cur \in DOMAIN Order
    BY OrderFacts
  <2>6. /\ want \in [Disks -> Versions \cup {NoVer}]
        /\ asked \in [Ext -> UUIDs \cup {NoUUID}]
        /\ mnt \in [Disks -> MountPoints \cup {NoUUID, NoMnt}]
        /\ target \in UUIDs \cup {NoUUID}
    OBVIOUS
  <2>7. misread \in BOOLEAN
    OBVIOUS
  <2>9. planned \in [Disks -> [uuid : UUIDs \cup {NoUUID},
                              mnt : MountPoints \cup {NoUUID, NoMnt}]]
    OBVIOUS
  <2>8. faults \in 0..MaxFaults
    BY FaultsAssumption
  <2> QED
    BY <2>3, <2>4, <2>5, <2>6, <2>7, <2>8, <2>9 DEF TypeOK
<1>4. AbsentClean /\ VarUUIDMeansComplete
  BY <1>1, <1>2, UUIDAssumption DEF AbsentClean, VarUUIDMeansComplete, Absent, UserImage
<1>5. StepReady /\ VarDone /\ AttachedPresent /\ BlkDevsOK
  BY DEF StepReady, VarDone, Generating, AttachedPresent, BlkDevsOK
<1> QED
  BY <1>3, <1>4, <1>5 DEF RawDiskInv

\* A plan has a UUID and a mount point.
LEMMA PlanType ==
    ASSUME NEW d, disk[d] \in Image, NEW u \in UUIDs,
           NEW m \in CustomMnts \cup {NoMnt, SlashVar}
    PROVE  Plan(d, u, m) \in [uuid : UUIDs \cup {NoUUID},
                              mnt : MountPoints \cup {NoUUID, NoMnt}]
<1>1. disk[d].uuid \in UUIDs \cup {NoUUID}
  BY DEF Image
<1>2. /\ m \in MountPoints \cup {NoMnt} /\ VarUUID \in UUIDs
      /\ UUIDs \subseteq MountPoints /\ SlashVar \in MountPoints
  BY DEF MountPoints, UUIDs
<1>3. MountTo(disk[d].uuid) \in MountPoints \cup {NoUUID}
  BY <1>1, <1>2 DEF MountTo
<1>4. CASE d = Var
  BY <1>2, <1>4 DEF Plan
<1>5. CASE d # Var
  <2> DEFINE pu == IF disk[d].form # "absent" THEN disk[d].uuid ELSE u
             pm == IF m # NoMnt THEN m
                   ELSE IF disk[d].form # "absent" THEN MountTo(disk[d].uuid) ELSE u
  <2>1. pu \in UUIDs \cup {NoUUID} /\ pm \in MountPoints \cup {NoUUID, NoMnt}
    BY <1>1, <1>2, <1>3
  <2>2. Plan(d, u, m) = [uuid |-> pu, mnt |-> pm]
    BY <1>5 DEF Plan
  <2> HIDE DEF pu, pm
  <2> QED
    BY <2>1, <2>2
<1> QED
  BY <1>4, <1>5

\* Every step keeps the types.
LEMMA TypePreserved == TypeOK /\ [Next]_vars => TypeOK'
<1> SUFFICES ASSUME TypeOK, [Next]_vars PROVE TypeOK'
  OBVIOUS
<1>0. D \in Disks /\ Var \in Disks /\ cur \in Nat
  BY CurrentDisk
<1> USE DEF TypeOK, PC, Generating
<1>1. CASE Start
  <2>1. /\ asked' \in [Ext -> UUIDs]
        /\ mnt' \in [Disks -> CustomMnts \cup {NoMnt, SlashVar}]
        /\ planned' = [d \in Disks |->
                         Plan(d, IF d = Var THEN VarUUID ELSE asked'[d], mnt'[d])]
    BY <1>1 DEF Start
  <2>2. ASSUME NEW d \in Disks
        PROVE  Plan(d, IF d = Var THEN VarUUID ELSE asked'[d], mnt'[d])
                 \in [uuid : UUIDs \cup {NoUUID},
                      mnt : MountPoints \cup {NoUUID, NoMnt}]
    <3>1. (IF d = Var THEN VarUUID ELSE asked'[d]) \in UUIDs
      BY <2>1 DEF Disks, UUIDs
    <3>2. mnt'[d] \in CustomMnts \cup {NoMnt, SlashVar} /\ disk[d] \in Image
      BY <2>1
    <3> QED
      BY <3>1, <3>2, PlanType
  <2>3. planned' \in [Disks -> [uuid : UUIDs \cup {NoUUID},
                               mnt : MountPoints \cup {NoUUID, NoMnt}]]
    BY <2>1, <2>2
  <2>4. mnt' \in [Disks -> MountPoints \cup {NoUUID, NoMnt}]
    BY <2>1 DEF MountPoints
  <2> QED
    BY <1>1, <2>1, <2>3, <2>4, OrderFacts DEF Start
<1>2. CASE Stat
  <2>1. D # Var => D \in Ext
    BY <1>0 DEF Disks
  <2>2. mnt' \in [Disks -> MountPoints \cup {NoUUID, NoMnt}]
    BY <1>0, <1>2, <2>1 DEF Stat, SetMnt, MountPoints
  <2> QED
    BY <1>2, <2>1, <2>2 DEF Stat, UUIDs
<1>3. CASE Inspect
  <2>1. disk[D].uuid \in UUIDs \cup {NoUUID}
    BY <1>0 DEF Image
  <2>2. mnt' \in [Disks -> MountPoints \cup {NoUUID, NoMnt}]
    BY <1>0, <1>3, <2>1 DEF Inspect, SetMnt, MountTo, MountPoints
  <2> QED
    BY <1>3, <2>1, <2>2 DEF Inspect, UUIDs
<1>4. CASE ReadVersion
  <2>1. pc' \in PC
    BY <1>4 DEF ReadVersion
  <2>2. misread' \in BOOLEAN
    BY <1>4 DEF ReadVersion
  <2>3. faults' \in 0..MaxFaults
    BY <1>4, FaultsAssumption DEF ReadVersion
  <2> QED
    BY <1>4, <2>1, <2>2, <2>3 DEF ReadVersion
<1>5. CASE Remove
  <2>1. Absent \in Image
    BY DEF Absent, Image
  <2> QED
    BY <1>5, <2>1, <1>0 DEF Remove
<1>6. CASE Extract
  <2>1. disk[D] \in Image
    BY <1>0
  <2>2. /\ [Absent EXCEPT !.form = "empty"] \in Image
        /\ [disk[D] EXCEPT !.form = "torn", !.uuid = ImageUUID] \in Image
        /\ [disk[D] EXCEPT !.form = "ext4"] \in Image
    BY <2>1 DEF Absent, Image, UUIDs
  <2>3. disk' \in [Disks -> Image]
    BY <1>6, <2>2, <1>0 DEF Extract
  <2> QED
    BY <1>6, <2>3 DEF Extract
<1>7. CASE WriteUUID
  <2>1. [disk[D] EXCEPT !.uuid = target] \in Image
    <3>1. disk[D] \in Image /\ want[D] \in Versions \cup {NoVer}
      BY <1>0
    <3> QED
      BY <3>1, ImageUpdates
  <2>2. disk' \in [Disks -> Image]
    BY <1>7, <2>1, <1>0 DEF WriteUUID
  <2> QED
    BY <1>7, <2>2 DEF WriteUUID
<1>8. CASE WriteVersion
  <2>1. [disk[D] EXCEPT !.ver = want[D]] \in Image
    <3>1. disk[D] \in Image /\ want[D] \in Versions \cup {NoVer}
      BY <1>0
    <3> QED
      BY <3>1, ImageUpdates
  <2>2. disk' \in [Disks -> Image]
    BY <1>8, <2>1, <1>0 DEF WriteVersion
  <2> QED
    BY <1>8, <2>2 DEF WriteVersion
<1>9. CASE Attach
  <2>1. cur < Len(Order) => cur + 1 \in DOMAIN Order
    BY <1>0, OrderFacts
  <2> QED
    BY <1>9, <2>1 DEF Attach
<1>10. CASE GuestMount
  <2>1. \A d \in Disks : [disk[d] EXCEPT !.used = TRUE] \in Image
    <3>1. \A d \in Disks : disk[d] \in Image /\ want[d] \in Versions \cup {NoVer}
      OBVIOUS
    <3> QED
      BY <3>1, ImageUpdates
  <2>2. disk' \in [Disks -> Image]
    BY <1>10, <2>1 DEF GuestMount
  <2> QED
    BY <1>10, <2>2 DEF GuestMount
<1>11. CASE GuestMountFails
  BY <1>11 DEF GuestMountFails
<1>12. CASE Exit \/ Interrupt
  <2>1. /\ pc' \in PC /\ cur' \in DOMAIN Order
        /\ want' \in [Disks -> Versions \cup {NoVer}]
        /\ asked' \in [Ext -> UUIDs \cup {NoUUID}]
        /\ target' \in UUIDs \cup {NoUUID}
    BY <1>12, OrderFacts DEF Exit, Interrupt, ProcessEnds
  <2>2. /\ mnt' \in [Disks -> MountPoints \cup {NoUUID, NoMnt}]
        /\ planned' \in [Disks -> [uuid : UUIDs \cup {NoUUID},
                                   mnt : MountPoints \cup {NoUUID, NoMnt}]]
    BY <1>12 DEF Exit, Interrupt, ProcessEnds
  <2>3. misread' \in BOOLEAN /\ disk' = disk
    BY <1>12 DEF Exit, Interrupt, ProcessEnds
  <2>4. faults' \in 0..MaxFaults
    BY <1>12, FaultsAssumption DEF Exit, Interrupt
  <2> QED
    BY <2>1, <2>2, <2>3, <2>4
<1>13. CASE UNCHANGED vars
  BY <1>13 DEF vars
<1> QED
  BY <1>1, <1>2, <1>3, <1>4, <1>5, <1>6, <1>7, <1>8, <1>9, <1>10, <1>11, <1>12,
     <1>13 DEF Next, Progress

\* Attach appends a well-formed device; every other step keeps or clears the list.
LEMMA BlkDevsPreserved ==
    ASSUME TypeOK, BlkDevsOK, [Next]_vars
    PROVE  BlkDevsOK'
<1>0. D \in Disks
  BY CurrentDisk
<1>1. CASE Attach
  <2>1. /\ disk[D].uuid \in UUIDs \cup {NoUUID}
        /\ mnt[D] \in MountPoints \cup {NoUUID, NoMnt}
    BY <1>0 DEF TypeOK, Image
  <2>2. [disk |-> D, uuid |-> disk[D].uuid, mnt |-> mnt[D]] \in BlkDev
    BY <1>0, <2>1 DEF BlkDev
  <2> QED
    BY <1>1, <2>2 DEF Attach, BlkDevsOK
<1>2. CASE Start \/ Exit \/ Interrupt
  <2>1. blkDevs' = <<>>
    BY <1>2 DEF Start, Exit, Interrupt, ProcessEnds
  <2> QED
    BY <2>1 DEF BlkDevsOK
<1>3. CASE UNCHANGED blkDevs
  BY <1>3 DEF BlkDevsOK
<1> QED
  BY <1>1, <1>2, <1>3 DEF Next, Progress, Stat, Inspect, ReadVersion, Remove,
     Extract, WriteUUID, WriteVersion, GuestMount, GuestMountFails, vars

\* The guest mounts images that exist: an attached device is one of BlkDevs,
\* and at boot all of those are there.
LEMMA GuestMountPresent ==
    ASSUME TypeOK, AttachedPresent, AbsentClean, GuestMount
    PROVE  AbsentClean'
<1> DEFINE points == {blkDevs[i].mnt : i \in ToMount}
<1>1. \A t \in points : mounted'[t] \in MountCandidates(t)
  BY DEF GuestMount
<1>2. ASSUME NEW t \in points
      PROVE  disk[mounted'[t]].form # "absent"
  <2>1. PICK b \in Attached : mounted'[t] = b.disk
    BY <1>1 DEF MountCandidates
  <2>2. PICK i \in DOMAIN blkDevs : b = blkDevs[i]
    BY DEF Attached
  <2> QED
    BY <2>1, <2>2 DEF AttachedPresent, GuestMount
<1>3. ASSUME NEW d \in Disks, disk'[d].form = "absent"
      PROVE  disk'[d] = Absent
  <2>1. CASE \E t \in points : mounted'[t] = d
    <3>1. disk[d].form # "absent"
      BY <2>1, <1>2
    <3>2. disk'[d] = [disk[d] EXCEPT !.used = TRUE]
      BY <2>1 DEF GuestMount
    <3>3. disk'[d].form = disk[d].form
      BY <3>2 DEF TypeOK, Image
    <3> QED
      BY <3>1, <3>3, <1>3
  <2>2. CASE ~\E t \in points : mounted'[t] = d
    <3>1. disk'[d] = disk[d]
      BY <2>2 DEF GuestMount
    <3> QED
      BY <3>1, <1>3 DEF AbsentClean
  <2> QED
    BY <2>1, <2>2
<1> QED
  BY <1>3 DEF AbsentClean

\* The image under extraction exists.
LEMMA Extracted ==
    ASSUME TypeOK, Extract
    PROVE  disk'[D].form \in {"empty", "torn", "ext4"}
<1>0. D \in Disks /\ disk[D] \in Image
  BY CurrentDisk DEF TypeOK
<1>1. CASE disk[D].form = "absent"
  <2>1. disk'[D] = [Absent EXCEPT !.form = "empty"]
    BY <1>0, <1>1 DEF Extract, TypeOK
  <2> QED
    BY <2>1 DEF Absent
<1>2. CASE disk[D].form # "absent"
  BY <1>0, <1>2 DEF Extract, TypeOK, Image
<1> QED
  BY <1>1, <1>2

\* A missing image stays the record Absent.
LEMMA AbsentPreserved ==
    ASSUME TypeOK, AbsentClean, AttachedPresent, StepReady, [Next]_vars
    PROVE  AbsentClean'
<1>0. D \in Disks
  BY CurrentDisk
<1> USE DEF TypeOK, AbsentClean
<1>1. CASE Remove
  BY <1>1, <1>0 DEF Remove
<1>2. CASE Extract
  <2>1. disk'[D].form # "absent" /\ \A d \in Disks : d # D => disk'[d] = disk[d]
    BY <1>2, <1>0, Extracted DEF Extract
  <2> QED
    BY <2>1
<1>3. CASE WriteUUID \/ WriteVersion
  BY <1>3, <1>0 DEF WriteUUID, WriteVersion, StepReady, Image
<1>4. CASE GuestMount
  BY <1>4, GuestMountPresent
<1>5. CASE UNCHANGED disk
  BY <1>5
<1> QED
  BY <1>1, <1>2, <1>3, <1>4, <1>5 DEF Next, Progress, Start, Stat, Inspect,
     ReadVersion, Attach, GuestMountFails, Exit, Interrupt, vars

\* Only the current disk can be missing while it is in BlkDevs, and only while
\* it is being generated again.
LEMMA AttachedPreserved ==
    ASSUME RawDiskInv, [Next]_vars
    PROVE  AttachedPresent'
<1>0. D \in Disks /\ TypeOK /\ BlkDevsOK /\ AttachedPresent /\ StepReady
  BY CurrentDisk DEF RawDiskInv
<1>1. ASSUME NEW i \in DOMAIN blkDevs
      PROVE  blkDevs[i].disk \in Disks
  <2>1. blkDevs[i] \in BlkDev
    BY <1>0 DEF BlkDevsOK
  <2> QED
    BY <2>1 DEF BlkDev
<1> USE DEF AttachedPresent
<1>2. CASE Start
  BY <1>2 DEF Start
<1>3. CASE Stat \/ Inspect \/ ReadVersion
  BY <1>3, <1>0, <1>1 DEF Stat, Inspect, ReadVersion, D
<1>4. CASE Remove
  BY <1>4, <1>0, <1>1 DEF Remove, TypeOK, D
<1>5. CASE Extract
  <2>1. disk'[D].form # "absent" /\ \A d \in Disks : d # D => disk'[d] = disk[d]
    BY <1>5, <1>0, Extracted DEF Extract, TypeOK
  <2>2. blkDevs' = blkDevs /\ D' = D /\ pc = "extract"
    BY <1>5 DEF Extract, D
  <2> QED
    BY <1>0, <1>1, <2>1, <2>2
<1>6. CASE WriteUUID \/ WriteVersion
  <2>1. \A d \in Disks : disk'[d].form = disk[d].form
    BY <1>6, <1>0 DEF WriteUUID, WriteVersion, TypeOK, Image
  <2>2. blkDevs' = blkDevs /\ pc \in {"uuid", "xattr"}
    BY <1>6 DEF WriteUUID, WriteVersion
  <2> QED
    BY <1>0, <1>1, <2>1, <2>2
<1>7. CASE Attach
  <2> DEFINE new == [disk |-> D, uuid |-> disk[D].uuid, mnt |-> mnt[D]]
  <2>1. \A i \in DOMAIN blkDevs' :
           (i \in DOMAIN blkDevs /\ blkDevs'[i] = blkDevs[i]) \/ blkDevs'[i] = new
    BY <1>7, <1>0 DEF Attach, BlkDevsOK
  <2>2. new.disk = D
    OBVIOUS
  <2>3. disk[D].form # "absent" /\ pc = "attach" /\ disk' = disk
    BY <1>7, <1>0 DEF Attach, StepReady
  <2> QED
    BY <1>0, <2>1, <2>2, <2>3
<1>8. CASE GuestMount
  BY <1>8, <1>0, <1>1 DEF GuestMount, TypeOK, Image
<1>9. CASE GuestMountFails \/ Exit \/ Interrupt
  BY <1>9 DEF GuestMountFails, Exit, Interrupt, ProcessEnds
<1>10. CASE UNCHANGED vars
  BY <1>10, <1>0 DEF vars, D
<1> QED
  BY <1>2, <1>3, <1>4, <1>5, <1>6, <1>7, <1>8, <1>9, <1>10 DEF Next, Progress

\* An image under extraction carries no UUID or that of the embedded image; it
\* becomes ext4 with the last write.
LEMMA ExtractEffect ==
    ASSUME TypeOK, Extract
    PROVE  /\ disk'[D].form \in {"empty", "torn"} /\ pc' = "extract"
              => disk'[D].uuid # VarUUID
           /\ disk'[D].form = "ext4" <=> pc' = "uuid"
           /\ disk'[D].form \in {"empty", "torn", "ext4"}
           /\ pc = "extract" /\ pc' \in {"extract", "uuid"}
<1>0. D \in Disks
  BY CurrentDisk
<1> USE DEF TypeOK
<1>1. CASE disk[D].form = "absent"
  <2>1. disk'[D] = [Absent EXCEPT !.form = "empty"]
    BY <1>0, <1>1 DEF Extract
  <2>2. disk'[D].form = "empty" /\ disk'[D].uuid = NoUUID
    BY <2>1 DEF Absent
  <2> QED
    BY <1>1, <2>2, UUIDAssumption DEF Extract
<1>2. CASE disk[D].form = "empty"
  <2>1. disk'[D] = [disk[D] EXCEPT !.form = "torn", !.uuid = ImageUUID]
    BY <1>0, <1>2 DEF Extract
  <2>2. disk'[D].form = "torn" /\ disk'[D].uuid = ImageUUID
    BY <1>0, <2>1 DEF Image
  <2> QED
    BY <1>2, <2>2, UUIDAssumption DEF Extract
<1>3. CASE disk[D].form = "torn"
  <2>1. disk'[D] = [disk[D] EXCEPT !.form = "ext4"]
    BY <1>0, <1>3 DEF Extract
  <2>2. disk'[D].form = "ext4"
    BY <1>0, <2>1 DEF Image
  <2> QED
    BY <1>3, <2>2 DEF Extract
<1> QED
  BY <1>1, <1>2, <1>3 DEF Extract

\* The fixed UUID is written into complete images only.
LEMMA CompletePreserved ==
    ASSUME RawDiskInv, [Next]_vars
    PROVE  VarUUIDMeansComplete'
<1>0. /\ D \in Disks /\ Var \in Disks
      /\ TypeOK /\ StepReady /\ VarUUIDMeansComplete
  BY CurrentDisk DEF RawDiskInv
<1> USE DEF VarUUIDMeansComplete
<1>1. CASE Remove
  BY <1>1, <1>0, UUIDAssumption DEF Remove, TypeOK, Absent
<1>2. CASE Extract
  <2>1. CASE D # Var
    BY <1>2, <1>0, <2>1 DEF Extract, TypeOK
  <2>2. CASE D = Var
    BY <1>2, <1>0, <2>2, ExtractEffect
  <2> QED
    BY <2>1, <2>2
<1>3. CASE WriteUUID \/ WriteVersion
  BY <1>3, <1>0 DEF WriteUUID, WriteVersion, StepReady, TypeOK, Image
<1>4. CASE GuestMount
  BY <1>4, <1>0 DEF GuestMount, TypeOK, Image
<1>5. CASE UNCHANGED disk
  BY <1>5, <1>0
<1> QED
  BY <1>1, <1>2, <1>3, <1>4, <1>5 DEF Next, Progress, Start, Stat, Inspect,
     ReadVersion, Attach, GuestMountFails, Exit, Interrupt, vars

\* What one step leaves for the next one.
LEMMA StepPreserved ==
    ASSUME RawDiskInv, [Next]_vars
    PROVE  StepReady'
<1>0. /\ D \in Disks /\ Var \in Disks /\ (D = Var <=> cur = 1)
      /\ TypeOK /\ AbsentClean /\ StepReady /\ VarUUIDMeansComplete
  BY CurrentDisk DEF RawDiskInv
<1> USE DEF StepReady, Generating
<1>1. CASE Start
  BY <1>1 DEF Start
<1>2. CASE Stat
  <2>1. D' = D
    BY <1>2 DEF Stat, D
  <2>2. disk[D].form = "absent" => disk[D].uuid # VarUUID
    BY <1>0, UUIDAssumption DEF AbsentClean, Absent
  <2> QED
    BY <1>2, <2>1, <2>2 DEF Stat
<1>3. CASE Inspect
  <2>1. D' = D
    BY <1>3 DEF Inspect, D
  <2>2. MayDrop(D)' = MayDrop(D)
    BY <1>3, <2>1 DEF Inspect, MayDrop
  <2> QED
    BY <1>3, <1>0, <2>1, <2>2 DEF Inspect, MayDrop
<1>4. CASE ReadVersion
  <2>1. D' = D /\ disk' = disk /\ want' = want /\ target' = target
    BY <1>4 DEF ReadVersion, D
  <2>2. PICK stored \in {disk[D].ver, NoVer} :
          /\ stored # disk[D].ver => misread'
          /\ stored = disk[D].ver => misread' = misread
          /\ pc' = IF NeedsRegeneration(D, stored) THEN "remove" ELSE "attach"
    BY <1>4 DEF ReadVersion
  <2>3. CASE NeedsRegeneration(D, stored)
    <3>1. MayDrop(D)'
      BY <2>1, <2>2, <2>3 DEF NeedsRegeneration, MayDrop
    <3> QED
      BY <1>4, <1>0, <2>1, <2>2, <2>3, <3>1 DEF ReadVersion
  <2>4. CASE ~NeedsRegeneration(D, stored)
    <3>1. D = Var => VarReady'
      BY <1>4, <1>0, <2>1, <2>2, <2>4
         DEF ReadVersion, NeedsRegeneration, VarReady, VarUUIDMeansComplete
    <3> QED
      BY <1>4, <1>0, <2>1, <2>2, <2>4, <3>1 DEF ReadVersion
  <2> QED
    BY <2>3, <2>4
<1>5. CASE Remove
  <2>1. D' = D /\ target' = target /\ pc' = "extract"
    BY <1>5 DEF Remove, D
  <2>2. disk'[D] = Absent
    BY <1>5, <1>0 DEF Remove, TypeOK
  <2> QED
    BY <1>5, <1>0, <2>1, <2>2, UUIDAssumption DEF Remove, Absent
<1>6. CASE Extract
  <2>1. D' = D /\ target' = target /\ pc \in {"extract"} /\ pc' \in {"extract", "uuid"}
    BY <1>6 DEF Extract, D
  <2>2. /\ pc' = "extract" => disk'[D].form # "ext4" /\ disk'[D].uuid # VarUUID
        /\ pc' = "uuid" => disk'[D].form = "ext4"
    BY <1>6, <1>0, ExtractEffect
  <2> QED
    BY <1>0, <2>1, <2>2
<1>7. CASE WriteUUID
  <2>1. /\ D' = D /\ target' = target /\ pc = "uuid" /\ pc' = "xattr"
        /\ disk'[D].form = "ext4" /\ disk'[D].uuid = target
    BY <1>7, <1>0 DEF WriteUUID, D, TypeOK, Image
  <2> QED
    BY <1>0, <2>1
<1>8. CASE WriteVersion
  <2>1. /\ D' = D /\ pc = "xattr" /\ pc' = "attach" /\ want' = want
        /\ disk'[D].form = "ext4" /\ disk'[D].uuid = disk[D].uuid
        /\ disk'[D].ver = want[D]
    BY <1>8, <1>0 DEF WriteVersion, D, TypeOK, Image
  <2> QED
    BY <1>0, <2>1 DEF VarReady
<1>9. CASE Attach
  BY <1>9 DEF Attach
<1>10. CASE GuestMount \/ GuestMountFails \/ Exit \/ Interrupt
  BY <1>10 DEF GuestMount, GuestMountFails, Exit, Interrupt,
     ProcessEnds
<1>11. CASE UNCHANGED vars
  BY <1>11, <1>0 DEF vars, D, MayDrop, VarReady
<1> QED
  BY <1>1, <1>2, <1>3, <1>4, <1>5, <1>6, <1>7, <1>8, <1>9, <1>10, <1>11
     DEF Next, Progress

\* After the first disk nothing touches the var disk but the guest's writes.
LEMMA DonePreserved ==
    ASSUME RawDiskInv, [Next]_vars
    PROVE  VarDone'
<1>0. /\ D \in Disks /\ Var \in Disks /\ (D = Var <=> cur = 1)
      /\ cur \in Nat /\ cur >= 1
      /\ TypeOK /\ StepReady /\ VarDone
  BY CurrentDisk DEF RawDiskInv
<1> USE DEF VarDone, VarReady
<1>1. CASE Start
  BY <1>1 DEF Start
<1>2. CASE Stat \/ Inspect \/ ReadVersion
  BY <1>2, <1>0 DEF Stat, Inspect, ReadVersion
<1>3. CASE Remove \/ Extract \/ WriteUUID \/ WriteVersion
  <2>1. CASE cur = 1
    BY <1>3, <2>1 DEF Remove, Extract, WriteUUID, WriteVersion
  <2>2. CASE cur > 1
    <3>1. disk'[Var] = disk[Var]
      BY <1>3, <2>2, <1>0 DEF Remove, Extract, WriteUUID, WriteVersion, TypeOK
    <3>2. pc \notin {"idle", "failed"} /\ want' = want
      BY <1>3 DEF Remove, Extract, WriteUUID, WriteVersion
    <3> QED
      BY <1>0, <2>2, <3>1, <3>2
  <2> QED
    BY <1>0, <2>1, <2>2
<1>4. CASE Attach
  BY <1>4, <1>0 DEF Attach, StepReady
<1>5. CASE GuestMount
  <2>1. /\ disk'[Var].form = disk[Var].form
        /\ disk'[Var].uuid = disk[Var].uuid
        /\ disk'[Var].ver = disk[Var].ver
    BY <1>5, <1>0 DEF GuestMount, TypeOK, Image
  <2> QED
    BY <1>5, <1>0, <2>1 DEF GuestMount
<1>6. CASE GuestMountFails \/ Exit \/ Interrupt
  BY <1>6 DEF GuestMountFails, Exit, Interrupt, ProcessEnds
<1>7. CASE UNCHANGED vars
  BY <1>7, <1>0 DEF vars
<1> QED
  BY <1>1, <1>2, <1>3, <1>4, <1>5, <1>6, <1>7 DEF Next, Progress

\* RawDiskInv is an inductive invariant of the reconciliation.
THEOREM RawDiskInvariant == Spec => []RawDiskInv
<1>1. Init => RawDiskInv
  BY InitInv
<1>2. RawDiskInv /\ [Next]_vars => RawDiskInv'
  <2> SUFFICES ASSUME RawDiskInv, [Next]_vars PROVE RawDiskInv'
    OBVIOUS
  <2>1. TypeOK /\ AbsentClean /\ BlkDevsOK /\ AttachedPresent /\ StepReady
    BY DEF RawDiskInv
  <2>2. TypeOK' /\ AbsentClean' /\ BlkDevsOK'
    BY <2>1, TypePreserved, AbsentPreserved, BlkDevsPreserved
  <2>3. AttachedPresent' /\ VarUUIDMeansComplete' /\ StepReady' /\ VarDone'
    BY AttachedPreserved, CompletePreserved, StepPreserved, DonePreserved
  <2> QED
    BY <2>2, <2>3 DEF RawDiskInv
<1> QED
  BY <1>1, <1>2, PTL DEF Spec

\* For any disks, versions and interruptions: a running guest has a complete
\* image with the fixed UUID and the requested version as its var disk.
THEOREM VarDiskIsSound == Spec => []VarDiskSound
<1>1. RawDiskInv => VarDiskSound
  BY DEF RawDiskInv, VarDone, VarDiskSound
<1> QED
  BY <1>1, RawDiskInvariant, PTL

\* Reconciliation drops guest data only where MayDrop allows it.
THEOREM GuestDataIsKept == Spec => GuestDataKept
<1>1. RawDiskInv /\ [Next]_vars
        => [\A d \in Disks : disk[d].used /\ ~disk'[d].used => MayDrop(d)]_vars
  <2> SUFFICES ASSUME RawDiskInv, Next, NEW d \in Disks,
                      disk[d].used, ~disk'[d].used
               PROVE  MayDrop(d)
    OBVIOUS
  <2>0. D \in Disks /\ TypeOK /\ AbsentClean /\ StepReady
    BY CurrentDisk DEF RawDiskInv
  <2>1. CASE Remove
    <3>1. d = D
      BY <2>0, <2>1 DEF Remove, TypeOK
    <3> QED
      BY <2>0, <2>1, <3>1 DEF Remove, StepReady
  <2>2. CASE Extract
    <3>1. d = D
      BY <2>0, <2>2 DEF Extract, TypeOK
    <3>2. disk[D].form # "absent"
      BY <2>0, <3>1 DEF AbsentClean, Absent
    <3>3. disk'[D].used = disk[D].used
      BY <2>0, <2>2, <3>2 DEF Extract, TypeOK, Image
    <3> QED
      BY <3>1, <3>3
  <2>3. CASE WriteUUID \/ WriteVersion
    <3>1. disk'[d].used = disk[d].used
      BY <2>0, <2>3 DEF WriteUUID, WriteVersion, TypeOK, Image
    <3> QED
      BY <3>1
  <2>4. CASE GuestMount
    <3>1. disk'[d] = disk[d] \/ disk'[d] = [disk[d] EXCEPT !.used = TRUE]
      BY <2>4 DEF GuestMount
    <3>2. disk'[d].used = disk[d].used \/ disk'[d].used = TRUE
      BY <2>0, <3>1 DEF TypeOK, Image
    <3> QED
      BY <3>2
  <2>5. CASE UNCHANGED disk
    BY <2>5
  <2> QED
    BY <2>1, <2>2, <2>3, <2>4, <2>5 DEF Next, Progress, Start, Stat, Inspect,
       ReadVersion, Attach, GuestMountFails, Exit, Interrupt
<1> QED
  BY <1>1, RawDiskInvariant, PTL DEF Spec, GuestDataKept
-----------------------------------------------------------------------------
(* What the guest finds.  The plan of a start is kept through the removal   *)
(* and generation of images, when the UUID of a disk is held by target only. *)

InStart == pc \notin {"idle", "failed"}

\* Disk d is as the start found or made it, and mnt says, or will say once the
\* disk has been looked at, where it is to be mounted.
AsPlanned(d) ==
    /\ planned[d].uuid = IF disk[d].form = "absent" THEN asked[d] ELSE disk[d].uuid
    /\ planned[d].mnt = IF mnt[d] # NoMnt THEN mnt[d]
                        ELSE IF disk[d].form = "absent" THEN asked[d]
                        ELSE MountTo(disk[d].uuid)

PlanKept ==
    InStart =>
        /\ planned[Var] = [uuid |-> VarUUID, mnt |-> SlashVar]
        /\ mnt[Var] = SlashVar
        /\ \A d \in Ext : \/ AsPlanned(d)
                          \/ d = D /\ pc \in Generating

\* From the decision to generate on, target is the planned UUID.
TargetPlanned ==
    /\ pc \in Generating => /\ target = planned[D].uuid
                            /\ mnt[D] = planned[D].mnt
    /\ pc = "version" => target = disk[D].uuid
    /\ pc = "xattr" => disk[D].uuid = target
    /\ pc \in Generating \cup {"version", "attach"} => mnt[D] # NoMnt

\* BlkDevs follows the order of the disks and the plan.
DevsPlanned ==
    InStart =>
        /\ Len(blkDevs) = IF pc \in {"boot", "running"} THEN Len(Order) ELSE cur - 1
        /\ \A i \in DOMAIN blkDevs :
              /\ blkDevs[i].disk = Order[i]
              /\ blkDevs[i].uuid = planned[Order[i]].uuid
              /\ blkDevs[i].mnt = planned[Order[i]].mnt

PlanInv == PlanKept /\ TargetPlanned /\ DevsPlanned

\* Only the current disk changes, and the guest changes neither the UUID nor
\* the form of an image.
LEMMA OthersKept ==
    ASSUME TypeOK, [Next]_vars, NEW d \in Disks, d # D \/ GuestMount
    PROVE  disk'[d].uuid = disk[d].uuid /\ disk'[d].form = disk[d].form
<1>0. D \in Disks
  BY CurrentDisk
<1>1. CASE GuestMount
  <2>1. disk'[d] = disk[d] \/ disk'[d] = [disk[d] EXCEPT !.used = TRUE]
    BY <1>1 DEF GuestMount
  <2> QED
    BY <2>1 DEF TypeOK, Image
<1>2. CASE d # D /\ (Remove \/ Extract \/ WriteUUID \/ WriteVersion)
  BY <1>2, <1>0 DEF Remove, Extract, WriteUUID, WriteVersion, TypeOK
<1>3. CASE UNCHANGED disk
  BY <1>3
<1> QED
  BY <1>1, <1>2, <1>3 DEF Next, Progress, Start, Stat, Inspect, ReadVersion,
     Attach, GuestMountFails, Exit, Interrupt, vars

\* A plan survives a step that touches neither the disk nor its mount point.
LEMMA AsPlannedKept ==
    ASSUME NEW d \in Ext, AsPlanned(d), UNCHANGED <<asked, planned>>,
           mnt'[d] = mnt[d],
           disk'[d].uuid = disk[d].uuid, disk'[d].form = disk[d].form
    PROVE  AsPlanned(d)'
BY DEF AsPlanned, MountTo

\* After a step of a start, the disks other than the current one are as planned.
LEMMA OthersPlanned ==
    ASSUME TypeOK, PlanKept, InStart, [Next]_vars, ~Start, InStart',
           NEW d \in Ext, d # D \/ UNCHANGED <<mnt, disk>> \/ GuestMount, AsPlanned(d)
    PROVE  AsPlanned(d)'
<1>0. d \in Disks /\ D \in Disks
  BY CurrentDisk DEF Disks
<1>1. UNCHANGED <<asked, planned>>
  BY DEF Next, Progress, Stat, Inspect, ReadVersion, Remove, Extract,
     WriteUUID, WriteVersion, Attach, GuestMount, GuestMountFails, Exit,
     Interrupt, ProcessEnds, vars, InStart
<1>2. mnt'[d] = mnt[d]
  <2>1. CASE Stat \/ Inspect
    BY <1>0, <2>1 DEF Stat, Inspect, SetMnt, TypeOK, GuestMount
  <2>2. CASE UNCHANGED mnt
    BY <2>2
  <2> QED
    BY <2>1, <2>2 DEF Next, Progress, ReadVersion, Remove, Extract,
       WriteUUID, WriteVersion, Attach, GuestMount, GuestMountFails, Exit,
       Interrupt, ProcessEnds, vars, InStart
<1>3. disk'[d].uuid = disk[d].uuid /\ disk'[d].form = disk[d].form
  <2>1. CASE UNCHANGED disk
    BY <2>1
  <2>2. CASE ~UNCHANGED disk
    BY <1>0, <2>2, OthersKept
  <2> QED
    BY <2>1, <2>2
<1> QED
  BY <1>1, <1>2, <1>3, AsPlannedKept

\* At the start the plan is what Plan says.
LEMMA StartPlans ==
    ASSUME TypeOK, Start
    PROVE  PlanKept' /\ TargetPlanned' /\ DevsPlanned'
<1>1. /\ planned' = [d \in Disks |->
                      Plan(d, IF d = Var THEN VarUUID ELSE asked'[d], mnt'[d])]
      /\ disk' = disk /\ pc' = "stat" /\ mnt'[Var] = SlashVar
      /\ blkDevs' = <<>> /\ cur' = 1
  BY DEF Start
<1>2. Var \in Disks /\ Var \notin Ext
  BY DiskAssumption DEF Disks
<1>3. planned'[Var] = [uuid |-> VarUUID, mnt |-> SlashVar]
  BY <1>1, <1>2 DEF Plan
<1>4. ASSUME NEW d \in Ext
      PROVE  AsPlanned(d)'
  <2>1. planned'[d] = Plan(d, asked'[d], mnt'[d]) /\ d # Var
    BY <1>1, <1>2 DEF Disks
  <2>2. /\ planned'[d].uuid = IF disk[d].form # "absent" THEN disk[d].uuid
                              ELSE asked'[d]
        /\ planned'[d].mnt = IF mnt'[d] # NoMnt THEN mnt'[d]
                             ELSE IF disk[d].form # "absent"
                                  THEN MountTo(disk[d].uuid) ELSE asked'[d]
    BY <2>1 DEF Plan
  <2> QED
    BY <1>1, <2>2 DEF AsPlanned, MountTo
<1>5. PlanKept'
  BY <1>1, <1>3, <1>4 DEF PlanKept
<1>6. TargetPlanned'
  BY <1>1 DEF TargetPlanned, Generating
<1>7. DevsPlanned'
  BY <1>1 DEF DevsPlanned
<1> QED
  BY <1>5, <1>6, <1>7

\* The plan and the target go together through every step of a start.
LEMMA PlanPreserved ==
    ASSUME RawDiskInv, PlanInv, [Next]_vars
    PROVE  PlanKept' /\ TargetPlanned'
<1>0. /\ D \in Disks /\ Var \in Disks /\ Var \notin Ext /\ Disks = {Var} \cup Ext
      /\ TypeOK /\ StepReady /\ PlanKept /\ TargetPlanned
  BY CurrentDisk, DiskAssumption DEF RawDiskInv, PlanInv, Disks
<1>1. CASE Start
  BY <1>0, <1>1, StartPlans
<1>2. CASE ~InStart'
  BY <1>2 DEF InStart, PlanKept, TargetPlanned, Generating
<1>3. CASE Stat /\ InStart'
  <2>1. /\ D' = D /\ disk' = disk /\ asked' = asked /\ planned' = planned
        /\ InStart /\ ~Start /\ pc \notin Generating
    BY <1>3 DEF Stat, Start, D, InStart, Generating
  <2>2. \A d \in Ext : AsPlanned(d)
    BY <1>0, <2>1 DEF PlanKept
  <2>3. \A d \in Ext : d # D => AsPlanned(d)'
    BY <1>0, <2>1, <2>2, <1>3, OthersPlanned
  <2>4. /\ planned[Var] = [uuid |-> VarUUID, mnt |-> SlashVar] /\ mnt[Var] = SlashVar
        /\ mnt'[Var] = SlashVar
    BY <1>0, <2>1, <1>3 DEF PlanKept, Stat, SetMnt, TypeOK
  <2>5. CASE disk[D].form = "absent"
    <3>1. pc' = "extract" /\ target' = IF D = Var THEN VarUUID ELSE asked[D]
      BY <1>3, <2>5 DEF Stat
    <3>2. CASE D = Var
      BY <2>1, <2>3, <2>4, <3>1, <3>2, <1>0, MntAssumption
         DEF PlanKept, TargetPlanned, Generating, SlashVar
    <3>3. CASE D # Var
      <4>1. D \in Ext /\ asked[D] # NoMnt
        BY <1>0, <3>3, MntAssumption DEF TypeOK, UUIDs
      <4>2. mnt'[D] = IF mnt[D] = NoMnt THEN asked[D] ELSE mnt[D]
        BY <1>0, <1>3, <2>5, <3>3 DEF Stat, SetMnt, TypeOK
      <4>3. /\ target' = planned[D].uuid /\ mnt'[D] = planned[D].mnt
            /\ mnt'[D] # NoMnt
        BY <2>2, <2>5, <3>1, <3>3, <4>1, <4>2 DEF AsPlanned
      <4>4. TargetPlanned'
        BY <2>1, <3>1, <4>3 DEF TargetPlanned, Generating
      <4>5. PlanKept'
        BY <2>1, <2>3, <2>4, <3>1 DEF PlanKept, Generating
      <4> QED
        BY <4>4, <4>5
    <3> QED
      BY <3>2, <3>3
  <2>6. CASE disk[D].form # "absent"
    <3>1. pc' = "inspect" /\ UNCHANGED <<target, mnt>>
      BY <1>3, <2>6 DEF Stat
    <3>2. \A d \in Ext : AsPlanned(d)'
      BY <1>0, <2>1, <2>2, <3>1, <1>3, OthersPlanned
    <3> QED
      BY <2>1, <2>4, <3>1, <3>2 DEF PlanKept, TargetPlanned, Generating
  <2> QED
    BY <2>5, <2>6
<1>4. CASE Inspect /\ InStart'
  <2>1. /\ D' = D /\ disk' = disk /\ asked' = asked /\ planned' = planned
        /\ InStart /\ ~Start /\ pc = "inspect" /\ pc' \in {"remove", "version"}
        /\ disk[D].form # "absent"
    BY <1>0, <1>4 DEF Inspect, Start, D, InStart, StepReady
  <2>2. \A d \in Ext : AsPlanned(d)
    BY <1>0, <2>1 DEF PlanKept, Generating
  <2>3. \A d \in Ext : d # D => AsPlanned(d)'
    BY <1>0, <2>1, <2>2, <1>4, OthersPlanned
  <2>4. /\ planned[Var] = [uuid |-> VarUUID, mnt |-> SlashVar] /\ mnt[Var] = SlashVar
        /\ mnt'[Var] = SlashVar
    BY <1>0, <2>1, <1>4 DEF PlanKept, Inspect, SetMnt, TypeOK
  <2>5. /\ target' = IF D = Var THEN VarUUID ELSE disk[D].uuid
        /\ D # Var => pc' = "version"
        /\ D = Var /\ pc' = "version" => disk[D].uuid = VarUUID
    BY <1>4, <2>1 DEF Inspect
  <2>6. CASE D = Var
    BY <2>1, <2>3, <2>4, <2>5, <2>6, <1>0, MntAssumption
       DEF PlanKept, TargetPlanned, Generating, SlashVar
  <2>7. CASE D # Var
    <3>1. D \in Ext /\ MountTo(disk[D].uuid) # NoMnt
      <4>1. disk[D].uuid \in UUIDs \cup {NoUUID}
        BY <1>0 DEF TypeOK, Image
      <4> QED
        BY <1>0, <2>7, <4>1, MntAssumption DEF UUIDs, MountTo, SlashVar
    <3>2. mnt'[D] = IF mnt[D] = NoMnt THEN MountTo(disk[D].uuid) ELSE mnt[D]
      BY <1>0, <1>4, <2>1, <2>7 DEF Inspect, SetMnt, TypeOK
    <3>3. AsPlanned(D)' /\ mnt'[D] # NoMnt
      BY <2>1, <2>2, <3>1, <3>2 DEF AsPlanned, MountTo
    <3>4. PlanKept'
      BY <2>1, <2>3, <2>4, <3>3 DEF PlanKept
    <3>5. TargetPlanned'
      BY <2>1, <2>5, <2>7, <3>3 DEF TargetPlanned, Generating
    <3> QED
      BY <3>4, <3>5
  <2> QED
    BY <2>6, <2>7
<1>5. CASE ReadVersion /\ InStart'
  <2>1. /\ D' = D /\ UNCHANGED <<disk, asked, planned, mnt, target>>
        /\ InStart /\ ~Start /\ pc = "version" /\ pc' \in {"remove", "attach"}
        /\ disk[D].form # "absent"
    BY <1>0, <1>5 DEF ReadVersion, Start, D, InStart, StepReady
  <2>2. \A d \in Ext : AsPlanned(d)
    BY <1>0, <2>1 DEF PlanKept, Generating
  <2>3. \A d \in Ext : AsPlanned(d)'
    BY <1>0, <2>1, <2>2, <1>5, OthersPlanned
  <2>4. PlanKept'
    BY <1>0, <2>1, <2>3 DEF PlanKept
  <2>5. target = disk[D].uuid /\ mnt[D] # NoMnt
    BY <1>0, <2>1 DEF TargetPlanned, Generating
  <2>6. target = planned[D].uuid /\ mnt[D] = planned[D].mnt
    <3>1. CASE D = Var
      BY <1>0, <2>1, <3>1 DEF PlanKept, StepReady
    <3>2. CASE D # Var
      BY <1>0, <2>1, <2>2, <2>5, <3>2 DEF AsPlanned
    <3> QED
      BY <3>1, <3>2
  <2> QED
    BY <2>1, <2>4, <2>5, <2>6 DEF TargetPlanned, Generating
<1>6. CASE (Remove \/ Extract \/ WriteUUID \/ WriteVersion) /\ InStart'
  <2>1. /\ D' = D /\ UNCHANGED <<asked, planned, mnt, target>>
        /\ InStart /\ ~Start /\ pc \in Generating
    BY <1>6 DEF Remove, Extract, WriteUUID, WriteVersion, Start, D, InStart,
       Generating
  <2>2. \A d \in Ext : d # D => AsPlanned(d)'
    BY <1>0, <2>1, <1>6, OthersPlanned DEF PlanKept
  <2>3. /\ target = planned[D].uuid /\ mnt[D] = planned[D].mnt
        /\ mnt[D] # NoMnt
    BY <1>0, <2>1 DEF TargetPlanned
  <2>4. CASE Remove \/ Extract \/ WriteUUID
    <3>1. pc' \in {"extract", "uuid", "xattr"}
      BY <2>4 DEF Remove, Extract, WriteUUID
    <3>2. pc' = "xattr" => disk'[D].uuid = target
      BY <2>4, <1>0 DEF Remove, Extract, WriteUUID, TypeOK, Image
    <3> QED
      BY <1>0, <2>1, <2>2, <2>3, <3>1, <3>2 DEF PlanKept, TargetPlanned, Generating
  <2>5. CASE WriteVersion
    <3>1. pc = "xattr" /\ pc' = "attach"
      BY <2>5 DEF WriteVersion
    <3>2. disk[D].uuid = target /\ disk[D].form = "ext4"
      BY <1>0, <3>1 DEF TargetPlanned, StepReady
    <3>3. disk'[D].uuid = target /\ disk'[D].form = "ext4"
      BY <1>0, <2>5, <3>2 DEF WriteVersion, TypeOK, Image
    <3>4. AsPlanned(D)'
      BY <2>1, <2>3, <3>3 DEF AsPlanned
    <3> QED
      BY <1>0, <2>1, <2>2, <2>3, <3>1, <3>4 DEF PlanKept, TargetPlanned, Generating
  <2> QED
    BY <1>6, <2>4, <2>5
<1>7. CASE (Attach \/ GuestMount) /\ InStart'
  <2>1. /\ UNCHANGED <<asked, planned, mnt>> /\ InStart /\ ~Start
        /\ pc \in {"attach", "boot"} /\ pc' \in {"stat", "boot", "running"}
        /\ disk' = disk \/ GuestMount
    BY <1>7 DEF Attach, GuestMount, Start, InStart
  <2>2. \A d \in Ext : AsPlanned(d)
    BY <1>0, <2>1 DEF PlanKept, Generating
  <2>3. \A d \in Ext : AsPlanned(d)'
    BY <1>0, <2>1, <2>2, <1>7, OthersPlanned
  <2> QED
    BY <1>0, <2>1, <2>3 DEF PlanKept, TargetPlanned, Generating
<1>8. CASE UNCHANGED vars
  BY <1>0, <1>8 DEF vars, PlanKept, TargetPlanned, AsPlanned, InStart, D, MountTo
<1> QED
  BY <1>1, <1>2, <1>3, <1>4, <1>5, <1>6, <1>7, <1>8 DEF Next, Progress,
     GuestMountFails, Exit, Interrupt, ProcessEnds, InStart

\* Attach appends the device the plan asks for.
LEMMA DevsPreserved ==
    ASSUME RawDiskInv, PlanInv, [Next]_vars
    PROVE  DevsPlanned'
<1>0. /\ D \in Disks /\ Disks = {Var} \cup Ext /\ cur \in Nat /\ cur >= 1
      /\ TypeOK /\ StepReady /\ BlkDevsOK /\ PlanKept /\ TargetPlanned /\ DevsPlanned
      /\ Len(Order) \in Nat /\ DOMAIN Order = 1..Len(Order) /\ cur \in DOMAIN Order
  BY CurrentDisk, OrderFacts DEF RawDiskInv, PlanInv, Disks, TypeOK
<1>1. CASE Start
  BY <1>0, <1>1, StartPlans
<1>2. CASE ~InStart'
  BY <1>2 DEF DevsPlanned
<1>3. CASE Attach /\ InStart'
  <2> DEFINE new == [disk |-> D, uuid |-> disk[D].uuid, mnt |-> mnt[D]]
  <2>1. /\ InStart /\ pc = "attach" /\ planned' = planned
        /\ blkDevs' = Append(blkDevs, new)
        /\ IF cur < Len(Order) THEN cur' = cur + 1 /\ pc' = "stat"
                               ELSE cur' = cur /\ pc' = "boot"
    BY <1>3 DEF Attach, InStart
  <2>2. Len(blkDevs) = cur - 1
    BY <1>0, <2>1 DEF DevsPlanned
  <2>3. /\ Len(blkDevs') = cur
        /\ \A i \in DOMAIN blkDevs' :
              \/ i \in DOMAIN blkDevs /\ blkDevs'[i] = blkDevs[i]
              \/ i = cur /\ blkDevs'[i] = new
    BY <1>0, <2>1, <2>2 DEF BlkDevsOK
  <2>4. disk[D].uuid = planned[D].uuid /\ mnt[D] = planned[D].mnt
    <3>1. CASE D = Var
      BY <1>0, <2>1, <3>1 DEF PlanKept, StepReady, VarReady
    <3>2. CASE D # Var
      <4>1. AsPlanned(D) /\ disk[D].form # "absent" /\ mnt[D] # NoMnt
        BY <1>0, <2>1, <3>2 DEF PlanKept, StepReady, TargetPlanned, Generating
      <4> QED
        BY <4>1 DEF AsPlanned
    <3> QED
      BY <3>1, <3>2
  <2>5. /\ new.disk = Order[cur] /\ new.uuid = planned[Order[cur]].uuid
        /\ new.mnt = planned[Order[cur]].mnt
    BY <2>4 DEF D
  <2> HIDE DEF new
  <2>6. ASSUME NEW i \in DOMAIN blkDevs'
        PROVE  /\ blkDevs'[i].disk = Order[i]
               /\ blkDevs'[i].uuid = planned[Order[i]].uuid
               /\ blkDevs'[i].mnt = planned[Order[i]].mnt
    <3>1. CASE i \in DOMAIN blkDevs /\ blkDevs'[i] = blkDevs[i]
      BY <1>0, <2>1, <3>1 DEF DevsPlanned
    <3>2. CASE i = cur /\ blkDevs'[i] = new
      BY <2>5, <3>2
    <3> QED
      BY <2>3, <3>1, <3>2
  <2>7. Len(blkDevs') = IF pc' \in {"boot", "running"} THEN Len(Order) ELSE cur' - 1
    BY <1>0, <2>1, <2>3
  <2> QED
    BY <2>1, <2>6, <2>7 DEF DevsPlanned
<1>4. CASE ~Start /\ ~Attach /\ InStart'
  <2>1. /\ InStart /\ UNCHANGED <<blkDevs, planned, cur>>
        /\ pc \in {"boot", "running"} <=> pc' \in {"boot", "running"}
    BY <1>4 DEF Next, Progress, Stat, Inspect, ReadVersion, Remove, Extract,
       WriteUUID, WriteVersion, GuestMount, GuestMountFails, Exit,
       Interrupt, ProcessEnds, vars, InStart
  <2> QED
    BY <1>0, <2>1 DEF DevsPlanned
<1> QED
  BY <1>1, <1>2, <1>3, <1>4

\* Every disk is in the list that is reconciled.
LEMMA EveryDiskListed == \A d \in Disks : \E k \in DOMAIN Order : Order[k] = d
<1> SUFFICES ASSUME NEW d \in Disks PROVE \E k \in DOMAIN Order : Order[k] = d
  OBVIOUS
<1>1. CASE d = Var
  BY <1>1, OrderFacts
<1>2. CASE d # Var
  <2>1. PICK i \in DOMAIN Externals : d = Externals[i]
    BY <1>2 DEF Disks, Ext
  <2>2. Externals \in Seq(Ext) /\ DOMAIN Externals = 1..Len(Externals)
        /\ Len(Externals) \in Nat
    BY DiskAssumption
  <2>3. i + 1 \in DOMAIN Order /\ Order[i + 1] = Externals[i]
    BY <2>1, <2>2 DEF Order
  <2> QED
    BY <2>1, <2>3
<1> QED
  BY <1>1, <1>2

\* The guest's mounts follow the plan.
LEMMA MountsPlanned ==
    ASSUME RawDiskInv, PlanInv, GuestMount
    PROVE  GuestFindsDisks'
<1>0. /\ TypeOK /\ VarDone /\ AttachedPresent /\ BlkDevsOK /\ PlanKept
      /\ DevsPlanned /\ pc = "boot" /\ InStart /\ planned' = planned
  BY DEF RawDiskInv, PlanInv, GuestMount, InStart
<1>1. /\ Len(blkDevs) = Len(Order) /\ DOMAIN blkDevs = DOMAIN Order
      /\ \A i \in DOMAIN Order : /\ Order[i] \in Disks
                                 /\ blkDevs[i].disk = Order[i]
                                 /\ blkDevs[i].uuid = planned[Order[i]].uuid
                                 /\ blkDevs[i].mnt = planned[Order[i]].mnt
  <2>1. Len(blkDevs) = Len(Order)
    BY <1>0 DEF DevsPlanned
  <2>2. DOMAIN blkDevs = DOMAIN Order
    BY <1>0, <2>1, OrderFacts DEF BlkDevsOK
  <2> QED
    BY <1>0, <2>1, <2>2, OrderFacts DEF DevsPlanned
<1>2. /\ planned[Var] = [uuid |-> VarUUID, mnt |-> SlashVar]
      /\ Var \in Disks /\ Disks = {Var} \cup Ext
  BY <1>0 DEF PlanKept, Disks
<1> SUFFICES ASSUME NEW d \in Disks
             PROVE  /\ disk'[d].uuid = planned[d].uuid
                    /\ (\A e \in Disks \ {d} :
                          /\ planned[e].uuid # planned[d].uuid
                          /\ d = Var \/ planned[e].mnt # planned[d].mnt)
                       => mounted'[planned[d].mnt] = d
  BY <1>0 DEF GuestFindsDisks
<1>3. PICK k \in DOMAIN Order : Order[k] = d
  BY EveryDiskListed
<1>4. disk'[d].uuid = planned[d].uuid
  <2>1. disk'[d].uuid = disk[d].uuid
    BY <1>0, OthersKept DEF Next, Progress
  <2>2. CASE d = Var
    BY <1>0, <1>2, <2>1, <2>2 DEF VarDone, VarReady
  <2>3. CASE d # Var
    <3>1. AsPlanned(d)
      BY <1>0, <1>2, <2>3 DEF PlanKept, Generating
    <3>2. disk[d].form # "absent"
      BY <1>0, <1>1, <1>3 DEF AttachedPresent
    <3> QED
      BY <2>1, <3>1, <3>2 DEF AsPlanned
  <2> QED
    BY <2>2, <2>3
<1>5. ASSUME \A e \in Disks \ {d} :
                /\ planned[e].uuid # planned[d].uuid
                /\ d = Var \/ planned[e].mnt # planned[d].mnt
      PROVE  mounted'[planned[d].mnt] = d
  <2> DEFINE t == planned[d].mnt
  <2>1. \A i \in DOMAIN Order : blkDevs[i].uuid = planned[d].uuid => Order[i] = d
    BY <1>1, <1>5
  <2>2. k \in ToMount
    <3>1. CASE d = Var
      <4>1. \A i \in DOMAIN Order : blkDevs[i].uuid = VarUUID => i = k
        <5>1. \A i \in DOMAIN Order : Order[i] = Var => i = 1
          BY OrderFacts
        <5> QED
          BY <1>2, <1>3, <2>1, <3>1, <5>1
      <4> QED
        BY <1>1, <1>2, <1>3, <3>1, <4>1, OrderFacts DEF ToMount
    <3>2. CASE d # Var
      <4>1. planned[d].uuid # VarUUID /\ planned[d].mnt # SlashVar
        BY <1>2, <1>5, <3>2
      <4> QED
        BY <1>1, <1>3, <4>1 DEF ToMount
    <3> QED
      BY <3>1, <3>2
  <2>3. mounted'[t] \in MountCandidates(t)
    BY <1>1, <1>3, <2>2 DEF GuestMount
  <2>4. PICK c \in Attached, i \in ToMount :
           FirstAt(i, t) /\ c.uuid = blkDevs[i].uuid /\ mounted'[t] = c.disk
    BY <2>3 DEF MountCandidates
  <2>5. blkDevs[i].uuid = planned[d].uuid
    <3>1. i \in DOMAIN Order /\ blkDevs[i].mnt = t
      BY <1>1, <2>4 DEF FirstAt, ToMount
    <3>2. CASE d = Var
      <4>1. i = k \/ blkDevs[i].uuid = VarUUID \/ blkDevs[k].uuid # VarUUID
        BY <1>1, <1>3, <2>2, <2>4 DEF FirstAt
      <4> QED
        BY <1>1, <1>2, <1>3, <3>2, <4>1
    <3>3. CASE d # Var
      BY <1>1, <1>5, <3>1, <3>3
    <3> QED
      BY <3>2, <3>3
  <2>6. PICK j \in DOMAIN blkDevs : c = blkDevs[j]
    BY DEF Attached
  <2> QED
    BY <1>1, <2>1, <2>4, <2>5, <2>6
<1> QED
  BY <1>4, <1>5

\* For any disks, UUIDs, mount points, versions and interruptions, user-given
\* and repeated UUIDs included: a running guest has every image with the UUID
\* planned for it, and where the plan is unambiguous, at its mount point.
THEOREM GuestFindsDisksTheorem == Spec => []GuestFindsDisks
<1>1. Init => PlanInv /\ GuestFindsDisks
  BY DEF Init, PlanInv, PlanKept, TargetPlanned, DevsPlanned, InStart,
     Generating, GuestFindsDisks
<1>2. RawDiskInv /\ PlanInv /\ GuestFindsDisks /\ [Next]_vars
        => (PlanInv /\ GuestFindsDisks)'
  <2> SUFFICES ASSUME RawDiskInv, PlanInv, GuestFindsDisks, [Next]_vars
               PROVE  (PlanInv /\ GuestFindsDisks)'
    OBVIOUS
  <2>1. PlanInv'
    BY PlanPreserved, DevsPreserved DEF PlanInv
  <2>2. CASE GuestMount
    BY <2>1, <2>2, MountsPlanned
  <2>3. CASE pc' # "running"
    BY <2>1, <2>3 DEF GuestFindsDisks
  <2>4. CASE UNCHANGED vars
    BY <2>1, <2>4 DEF GuestFindsDisks, vars
  <2> QED
    BY <2>2, <2>3, <2>4 DEF Next, Progress, Start, Stat, Inspect, ReadVersion,
       Remove, Extract, WriteUUID, WriteVersion, Attach, GuestMountFails, Exit,
       Interrupt, ProcessEnds
<1> QED
  BY <1>1, <1>2, RawDiskInvariant, PTL DEF Spec
=============================================================================
