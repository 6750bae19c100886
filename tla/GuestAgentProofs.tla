-------------------------- MODULE GuestAgentProofs --------------------------
(***************************************************************************)
(* GuestInv is inductive: the signal that wakes WaitAndShutdown is sent    *)
(* after the kill(-1) of the same stop, so only a later stop can meet a    *)
(* running `sync`.                                                         *)
(***************************************************************************)
EXTENDS GuestAgent, TLAPS

\* The step lists have the lengths and the ends that the indices rely on.
LEMMA StageFacts ==
    /\ Len(Stages) = 8
    /\ Stages[8] = "services"
    /\ Len(Probes) = 3
  BY DEF Stages, Probes

\* run() never steps past its last stage.
LEMMA StageStep ==
    ASSUME stage \in 1 .. Len(Stages), NEW n, At(n), n # "services"
    PROVE  stage + 1 \in 1 .. Len(Stages)
<1>1. stage # 8
  BY StageFacts DEF At
<1> QED
  BY <1>1, StageFacts

\* What kill(-1) leaves of the daemons and of run()'s error is of their types.
LEMMA ChildrenKilledTypes ==
    ASSUME TypeOK, ChildrenKilled
    PROVE  /\ daemon' \in [Daemons -> DaemonStates]
           /\ err' \in BOOLEAN
<1>1. daemon' \in [Daemons -> DaemonStates]
  BY DEF ChildrenKilled
<1>2. err' \in BOOLEAN
  BY DEF ChildrenKilled, TypeOK
<1> QED
  BY <1>1, <1>2

\* Every step preserves the types.
LEMMA GuestTypes == GuestInv /\ [Next]_vars => TypeOK'
<1> SUFFICES ASSUME TypeOK, [Next]_vars PROVE TypeOK'
  BY DEF GuestInv
<1> USE DEF TypeOK, ShutStates, On
<1>1. CASE BootStep
  <2>1. UNCHANGED <<port, queue, partial, writing, stops, overlap, handled,
                    scan, shut, sigCh, synced, crashes, posted, keyless, timeUp, power>>
    BY <1>1 DEF BootStep, FetchConfig, Mount, ConfigureNetwork, hostSide,
             shutdown, serving, probing
  <2>2. stage' \in 1 .. Len(Stages)
    <3>1. stage' \in {stage, stage + 1}
      BY <1>1 DEF BootStep, FetchConfig, Mount, ConfigureNetwork, StepOrError
    <3>2. stage + 1 \in 1 .. Len(Stages)
      <4>1. CASE At("config")
        BY <4>1, StageStep
      <4>2. CASE At("pseudo")
        BY <4>2, StageStep
      <4>3. CASE At("disks")
        BY <4>3, StageStep
      <4>4. CASE At("virtiofs")
        BY <4>4, StageStep
      <4>5. CASE At("network")
        BY <4>5, StageStep
      <4> QED
        BY <1>1, <4>1, <4>2, <4>3, <4>4, <4>5
           DEF BootStep, FetchConfig, Mount, ConfigureNetwork
    <3> QED
      BY <3>1, <3>2
  <2>3. daemon' \in [Daemons -> DaemonStates]
    BY <1>1 DEF BootStep, FetchConfig, Mount, ConfigureNetwork, serving,
                DaemonStates
  <2>4. probe' \in 0 .. Len(Probes) + 1
    BY <1>1, StageFacts DEF BootStep, FetchConfig, Mount, ConfigureNetwork,
                         probing
  <2>5. err' \in BOOLEAN
    BY <1>1 DEF BootStep, FetchConfig, Mount, ConfigureNetwork, StepOrError
  <2> QED
    BY <2>1, <2>2, <2>3, <2>4, <2>5
<1>2. CASE OpenPort
  <2>1. stage' \in 1 .. Len(Stages)
    BY <1>2, StageStep DEF OpenPort
  <2>2. port' \in {"open", "absent"}
    BY <1>2 DEF OpenPort
  <2> QED
    BY <1>2, <2>1, <2>2 DEF OpenPort, hostSide, shutdown, serving, probing
<1>3. CASE SpawnShutdown
  <2>1. stage' \in 1 .. Len(Stages)
    BY <1>3, StageStep DEF SpawnShutdown
  <2> QED
    BY <1>3, <2>1 DEF SpawnShutdown, hostSide, serving, probing
<1>4. CASE AgentExits
  BY <1>4 DEF AgentExits, hostSide, shutdown, serving, probing
<1>5. ASSUME NEW d \in Daemons, SetUp(d) PROVE TypeOK'
  <2>1. UNCHANGED <<stage, port, queue, partial, writing, stops, overlap,
                    handled, scan, shut, sigCh, synced, crashes, probe, posted, keyless,
                    timeUp, power>>
    BY <1>5 DEF SetUp, hostSide, shutdown, probing
  <2>2. daemon' \in [Daemons -> DaemonStates]
    BY <1>5 DEF SetUp, DaemonStates
  <2>3. err' \in BOOLEAN
    BY <1>5 DEF SetUp
  <2> QED
    BY <2>1, <2>2, <2>3
<1>6. ASSUME NEW d \in Daemons, Crash(d) PROVE TypeOK'
  <2>1. PICK gone \in Gone : daemon' = [daemon EXCEPT ![d] = gone]
    BY <1>6 DEF Crash
  <2>2. gone \in DaemonStates
    BY DEF Gone, DaemonStates
  <2>3. daemon' \in [Daemons -> DaemonStates]
    BY <2>1, <2>2
  <2> QED
    BY <1>6, <2>3 DEF Crash, hostSide, shutdown, probing
<1>7. ASSUME NEW d \in Daemons, Restart(d) PROVE TypeOK'
  BY <1>7 DEF Restart, DaemonStates, hostSide, shutdown, probing
<1>21. ASSUME NEW d \in Daemons, Release(d) PROVE TypeOK'
  BY <1>21 DEF Release, DaemonStates, hostSide, shutdown, probing
<1>8. CASE Post
  <2>1. UNCHANGED <<stage, err, port, queue, partial, writing, stops, overlap,
                    handled, scan, shut, sigCh, synced, daemon, crashes,
                    keyless, timeUp, power>>
    BY <1>8 DEF Post, hostSide, shutdown, serving
  <2>2. probe \in 1 .. 3 /\ probe' = probe + 1
    BY <1>8, StageFacts DEF Post
  <2>3. Probes[probe] \in {"ssh", "podman", "iface"}
    BY <2>2 DEF Probes
  <2>4. posted' \subseteq {"ssh", "podman", "iface"}
    BY <1>8, <2>3 DEF Post
  <2> QED
    BY <2>1, <2>2, <2>4, StageFacts
<1>9. CASE ProbeTimeout
  <2>1. UNCHANGED <<stage, err, port, queue, partial, writing, stops, overlap,
                    handled, scan, shut, sigCh, synced, daemon, crashes, probe,
                    posted, keyless, power>>
    BY <1>9 DEF ProbeTimeout, hostSide, shutdown, serving
  <2>2. timeUp' \in BOOLEAN
    BY <1>9 DEF ProbeTimeout
  <2> QED
    BY <2>1, <2>2
<1>10. ASSUME NEW w \in Senders, WriteMessage(w) PROVE TypeOK'
  <2>1. UNCHANGED <<stage, err, port, queue, handled, scan, shut, sigCh,
                    synced, daemon, crashes, probe, posted, keyless, timeUp, power>>
    BY <1>10 DEF WriteMessage, shutdown, serving, probing
  <2>2. /\ partial' \in Nat /\ stops' \in Nat
        /\ writing' \subseteq Senders
    BY <1>10 DEF WriteMessage
  <2>3. overlap' \in BOOLEAN
    BY <1>10 DEF WriteMessage
  <2> QED
    BY <2>1, <2>2, <2>3
<1>20. ASSUME NEW w \in Senders, WriteNewline(w) PROVE TypeOK'
  <2>1. UNCHANGED <<stage, err, port, stops, overlap, handled, scan, shut,
                    sigCh, synced, daemon, crashes, probe, posted, keyless, timeUp,
                    power>>
    BY <1>20 DEF WriteNewline, shutdown, serving, probing
  <2>2. /\ partial' \in Nat
        /\ writing' \subseteq Senders
    BY <1>20 DEF WriteNewline
  <2>3. queue' \in Seq(Nat)
    BY <1>20 DEF WriteNewline
  <2> QED
    BY <2>1, <2>2, <2>3
<1>11. CASE KillAll
  <2>1. /\ UNCHANGED <<stage, port, partial, writing, stops, overlap, sigCh,
                       synced, crashes, probe, posted, keyless, timeUp, power>>
        /\ scan' = "self"
    BY <1>11 DEF KillAll, probing
  <2>2. queue' \in Seq(Nat) /\ handled' \in Nat
    BY <1>11 DEF KillAll
  <2>3. shut' \in ShutStates
    BY <1>11 DEF KillAll, ShutdownChildKilled
  <2>4. /\ daemon' \in [Daemons -> DaemonStates]
        /\ err' \in BOOLEAN
    BY <1>11, ChildrenKilledTypes DEF KillAll
  <2> QED
    BY <2>1, <2>2, <2>3, <2>4
<1>12. CASE KillSelf
  <2>1. UNCHANGED <<stage, err, port, queue, partial, writing, stops, overlap,
                    handled, shut, synced, daemon, crashes, probe, posted, keyless,
                    timeUp>>
    BY <1>12 DEF KillSelf, hostSide, serving, probing
  <2>2. scan' = "idle"
    BY <1>12 DEF KillSelf
  <2>3. power' \in {power, "lost"}
    BY <1>12 DEF KillSelf
  <2>4. sigCh' \in BOOLEAN
    BY <1>12 DEF KillSelf
  <2> QED
    BY <2>1, <2>2, <2>3, <2>4
<1>13. CASE Notify
  BY <1>13 DEF Notify, hostSide, serving, probing
<1>14. CASE Wake
  <2>1. UNCHANGED <<stage, err, port, queue, partial, writing, stops, overlap,
                    handled, scan, synced, daemon, crashes, probe, posted, keyless,
                    timeUp, power>>
    BY <1>14 DEF Wake, hostSide, serving, probing
  <2>2. shut' \in ShutStates
    BY <1>14 DEF Wake
  <2>3. sigCh' \in BOOLEAN
    BY <1>14 DEF Wake
  <2> QED
    BY <2>1, <2>2, <2>3
<1>15. CASE SyncDone
  <2>1. UNCHANGED <<stage, err, port, queue, partial, writing, stops, overlap,
                    handled, scan, sigCh, daemon, crashes, probe, posted, keyless,
                    timeUp, power>>
    BY <1>15 DEF SyncDone, hostSide, serving, probing
  <2>2. shut' \in ShutStates
    BY <1>15 DEF SyncDone
  <2>3. synced' \in {"no", "end", "failed"}
    BY <1>15 DEF SyncDone
  <2> QED
    BY <2>1, <2>2, <2>3
<1>16. CASE PowerOff
  BY <1>16 DEF PowerOff, hostSide, serving, probing
<1>17. CASE PoweredOff
  BY <1>17 DEF PoweredOff, hostSide, shutdown, serving, probing
<1>22. CASE PowerOffFails
  BY <1>22 DEF PowerOffFails, hostSide, serving, probing
<1>23. CASE KeyUnwritten
  <2>1. UNCHANGED <<stage, err, port, queue, partial, writing, stops, overlap,
                    handled, scan, shut, sigCh, synced, daemon, crashes,
                    posted, timeUp, power>>
    BY <1>23 DEF KeyUnwritten, hostSide, shutdown, serving
  <2>2. probe' \in 0 .. Len(Probes) + 1
    BY <1>23, StageFacts DEF KeyUnwritten
  <2>3. keyless' \in BOOLEAN
    BY <1>23 DEF KeyUnwritten
  <2> QED
    BY <2>1, <2>2, <2>3
<1>18. CASE Rest \/ UNCHANGED vars
  <2>1. UNCHANGED vars
    BY <1>18 DEF Rest
  <2> QED
    BY <2>1 DEF vars
<1>19. CASE DropLine
  <2>1. UNCHANGED <<stage, err, port, partial, writing, stops, overlap,
                    handled, scan, shut, sigCh, synced, daemon, crashes, probe,
                    posted, keyless, timeUp, power>>
    BY <1>19 DEF DropLine, shutdown, serving, probing
  <2>2. queue' \in Seq(Nat)
    BY <1>19 DEF DropLine
  <2> QED
    BY <2>1, <2>2
<1> QED
  BY <1>1, <1>2, <1>3, <1>4, <1>5, <1>6, <1>7, <1>8, <1>9, <1>10, <1>11, <1>12,
     <1>13, <1>14, <1>15, <1>16, <1>17, <1>18, <1>19, <1>20, <1>21,
     <1>22, <1>23 DEF Next

\* What the scanner reads was written, and without an overlap it reads whole
\* messages.
LEMMA StopsWrittenPreserved == GuestInv /\ [Next]_vars => StopsWritten'
<1> SUFFICES ASSUME TypeOK, StopsWritten, [Next]_vars PROVE StopsWritten'
  BY DEF GuestInv
<1>0. /\ queue \in Seq(Nat) /\ partial \in Nat /\ writing \subseteq Senders
      /\ stops \in Nat /\ handled \in Nat
  BY DEF TypeOK
<1>1. ASSUME UNCHANGED <<hostSide, handled>> PROVE StopsWritten'
  BY <1>1 DEF StopsWritten, hostSide
<1>2. CASE BootStep \/ OpenPort \/ SpawnShutdown \/ AgentExits
  BY <1>1, <1>2 DEF BootStep, FetchConfig, Mount, ConfigureNetwork, OpenPort,
                    SpawnShutdown, AgentExits
<1>3. ASSUME NEW d \in Daemons,
             SetUp(d) \/ Crash(d) \/ Release(d) \/ Restart(d)
      PROVE  StopsWritten'
  BY <1>1, <1>3 DEF SetUp, Crash, Release, Restart
<1>4. CASE Post \/ KeyUnwritten \/ ProbeTimeout
  BY <1>1, <1>4 DEF Post, KeyUnwritten, ProbeTimeout
<1>5. ASSUME NEW w \in Senders, WriteMessage(w) PROVE StopsWritten'
  <2>1. /\ w \notin writing /\ writing' = writing \cup {w}
        /\ stops' = stops + 1 /\ partial' = partial + 1
        /\ overlap' = (overlap \/ writing # {})
        /\ queue' = queue /\ handled' = handled
    BY <1>5 DEF WriteMessage
  <2>2. stops' >= 1
    BY <1>0, <2>1
  <2>3. ASSUME ~overlap'
        PROVE  /\ \A i \in 1 .. Len(queue') : queue'[i] = 1
               /\ partial' = 1 /\ writing' = {w}
    <3>1. ~overlap /\ writing = {}
      BY <2>1, <2>3
    <3>2. partial = 0 /\ \A i \in 1 .. Len(queue) : queue[i] = 1
      BY <3>1 DEF StopsWritten
    <3> QED
      BY <2>1, <3>1, <3>2
  <2> QED
    BY <2>2, <2>3 DEF StopsWritten
<1>6. ASSUME NEW w \in Senders, WriteNewline(w) PROVE StopsWritten'
  <2>1. /\ w \in writing /\ writing' = writing \ {w}
        /\ queue' = Append(queue, partial) /\ partial' = 0
        /\ UNCHANGED <<stops, overlap, handled>>
    BY <1>6 DEF WriteNewline
  <2>2. stops' >= 1
    BY <2>1 DEF StopsWritten
  <2>3. ASSUME ~overlap'
        PROVE  /\ \A i \in 1 .. Len(queue') : queue'[i] = 1
               /\ partial' = 0 /\ writing' = {}
    <3>1. /\ \A i \in 1 .. Len(queue) : queue[i] = 1
          /\ partial = 1 /\ \E v \in Senders : writing = {v}
      BY <2>1, <2>3 DEF StopsWritten
    <3>2. writing' = {}
      BY <2>1, <3>1
    <3>3. \A i \in 1 .. Len(queue') : queue'[i] = 1
      BY <1>0, <2>1, <3>1
    <3> QED
      BY <2>1, <3>2, <3>3
  <2> QED
    BY <2>2, <2>3 DEF StopsWritten
<1>7. ASSUME queue # <<>>, queue' = Tail(queue),
             UNCHANGED <<partial, writing, stops, overlap>>
      PROVE  StopsWritten'
  <2>1. stops' >= 1
    BY <1>7 DEF StopsWritten
  <2>2. ASSUME \A i \in 1 .. Len(queue) : queue[i] = 1
        PROVE  \A i \in 1 .. Len(queue') : queue'[i] = 1
    BY <1>0, <1>7, <2>2
  <2> QED
    BY <1>7, <2>1, <2>2 DEF StopsWritten
<1>8. CASE KillAll \/ DropLine
  BY <1>7, <1>8 DEF KillAll, DropLine
<1>9. CASE \/ KillSelf \/ Notify \/ Wake \/ SyncDone
           \/ PowerOff \/ PoweredOff \/ PowerOffFails
  BY <1>1, <1>9 DEF KillSelf, Notify, Wake, SyncDone, PowerOff, PoweredOff,
                    PowerOffFails
<1>10. CASE Rest \/ UNCHANGED vars
  BY <1>1, <1>10 DEF Rest, vars, hostSide
<1> QED
  BY <1>2, <1>3, <1>4, <1>5, <1>6, <1>8, <1>9, <1>10 DEF Next

\* The part of GuestInv about the shutdown.
ShutdownInv ==
    /\ ShutdownFollowsStop
    /\ OneStopSyncs
    /\ power = "off" => shut = "poweroff"

\* The order of the two kills, `sync` and `poweroff` is preserved.
LEMMA ShutdownPreserved == GuestInv /\ [Next]_vars => ShutdownInv'
<1> SUFFICES ASSUME GuestInv, [Next]_vars PROVE ShutdownInv'
  OBVIOUS
<1> USE DEF GuestInv, ShutdownInv, ShutdownFollowsStop, OneStopSyncs, On
<1>0. handled \in Nat /\ shut \in ShutStates
  BY DEF TypeOK
<1>1. ASSUME UNCHANGED <<handled, scan, shut, sigCh, synced, power>>
      PROVE  ShutdownInv'
  BY <1>1
<1>2. CASE BootStep
  BY <1>1, <1>2 DEF BootStep, FetchConfig, Mount, ConfigureNetwork, shutdown
<1>3. CASE OpenPort
  BY <1>1, <1>3 DEF OpenPort, shutdown
<1>4. CASE SpawnShutdown
  BY <1>4 DEF SpawnShutdown, At
<1>5. CASE AgentExits
  BY <1>5 DEF AgentExits, shutdown
<1>6. ASSUME NEW d \in Daemons,
             SetUp(d) \/ Crash(d) \/ Release(d) \/ Restart(d)
      PROVE  ShutdownInv'
  BY <1>1, <1>6 DEF SetUp, Crash, Release, Restart, shutdown
<1>7. CASE Post \/ KeyUnwritten \/ ProbeTimeout
  BY <1>1, <1>7 DEF Post, KeyUnwritten, ProbeTimeout, shutdown
<1>8. ASSUME NEW w \in Senders, WriteMessage(w) \/ WriteNewline(w)
      PROVE  ShutdownInv'
  BY <1>1, <1>8 DEF WriteMessage, WriteNewline, shutdown
<1>9. CASE KillAll
  <2>1. /\ handled' = handled + 1 /\ power = "on" /\ power' = "on"
        /\ sigCh' = sigCh /\ synced' = synced
    BY <1>9 DEF KillAll
  <2>2. CASE handled = 0
    <3>1. /\ shut \notin {"sync", "halt", "poweroff", "over", "failed"}
          /\ ~sigCh
      BY <2>2
    <3>2. shut' = shut
      BY <1>9, <3>1 DEF KillAll, ShutdownChildKilled
    <3> QED
      BY <2>1, <2>2, <3>1, <3>2
  <2>3. CASE handled # 0
    BY <1>0, <2>1, <2>3
  <2> QED
    BY <2>2, <2>3
<1>10. CASE KillSelf
  <2>1. UNCHANGED <<handled, shut, synced>> /\ scan' = "idle" /\ handled >= 1
    BY <1>10 DEF KillSelf
  <2>2. power = "on" /\ power' # "off"
    BY <1>10 DEF KillSelf
  <2> QED
    BY <2>1, <2>2
<1>11. CASE Notify
  BY <1>11 DEF Notify
<1>12. CASE Wake
  <2>1. /\ shut = "wait" /\ sigCh /\ power = "on"
        /\ shut' = "sync" /\ ~sigCh'
        /\ UNCHANGED <<handled, scan, synced, power>>
    BY <1>12 DEF Wake
  <2>2. handled >= 1 /\ (handled = 1 => scan = "idle")
    BY <2>1
  <2> QED
    BY <2>1, <2>2
<1>13. CASE SyncDone
  BY <1>13 DEF SyncDone
<1>14. CASE PowerOff
  BY <1>14 DEF PowerOff
<1>15. CASE PoweredOff
  BY <1>15 DEF PoweredOff, shutdown
<1>18. CASE PowerOffFails
  BY <1>18 DEF PowerOffFails
<1>16. CASE Rest \/ UNCHANGED vars
  BY <1>1, <1>16 DEF Rest, vars
<1>17. CASE DropLine
  BY <1>1, <1>17 DEF DropLine, shutdown
<1> QED
  BY <1>2, <1>3, <1>4, <1>5, <1>6, <1>7, <1>8, <1>9, <1>10, <1>11, <1>12, <1>13,
     <1>14, <1>15, <1>16, <1>17, <1>18 DEF Next

\* GuestInv holds in every state of the agent, for any number of stop messages
\* and crashes.
THEOREM GuestInvariant == Spec => []GuestInv
<1>1. Init => GuestInv
  <2> SUFFICES ASSUME Init PROVE GuestInv
    OBVIOUS
  <2>1. TypeOK
    <3>1. /\ stage \in 1 .. Len(Stages)
          /\ probe \in 0 .. Len(Probes) + 1
      BY StageFacts DEF Init
    <3>2. daemon \in [Daemons -> DaemonStates]
      BY DEF Init, DaemonStates
    <3>3. /\ err \in BOOLEAN /\ sigCh \in BOOLEAN
          /\ keyless \in BOOLEAN /\ timeUp \in BOOLEAN
          /\ overlap \in BOOLEAN
      BY DEF Init
    <3>4. queue \in Seq(Nat) /\ writing \subseteq Senders
      BY DEF Init
    <3> QED
      BY <3>1, <3>2, <3>3, <3>4 DEF Init, TypeOK, ShutStates
  <2>2. ShutdownInv
    BY DEF Init, ShutdownInv, ShutdownFollowsStop, OneStopSyncs
  <2>3. StopsWritten
    BY DEF Init, StopsWritten
  <2> QED
    BY <2>1, <2>2, <2>3 DEF GuestInv, ShutdownInv
<1>2. GuestInv /\ [Next]_vars => GuestInv'
  BY GuestTypes, StopsWrittenPreserved, ShutdownPreserved
     DEF GuestInv, ShutdownInv
<1> QED
  BY <1>1, <1>2, PTL DEF Spec

\* One stop never powers the guest off before its `sync` has ended.
THEOREM OneStopSyncsTheorem == Spec => []OneStopSyncs
<1>1. GuestInv => OneStopSyncs
  BY DEF GuestInv
<1> QED
  BY <1>1, GuestInvariant, PTL

-----------------------------------------------------------------------------
(* GuestAgent implements GuestContract.                                    *)

\* The probes start with the services, and what has been posted lies before the
\* probe under way.
PostedBefore ==
    /\ probe # 0 => stage = 8
    /\ "ssh" \in posted => probe >= 2
    /\ "podman" \in posted => probe >= 3
    /\ "iface" \in posted => probe >= 4

\* What a post is: the service of the probe under way, which goes on by one.
LEMMA PostStep ==
    ASSUME GuestInv, PostedBefore, Post
    PROVE  /\ power = "on" /\ UNCHANGED <<power, stops, stage>>
           /\ \/ /\ probe = 1 /\ probe' = 2 /\ posted' = posted \cup {"ssh"}
                 /\ posted = {}
              \/ /\ probe = 2 /\ probe' = 3 /\ posted' = posted \cup {"podman"}
                 /\ posted \subseteq {"ssh"}
              \/ /\ probe = 3 /\ probe' = 4 /\ posted' = posted \cup {"iface"}
                 /\ posted \subseteq {"ssh", "podman"}
<1>1. /\ power = "on" /\ UNCHANGED <<power, stops, stage>>
      /\ probe \in 1 .. 3 /\ probe' = probe + 1
      /\ posted' = posted \cup {Probes[probe]}
  BY StageFacts DEF Post, On, hostSide
<1>2. Probes[1] = "ssh" /\ Probes[2] = "podman" /\ Probes[3] = "iface"
  BY DEF Probes
<1>3. probe = 1 \/ probe = 2 \/ probe = 3
  BY <1>1
<1>4. posted \subseteq {"ssh", "podman", "iface"}
  BY DEF GuestInv, TypeOK
<1>5. /\ probe = 1 => posted = {}
      /\ probe = 2 => posted \subseteq {"ssh"}
      /\ probe = 3 => posted \subseteq {"ssh", "podman"}
  BY <1>4 DEF PostedBefore
<1> QED
  BY <1>1, <1>2, <1>3, <1>5

\* What each step of the agent does to the VM, the pipe and the posts.
LEMMA ContractStep ==
    ASSUME GuestInv, PostedBefore, [Next]_vars
    PROVE  \/ UNCHANGED <<power, stops, posted>>
           \/ power = "on" /\ power' = "lost" /\ UNCHANGED <<stops, posted>>
           \/ /\ power = "on" /\ power' = "off" /\ stops >= 1
              /\ UNCHANGED <<stops, posted>>
           \/ stops' = stops + 1 /\ UNCHANGED <<power, posted>>
           \/ Post
<1>1. CASE BootStep \/ OpenPort \/ SpawnShutdown
  BY <1>1 DEF BootStep, FetchConfig, Mount, ConfigureNetwork, OpenPort,
              SpawnShutdown, hostSide, probing
<1>2. ASSUME NEW d \in Daemons,
             SetUp(d) \/ Crash(d) \/ Release(d) \/ Restart(d)
      PROVE  UNCHANGED <<power, stops, posted>>
  BY <1>2 DEF SetUp, Crash, Release, Restart, hostSide, probing
<1>3. CASE AgentExits \/ KillSelf
  BY <1>3 DEF AgentExits, KillSelf, On, hostSide, probing
<1>5. ASSUME NEW w \in Senders, WriteMessage(w)
      PROVE  stops' = stops + 1 /\ UNCHANGED <<power, posted>>
  BY <1>5 DEF WriteMessage, probing
<1>6. CASE PoweredOff
  <2>1. shut = "poweroff" /\ power = "on" /\ power' = "off"
    BY <1>6 DEF PoweredOff, On
  <2>2. stops >= 1
    BY <2>1 DEF GuestInv, ShutdownFollowsStop, StopsWritten
  <2> QED
    BY <1>6, <2>1, <2>2 DEF PoweredOff, hostSide, probing
<1>7. CASE \/ KeyUnwritten \/ ProbeTimeout \/ KillAll \/ DropLine \/ Notify
           \/ Wake \/ SyncDone \/ PowerOff \/ PowerOffFails \/ Rest
           \/ UNCHANGED vars
  BY <1>7 DEF KeyUnwritten, ProbeTimeout, KillAll, DropLine, Notify, Wake,
              SyncDone, PowerOff, PowerOffFails, Rest, vars, hostSide, probing
<1>8. ASSUME NEW w \in Senders, WriteNewline(w)
      PROVE  UNCHANGED <<power, stops, posted>>
  BY <1>8 DEF WriteNewline, probing
<1> QED
  BY <1>1, <1>2, <1>3, <1>5, <1>6, <1>7, <1>8 DEF Next

\* The order of the posts is kept: the probe only advances, and ConfigureNetwork
\* starts it when nothing has been posted.
LEMMA PostedBeforePreserved ==
    ASSUME GuestInv, PostedBefore, [Next]_vars
    PROVE  PostedBefore'
<1>1. CASE Post
  <2>1. PICK p \in {1, 2, 3} :
          /\ probe = p /\ probe' = p + 1 /\ stage' = stage
          /\ posted' = posted \cup {<<"ssh", "podman", "iface">>[p]}
    BY <1>1, PostStep
  <2> QED
    BY <2>1 DEF PostedBefore
<1>2. CASE KeyUnwritten
  <2>1. probe = 1 /\ probe' = 2 /\ UNCHANGED <<stage, posted>>
    BY <1>2 DEF KeyUnwritten
  <2> QED
    BY <2>1 DEF PostedBefore
<1>3. CASE BootStep \/ OpenPort \/ SpawnShutdown
  <2>1. Stages[stage] # "services"
    BY <1>3 DEF BootStep, FetchConfig, Mount, ConfigureNetwork, OpenPort,
                SpawnShutdown, At
  <2>2. stage # 8
    BY <2>1, StageFacts
  <2>3. probe = 0 /\ "ssh" \notin posted /\ "podman" \notin posted
        /\ "iface" \notin posted
    BY <2>2 DEF PostedBefore
  <2>4. posted' = posted
    BY <1>3 DEF BootStep, FetchConfig, Mount, ConfigureNetwork, OpenPort,
                SpawnShutdown, probing
  <2>5. probe' # 0 => stage' = 8
    <3>1. CASE ConfigureNetwork
      <4>1. stage = 7
        <5>1. stage \in 1 .. 8 /\ Stages[stage] = "network"
          BY <3>1, StageFacts DEF ConfigureNetwork, At, GuestInv, TypeOK
        <5> QED
          BY <5>1 DEF Stages
      <4>2. probe' = probe \/ stage' = stage + 1
        BY <3>1 DEF ConfigureNetwork
      <4> QED
        BY <2>3, <4>1, <4>2
    <3>2. CASE ~ConfigureNetwork
      BY <1>3, <2>3, <3>2 DEF BootStep, FetchConfig, Mount, OpenPort,
                              SpawnShutdown, probing
    <3> QED
      BY <3>1, <3>2
  <2> QED
    BY <2>3, <2>4, <2>5 DEF PostedBefore
<1>4. CASE ~Post /\ ~KeyUnwritten /\ ~(BootStep \/ OpenPort \/ SpawnShutdown)
  <2>1. UNCHANGED <<probe, stage, posted>>
    BY <1>4 DEF Next, AgentExits, SetUp, Crash, Release, Restart, ProbeTimeout,
                WriteMessage, WriteNewline, KillAll, DropLine, KillSelf, Notify,
                Wake, SyncDone, PowerOff, PoweredOff, PowerOffFails, Rest, vars,
                probing
  <2> QED
    BY <2>1 DEF PostedBefore
<1> QED
  BY <1>1, <1>2, <1>3, <1>4

\* The agent keeps its side of the contract, for any number of stops, crashes and
\* failing steps: each service is reported at most once, in the order of the
\* probes though perhaps without ssh, only while the VM runs, and there is no
\* poweroff without a stop message.
THEOREM AgentKeepsContract == Spec => ImplementsContract
<1>1. Init => Contract!Init /\ PostedBefore
  BY DEF Init, Contract!Init, PostedBefore
<1>2. GuestInv /\ PostedBefore /\ [Next]_vars => PostedBefore'
  BY PostedBeforePreserved
<1>3. GuestInv /\ PostedBefore /\ [Next]_vars
        => [Contract!Next]_(Contract!vars)
  <2> SUFFICES ASSUME GuestInv, PostedBefore, [Next]_vars
               PROVE  [Contract!Next]_(Contract!vars)
    OBVIOUS
  <2>t. stops \in Nat
    BY DEF GuestInv, TypeOK
  <2>1. CASE UNCHANGED <<power, stops, posted>>
    BY <2>1 DEF Contract!vars
  <2>2. CASE power = "on" /\ power' = "lost" /\ UNCHANGED <<stops, posted>>
    BY <2>2 DEF Contract!Next, Contract!Die
  <2>3. CASE /\ power = "on" /\ power' = "off" /\ stops >= 1
             /\ UNCHANGED <<stops, posted>>
    BY <2>t, <2>3 DEF Contract!Next, Contract!Halt
  <2>4. CASE stops' = stops + 1 /\ UNCHANGED <<power, posted>>
    BY <2>t, <2>4 DEF Contract!Next, Contract!Tell
  <2>5. CASE Post
    <3>0. /\ Contract!Rank["ssh"] = 1 /\ Contract!Rank["podman"] = 2
          /\ Contract!Rank["iface"] = 3
      BY DEF Contract!Rank
    <3>1. ASSUME NEW service \in {"ssh", "podman", "iface"},
                 posted' = posted \cup {service},
                 \A r \in posted : Contract!Rank[r] < Contract!Rank[service]
          PROVE  Contract!Next
      <4>1. power = "on" /\ UNCHANGED <<power, stops>>
        BY <2>5, PostStep
      <4>2. Contract!Report(service)
        BY <3>1, <4>1 DEF Contract!Report
      <4> QED
        BY <4>2 DEF Contract!Next
    <3>2. CASE posted' = posted \cup {"ssh"} /\ posted = {}
      BY <3>1, <3>2
    <3>3. CASE posted' = posted \cup {"podman"} /\ posted \subseteq {"ssh"}
      <4>1. \A r \in posted : Contract!Rank[r] < Contract!Rank["podman"]
        BY <3>0, <3>3
      <4> QED
        BY <3>1, <3>3, <4>1
    <3>4. CASE /\ posted' = posted \cup {"iface"}
               /\ posted \subseteq {"ssh", "podman"}
      <4>1. \A r \in posted : Contract!Rank[r] < Contract!Rank["iface"]
        BY <3>0, <3>4
      <4> QED
        BY <3>1, <3>4, <4>1
    <3> QED
      BY <2>5, <3>2, <3>3, <3>4, PostStep
  <2> QED
    BY <2>1, <2>2, <2>3, <2>4, <2>5, ContractStep
<1> QED
  BY <1>1, <1>2, <1>3, GuestInvariant, PTL
     DEF Spec, ImplementsContract, Contract!Spec

=============================================================================
