------------------------- MODULE HostLifecycleProofs -------------------------
(***************************************************************************)
(* HostInv is inductive: the stop message is written before either monitor *)
(* calls cancel(), and the main goroutine leaves RunDocker only through    *)
(* the drain.  The two safety properties of the host process follow.       *)
(***************************************************************************)
EXTENDS HostLifecycle, TLAPS

\* What the end of the process leaves has the right types.
LEMMA EndTypes ==
    ASSUME HostInv, signals' \in Nat,
           NEW vm \in {"off", "halted", "died"}, ProcessEnds(vm)
    PROVE  TypeOK'
<1>1. /\ main' = "exited" /\ netUp' = FALSE /\ probe' = "done"
      /\ evmon' = "done" /\ pmon' = "done" /\ smon' = "done"
      /\ timer' = FALSE /\ guest' = vm
      /\ UNCHANGED <<network, failed, cancelled, ready, reported, orphan, told>>
  BY DEF ProcessEnds
<1>2. sigPending' \in BOOLEAN
  BY DEF ProcessEnds
<1>3. svc' \in [Services -> {"await", "run", "left", "ended"}]
  BY DEF ProcessEnds
<1> QED
  BY <1>1, <1>2, <1>3 DEF HostInv, TypeOK

\* What is left of the VM of a process that ends.
LEMMA KilledTypes == Killed \in {"off", "halted", "died"}
  BY DEF Killed

\* What every step does to the parts of the state that the invariants relate.
LEMMA HostTypes == HostInv /\ [Next]_vars => TypeOK'
<1> SUFFICES ASSUME HostInv, [Next]_vars PROVE TypeOK'
  OBVIOUS
<1> USE HostAssumption DEF HostInv, TypeOK, Services, Reportable, Alive
<1>1. CASE Goroutine
  <2>1. CASE NetworkListens
    BY <2>1 DEF NetworkListens, monitors, environment
  <2>2. CASE NetworkNotNeeded
    BY <2>2 DEF NetworkNotNeeded, readiness, monitors, environment
  <2>3. CASE StartPodmanProxy
    BY <2>3 DEF StartPodmanProxy, readiness, monitors, environment
  <2>4. ASSUME NEW s \in Services, ServiceStops(s) PROVE TypeOK'
    BY <2>4 DEF ServiceStops, Returned, monitors, environment
  <2>5. CASE NetworkOnline
    BY <2>5 DEF NetworkOnline, monitors, environment
  <2>6. CASE ProbeTimeout
    <3>1. /\ UNCHANGED <<main, cancelled, netUp, ready, evmon, reported, pmon,
                        smon, sigPending, timer, network, orphan, signals,
                        told, guest>>
          /\ probe' = "done"
      BY <2>6 DEF ProbeTimeout, monitors, environment
    <3>2. svc' \in [Services -> {"await", "run", "left", "ended"}]
      BY <2>6 DEF ProbeTimeout
    <3>3. failed' \in BOOLEAN
      BY <2>6 DEF ProbeTimeout
    <3> QED
      BY <3>1, <3>2, <3>3
  <2>7. ASSUME NEW r \in Reportable, Report(r) PROVE TypeOK'
    BY <2>7 DEF Report, monitors, environment
  <2>8. CASE ReportingStops
    BY <2>8 DEF ReportingStops, monitors, environment
  <2>9. CASE Boot
    BY <2>9 DEF Boot, readiness, monitors, environment
  <2>10. CASE BootFails
    BY <2>10 DEF BootFails, readiness, monitors, environment
  <2>11. CASE SelectCancelled
    BY <2>11 DEF SelectCancelled, readiness, monitors, environment
  <2>12. CASE Drain
    BY <2>12 DEF Drain, readiness, monitors, environment
  <2>13. CASE Close
    BY <2>13 DEF Close, readiness, monitors, environment
  <2>14. CASE ParentGone
    BY <2>14 DEF ParentGone, readiness, environment
  <2>15. CASE ParentStop
    BY <2>15 DEF ParentStop, readiness, environment
  <2>16. CASE ParentCancel
    BY <2>16 DEF ParentCancel, readiness, environment
  <2>17. CASE ParentMonitorStops
    BY <2>17 DEF ParentMonitorStops, readiness, environment
  <2>18. CASE NotifySignals
    BY <2>18 DEF NotifySignals, readiness, environment
  <2>19. CASE SignalSeen
    <3>1. /\ UNCHANGED <<main, svc, failed, cancelled, netUp, probe, ready,
                        evmon, reported, pmon, timer, network, orphan,
                        signals, told, guest>>
          /\ smon' = "stop"
      BY <2>19 DEF SignalSeen, readiness, environment
    <3>2. sigPending' \in BOOLEAN
      BY <2>19 DEF SignalSeen
    <3> QED
      BY <3>1, <3>2
  <2>20. CASE SignalStop
    BY <2>20 DEF SignalStop, readiness, environment
  <2>21. CASE SignalCancel
    BY <2>21 DEF SignalCancel, readiness, environment
  <2>22. CASE SignalMonitorStops
    <3>1. /\ UNCHANGED <<main, svc, failed, cancelled, netUp, probe, ready,
                        evmon, reported, pmon, timer, network, orphan,
                        signals, told, guest>>
          /\ smon' = "done"
      BY <2>22 DEF SignalMonitorStops, readiness, environment
    <3>2. sigPending' \in BOOLEAN
      BY <2>22 DEF SignalMonitorStops
    <3> QED
      BY <3>1, <3>2
  <2>23. CASE ForceExit
    BY <2>23, KilledTypes, EndTypes DEF ForceExit
  <2>24. CASE Exit
    BY <2>24, KilledTypes, EndTypes DEF Exit
  <2>25. CASE LeftServerEnds
    <3>1. UNCHANGED <<main, svc, failed, cancelled, probe, ready, evmon,
                     reported, pmon, smon, sigPending, timer, network, orphan,
                     signals, told, guest>>
      BY <2>25 DEF LeftServerEnds, monitors, environment
    <3>2. netUp' \in BOOLEAN
      BY <2>25 DEF LeftServerEnds
    <3> QED
      BY <3>1, <3>2
  <2> QED
    BY <1>1, <2>1, <2>2, <2>3, <2>4, <2>5, <2>6, <2>7, <2>8, <2>9, <2>10,
       <2>11, <2>12, <2>13, <2>14, <2>15, <2>16, <2>17, <2>18, <2>19, <2>20,
       <2>21, <2>22, <2>23, <2>24, <2>25
    DEF Goroutine, RunNetwork, RunPodman, RunReports, RunMain, RunParent,
        RunSignal
<1>2. CASE Environment
  <2>1. ASSUME NEW s \in Services, ServiceFails(s) PROVE TypeOK'
    BY <2>1 DEF ServiceFails, Returned, readiness, monitors, environment
  <2>2. ASSUME NEW r \in {"ssh", "podman"}, GuestReady(r) PROVE TypeOK'
    BY <2>2 DEF GuestReady, monitors, environment
  <2>3. CASE ParentDies
    BY <2>3 DEF ParentDies, readiness, monitors
  <2>4. CASE Signal
    <3>1. signals' \in Nat
      BY <2>4 DEF Signal
    <3>2. CASE ProcessEnds(Killed)
      BY <3>1, <3>2, KilledTypes, EndTypes
    <3>3. CASE /\ UNCHANGED <<main, svc, failed, cancelled, readiness, pmon,
                              smon, timer, network, orphan, told, guest>>
               /\ sigPending' = TRUE
      BY <3>1, <3>3 DEF readiness
    <3> QED
      BY <2>4, <3>2, <3>3 DEF Signal
  <2>5. CASE RequestStop
    BY <2>5 DEF RequestStop, readiness, monitors
  <2>6. CASE GuestPowersOff
    BY <2>6, EndTypes DEF GuestPowersOff
  <2>7. CASE GuestExits
    BY <2>7, EndTypes DEF GuestExits
  <2>8. CASE GuestHangs
    BY <2>8 DEF GuestHangs, readiness, monitors, environment
  <2>9. CASE Rest
    BY <2>9 DEF Rest, vars
  <2> QED
    BY <1>2, <2>1, <2>2, <2>3, <2>4, <2>5, <2>6, <2>7, <2>8, <2>9
    DEF Environment
<1>3. CASE UNCHANGED vars
  BY <1>3 DEF vars
<1> QED
  BY <1>1, <1>2, <1>3 DEF Next

\* The stop message precedes cancel().  Only the monitors, the boot and the
\* guest change what this is about; no step takes a message back.
LEMMA StopPrecedesCancelPreserved ==
    HostInv /\ [Next]_vars => StopPrecedesCancel'
<1> SUFFICES ASSUME HostInv, [Next]_vars PROVE StopPrecedesCancel'
  OBVIOUS
<1> USE DEF HostInv, TypeOK, StopPrecedesCancel, Alive
<1>1. ASSUME UNCHANGED <<main, cancelled, pmon, smon, told, guest>>
      PROVE  StopPrecedesCancel'
  BY <1>1
<1>2. CASE Goroutine
  <2>1. CASE NetworkListens
    BY <1>1, <2>1 DEF NetworkListens, monitors
  <2>2. CASE NetworkNotNeeded
    BY <1>1, <2>2 DEF NetworkNotNeeded, monitors
  <2>3. CASE StartPodmanProxy
    BY <1>1, <2>3 DEF StartPodmanProxy, monitors
  <2>4. ASSUME NEW s \in Services, ServiceStops(s) PROVE StopPrecedesCancel'
    BY <1>1, <2>4 DEF ServiceStops, monitors
  <2>5. CASE NetworkOnline
    BY <1>1, <2>5 DEF NetworkOnline, monitors
  <2>6. CASE ProbeTimeout
    BY <1>1, <2>6 DEF ProbeTimeout, monitors
  <2>7. ASSUME NEW r \in Reportable, Report(r) PROVE StopPrecedesCancel'
    BY <1>1, <2>7 DEF Report, monitors
  <2>8. CASE ReportingStops
    BY <1>1, <2>8 DEF ReportingStops, monitors
  <2>9. CASE Boot
    BY <2>9 DEF Boot, monitors
  <2>10. CASE BootFails
    BY <2>10 DEF BootFails, monitors
  <2>11. CASE SelectCancelled
    BY <2>11 DEF SelectCancelled, monitors
  <2>12. CASE Drain
    BY <2>12 DEF Drain, monitors
  <2>13. CASE Close
    BY <2>13 DEF Close, monitors
  <2>14. CASE ParentGone
    BY <2>14 DEF ParentGone
  <2>15. CASE ParentStop
    BY <2>15 DEF ParentStop
  <2>16. CASE ParentCancel
    BY <2>16 DEF ParentCancel
  <2>17. CASE ParentMonitorStops
    BY <2>17 DEF ParentMonitorStops
  <2>18. CASE NotifySignals
    BY <2>18 DEF NotifySignals
  <2>19. CASE SignalSeen
    BY <2>19 DEF SignalSeen
  <2>20. CASE SignalStop
    BY <2>20 DEF SignalStop
  <2>21. CASE SignalCancel
    BY <2>21 DEF SignalCancel
  <2>22. CASE SignalMonitorStops
    BY <2>22 DEF SignalMonitorStops
  <2>23. CASE ForceExit
    BY <2>23 DEF ForceExit, ProcessEnds, Killed
  <2>24. CASE Exit
    BY <2>24 DEF Exit, ProcessEnds, Killed
  <2>25. CASE LeftServerEnds
    BY <1>1, <2>25 DEF LeftServerEnds, monitors
  <2> QED
    BY <1>2, <2>1, <2>2, <2>3, <2>4, <2>5, <2>6, <2>7, <2>8, <2>9, <2>10,
       <2>11, <2>12, <2>13, <2>14, <2>15, <2>16, <2>17, <2>18, <2>19, <2>20,
       <2>21, <2>22, <2>23, <2>24, <2>25
    DEF Goroutine, RunNetwork, RunPodman, RunReports, RunMain, RunParent,
        RunSignal, Services
<1>3. CASE Environment
  <2>1. ASSUME NEW s \in Services, ServiceFails(s) PROVE StopPrecedesCancel'
    BY <1>1, <2>1 DEF ServiceFails, monitors
  <2>2. ASSUME NEW r \in {"ssh", "podman"}, GuestReady(r)
        PROVE  StopPrecedesCancel'
    BY <1>1, <2>2 DEF GuestReady, monitors
  <2>3. CASE ParentDies
    BY <1>1, <2>3 DEF ParentDies, monitors
  <2>4. CASE Signal
    BY <2>4 DEF Signal, ProcessEnds, Killed
  <2>5. CASE RequestStop
    BY <2>5 DEF RequestStop, monitors
  <2>6. CASE GuestPowersOff
    BY <2>6 DEF GuestPowersOff, ProcessEnds
  <2>7. CASE GuestExits
    BY <2>7 DEF GuestExits, ProcessEnds
  <2>8. CASE GuestHangs
    BY <2>8 DEF GuestHangs, monitors
  <2>9. CASE Rest
    BY <1>1, <2>9 DEF Rest, vars
  <2> QED
    BY <1>3, <2>1, <2>2, <2>3, <2>4, <2>5, <2>6, <2>7, <2>8, <2>9
    DEF Environment
<1>4. CASE UNCHANGED vars
  BY <1>1, <1>4 DEF vars
<1> QED
  BY <1>2, <1>3, <1>4 DEF Next

\* How a step may change the services: a service that has returned has returned
\* for good, and only the group's failure leaves a network stack behind.
LEMMA ServicesChange ==
    ASSUME HostInv, [Next]_vars
    PROVE  /\ AllReturned => AllReturned'
           /\ LeftBehind'
<1> USE DEF HostInv, TypeOK, AllReturned, LeftBehind, Services
<1>1. CASE svc' = svc /\ (failed => failed')
  BY <1>1
<1>2. CASE ProcessEnds(guest')
  BY <1>2 DEF ProcessEnds
<1>3. ASSUME NEW s \in Services, ServiceFails(s)
      PROVE  (AllReturned => AllReturned') /\ LeftBehind'
  BY <1>3 DEF ServiceFails, Returned
<1>4. ASSUME NEW s \in Services, ServiceStops(s)
      PROVE  (AllReturned => AllReturned') /\ LeftBehind'
  BY <1>4 DEF ServiceStops, Returned
<1>5. CASE NetworkNotNeeded
  BY <1>5 DEF NetworkNotNeeded
<1>6. CASE StartPodmanProxy
  BY <1>6 DEF StartPodmanProxy
<1>7. CASE ProbeTimeout
  BY <1>1, <1>7 DEF ProbeTimeout
<1>8. CASE Goroutine
  <2>1. ASSUME svc' # svc \/ (failed /\ ~failed')
        PROVE  \/ NetworkNotNeeded \/ StartPodmanProxy \/ ProbeTimeout
               \/ ProcessEnds(guest')
               \/ \E s \in Services : ServiceStops(s)
    BY <1>8, <2>1 DEF Goroutine, RunNetwork, RunPodman, RunReports, RunMain,
       RunParent, RunSignal, NetworkListens, LeftServerEnds, NetworkOnline,
       Report, ReportingStops, Boot, BootFails, SelectCancelled, Drain, Close,
       Exit, ParentGone, ParentStop, ParentCancel, ParentMonitorStops,
       NotifySignals, SignalSeen, SignalStop, SignalCancel, SignalMonitorStops,
       ForceExit, ProcessEnds
  <2> QED
    BY <1>1, <1>2, <1>4, <1>5, <1>6, <1>7, <2>1
<1>9. CASE Environment
  <2>1. ASSUME svc' # svc \/ (failed /\ ~failed')
        PROVE  ProcessEnds(guest') \/ \E s \in Services : ServiceFails(s)
    BY <1>9, <2>1 DEF Environment, GuestReady, ParentDies, Signal, RequestStop,
       GuestPowersOff, GuestExits, GuestHangs, Rest, vars, ProcessEnds
  <2> QED
    BY <1>1, <1>2, <1>3, <2>1
<1>10. CASE UNCHANGED vars
  BY <1>1, <1>10 DEF vars
<1> QED
  BY <1>8, <1>9, <1>10 DEF Next

\* Only Drain and Close lead to the cleanup, and once there the guest stays off
\* because Boot needs the select.
LEMMA CleanupPreserved == HostInv /\ [Next]_vars => CleanupAfterServices'
<1> SUFFICES ASSUME HostInv, [Next]_vars, main' \in {"returned", "closed"}
             PROVE  AllReturned' /\ LeftBehind' /\ guest' = "off"
  BY DEF CleanupAfterServices, AllReturned, LeftBehind
<1>1. /\ main \in {"returned", "closed"} \/ Drain
      /\ guest' = guest
  <2> USE DEF HostInv, TypeOK, StopPrecedesCancel, Alive
  <2>1. CASE Goroutine
    BY <2>1 DEF Goroutine, RunNetwork, RunPodman, RunReports, RunMain,
       RunParent, RunSignal, NetworkListens, NetworkNotNeeded,
       StartPodmanProxy, ServiceStops, LeftServerEnds, NetworkOnline,
       ProbeTimeout, Report, ReportingStops, Boot, BootFails, SelectCancelled,
       Drain, Close, Exit, ProcessEnds, ParentGone, ParentStop, ParentCancel,
       ParentMonitorStops, NotifySignals, SignalSeen, SignalStop,
       SignalCancel, SignalMonitorStops, ForceExit
  <2>2. CASE Environment
    BY <2>2 DEF Environment, ServiceFails, GuestReady, ParentDies, Signal,
       RequestStop, GuestPowersOff, GuestExits, GuestHangs, Rest, vars,
       ProcessEnds
  <2>3. CASE UNCHANGED vars
    BY <2>3 DEF vars
  <2> QED
    BY <2>1, <2>2, <2>3 DEF Next
<1>2. AllReturned /\ guest = "off"
  <2>1. CASE main \in {"returned", "closed"}
    BY <2>1 DEF HostInv, CleanupAfterServices, AllReturned
  <2>2. CASE Drain
    BY <2>2 DEF Drain, HostInv, StopPrecedesCancel
  <2> QED
    BY <1>1, <2>1, <2>2
<1> QED
  BY <1>1, <1>2, ServicesChange

\* HostInv holds in every state of RunDocker, for either network mode and for
\* any set of services that may fail.
THEOREM HostInvariant == Spec => []HostInv
<1>1. Init => HostInv
  <2> SUFFICES ASSUME Init PROVE HostInv
    OBVIOUS
  <2>1. TypeOK
    BY HostAssumption DEF HostAssumption, Init, TypeOK, Services, Reportable
  <2>2. StopPrecedesCancel /\ LeftBehind /\ CleanupAfterServices
    BY DEF Init, StopPrecedesCancel, LeftBehind, CleanupAfterServices
  <2> QED
    BY <2>1, <2>2 DEF HostInv
<1>2. HostInv /\ [Next]_vars => HostInv'
  BY HostTypes, StopPrecedesCancelPreserved, ServicesChange, CleanupPreserved
  DEF HostInv
<1> QED
  BY <1>1, <1>2, PTL DEF Spec

\* A VM running after cancel() has been sent a stop message.
THEOREM CancelledGuestToldTheorem == Spec => []CancelledGuestIsTold
<1>1. HostInv => CancelledGuestIsTold
  BY DEF HostInv, StopPrecedesCancel, CancelledGuestIsTold
<1> QED
  BY <1>1, HostInvariant, PTL

\* The workspace is removed after every service has returned and with no guest;
\* only ignition and a failed network stack may have goroutines left by then.
THEOREM CleanupTheorem == Spec => []CleanupAfterServices
<1>1. HostInv => CleanupAfterServices
  BY DEF HostInv
<1> QED
  BY <1>1, HostInvariant, PTL

=============================================================================
