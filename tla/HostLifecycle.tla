---------------------------- MODULE HostLifecycle ----------------------------
(***************************************************************************)
(* RunDocker: one `ovm start` process after init succeeded.  Four services *)
(* run in an errgroup, the main goroutine selects between cancellation and *)
(* the host network being up, two monitors turn a signal or the death of   *)
(* the parent into a stop message for the guest followed by cancel(), and  *)
(* a third one reports readiness.  The goroutines share channels and two   *)
(* nested contexts only; every select with several ready cases may take    *)
(* any of them.                                                            *)
(*                                                                         *)
(* pkg/librevm/vm.go, pkg/service/lifecycle/host_services.go,              *)
(* pkg/service/ignition/server.go, pkg/define/readiness.go, pkg/gvproxy,   *)
(* pkg/libkrun.  The guest is abstract here: it reads stop messages and    *)
(* powers off, or hangs, or exits by itself.                               *)
(***************************************************************************)
EXTENDS Naturals, FiniteSets

CONSTANTS Networks,    \* the values of --network it may be started with
          Faulty,      \* the services that may return an error of their own
          MaxSignals   \* bound: SIGINT/SIGTERM sent to the process

Services == {"ignition", "network", "management", "podman"}

ASSUME HostAssumption == /\ Networks \subseteq {"gvisor", "tsi"}
                         /\ Faulty \subseteq Services
                         /\ MaxSignals \in Nat

VARIABLES
    network,   \* NetworkMode of the machine
    main,      \* the goroutine that called RunDocker
    svc,       \* the goroutines of the errgroup
    failed,    \* the errgroup cancelled its context: a service returned an error
    cancelled, \* vm.Cancel was called: the outer context is done
    netUp,     \* gvproxy answers on its control socket
    probe,     \* waitVirtualNetworkOnline
    ready,     \* the Readiness channels that are closed
    evmon,     \* monitorReadinessEvents
    reported,  \* the readiness events it emitted
    pmon,      \* the parent monitor of WaitAndShutdownMachine
    smon,      \* its signal monitor
    sigPending,\* sigCh holds a signal
    timer,     \* the 30 second force-exit timer is running
    orphan,    \* getppid() = 1
    signals,   \* signals sent so far
    told,      \* a stop message was written to the signal pipe
    guest      \* the VM

vars == <<network, main, svc, failed, cancelled, netUp, probe, ready, evmon,
          reported, pmon, smon, sigPending, timer, orphan, signals,
          told, guest>>

monitors == <<pmon, smon, sigPending, timer>>
environment == <<network, orphan, signals>>
readiness == <<netUp, probe, ready, evmon, reported>>

\* The context every service, both monitors and the main select wait on.
GroupDone == failed \/ cancelled

Alive == main # "exited"
Reportable == {"net", "ssh", "podman"}
\* Returned to the errgroup.  "left": returned without waiting for its server
\* goroutines, which may be there until the process ends and have sockets in
\* the workspace.
AllReturned == \A s \in Services : svc[s] \in {"left", "ended"}

\* The end of the process is the end of all its goroutines and of its VM.
ProcessEnds(vm) ==
    /\ main' = "exited"
    /\ svc' = [s \in Services |-> "ended"]
    /\ netUp' = FALSE /\ probe' = "done" /\ evmon' = "done"
    /\ pmon' = "done" /\ smon' = "done"
    /\ sigPending' = FALSE /\ timer' = FALSE
    /\ guest' = vm
    /\ UNCHANGED <<network, failed, cancelled, ready, reported, orphan, told>>

Killed == IF guest = "off" THEN "off" ELSE "died"

-----------------------------------------------------------------------------
(* Plausible bugs of the actions below; none of them is part of Next.      *)

\* RunDocker returns without receiving from svcErrCh.
DrainAtOnce ==
    /\ main = "drain"
    /\ main' = "returned"
    /\ UNCHANGED <<svc, failed, cancelled, readiness, monitors, environment,
                   told, guest>>

\* The signal monitor cancels first and sends the stop message afterwards.
SignalSeenCancelFirst ==
    /\ Alive /\ smon = "watch" /\ sigPending
    /\ smon' = "stop"
    /\ sigPending' = FALSE
    /\ cancelled' = TRUE
    /\ UNCHANGED <<main, svc, failed, readiness, pmon, timer, environment,
                   told, guest>>

\* The parent monitor does not arm the force-exit timer.
ParentGoneUntimed ==
    /\ Alive /\ pmon = "watch" /\ orphan
    /\ pmon' = "stop"
    /\ UNCHANGED <<main, svc, failed, cancelled, readiness, smon, sigPending,
                   timer, environment, told, guest>>

\* The readiness monitor returns after its first event.
ReportOnce(r) ==
    /\ Alive /\ evmon = "watch"
    /\ r \in ready \ reported
    /\ reported' = reported \cup {r}
    /\ evmon' = "done"
    /\ UNCHANGED <<main, svc, failed, cancelled, netUp, probe, ready, monitors,
                   environment, told, guest>>

\* The signal monitor cancels without StopVirtualMachine: the services end and
\* the guest is never told.
SignalStopUnsent ==
    /\ Alive /\ smon = "stop"
    /\ smon' = "cancel"
    /\ UNCHANGED <<main, svc, failed, cancelled, readiness, pmon, sigPending,
                   timer, environment, told, guest>>

-----------------------------------------------------------------------------

Init ==
    /\ network \in Networks
    /\ main = "select"
    /\ svc = [s \in Services |-> IF s = "podman" THEN "await" ELSE "run"]
    /\ failed = FALSE /\ cancelled = FALSE
    /\ netUp = FALSE /\ probe = "poll" /\ ready = {}
    /\ evmon = "watch" /\ reported = {}
    /\ pmon = "watch" /\ smon = "new" /\ sigPending = FALSE
    /\ timer = FALSE /\ orphan = FALSE
    /\ signals = 0 /\ told = FALSE
    /\ guest = "off"

(* ---- the errgroup ---- *)

\* gvproxy.Run has made its listeners and serves the control socket.
NetworkListens ==
    /\ Alive /\ network = "gvisor"
    /\ svc["network"] = "run" /\ ~netUp
    /\ netUp' = TRUE
    /\ UNCHANGED <<main, svc, failed, cancelled, probe, ready, evmon, reported,
                   monitors, environment, told, guest>>

\* StartNetworkStack has nothing to run in TSI mode and returns nil.
NetworkNotNeeded ==
    /\ Alive /\ network = "tsi"
    /\ svc["network"] = "run"
    /\ svc' = [svc EXCEPT !["network"] = "ended"]
    /\ UNCHANGED <<main, failed, cancelled, readiness, monitors, environment,
                   told, guest>>

\* The podman goroutine: its select took VNetHostReady.
StartPodmanProxy ==
    /\ Alive /\ svc["podman"] = "await"
    /\ "net" \in ready
    /\ svc' = [svc EXCEPT !["podman"] = "run"]
    /\ UNCHANGED <<main, failed, cancelled, readiness, monitors, environment,
                   told, guest>>

\* How service s returns.  ignition.Start does not wait for its Serve goroutine,
\* and gvproxy.Run, when a later listener fails, not for the servers it has
\* started.
Returned(s, withError) ==
    IF s = "ignition" \/ (s = "network" /\ withError) THEN "left" ELSE "ended"

\* A service returns an error of its own, which cancels the group's context.
\* A control socket that is up may stay up.
ServiceFails(s) ==
    /\ Alive /\ s \in Faulty
    /\ svc[s] = "run"
    /\ s = "network" => network = "gvisor"
    /\ svc' = [svc EXCEPT ![s] = Returned(s, TRUE)]
    /\ failed' = TRUE
    /\ UNCHANGED <<main, cancelled, readiness, monitors, environment, told, guest>>

\* A service returns because the group's context is done.
ServiceStops(s) ==
    /\ Alive /\ GroupDone
    /\ svc[s] \in {"run", "await"}
    /\ svc' = [svc EXCEPT ![s] = Returned(s, FALSE)]
    /\ netUp' = (netUp /\ s # "network")
    /\ UNCHANGED <<main, failed, cancelled, probe, ready, evmon, reported,
                   monitors, environment, told, guest>>

\* The control server a failed gvproxy.Run left behind sees that the context is
\* done: Shutdown, listener closed, socket file removed.
LeftServerEnds ==
    /\ Alive /\ GroupDone
    /\ svc["network"] = "left" /\ netUp
    /\ netUp' = FALSE
    /\ UNCHANGED <<main, svc, failed, cancelled, probe, ready, evmon, reported,
                   monitors, environment, told, guest>>

(* ---- readiness ---- *)

\* waitTSINetworkOnline, or an answered poll of waitGvisorVSockTapOnline.
NetworkOnline ==
    /\ Alive /\ probe = "poll"
    /\ network = "tsi" \/ netUp
    /\ probe' = "done"
    /\ ready' = ready \cup {"net"}
    /\ UNCHANGED <<main, svc, failed, cancelled, netUp, evmon, reported,
                   monitors, environment, told, guest>>

\* The 60 second probe timeout is sent to errChan and Start returns an error,
\* its Serve goroutine behind; a probe that ends with the context says nothing
\* new.
ProbeTimeout ==
    /\ Alive /\ probe = "poll" /\ network = "gvisor"
    /\ probe' = "done"
    /\ \/ /\ svc["ignition"] = "run"
          /\ svc' = [svc EXCEPT !["ignition"] = "left"]
          /\ failed' = TRUE
       \/ /\ GroupDone
          /\ UNCHANGED <<svc, failed>>
    /\ UNCHANGED <<main, cancelled, netUp, ready, evmon, reported, monitors,
                   environment, told, guest>>

\* handleReady accepts the reports in any order and each of them once.  (Nobody
\* waits for the channel of the guest interface.)
GuestReady(r) ==
    /\ Alive /\ guest = "up"
    /\ svc["ignition"] \in {"run", "left"}
    /\ r \notin ready
    /\ ready' = ready \cup {r}
    /\ UNCHANGED <<main, svc, failed, cancelled, netUp, probe, evmon, reported,
                   monitors, environment, told, guest>>

\* One turn of monitorReadinessEvents; it returns once all three are reported.
Report(r) ==
    /\ Alive /\ evmon = "watch"
    /\ r \in ready \ reported
    /\ reported' = reported \cup {r}
    /\ evmon' = IF reported' = Reportable THEN "done" ELSE "watch"
    /\ UNCHANGED <<main, svc, failed, cancelled, netUp, probe, ready, monitors,
                   environment, told, guest>>

\* ... or its select took ctx.Done.
ReportingStops ==
    /\ Alive /\ evmon = "watch" /\ GroupDone
    /\ evmon' = "done"
    /\ UNCHANGED <<main, svc, failed, cancelled, netUp, probe, ready, reported,
                   monitors, environment, told, guest>>

(* ---- the main goroutine ---- *)

\* The final select takes VNetHostReady and StartVirtualMachine enters the
\* guest.  Nothing keeps it from being taken when the context is done as well.
Boot ==
    /\ main = "select" /\ "net" \in ready
    /\ main' = "vm"
    /\ guest' = "up"
    /\ UNCHANGED <<svc, failed, cancelled, readiness, monitors, environment, told>>

\* krun_start_enter returns an error: vm.Cancel(), then <-svcErrCh.
BootFails ==
    /\ main = "select" /\ "net" \in ready
    /\ main' = "drain"
    /\ cancelled' = TRUE
    /\ UNCHANGED <<svc, failed, readiness, monitors, environment, told, guest>>

\* The final select takes ctx.Done: return <-svcErrCh.
SelectCancelled ==
    /\ main = "select" /\ GroupDone
    /\ main' = "drain"
    /\ UNCHANGED <<svc, failed, cancelled, readiness, monitors, environment,
                   told, guest>>

\* g.Wait has returned, so svcErrCh delivers and RunDocker returns.
Drain ==
    /\ main = "drain" /\ AllReturned
    /\ main' = "returned"
    /\ UNCHANGED <<svc, failed, cancelled, readiness, monitors, environment,
                   told, guest>>

\* The deferred vm.Close (workspace and lock file removed, see Session).
Close ==
    /\ main = "returned"
    /\ main' = "closed"
    /\ UNCHANGED <<svc, failed, cancelled, readiness, monitors, environment,
                   told, guest>>

\* The end of main().
Exit ==
    /\ main = "closed"
    /\ ProcessEnds(Killed)
    /\ UNCHANGED signals

(* ---- the monitors of WaitAndShutdownMachine ---- *)

\* A tick of the parent monitor sees getppid() = 1 and arms the timer.
ParentGone ==
    /\ Alive /\ pmon = "watch" /\ orphan
    /\ pmon' = "stop"
    /\ timer' = TRUE
    /\ UNCHANGED <<main, svc, failed, cancelled, readiness, smon, sigPending,
                   environment, told, guest>>

\* StopVirtualMachine: one more line in the signal pipe.
ParentStop ==
    /\ Alive /\ pmon = "stop"
    /\ pmon' = "cancel"
    /\ told' = TRUE
    /\ UNCHANGED <<main, svc, failed, cancelled, readiness, smon, sigPending,
                   timer, environment, guest>>

ParentCancel ==
    /\ Alive /\ pmon = "cancel"
    /\ pmon' = "done"
    /\ cancelled' = TRUE
    /\ UNCHANGED <<main, svc, failed, readiness, smon, sigPending, timer,
                   environment, told, guest>>

ParentMonitorStops ==
    /\ Alive /\ pmon = "watch" /\ GroupDone
    /\ pmon' = "done"
    /\ UNCHANGED <<main, svc, failed, cancelled, readiness, smon, sigPending,
                   timer, environment, told, guest>>

\* signal.Notify; until the goroutine gets here a signal kills the process.
NotifySignals ==
    /\ Alive /\ smon = "new"
    /\ smon' = "watch"
    /\ UNCHANGED <<main, svc, failed, cancelled, readiness, pmon, sigPending,
                   timer, environment, told, guest>>

SignalSeen ==
    /\ Alive /\ smon = "watch" /\ sigPending
    /\ smon' = "stop"
    /\ sigPending' = FALSE
    /\ UNCHANGED <<main, svc, failed, cancelled, readiness, pmon, timer,
                   environment, told, guest>>

SignalStop ==
    /\ Alive /\ smon = "stop"
    /\ smon' = "cancel"
    /\ told' = TRUE
    /\ UNCHANGED <<main, svc, failed, cancelled, readiness, pmon, sigPending,
                   timer, environment, guest>>

\* cancel(), then the deferred signal.Stop restores the default action.
SignalCancel ==
    /\ Alive /\ smon = "cancel"
    /\ smon' = "done"
    /\ cancelled' = TRUE
    /\ UNCHANGED <<main, svc, failed, readiness, pmon, sigPending, timer,
                   environment, told, guest>>

\* ctx.Done wins the select: signal.Stop, and a signal in sigCh is dropped.
SignalMonitorStops ==
    /\ Alive /\ smon = "watch" /\ GroupDone
    /\ smon' = "done"
    /\ sigPending' = FALSE
    /\ UNCHANGED <<main, svc, failed, cancelled, readiness, pmon, timer,
                   environment, told, guest>>

\* os.Exit(100).
ForceExit ==
    /\ Alive /\ timer
    /\ ProcessEnds(Killed)
    /\ UNCHANGED signals

(* ---- the environment ---- *)

ParentDies ==
    /\ Alive /\ ~orphan
    /\ orphan' = TRUE
    /\ UNCHANGED <<main, svc, failed, cancelled, readiness, monitors, network,
                   signals, told, guest>>

\* SIGINT or SIGTERM: buffered in sigCh while Notify is in force, otherwise
\* the default action ends the process.
Signal ==
    /\ Alive /\ signals < MaxSignals
    /\ signals' = signals + 1
    /\ \/ /\ smon \in {"new", "done"}
          /\ ProcessEnds(Killed)
       \/ /\ smon \in {"watch", "stop", "cancel"}
          /\ sigPending' = TRUE
          /\ UNCHANGED <<main, svc, failed, cancelled, readiness, pmon, smon,
                         timer, network, orphan, told, guest>>

\* handleRequestVMStop: a stop message, and nothing is cancelled.
RequestStop ==
    /\ Alive /\ svc["management"] = "run"
    /\ told' = TRUE
    /\ UNCHANGED <<main, svc, failed, cancelled, readiness, monitors, network,
                   orphan, signals, guest>>

\* The guest reads a stop message, written before or after it booted, and
\* powers off; libkrun then ends the process with exit().
GuestPowersOff ==
    /\ main = "vm" /\ guest = "up"
    /\ told
    /\ ProcessEnds("halted")
    /\ UNCHANGED signals

\* The guest ends by itself (its agent failed).
GuestExits ==
    /\ main = "vm" /\ guest = "up"
    /\ ProcessEnds("died")
    /\ UNCHANGED signals

\* The guest no longer answers stop messages (see GuestAgent for how).
GuestHangs ==
    /\ main = "vm" /\ guest = "up"
    /\ guest' = "stuck"
    /\ UNCHANGED <<main, svc, failed, cancelled, readiness, monitors,
                   environment, told>>

\* Nothing is left to do, or nothing but a signal (see MaxSignals) would end a
\* process whose guest hangs.
Rest ==
    /\ ~Alive \/ guest = "stuck"
    /\ UNCHANGED vars

(* ---- one goroutine each ---- *)

RunNetwork == \/ NetworkListens \/ NetworkNotNeeded
              \/ ServiceStops("network") \/ LeftServerEnds
RunPodman == StartPodmanProxy \/ ServiceStops("podman")
RunReports == (\E r \in Reportable : Report(r)) \/ ReportingStops
RunMain == \/ Boot \/ BootFails \/ SelectCancelled
           \/ Drain \/ Close \/ Exit
RunParent == ParentGone \/ ParentStop \/ ParentCancel \/ ParentMonitorStops
RunSignal == \/ NotifySignals \/ SignalSeen \/ SignalStop \/ SignalCancel
             \/ SignalMonitorStops

Goroutine ==
    \/ RunNetwork \/ RunPodman
    \/ ServiceStops("ignition") \/ ServiceStops("management")
    \/ NetworkOnline \/ ProbeTimeout \/ RunReports
    \/ RunMain \/ RunParent \/ RunSignal
    \/ ForceExit

Environment ==
    \/ \E s \in Services : ServiceFails(s)
    \/ \E r \in {"ssh", "podman"} : GuestReady(r)
    \/ ParentDies \/ Signal \/ RequestStop
    \/ GuestPowersOff \/ GuestExits \/ GuestHangs
    \/ Rest

Next == Goroutine \/ Environment

\* Every goroutine is scheduled, every select with a ready case returns, and
\* the timer fires; a guest that is not stuck obeys a stop message.
Fairness ==
    /\ WF_vars(RunNetwork) /\ WF_vars(RunPodman)
    /\ WF_vars(ServiceStops("ignition")) /\ WF_vars(ServiceStops("management"))
    /\ WF_vars(NetworkOnline) /\ WF_vars(RunReports)
    /\ WF_vars(RunMain) /\ WF_vars(RunParent) /\ WF_vars(RunSignal)
    /\ WF_vars(ForceExit)
    /\ WF_vars(GuestPowersOff)

Spec == Init /\ [][Next]_vars /\ Fairness

-----------------------------------------------------------------------------
(* Safety.                                                                 *)

TypeOK ==
    /\ main \in {"select", "vm", "drain", "returned", "closed", "exited"}
    /\ svc \in [Services -> {"await", "run", "left", "ended"}]
    /\ failed \in BOOLEAN /\ cancelled \in BOOLEAN
    /\ netUp \in BOOLEAN /\ probe \in {"poll", "done"}
    /\ ready \subseteq Reportable
    /\ evmon \in {"watch", "done"} /\ reported \subseteq Reportable
    /\ pmon \in {"watch", "stop", "cancel", "done"}
    /\ smon \in {"new", "watch", "stop", "cancel", "done"}
    /\ sigPending \in BOOLEAN /\ timer \in BOOLEAN /\ orphan \in BOOLEAN
    /\ signals \in Nat /\ told \in BOOLEAN
    /\ guest \in {"off", "up", "stuck", "halted", "died"}
    /\ network \in {"gvisor", "tsi"}

\* Both monitors write the stop message before they call cancel(), and only a
\* failed boot cancels without one; that main goroutine boots nothing any more.
StopPrecedesCancel ==
    /\ (pmon = "cancel" \/ smon = "cancel") => told
    /\ cancelled => told \/ (guest = "off" /\ main \notin {"select", "vm"})
    /\ guest # "off" => main \in {"vm", "exited"}

\* Whatever the order of monitors, select and boot, a VM that is running after
\* cancel() has a stop message in its signal pipe: RunDocker may boot the VM
\* after the cancellation, but that VM then finds the message.
CancelledGuestIsTold == cancelled /\ guest \in {"up", "stuck"} => told

\* Which services may leave goroutines behind: ignition, whose Start does not
\* wait for Serve, and a network stack that returned an error.
LeftBehind ==
    \A s \in Services : svc[s] = "left" => s = "ignition" \/ (s = "network" /\ failed)

\* When vm.Close removes the workspace every service has returned and no guest
\* was ever started from it.  The servers that may still close their sockets
\* there, and remove the files by name, are ignition's and those of a network
\* stack that failed; management and podman proxy are gone.
CleanupAfterServices ==
    main \in {"returned", "closed"} =>
        /\ guest = "off"
        /\ \A s \in Services :
              \/ svc[s] = "ended"
              \/ svc[s] = "left" /\ (s = "ignition" \/ (s = "network" /\ failed))

\* The inductive invariant of the proofs.
HostInv == TypeOK /\ StopPrecedesCancel /\ LeftBehind /\ CleanupAfterServices

-----------------------------------------------------------------------------
(* Liveness.                                                               *)

\* After a SIGTERM or SIGINT that Notify caught, the process ends, unless a
\* service failed (both monitors then stop) or the guest hangs.
CaughtSignalEnds == sigPending ~> (~Alive \/ failed \/ guest = "stuck")

\* An orphaned process ends even when its guest hangs, unless a service failed
\* or a signal took the monitors' context away first.
OrphanEndsUnlessUnwatched ==
    orphan ~> (~Alive \/ failed \/ (guest = "stuck" /\ signals > 0))

\* The podman event (Ready for the legacy endpoint) follows the guest's report,
\* unless the errgroup is cancelled in between.
PodmanReadyReported ==
    "podman" \in ready ~> ("podman" \in reported \/ GroupDone \/ ~Alive)

=============================================================================
