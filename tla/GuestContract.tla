---------------------------- MODULE GuestContract ----------------------------
(***************************************************************************)
(* What the two ends of the virtual machine promise each other: the host   *)
(* may write stop messages at any time, also before the machine is up; the *)
(* guest reports its services while it runs, each at most once and never   *)
(* one that comes before one it has reported, and powers itself off only   *)
(* after a stop message.  A service may be left out.  A guest whose agent  *)
(* fails dies without a stop.  Nothing promises that a stop is obeyed: see *)
(* LoneStopHandled and OneStopEnds of GuestAgent for when it is.           *)
(*                                                                         *)
(* GuestAgent implements this contract.  The host accepts more: its        *)
(* handleReady takes the reports in any order (see HostLifecycle).         *)
(***************************************************************************)
EXTENDS Naturals

VARIABLES vm,     \* "off", "up", "halted" by a stop, "died" with its agent
          told,   \* a stop message has been written
          reports \* the services the guest has reported ready

vars == <<vm, told, reports>>

\* The place of each service in WaitGuestServiceReady.
Rank == [ssh |-> 1, podman |-> 2, iface |-> 3]

Init ==
    /\ vm \in {"off", "up"}
    /\ told = FALSE
    /\ reports = {}

Boot ==
    /\ vm = "off"
    /\ vm' = "up"
    /\ UNCHANGED <<told, reports>>

\* SendSignal, by any of the host's goroutines.
Tell ==
    /\ told' = TRUE
    /\ UNCHANGED <<vm, reports>>

\* WaitGuestServiceReady posts, handleReady closes the service's channel.
Report(service) ==
    /\ vm = "up"
    /\ \A r \in reports : Rank[r] < Rank[service]
    /\ reports' = reports \cup {service}
    /\ UNCHANGED <<vm, told>>

\* WaitAndShutdown.
Halt ==
    /\ vm = "up" /\ told
    /\ vm' = "halted"
    /\ UNCHANGED <<told, reports>>

\* main() of the agent exits.
Die ==
    /\ vm = "up"
    /\ vm' = "died"
    /\ UNCHANGED <<told, reports>>

Next ==
    \/ Boot \/ Tell \/ Halt \/ Die
    \/ \E service \in {"ssh", "podman", "iface"} : Report(service)

Spec == Init /\ [][Next]_vars

=============================================================================
