-------------------------------- MODULE Ports --------------------------------
(***************************************************************************)
(* The TCP ports of the sessions on one host.  A session finds each of its *)
(* ports by listening on it and closing the listener again, and uses it    *)
(* much later: the port of the guest's ssh server, the port of its podman  *)
(* service and, with the gvisor network, the port on the host that is      *)
(* forwarded to the ssh server.  In between it belongs to nobody, and the  *)
(* other sessions and programs of the host look for ports as well.  With   *)
(* gvisor the two daemons listen in the network of their own guest; with   *)
(* tsi libkrun makes their listeners on the host.                          *)
(*                                                                         *)
(* pkg/network/port.go, pkg/librevm/network.go, pkg/librevm/machine.go,    *)
(* pkg/gvproxy/gvproxy.go, pkg/service/lifecycle/host_services.go,         *)
(* pkg/service/management/server.go, cmd/guest-agent/pkg/service.          *)
(***************************************************************************)
EXTENDS Naturals, FiniteSets

CONSTANTS Sessions,  \* `ovm start` processes with names of their own
          Ephemeral, \* the ports the kernel hands out for port 0
          Preferred, \* SSHLocalForwardListenPort
          NoPort     \* no port yet; with a role, the listener is not a session's

Ports == Ephemeral \cup {Preferred}

ASSUME PortsAssumption == /\ NoPort \notin Ports
                          /\ NoPort \notin Sessions

\* The listeners of a session: gvproxy's forwarding to the guest's ssh server,
\* the two daemons, and the one GetAvailablePort closes again.
Daemons == {"ssh", "podman"}
Roles == Daemons \cup {"forward", "probe"}

VARIABLES
    mode,   \* VirtualNetworkMode
    pc,     \* what the session does next: the three searches for a port
            \* "ssh", "podman" and "forward", "new" (virtualnetwork.New), or
            \* "up", "refused" (New failed), "ended"
    port,   \* the port of each role
    bound,  \* the pairs of a session and a role that listen
    taken,  \* the ports of the host that other programs listen on
    raced,  \* another program has taken a port since the first session began
    held    \* the dead daemons whose output pipe another process still has

vars == <<mode, pc, port, bound, taken, raced, held>>

\* Where a role of a session listens: on the host, or in the session's guest.
Host == NoPort
Space(s, r) == IF mode[s] = "gvisor" /\ r \in Daemons THEN s ELSE Host

\* Everybody who listens on port p there.
Listeners(space, p) ==
    {l \in bound : Space(l[1], l[2]) = space /\ port[l[1]][l[2]] = p}
        \cup (IF space = Host /\ p \in taken THEN {<<NoPort, "other">>} ELSE {})

Free(space, p) == Listeners(space, p) = {}

Listening(s, r) == <<s, r>> \in bound

\* What is left when a process has ended: the kernel closes what it had open,
\* and libkrun's listeners with it.
Without(s) == {l \in bound : l[1] # s}

\* The order of the searches.  Without a network stack of its own a tsi session
\* boots after the second.
Searches == {"ssh", "podman", "forward"}
After(s) ==
    CASE pc[s] = "ssh" -> "podman"
      [] pc[s] = "podman" /\ mode[s] = "gvisor" -> "forward"
      [] pc[s] = "podman" /\ mode[s] = "tsi" -> "up"
      [] pc[s] = "forward" -> "new"

-----------------------------------------------------------------------------
(* Plausible bugs of the definitions below.                                *)

\* The listener that found the port is kept for virtualnetwork.New.
CloseProbeKept(s) ==
    /\ pc[s] \in Searches /\ Listening(s, "probe")
    /\ port' = [port EXCEPT ![s][pc[s]] = port[s]["probe"]]
    /\ bound' = IF pc[s] = "forward" THEN bound ELSE bound \ {<<s, "probe">>}
    /\ pc' = [pc EXCEPT ![s] = After(s)]
    /\ UNCHANGED <<mode, taken, raced, held>>

\* The forwarding is bound with SO_REUSEPORT.
NewVirtualNetworkShared(s) ==
    /\ pc[s] = "new"
    /\ pc' = [pc EXCEPT ![s] = "up"]
    /\ bound' = bound \cup {<<s, "forward">>}
    /\ UNCHANGED <<mode, port, taken, raced, held>>

\* The error of virtualnetwork.New is logged only.
NewVirtualNetworkUnchecked(s) ==
    /\ pc[s] = "new"
    /\ pc' = [pc EXCEPT ![s] = "up"]
    /\ bound' = IF Free(Host, port[s]["forward"])
                THEN bound \cup {<<s, "forward">>} ELSE bound
    /\ UNCHANGED <<mode, port, taken, raced, held>>

\* The agent starts one daemon and then the other: Run of the first supervisor
\* does not return.
StartDaemonInTurn(s, d) ==
    /\ pc[s] = "up" /\ \A e \in Daemons : ~Listening(s, e)
    /\ <<s, d>> \notin held
    /\ Free(Space(s, d), port[s][d])
    /\ bound' = bound \cup {<<s, d>>}
    /\ UNCHANGED <<mode, pc, port, taken, raced, held>>

-----------------------------------------------------------------------------

Init ==
    /\ mode \in [Sessions -> {"gvisor", "tsi"}]
    /\ pc = [s \in Sessions |-> "ssh"]
    /\ port = [s \in Sessions |-> [r \in Roles |-> NoPort]]
    /\ bound = {}
    /\ taken \in SUBSET {Preferred}
    /\ raced = FALSE
    /\ held = {}

(* ---- GetAvailablePort ---- *)

\* What its Listen may return: the preferred port if it is free, and a free
\* ephemeral one otherwise.  Only InitCfg prefers a port.
Candidates(s) ==
    IF pc[s] = "forward" /\ Free(Host, Preferred)
    THEN {Preferred}
    ELSE {p \in Ephemeral : Free(Host, p)}

OpenProbe(s, p) ==
    /\ pc[s] \in Searches /\ ~Listening(s, "probe")
    /\ p \in Candidates(s)
    /\ port' = [port EXCEPT ![s]["probe"] = p]
    /\ bound' = bound \cup {<<s, "probe">>}
    /\ UNCHANGED <<mode, pc, taken, raced, held>>

\* Its listener is closed and the port is recorded: by Configure of the network
\* strategy (the ssh server), configurePodman and InitCfg (the forwarding).
CloseProbe(s) ==
    /\ pc[s] \in Searches /\ Listening(s, "probe")
    /\ port' = [port EXCEPT ![s][pc[s]] = port[s]["probe"],
                            ![s]["probe"] = NoPort]
    /\ bound' = bound \ {<<s, "probe">>}
    /\ pc' = [pc EXCEPT ![s] = After(s)]
    /\ UNCHANGED <<mode, taken, raced, held>>

\* Its second Listen fails too, and the start with it.
NoPortLeft(s) ==
    /\ pc[s] \in Searches /\ ~Listening(s, "probe")
    /\ Candidates(s) = {}
    /\ pc' = [pc EXCEPT ![s] = "ended"]
    /\ bound' = Without(s)
    /\ UNCHANGED <<mode, port, taken, raced, held>>

(* ---- the network stack and the daemons ---- *)

\* virtualnetwork.New listens on the port of the forwarding; its error ends the
\* network service before the VM is booted, and so the process.
NewVirtualNetwork(s) ==
    /\ pc[s] = "new"
    /\ \/ /\ Free(Host, port[s]["forward"])
          /\ pc' = [pc EXCEPT ![s] = "up"]
          /\ bound' = bound \cup {<<s, "forward">>}
       \/ /\ ~Free(Host, port[s]["forward"])
          /\ pc' = [pc EXCEPT ![s] = "refused"]
          /\ bound' = Without(s)
    /\ UNCHANGED <<mode, port, taken, raced, held>>

\* dropbear or podman, started by its supervisor, listens.  When it cannot, it
\* exits and is started again, for as long as the guest runs.
StartDaemon(s, d) ==
    /\ pc[s] = "up" /\ ~Listening(s, d) /\ <<s, d>> \notin held
    /\ Free(Space(s, d), port[s][d])
    /\ bound' = bound \cup {<<s, d>>}
    /\ UNCHANGED <<mode, pc, port, taken, raced, held>>

\* The daemon ends.  Its output is copied from a pipe to the agent's log, and
\* runOnce waits in cmd.Wait for the end of that copy: as long as a process the
\* daemon had started (an ssh session, a container monitor) has the pipe, the
\* supervisor does not start it again.
DaemonExits(s, d) ==
    /\ pc[s] = "up" /\ Listening(s, d)
    /\ bound' = bound \ {<<s, d>>}
    /\ held' \in {held, held \cup {<<s, d>>}}
    /\ UNCHANGED <<mode, pc, port, taken, raced>>

\* The last of those processes ends; nothing makes it.
PipeCloses(s, d) ==
    /\ <<s, d>> \in held
    /\ held' = held \ {<<s, d>>}
    /\ UNCHANGED <<mode, pc, port, bound, taken, raced>>

\* The process ends, for any other reason than the ports.
End(s) ==
    /\ pc[s] \notin {"refused", "ended"}
    /\ pc' = [pc EXCEPT ![s] = "ended"]
    /\ bound' = Without(s)
    /\ held' = {h \in held : h[1] # s}
    /\ UNCHANGED <<mode, port, taken, raced>>

(* ---- the other programs of the host ---- *)

Take(p) ==
    /\ Free(Host, p)
    /\ taken' = taken \cup {p}
    /\ raced' = TRUE
    /\ UNCHANGED <<mode, pc, port, bound, held>>

Release(p) ==
    /\ p \in taken
    /\ taken' = taken \ {p}
    /\ UNCHANGED <<mode, pc, port, bound, raced, held>>

(* ---- where clients arrive ---- *)

\* The port GET /info reports is HostSSHProxyListenAddr: what InitCfg or
\* Configure of the tsi strategy recorded, bound or not.
SSHProxyPort(s) == IF mode[s] = "gvisor" THEN port[s]["forward"] ELSE port[s]["ssh"]
InfoReaches(s) == Listeners(Host, SSHProxyPort(s))

\* StartPodmanProxy: through gvproxy to the guest's own address, or to the port
\* on the host.
PodmanProxy(s) == Listeners(Space(s, "podman"), port[s]["podman"])

Next ==
    \/ \E s \in Sessions :
           \/ \E p \in Ports : OpenProbe(s, p)
           \/ CloseProbe(s) \/ NoPortLeft(s)
           \/ NewVirtualNetwork(s)
           \/ \E d \in Daemons :
                  StartDaemon(s, d) \/ DaemonExits(s, d) \/ PipeCloses(s, d)
           \/ End(s)
    \/ \E p \in Ports : Take(p) \/ Release(p)

\* A running process goes on, and the supervisor starts its daemon 500 ms after
\* cmd.Wait has returned.  Nothing is asked of the processes that keep it waiting.
Fairness ==
    \A s \in Sessions :
        /\ WF_vars((\E p \in Ports : OpenProbe(s, p)) \/ CloseProbe(s)
                       \/ NoPortLeft(s) \/ NewVirtualNetwork(s))
        /\ \A d \in Daemons : WF_vars(StartDaemon(s, d))

Spec == Init /\ [][Next]_vars /\ Fairness

-----------------------------------------------------------------------------

TypeOK ==
    /\ mode \in [Sessions -> {"gvisor", "tsi"}]
    /\ pc \in [Sessions -> {"ssh", "podman", "forward", "new", "up", "refused",
                            "ended"}]
    /\ port \in [Sessions -> [Roles -> Ports \cup {NoPort}]]
    /\ bound \subseteq Sessions \X Roles
    /\ taken \subseteq Ports
    /\ raced \in BOOLEAN
    /\ held \subseteq Sessions \X Daemons

\* No port has two listeners, whoever looks for ports when; a session has the
\* listeners of the stage it is in, and none once it has ended; a daemon that is
\* kept from being started again belongs to a session that is up, and does not
\* listen.
PortsInv ==
    /\ TypeOK
    /\ \A space \in Sessions \cup {Host} : \A p \in Ports :
           \A k, l \in Listeners(space, p) : k = l
    /\ \A s \in Sessions : \A r \in Roles : Listening(s, r) =>
           /\ port[s][r] \in Ports
           /\ pc[s] \notin {"refused", "ended"}
           /\ r # "probe" => pc[s] = "up"
    /\ \A h \in held : pc[h[1]] = "up" /\ h \notin bound

\* A client of a session reaches that session.  Once a gvisor session is up, the
\* ssh port its API reports leads to its own guest: losing the port between the
\* search and virtualnetwork.New is fatal and never leaves a session that points
\* at another's; and its podman proxy never leads out of its guest.  A tsi
\* session is not so sure: the two ports are its own as long as its daemons
\* listen on them.
ClientsReachOwn ==
    \A s \in Sessions :
        /\ pc[s] = "up" /\ mode[s] = "gvisor" =>
               /\ InfoReaches(s) = {<<s, "forward">>}
               /\ \A l \in PodmanProxy(s) : l[1] = s
        /\ Listening(s, "ssh") /\ mode[s] = "tsi" => InfoReaches(s) = {<<s, "ssh">>}
        /\ Listening(s, "podman") => PodmanProxy(s) = {<<s, "podman">>}

\* Sessions that race for the same port do not all lose it: as long as no other
\* program takes part, some session is not refused.
RaceHasWinner ==
    Sessions # {} /\ ~raced => \E s \in Sessions : pc[s] # "refused"

\* Every start comes to an end of its search, and the daemon of a session that
\* stays up listens again and again, unless its port keeps being lost to
\* somebody else: to the session's own other daemon, for the two searches may
\* find the same port, or with tsi to another session; or a process that the
\* daemon left behind keeps its output pipe open.
DaemonsListen ==
    \A s \in Sessions : \A d \in Daemons :
        []<>(\/ pc[s] \in {"refused", "ended"}
             \/ Listening(s, d)
             \/ <<s, d>> \in held
             \/ pc[s] = "up" /\ ~Free(Space(s, d), port[s][d]))

=============================================================================
