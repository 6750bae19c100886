----------------------------- MODULE GuestAgent -----------------------------
(***************************************************************************)
(* The agent that runs as the only program libkrun starts in the guest: it *)
(* fetches the machine description, mounts, opens the port the host writes *)
(* stop messages to, and supervises podman and dropbear.  Three goroutines *)
(* meet in the shutdown: the port scanner, which answers a stop message    *)
(* with kill(-1, SIGTERM) and then kill(self, SIGTERM); WaitAndShutdown,   *)
(* which runs `sync` and `poweroff -f` as children; and run() itself,      *)
(* whose error return ends the agent and with it the VM.  At the other end *)
(* of the pipe the host's monitors and request handlers write the message  *)
(* and its newline in two calls, without a lock.                           *)
(*                                                                         *)
(* cmd/guest-agent/main.go, pkg/service, pkg/supervisor, pkg/machine, and  *)
(* SendSignal of pkg/libkrun/vm.go.  The kernel, `sync`, `poweroff` and    *)
(* libkrun's init are external.                                            *)
(***************************************************************************)
EXTENDS Naturals, Sequences

CONSTANTS Senders,    \* the goroutines of the host that call SendSignal
          MaxStops,   \* bound: stop messages the host writes
          MaxCrashes, \* bound: crashes of podman or dropbear
          MayFail     \* TRUE: any boot step may return an error

ASSUME GuestAssumption == /\ MaxStops \in Nat
                          /\ MaxCrashes \in Nat
                          /\ MayFail \in BOOLEAN

Daemons == {"podman", "dropbear"}

\* run() as a sequence of steps; "port" opens the signal port, "spawn" starts
\* the unix forwarders and WaitAndShutdown, "services" is dockerEngineMode.
Stages == <<"config", "pseudo", "port", "disks", "virtiofs", "spawn",
            "network", "services">>

\* The order in which WaitGuestServiceReady probes and posts.
Probes == <<"ssh", "podman", "iface">>

VARIABLES
    stage,    \* index into Stages
    err,      \* run() is returning an error, after which the process exits
    port,     \* the guest-logs port: "closed", "open", "absent"
    queue,    \* the lines the scanner has not read, each as the number of
              \* messages in it
    partial,  \* the messages behind the last newline
    writing,  \* the senders between their two writes
    stops,    \* stop messages written so far
    overlap,  \* history: a message was written while another had no newline
    handled,  \* stop messages the scanner answered with kill(-1)
    scan,     \* the scanner: "idle", or "self" between its two kills
    shut,     \* WaitAndShutdown
    sigCh,    \* its channel holds a signal
    synced,   \* `sync` ran to its "end", "failed" by itself, or "no": not yet, or killed
    daemon,   \* the supervised processes
    crashes,  \* crashes so far
    probe,    \* index into Probes of the probe under way; past the end when done
    posted,   \* services posted to /ready
    keyless,  \* history: IsSSHReady could not write its key file
    timeUp,   \* the 60 seconds of WaitGuestServiceReady have passed
    power     \* the VM: "on", "off" by poweroff, "lost" with the agent

vars == <<stage, err, port, queue, partial, writing, stops, overlap, handled,
          scan, shut, sigCh, synced, daemon, crashes, probe, posted, keyless,
          timeUp, power>>

hostSide == <<queue, partial, writing, stops, overlap>>
shutdown == <<shut, sigCh, synced>>
serving == <<daemon, crashes>>
probing == <<probe, posted, keyless, timeUp>>

On == power = "on"
At(name) == On /\ ~err /\ Stages[stage] = name

\* "held": the process is gone, but one it started still has the pipe of its
\* output, and cmd.Wait does not return before that pipe is closed.
DaemonStates == {"none", "setup", "up", "held", "backoff"}

\* "over": `poweroff` was killed; "failed": it failed by itself.
ShutStates == {"none", "new", "wait", "sync", "halt", "poweroff", "over", "failed"}

-----------------------------------------------------------------------------
(* Plausible bugs of the actions below; none of them is part of Next.      *)

\* WaitAndShutdown does not wait for diskSync.
WakeWithoutSync ==
    /\ On /\ shut = "wait" /\ sigCh
    /\ shut' = "halt" /\ sigCh' = FALSE
    /\ UNCHANGED <<stage, err, port, hostSide, handled, scan, synced, serving,
                   probing, power>>

\* The scanner forwards the signal to the children only: kill(-1) does not
\* reach the caller.
KillSelfMissing ==
    /\ On /\ scan = "self"
    /\ scan' = "idle"
    /\ UNCHANGED <<stage, err, port, hostSide, handled, shutdown, serving,
                   probing, power>>

\* SendSignal forgets the newline.
NewlineMissing(w) ==
    /\ On /\ w \in writing
    /\ writing' = writing \ {w}
    /\ UNCHANGED <<stage, err, port, queue, partial, stops, overlap, handled,
                   scan, shutdown, serving, probing, power>>

\* signal.Notify is called without a list of signals and relays the SIGCHLD of
\* a daemon as well.
CrashSignals(d) ==
    /\ On /\ daemon[d] = "up" /\ crashes < MaxCrashes
    /\ crashes' = crashes + 1
    /\ daemon' = [daemon EXCEPT ![d] = "backoff"]
    /\ sigCh' = (sigCh \/ shut \notin {"none", "new"})
    /\ UNCHANGED <<stage, err, port, hostSide, handled, scan, shut, synced,
                   probing, power>>

\* The supervisor is configured without Restart.
RestartNever(d) ==
    /\ On /\ ~err /\ daemon[d] = "backoff"
    /\ FALSE
    /\ UNCHANGED vars

-----------------------------------------------------------------------------

Init ==
    /\ stage = 1 /\ err = FALSE /\ port = "closed"
    /\ queue = <<>> /\ partial = 0 /\ writing = {} /\ stops = 0
    /\ overlap = FALSE /\ handled = 0
    /\ scan = "idle" /\ shut = "none" /\ sigCh = FALSE /\ synced = "no"
    /\ daemon = [d \in Daemons |-> "none"] /\ crashes = 0
    /\ probe = 0 /\ posted = {} /\ keyless = FALSE /\ timeUp = FALSE
    /\ power = "on"

(* ---- run() ---- *)

\* A step of run() goes on, or run() returns its error.
StepOrError ==
    \/ /\ stage' = stage + 1
       /\ UNCHANGED err
    \/ /\ MayFail
       /\ err' = TRUE
       /\ UNCHANGED stage

\* GetVMConfig: the ignition server is asked until it answers, for 60 s.
FetchConfig ==
    /\ At("config")
    /\ StepOrError
    /\ UNCHANGED <<port, hostSide, handled, scan, shutdown, serving, probing,
                   power>>

\* MountAllPseudoMnt, MountBlockDevices, MountVirtiofs.
Mount ==
    /\ At("pseudo") \/ At("disks") \/ At("virtiofs")
    /\ StepOrError
    /\ UNCHANGED <<port, hostSide, handled, scan, shutdown, serving, probing,
                   power>>

\* ConfigureNetwork (DHCP with retries); after it the errgroup starts podman,
\* dropbear and, outside of it, the probes.
ConfigureNetwork ==
    /\ At("network")
    /\ StepOrError
    /\ \/ /\ stage' = stage
          /\ UNCHANGED <<daemon, probe>>
       \/ /\ stage' = stage + 1
          /\ daemon' = [d \in Daemons |-> "setup"]
          /\ probe' = 1
    /\ UNCHANGED <<port, hostSide, handled, scan, shutdown, crashes, posted,
                   keyless, timeUp, power>>

BootStep == FetchConfig \/ Mount \/ ConfigureNetwork

\* setupGuestLogAndSignalPort: without the port the agent goes on, deaf.
OpenPort ==
    /\ At("port")
    /\ stage' = stage + 1
    /\ port' \in {"open"} \cup (IF MayFail THEN {"absent"} ELSE {})
    /\ UNCHANGED <<err, hostSide, handled, scan, shutdown, serving, probing, power>>

\* StartUnixForwarders, then `go WaitAndShutdown()`.
SpawnShutdown ==
    /\ At("spawn")
    /\ stage' = stage + 1
    /\ shut' = "new"
    /\ UNCHANGED <<err, port, hostSide, handled, scan, sigCh, synced, serving,
                   probing, power>>

\* run() has returned an error: main() exits, libkrun's init ends the VM.
AgentExits ==
    /\ On /\ err
    /\ power' = "lost"
    /\ UNCHANGED <<stage, err, port, hostSide, handled, scan, shutdown, serving,
                   probing>>

(* ---- podman and dropbear ---- *)

\* generateCompatScripts, or GenerateHostKey and WriteAuthorizedKeys; then the
\* supervisor starts the process.  An error cancels the errgroup.
SetUp(d) ==
    /\ On /\ ~err /\ daemon[d] = "setup"
    /\ \/ /\ daemon' = [daemon EXCEPT ![d] = "up"]
          /\ UNCHANGED err
       \/ /\ MayFail
          /\ err' = TRUE
          /\ UNCHANGED daemon
    /\ UNCHANGED <<stage, port, hostSide, handled, scan, shutdown, crashes,
                   probing, power>>

\* What runOnce is left with when a daemon dies.  Its output goes to the port
\* through a pipe of the agent, if there is a port: an ssh session or a
\* container monitor that outlives the daemon then keeps cmd.Wait waiting.
Gone == {"backoff"} \cup (IF port = "open" THEN {"held"} ELSE {})

Crash(d) ==
    /\ On /\ daemon[d] = "up" /\ crashes < MaxCrashes
    /\ crashes' = crashes + 1
    /\ \E gone \in Gone : daemon' = [daemon EXCEPT ![d] = gone]
    /\ UNCHANGED <<stage, err, port, hostSide, handled, scan, shutdown, probing,
                   power>>

\* The last process with the pipe ends; nothing makes it.
Release(d) ==
    /\ On /\ daemon[d] = "held"
    /\ daemon' = [daemon EXCEPT ![d] = "backoff"]
    /\ UNCHANGED <<stage, err, port, hostSide, handled, scan, shutdown, crashes,
                   probing, power>>

\* loop() after RetryDelay: Restart is set and MaxRetries is 0.
Restart(d) ==
    /\ On /\ ~err /\ daemon[d] = "backoff"
    /\ daemon' = [daemon EXCEPT ![d] = "up"]
    /\ UNCHANGED <<stage, err, port, hostSide, handled, scan, shutdown, crashes,
                   probing, power>>

(* ---- readiness ---- *)

Answers(p) ==
    CASE p = "ssh" -> daemon["dropbear"] = "up"
      [] p = "podman" -> daemon["podman"] = "up"
      [] p = "iface" -> TRUE

\* A tick of IsSSHReady, IsPodmanReady or IsInterfaceReady succeeds and the
\* host answers PostReady.
Post ==
    /\ On /\ ~err /\ ~timeUp
    /\ probe \in 1 .. Len(Probes) /\ Answers(Probes[probe])
    /\ posted' = posted \cup {Probes[probe]}
    /\ probe' = probe + 1
    /\ UNCHANGED <<stage, err, port, hostSide, handled, scan, shutdown, serving,
                   keyless, timeUp, power>>

\* IsSSHReady cannot write /.sshkey and is false at once: ssh is never posted,
\* and WaitGuestServiceReady goes on with podman.
KeyUnwritten ==
    /\ On /\ ~err /\ MayFail /\ ~timeUp
    /\ probe = 1
    /\ probe' = 2
    /\ keyless' = TRUE
    /\ UNCHANGED <<stage, err, port, hostSide, handled, scan, shutdown, serving,
                   posted, timeUp, power>>

\* The one timeout of all three probes: every probe that is left fails.  A
\* PostReady that fails ends them too.
ProbeTimeout ==
    /\ On /\ MayFail /\ probe \in 1 .. Len(Probes) /\ ~timeUp
    /\ timeUp' = TRUE
    /\ UNCHANGED <<stage, err, port, hostSide, handled, scan, shutdown, serving,
                   probe, posted, keyless, power>>

(* ---- the stop ---- *)

\* SendSignal writes the message to the signal pipe, at any time ...
WriteMessage(w) ==
    /\ On /\ w \notin writing /\ stops < MaxStops
    /\ writing' = writing \cup {w}
    /\ stops' = stops + 1
    /\ partial' = partial + 1
    /\ overlap' = (overlap \/ writing # {})
    /\ UNCHANGED <<stage, err, port, queue, handled, scan, shutdown, serving,
                   probing, power>>

\* ... and then its newline.
WriteNewline(w) ==
    /\ On /\ w \in writing
    /\ writing' = writing \ {w}
    /\ queue' = Append(queue, partial)
    /\ partial' = 0
    /\ UNCHANGED <<stage, err, port, stops, overlap, handled, scan, shutdown,
                   serving, probing, power>>

\* What kill(-1, SIGTERM) does to the children of run(): a mount or dropbearkey
\* that is killed makes its step fail, a daemon goes into the retry delay once
\* nobody has its pipe.
ChildrenKilled ==
    /\ daemon' \in [Daemons -> DaemonStates]
    /\ \A d \in Daemons :
         daemon'[d] \in CASE daemon[d] = "up" -> {"up"} \cup Gone
                           [] daemon[d] = "held" -> {"held", "backoff"}
                           [] OTHER -> {daemon[d]}
    /\ \/ UNCHANGED err
       \/ /\ At("disks") \/ At("virtiofs") \/ daemon["dropbear"] = "setup"
          /\ err' = TRUE

\* ... and to the children of WaitAndShutdown: `sync` killed before its system
\* call counts as done because its error is dropped; `poweroff` killed before
\* reboot(2) is never started again.
ShutdownChildKilled ==
    \/ UNCHANGED shut
    \/ shut = "sync" /\ shut' = "halt"
    \/ shut = "poweroff" /\ shut' = "over"

\* The scanner reads a line with one message and calls kill(-1, SIGTERM), which
\* spares the caller.
KillAll ==
    /\ On /\ port = "open" /\ scan = "idle"
    /\ queue # <<>> /\ Head(queue) = 1
    /\ queue' = Tail(queue)
    /\ handled' = handled + 1
    /\ scan' = "self"
    /\ ChildrenKilled
    /\ ShutdownChildKilled
    /\ UNCHANGED <<stage, port, partial, writing, stops, overlap, sigCh, synced,
                   crashes, probing, power>>

\* Two messages on a line, or an empty line, are no JSON value: Unmarshal fails
\* and the scanner goes on to the next line.
DropLine ==
    /\ On /\ port = "open" /\ scan = "idle"
    /\ queue # <<>> /\ Head(queue) # 1
    /\ queue' = Tail(queue)
    /\ UNCHANGED <<stage, err, port, partial, writing, stops, overlap, handled,
                   scan, shutdown, serving, probing, power>>

\* kill(self): before signal.Notify the default action ends the agent.
KillSelf ==
    /\ On /\ scan = "self"
    /\ scan' = "idle"
    /\ \/ /\ shut \in {"none", "new"}
          /\ power' = "lost"
          /\ UNCHANGED sigCh
       \/ /\ shut \notin {"none", "new"}
          /\ sigCh' = TRUE
          /\ UNCHANGED power
    /\ UNCHANGED <<stage, err, port, hostSide, handled, shut, synced, serving,
                   probing>>

\* WaitAndShutdown reaches signal.Notify.
Notify ==
    /\ On /\ shut = "new"
    /\ shut' = "wait"
    /\ UNCHANGED <<stage, err, port, hostSide, handled, scan, sigCh, synced,
                   serving, probing, power>>

\* <-sigCh, and the `sync` child is started.
Wake ==
    /\ On /\ shut = "wait" /\ sigCh
    /\ shut' = "sync" /\ sigCh' = FALSE
    /\ UNCHANGED <<stage, err, port, hostSide, handled, scan, synced, serving,
                   probing, power>>

\* `sync` has ended; SyncDisk drops its error, one of starting it included, and
\* closes diskSync either way.
SyncDone ==
    /\ On /\ shut = "sync"
    /\ shut' = "halt"
    /\ synced' \in {"end"} \cup (IF MayFail THEN {"failed"} ELSE {})
    /\ UNCHANGED <<stage, err, port, hostSide, handled, scan, sigCh, serving,
                   probing, power>>

\* diskSync is closed: the `poweroff -f` child is started ...
PowerOff ==
    /\ On /\ shut = "halt"
    /\ shut' = "poweroff"
    /\ UNCHANGED <<stage, err, port, hostSide, handled, scan, sigCh, synced,
                   serving, probing, power>>

\* ... and calls reboot(2).
PoweredOff ==
    /\ On /\ shut = "poweroff"
    /\ power' = "off"
    /\ UNCHANGED <<stage, err, port, hostSide, handled, scan, shutdown, serving,
                   probing>>

\* ... or fails, or could not be started: PowerOff drops the error and nobody
\* tries again.
PowerOffFails ==
    /\ On /\ shut = "poweroff" /\ MayFail
    /\ shut' = "failed"
    /\ UNCHANGED <<stage, err, port, hostSide, handled, scan, sigCh, synced,
                   serving, probing, power>>

\* The VM is off, or the agent waits for a stop or has given up on one.
Rest ==
    /\ ~On \/ shut \in {"wait", "over", "failed"}
    /\ UNCHANGED vars

Next ==
    \/ BootStep \/ OpenPort \/ SpawnShutdown \/ AgentExits
    \/ \E d \in Daemons : SetUp(d) \/ Crash(d) \/ Release(d) \/ Restart(d)
    \/ Post \/ KeyUnwritten \/ ProbeTimeout
    \/ \E w \in Senders : WriteMessage(w) \/ WriteNewline(w)
    \/ KillAll \/ DropLine \/ KillSelf
    \/ Notify \/ Wake \/ SyncDone \/ PowerOff \/ PoweredOff \/ PowerOffFails
    \/ Rest

\* Goroutines are scheduled, children make progress, retry delays end and the
\* probes tick every 100 ms.  The host finishes a message it has begun; nothing
\* makes it begin one, and nothing fair is asked of crashes or of the processes
\* that hold a daemon's pipe.
Fairness ==
    /\ WF_vars(BootStep) /\ WF_vars(OpenPort) /\ WF_vars(SpawnShutdown)
    /\ WF_vars(AgentExits)
    /\ \A d \in Daemons : WF_vars(SetUp(d)) /\ WF_vars(Restart(d))
    /\ WF_vars(Post \/ KeyUnwritten)
    /\ \A w \in Senders : WF_vars(WriteNewline(w))
    /\ WF_vars(KillAll) /\ WF_vars(DropLine) /\ WF_vars(KillSelf)
    /\ WF_vars(Notify) /\ WF_vars(Wake) /\ WF_vars(SyncDone)
    /\ WF_vars(PowerOff) /\ WF_vars(PoweredOff \/ PowerOffFails)

Spec == Init /\ [][Next]_vars /\ Fairness

-----------------------------------------------------------------------------
(* Safety.                                                                 *)

TypeOK ==
    /\ stage \in 1 .. Len(Stages)
    /\ err \in BOOLEAN
    /\ port \in {"closed", "open", "absent"}
    /\ queue \in Seq(Nat) /\ partial \in Nat /\ writing \subseteq Senders
    /\ stops \in Nat /\ overlap \in BOOLEAN /\ handled \in Nat
    /\ scan \in {"idle", "self"}
    /\ shut \in ShutStates
    /\ sigCh \in BOOLEAN /\ synced \in {"no", "end", "failed"}
    /\ daemon \in [Daemons -> DaemonStates]
    /\ crashes \in Nat
    /\ probe \in 0 .. Len(Probes) + 1
    /\ posted \subseteq {"ssh", "podman", "iface"}
    /\ keyless \in BOOLEAN /\ timeUp \in BOOLEAN
    /\ power \in {"on", "off", "lost"}

\* The shutdown goroutine is woken by the second kill of a stop, so the `sync`
\* of the first stop runs after that stop's kill(-1) is over.
ShutdownFollowsStop ==
    /\ shut \in {"sync", "halt", "poweroff", "over", "failed"} => handled >= 1
    /\ sigCh => handled >= 1
    /\ scan = "self" => handled >= 1
    /\ shut = "sync" /\ handled = 1 => scan = "idle"
    /\ sigCh /\ handled = 1 => scan = "idle"

\* Until a second stop, the guest is powered off only after `sync` has run to
\* its end or failed by itself: the kill(-1) of one stop never hits that stop's
\* own `sync`.
OneStopSyncs ==
    handled <= 1 =>
        /\ shut \in {"halt", "poweroff"} => synced # "no"
        /\ power = "off" => synced # "no"

\* What the scanner reads was written: every line, every unfinished message and
\* every handled stop goes back to a SendSignal.  As long as no two of them
\* overlapped, every line of the pipe is one whole message.
StopsWritten ==
    /\ queue # <<>> \/ partial > 0 \/ writing # {} \/ handled >= 1 => stops >= 1
    /\ ~overlap => /\ \A i \in 1 .. Len(queue) : queue[i] = 1
                   /\ \/ partial = 0 /\ writing = {}
                      \/ partial = 1 /\ \E w \in Senders : writing = {w}

\* The inductive invariant of the proofs.
GuestInv ==
    /\ TypeOK
    /\ StopsWritten
    /\ ShutdownFollowsStop
    /\ OneStopSyncs
    /\ power = "off" => shut = "poweroff"

-----------------------------------------------------------------------------
(* Liveness.                                                               *)

\* One stop message that the scanner handles ends the VM, by poweroff or by
\* losing the agent, unless `poweroff` fails by itself; a second stop may get in
\* the way.
OneStopEnds == handled >= 1 ~> (power # "on" \/ handled >= 2 \/ shut = "failed")

\* Once the services start, ssh (unless its key could not be written), podman
\* and the interface are all posted to the host, however the daemons crash,
\* unless a stop, an error or the timeout comes first, or a daemon that died has
\* left a process with its output pipe.
ReadinessPosted ==
    Stages[stage] = "services" ~>
        \/ posted = (IF keyless THEN {} ELSE {"ssh"}) \cup {"podman", "iface"}
        \/ timeUp \/ err \/ ~On \/ stops > 0
        \/ \E d \in Daemons : daemon[d] = "held"

\* Stopping the process shuts down the VM: a stop message is read and acted on
\* as soon as the port is open, unless the guest ends before that, has no port,
\* or two senders' writes to the pipe interleaved.  (Those give the scanner a
\* line it cannot parse and an empty one, and no stop is left of the two.)
LoneStopHandled ==
    stops >= 1 ~> (handled >= 1 \/ ~On \/ overlap \/ port = "absent")

-----------------------------------------------------------------------------
(* Refinement.                                                             *)

\* The agent implements its contract with the host: each service is reported at
\* most once, ssh never after podman, neither after the interface, only while
\* the VM runs, and there is no poweroff without a stop message.
Contract == INSTANCE GuestContract WITH
    vm <- IF power = "on" THEN "up" ELSE IF power = "off" THEN "halted" ELSE "died",
    told <- stops > 0,
    reports <- posted

ImplementsContract == Contract!Spec

=============================================================================
