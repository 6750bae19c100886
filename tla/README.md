# A formal model of ovm

This directory holds TLA+ models of `ovm` (the repository `ovm-next`): the
program that boots a Linux microVM with libkrun, runs a Podman engine in it and
exposes it to the host. Nine component modules are model-checked with TLC on small
instances; three of them are shown to implement an abstract specification; and
every safety property of the nine, the three refinements included, is proved with
TLAPS for every value of the constants.
`PROJECT.json` maps every definition to the source lines it models.

    tlc -workers 2 -config session.cfg MCSession     # a model-checking run
    tlapm SessionProofs.tla                          # the proofs of a module

## 1. Inventory

| Component | State | Operations | Talks to |
|---|---|---|---|
| **Session** `pkg/librevm/machine.go`, `vm.go`, `config.go`, `pkg/system/callback.go` | workspace directory, `<workspace>.lock`, flock, log, `data/data.img` | open log, lock (blocking, cancellable), build, run, cleanup callbacks in reverse order | other `ovm start` processes of the same `--id`, through the file system only |
| **Raw disks** `pkg/librevm/storage.go`, `pkg/disk`, `pkg/filesystem/xattr_*` | image files: contents, ext4 UUID, version xattr; `Machine.BlkDevs` | create, inspect, compare versions, regenerate, attach | the guest, which finds devices by UUID |
| **Configuration** `pkg/librevm/config.go`, `cmd/revm/init.go`, `start.go` | the compatibility file `/tmp/vmcfg-*.json`, the `Config` | `init` writes the file; `start` applies flags, overwrites from the file, normalises, validates | `init` and `start` processes of any session share one file |
| **Host lifecycle** `pkg/librevm/vm.go`, `pkg/service/lifecycle`, `pkg/service/ignition`, `pkg/gvproxy` | errgroup of services, two contexts, readiness channels, signal channel, force-exit timer | services run, fail, stop; boot; monitors of signals, parent and readiness; close | guest (signal pipe, `/ready`), management API |
| **Guest agent** `cmd/guest-agent` | boot stage, signal port, `WaitAndShutdown`, supervised daemons, probes | boot steps, `kill(-1)`, sync, poweroff, restart, post readiness | host (signal port, `/vmconfig`, `/ready`), kernel |
| **Exec stream** `pkg/service/management`, `pkg/sse`, `pkg/ssh`, `pkg/service/ssh` | per request: handler, executor, runner, two pipes and scanners; one shared SSE provider | accept, dial, run, scan, publish, cancel, return | HTTP clients, ssh server of the guest |
| **Relays** `pkg/gvproxy/tunnel.go`, `pkg/network/forwarder.go`, guest `unix_forwarder.go` | per connection: two sockets, two copying goroutines, a context | accept, dial, copy, close or half-close, cancel | clients on the host, servers in the guest, and the reverse |
| **Unix socket forwarding** `pkg/librevm/unix_forward.go`, `vm.go`, `pkg/define/unix_forward.go`, `pkg/libkrun/vsock.go`, `pkg/service/ignition`, guest `unix_forwarder.go` | rules (guest path to host path), vsock ports, guest listeners, the built-in ssh agent | parse, merge, number, map, fetch, PATCH, listen, connect | both sides number the rules by themselves and must agree |
| **Ports** `pkg/network/port.go`, `pkg/librevm/network.go`, `machine.go`, `pkg/gvproxy/gvproxy.go`, `host_services.go` | the TCP ports a session found, who listens on each | search (listen and close), bind later, restart daemons | other sessions and programs of the host |
| libkrun provider `pkg/libkrun` | the VM context | configuration calls, `Start`, `SendSignal` | host lifecycle |
| Event dispatcher `pkg/librevm/events.go` | subscribers | publish, close | report endpoint |
| virtio-fs mounts, archive extraction, attach, system probes, build scripts | none of their own | parsing, copying | |

What is hard here:

* **Concurrency.** Processes meet on a lock file that is also deleted; the host
  process is a dozen goroutines joined by selects whose ready cases are taken in
  any order; the guest handles a stop in the middle of its boot; an exec request
  is six goroutines and a provider shared by all requests; a relayed connection is
  two copies that close each other's sockets; sessions look for ports at the same
  time and give them back before they use them.
* **Failure.** A process can be killed between any two steps of the generation of
  a disk image; a service can fail while the VM runs; daemons crash and restart;
  clients stall or leave; a guest stops answering; two writers to the signal pipe
  garble each other's message.
* **Ordering.** Stop message before `cancel()`, services returned before the
  workspace is removed, `sync` before `poweroff`, the last event before the
  handler returns.
* **Time.** A 30 s force-exit timer, 60 s readiness timeouts, a 5 s dial timeout
  that covers part of the dial. Time is abstract in all modules: a timeout may
  fire at any moment at which its timer runs.

`PROJECT.json` lists 40 hazards at their lines, each with the properties that would
catch it.

## 2. Modules

    component      for TLC          proofs                implements
    Session        MCSession        SessionProofs         SessionOwner
    RawDisk        MCRawDisk        RawDiskProofs
    VMConfig       MCVMConfig       SessionProofs
    HostLifecycle  MCHostLifecycle  HostLifecycleProofs
    GuestAgent     MCGuestAgent     GuestAgentProofs      GuestContract
    ExecStream     MCExecStream     ExecStreamProofs      ExecContract
    Relay          MCRelay          RelayProofs
    UnixForward    MCUnixForward    UnixForwardProofs
    Ports          MCPorts          PortsProofs

A proof module extends its component; SessionProofs extends VMConfig as well (whose
specification is `ConfigSpec`), since the Config decides which session a start belongs
to and which disk it opens there. An MC module extends its component with the values a
`.cfg` cannot write. Each component module has a section "Plausible bugs" with mutated
versions of some actions; they are not part of `Next` and serve to show that the
properties can fail.

### Session

Processes started with the same `--id`. `pc[p]` follows `New` and `RunDocker`:
`setupLoggers` (`OpenLog`), `setupWorkspace` up to `flock(2)` (`OpenLock`), the
grant (`Grant`), `buildMachine` in two parts (`PrepareRootfs`, `BuildMachine`),
the run, or a failure, whose callbacks run last-registered first:
`RemoveAll(workspace)`, `Unlock`, `Remove(<workspace>.lock)`. `lockPath` is the
inode the path names now and `fd[p]` the one a process has open: the two can
differ, which is the whole difficulty. A process may end at any point without its
cleanup (`Exit`: a kill, a `krun_start_enter` that exits with the guest). The
ctx.Done arm of `lock()` is `CancelLock` and `UnlockCancelled`; the CLI's context
cannot be cancelled that early, a library caller's can. `forked` is a history
variable: a lock file was unlinked while somebody had it open.

### RawDisk

`storage.go` for one session: the var disk first, then the external ones in order.
An image has a form (absent; empty, a file without a superblock; torn, with a
superblock and incomplete contents; ext4), a UUID, a version xattr, whether a
guest has used it, and where it came from. `Stat`, `Inspect`, `ReadVersion`,
`Remove`, `Extract`, `WriteUUID`, `WriteVersion`, `Attach` are the system calls in
the order of the code, for the create, keep and regenerate paths; `Interrupt` is a
crash or an I/O error at any of them, after which the launcher starts again with
any requested versions, any UUID for each external disk and any mount point: a UUID
may be random, the user's `uuid=`, the fixed one `init` gives the source disk, or the
one of another disk, and the images found at the paths may be copies of each other.
`planned` records what a start should give each disk (`Plan`: the UUID the image has,
or else the one asked for). The guest's `mount.go` takes the devices by UUID
(`MountList`, `MountCandidates`, `GuestMount`, `GuestMountFails`).

### VMConfig

`init` rewrites one file for all sessions, in two steps (`os.WriteFile` truncates,
then writes) between which it may die. `start` builds a `Config`: a text field is
modelled by the source of its value (unset, default, flag, file), CPU count and
memory by their numbers. `OverwriteCfgFrom`, `NormalizeConfig`, `ValidateConfig`
and the narrowing to libkrun's integers (`MachineCPUs`, `% 256`; `MachineMemory`,
`% MemLimit`) are operators. A `--network` that `validateConfig` does not know rejects
the start in `StartNew`.

### HostLifecycle

One process in `RunDocker`. One variable per goroutine (`main`, `svc[s]`, `probe`,
`evmon`, `pmon`, `smon`), the two nested contexts (`cancelled`, the outer one;
`failed`, the errgroup's own cancellation; `GroupDone` is what everybody waits
on), the closed readiness channels, the signal channel, the timer, and whether a
stop message has been written to the guest's pipe (`told`). A select with several
ready cases is several enabled actions. `network` is the mode of the process: in TSI
mode the network service returns at once. A service that returns may leave goroutines
behind (`svc[s] = "left"`): `ignition.Start` does not wait for its `Serve` goroutine,
and `gvproxy.Run`, when it fails, not for the servers it has started; those shut down,
close their listener and remove their socket later (`LeftServerEnds`, as far as others
see it), or end with the process (`ProcessEnds`). `RunMain`, `RunNetwork` and the other
`Run...` actions group the steps of one goroutine. The guest is abstract: it may come
up, report its services in any order (`handleReady` checks none), obey a stop, exit by
itself or hang; the last stands for a stop that got lost as well.

### GuestAgent

`run()` as a sequence of stages, each of which may return an error. The signal
port opens after the pseudo file systems and long before `WaitAndShutdown` is
spawned and calls `signal.Notify`. `SendSignal` writes a message and its newline in
two calls without a lock, so two senders can garble each other's line
(`WriteMessage`, `WriteNewline`, `DropLine`). The scanner answers each stop with
`kill(-1, SIGTERM)`, which hits every child (daemons, `sync`, `poweroff`), and then
with a kill of its own process. `sync` and `poweroff` may be killed by a second stop or
fail by themselves; the code drops both errors (`SyncDone`, `PowerOffFails`). Daemons
crash and are restarted by the supervisor after a delay, but only once `cmd.Wait` has
returned: their output goes through a pipe to the agent's log, and a process that a dead
daemon left behind (an ssh session, a container monitor) may have that pipe open
(`"held"`, `Release`). The probes for ssh, podman and the interface run one after the
other under one timeout; the one for ssh gives up at once if it cannot write its key
(`KeyUnwritten`).

### ExecStream

`POST /exec` in its streaming form. Per request: the handler in `ServeHTTP`,
`executeCommand`, `RunWith`, and for each of stdout and stderr a pipe and a
scanner; for all requests one goroutine of the SSE provider (`joe`), which
writes to the client inside its loop and keeps no event for later. A write to a pipe
is an ordinary line, one above the scanner's 1 MiB limit, or a last line of
exactly the limit. Clients leave or stall; the guest stops answering. `early` and
`cut` are history variables for the two ways in which output is lost, and
`ProviderStuck` says that the provider is in a write to a client that does not read.

### Relay

One connection through any of the three relays, chosen in `Init`. A relay holds a
socket to each end and runs a copy per direction; a byte is counted where it is
(`sent`, `taken`, `moved`, `got`). `EndCopy` is where the relays differ: the tunnel's
first copy closes both sockets, one after the other; the other two close the write
side of the destination. Only the proxy has a goroutine that watches its context.
The ends are external: they send, finish, leave, stop reading, and read an EOF or a
reset, as the kernel gives it to them (closing a socket with unread bytes resets).

### UnixForward

The life of one session's `--forward-unix` rules. Guest paths are numbers in the order
in which the code sorts them; `FileOf` says which of them name the same file after
symbolic links, which path cleaning does not see. The host parses the list
(`Rules`, `Valid`), adds the built-in agent's rule unless the user has one for its
path (`Merged`), numbers the rules (`Port`) and maps the ports in libkrun
(`SetupVSock`, which may fail at any port); the guest fetches the machine, numbers
again and listens. `PatchConfig` is the merge of `PATCH /vmconfig`, at any time.

### Ports

Several sessions on one host, each with its network mode. A search of
`GetAvailablePort` is two steps (`OpenProbe`, `CloseProbe`), and the port found is
used later: by `virtualnetwork.New` on the host or by a supervised daemon in the
guest. `Space` says in which address space a listener lives: with TSI the guest's
daemons listen on the host. Other programs of the host take and release ports at any
time. A daemon that has exited may leave a process with its output pipe, and is not
started again before that has ended (`held`, `PipeCloses`). `InfoReaches` and
`PodmanProxy` are where a client ends up.

### Abstract specifications

* **SessionOwner**: at most one owner; only the owner changes the workspace and the
  disk; one owner ends before the next begins; nothing is promised once the lock is
  broken. `Session` maps `forked` to `broken`.
* **GuestContract**: what the guest promises the host: stops may come at any time; the
  services are reported by a running guest only, each at most once and none after a later
  one (ssh, podman, interface; any may be missing); a guest powers itself off only after
  a stop. `GuestAgent` implements it. The host does not depend on the order: its
  `handleReady` accepts any.
* **ExecContract**: lines the command wrote, then one outcome, then nothing; "done"
  comes after every line unless the request may have lost some.

## 3. Runs

| Run | Instance | Checks |
|---|---|---|
| `session` | 3 processes, 4 inodes, symmetric; 50 035 states | `SessionInv`, `ExclusiveUnlessForked`, `WorkspaceIntactUnlessForked`, `OwnerFilesKept`, `ImplementsOwnership` |
| `session_exclusion` | same | *violation* of `MutualExclusion` |
| `rawdisk` | var disk and 1 external disk, 2 versions, 4 UUIDs, 1 `mnt=` besides `/var`, 2 faults; 543 050 states | `RawDiskInv`, `VarDiskSound`, `GuestFindsDisks`, `GuestDataKept`, `RecoversUnlessStuck` |
| `vmconfig` | CPU and memory values at the limits, 4 flags; 176 613 states | `BuiltMachineValid`, `VarDiskUnderSessionLock`, `InitDiskUsedUnlessTorn` |
| `vmconfig_flags` | same | *violation* of `FlagsOverrideFile` |
| `host` | both network modes, the network stack may fail, 1 signal, stop requests; 259 137 states | `CancelledGuestIsTold`, `CleanupAfterServices`, `CaughtSignalEnds`, `OrphanEndsUnlessUnwatched`, `PodmanReadyReported` |
| `guest` | 2 senders, 3 stops, 2 crashes, failing steps; 329 601 states | `OneStopSyncs`, `OneStopEnds`, `LoneStopHandled`, `ReadinessPosted`, `ImplementsContract` |
| `exec` | 1 request, 2 lines per stream, all kinds of line, stalls, hangs; 106 040 states | `DoneMeansComplete`, `OutcomeTold`, `LeftRequestEnds`, `ImplementsContract` |
| `exec_shared` | 2 requests on one provider, the second with a line of any kind and a client that may stall; 277 726 states | `FinishedRunEnds`, `LeftRequestEnds` |
| `relay` | the 3 relays, 2 bytes up, 1 down, sockets that hold 1; 182 571 states | `RelayInv`, `CleanEndComplete`, `ConnectionsEnd`, `CancelEndsProxy` |
| `forward` | 5 guest paths of 4 files, 8 lists of rules, 3 patches, 4 ports; 42 427 states | `ForwardInv`, `RoutedAsConfigured`, `SocketsServed` |
| `ports` | 2 sessions, every pair of modes, 2 ephemeral ports and the preferred one; 300 608 states | `PortsInv`, `ClientsReachOwn`, `RaceHasWinner`, `DaemonsListen` |

### What they show

**session.** As long as no lock file was unlinked while another process had it
open, a session has one owner, the workspace it built stays its own, and its log
and disk are not removed under it, whatever the order of starts, kills, failures
and late grants: `Session` implements `SessionOwner`.

**session_exclusion.** The condition can fail: the cleanup unlocks first and
removes the lock file by name afterwards. A waiter is granted in between, its file
is unlinked, and a third start locks a new inode. The usage text of `--id`
promises mutual exclusion.

**rawdisk.** Whatever was at the two paths and wherever earlier starts were
interrupted: a running guest has a complete var disk with the fixed UUID and the
requested version, because the fixed UUID is written only into a complete image.
Guest data is dropped in the cases `MayDrop` lists and no other; two of them are
not in the README's tables: a start without a version, and a version that could
not be read (`needsDiskRegeneration` logs the error and goes on with an empty
string). Every image of a running guest has the UUID it had or, if it was missing, the
one asked for, through every removal and generation, and the guest mounts it at its
place unless another disk has the same UUID or the same mount point; nothing in the
code rejects a UUID that is given twice. After a crash the next start succeeds,
unless the crash came inside the extraction: a file without a superblock then
fails `Inspect` at every later start (the README's table says "regenerate"), and a
torn external disk is kept and may fail its mount.

**vmconfig.** No machine is built with a wrapped CPU count or without a session name,
and none with less memory than 512 MB, unless the configuration asks for 2^32 MB or
more: `validateConfig` has no upper limit for the memory, and `setResources` narrows it
to a uint32; a session that takes its name from the file takes its disk from
there as well; `init`'s disk is used unless the file was torn when `start` read it.
A torn file is ignored in silence and the VM comes up on another disk.

**vmconfig_flags.** docs/oomol-studio.md says that flags override the file; the code
applies the flags first and the file over them.

**host.** `RunDocker` may boot the VM after `cancel()` (both cases of its last select
can be ready), but such a VM finds a stop message in its pipe, because both monitors
send before they cancel. `Close` removes the workspace after all services have
returned. Two of them may have goroutines left that close their listeners and remove
socket files by name: ignition's server, whose `Shutdown` alone may take 3 s, and the
servers of a network stack that failed; management and the podman proxy are gone by then.
A caught signal ends the process, and so does the death of the parent, up to the
exceptions written in the properties: a failed service ends both monitors while the
VM goes on (a signal in `sigCh` may then be dropped), and after a caught signal
nothing forces a hanging guest, since the 30 s timer belongs to the parent monitor
alone.

**guest.** Until a second stop arrives, the guest is powered off only after `sync`
has ended or failed by itself, and one stop ends the VM, unless `poweroff` itself fails,
which nobody notices. The exception for a second stop is needed: its
`kill(-1)` can hit `sync` or `poweroff`, whose error is dropped, after which nobody
reads the signal channel any more. A stop that is handled before `signal.Notify` ends
the VM too, but by killing the agent, without `sync`; the comment at the kill
(main.go:87) says that it triggers `WaitAndShutdown`. A stop that is written is acted
on, unless two senders overlapped: without that exception TLC shows two messages on
one line, which does not parse, followed by an empty line, and neither stop is
handled. Readiness is posted through daemon crashes, unless a process that a dead daemon
left behind holds up its restart; ssh is not posted if its key cannot be written, and
podman then is all the same.

**exec.** A client that is told "done" has received every line, except for events
published before the subscription and for a last line that fills the scanner's
buffer exactly. The handler returns to a client that stayed only after it wrote the
outcome. A client that leaves takes all goroutines of its request with it, a command
blocked on an overlong line included. The exceptions are a guest that hangs during the ssh handshake or `NewSession`, which
have neither a deadline nor the context (the dial timeout covers `net.Dial` only), and
a client that does not read and whose event the shared provider is writing.

**exec_shared.** Two requests on the one provider: a finished command ends its response,
and a client that leaves its request, whatever the other one does, unless the provider is caught
in a write to the other's client. A stalled client that is sent nothing holds nobody up,
and one that leaves sets the provider free. The run has two requests with one line
between them; the safety theorems hold for any number.

**relay.** An end that reads an EOF has all that the other end sent, with the
exceptions `CleanEndComplete` lists, each of which TLC shows to be needed. The one a
user of the podman socket may meet is the tunnel's: a client that half-closes and
waits for its answer can see the connection end first, since the tunnel passes no
half-close on. In return no tunnel connection outlives an end, while a proxy
connection lasts until both ends have finished or the context is done. An end that
does not read can hold a connection in all three; only the proxy's context frees it.

**forward.** A connection arrives at the host path the user configured, whichever
rules failed to start. The one way to misroute it is a `PATCH` that adds a guest path
before the guest has fetched its rules: the host has mapped its ports already, and
the guest numbers one rule more. The built-in agent's rule does not make a list fail
that would have been valid, other than by taking one of the ports.

**ports.** The code calls the search at gvproxy.go:83 a "Port TOCTOU". Losing that race
makes the start fail, and never leaves a running gvisor session whose reported ssh port
leads elsewhere; among sessions alone, one always gets through. A TSI session
is weaker: until its own daemon listens, the port that `info` reports and the one that
the podman readiness ping asks may be another session's. The two searches of one
session can return the same port, whose loser is then restarted for ever. A daemon whose
port is free listens again, unless a process it left behind keeps `cmd.Wait` waiting.

Three more disagreements met while reading have no run: `--report-url` wins over
`--report-events` (docs/oomol-studio.md:103 says the opposite); `--memory` below 512 is
rejected (the usage text in start.go:22 says it is replaced by the default); and
`SSHEndpoint` returns the guest's own address in gvisor mode, where the host cannot
reach it (the comment at vm_access.go:125 calls it "suitable for direct connections").

### Bounds, and why they are enough

* `Procs` 3: one that cleans up, one that waits on the same inode, one that comes
  after the unlink. `Inodes` 4: one more than can be in use, so that `OpenLock` never
  lacks one. All processes and inodes play the same roles: symmetry.
* One external disk beside the var disk shows the interplay of two entries with one
  UUID or one mount point; two versions give same, different and none; two UUIDs besides
  the fixed and the shipped one let a start ask for the UUID the image has or for another;
  two faults allow a crash in the recovery from a crash. A path that is given twice is
  asked for one version, UUID and mount point, and a `uuid=` is well formed.
* CPU counts -1, 0, 1, 127 for flags and -1, 0, 255, 256, 257 for `init`; memory 0,
  511, 512 for flags and 0, 512 and the limit of the integer for `init`: the limits and
  their neighbours. 257 CPUs are 1 when narrowed. `MemLimit` is 2^32 in the code, beyond
  TLC's integers; the run has 32768 in its place, the proof any number above 512.
* One signal and one failing service reach all exceptions of the host's properties; the
  safety ones are proved for any number of both.
* Two senders are what it takes to overlap. Three stops: one during the boot, one that
  starts the shutdown, one that disturbs it. Two crashes: either daemon, or the same
  daemon again after its restart.
* Two lines per stream: one with the client and one on its way. Two requests and one line
  between them: a request that is over, or was left, while the provider is busy with the
  other's client.
* Two bytes and sockets that hold one: one byte delivered, one that the copy has read and
  cannot write. One byte down is enough for an answer that is lost or a reset.
* Guest path 3 is the agent's, with rules before, at and behind it; 4 and 5 name one
  file. Four rules and the agent's are one more than the four ports.
* Two sessions race for the preferred port. Two ephemeral ports: few enough to run out
  of, and to be found twice.

Deadlock is checked everywhere but in `exec`, `relay` and `forward`, where a request or a
connection that is over, a client that stalls for good, and a start that failed are
final states.

### Fairness

Weak fairness is assumed of steps the Go scheduler, the kernel or the loop of a
goroutine takes without outside help, and of nothing else.

* RawDisk: `Progress`. The code is sequential and the launcher starts again.
  `Interrupt` is not fair and its number is bounded.
* HostLifecycle: one condition per goroutine (`RunMain`, `RunNetwork`, ...), so that the
  cases of a select share one (the runtime picks any ready case); the expiry of a running
  timer; a guest that has not hung powers off. Nothing is assumed of services failing,
  signals, the parent, or the guest's readiness.
* GuestAgent: the goroutines of the agent, a sender that has written its message and
  goes on to the newline, the agent's children (`sync` and `poweroff` end, well or not),
  the supervisor's restarts once `cmd.Wait` has returned, probes of a daemon that is up.
  Nothing is assumed of the host, of crashes, of the timeout or of the processes that
  have a daemon's pipe open.
* ExecStream: each goroutine, and a guest that answers as long as it has not hung.
  Nothing is assumed of the command (it may run forever), the clients or a hung guest.
* Relay: each copy, the deferred closes and the goroutine that watches the context; an
  end that has not stopped reading reads. A dial ends by itself, except in a tunnel,
  whose handshake has no deadline. Nothing is assumed of what the ends send.
* Ports: a process goes on with its search, and the supervisor tries its daemon again
  500 ms after `cmd.Wait` has returned. Nothing is assumed of the processes that keep it
  waiting or of the other programs.
* Session, VMConfig and UnixForward have safety properties only.

## 4. Proofs

Each `*Proofs` module proves `Spec => []Inv` by an inductive invariant, with one
lemma per conjunct or per action and one case per action; the last step is
propositional temporal logic. The named invariants of the components are checked by
the runs; the strengthenings that only the proofs need are defined in the proof modules
and were checked with TLC on the instances of the runs before they were proved.

| Theorem | Statement |
|---|---|
| `SessionProofs!SessionInvariant`, `Exclusion`, `WorkspaceIntact`, `OwnerKeepsFiles` | one owner, its workspace, log and disk untouched, for any number of processes and inodes, unless forked |
| `SessionProofs!OwnershipImplemented` | `Session` implements `SessionOwner` |
| `SessionProofs!ConfigInvariant`, `BuiltMachineTheorem`, `VarDiskLockedTheorem`, `InitDiskUsedTheorem` | a machine that gets built is valid, its CPU count does not wrap, and its memory not below the range of the integer, for all numbers; session and disk come from the file together; `init`'s disk is used unless the file was torn |
| `RawDiskProofs!RawDiskInvariant`, `VarDiskIsSound`, `GuestDataIsKept` | the var disk of a running guest is sound and data is dropped in the listed cases only, for any disks, versions, UUIDs and number of crashes |
| `RawDiskProofs!GuestFindsDisksTheorem` | every image has the UUID planned for it and is mounted at its place, unless another disk shares one of them, for any disks, UUIDs and mount points |
| `HostLifecycleProofs!HostInvariant`, `CancelledGuestToldTheorem`, `CleanupTheorem` | a cancelled VM is told, cleanup comes after the services have returned, with the named goroutines at most left, for either network mode, any faulty services, any number of signals |
| `GuestAgentProofs!GuestInvariant`, `OneStopSyncsTheorem` | power off after sync has ended or failed by itself, until a second stop, for any number of stops and crashes |
| `GuestAgentProofs!AgentKeepsContract` | `GuestAgent` implements `GuestContract`, with failing keys, crashes and any number of stops |
| `ExecStreamProofs!ExecInvariant`, `DoneIsComplete`, `OutcomeIsTold` | "done" means complete, and the outcome is told, for any requests and output |
| `ExecStreamProofs!ExecKeepsContract` | all requests together implement `ExecContract` |
| `PortsProofs!PortsInvariant`, `ClientsReachOwnTheorem`, `RaceHasWinnerTheorem` | one listener per port, clients reach their own session, a race has a winner, for any sessions and ports |
| `UnixForwardProofs!ForwardInvariant`, `RoutedTheorem`, `SocketsServedTheorem` | connections arrive where the user said and every good rule is served, for any lists, patches and port range |
| `RelayProofs!RelayInvariant`, `CleanEndTheorem` | an EOF means a complete stream up to the listed exceptions, in all three relays, for any number of bytes and socket size |

Why the invariants are what they are:

* **SessionInv.** Exclusion itself is not inductive: a grant needs to know who holds
  what. Owners hold the flock of their inode (`OwnersHold`), flock is exclusive per
  inode (`ExclusivePerInode`), and without a fork every open descriptor is on the
  inode the path names (`SameInodeUnlessForked`); together they give one owner.
  The refinement needs the converse as well (`OwnerExact`: the abstract owner is the
  one process in an owner's stage); a step that forks is the abstract `Break`, and
  everything after it is `Chaos`.
* **ConfigInv.** A file that can be decoded was written by one `InitWrite`, so it
  names a session and a disk; hence `OverwriteCfgFrom` replaces both or neither, and
  a file that is neither torn nor absent gives the disk.
* **RawDiskInv.** `VarUUIDMeansComplete` carries what survives a crash;
  `StepReady` says what each step leaves for the next (in particular that `remove`
  is reached only when `MayDrop` holds); `VarDone` says that the disks after the
  first do not undo the first; `AttachedPresent` and `BlkDevsOK` are needed for the
  mount in the guest.
* **PlanInv.** While an image is being generated its UUID is on no file: `TargetPlanned`
  says that `target` holds the planned one then, `PlanKept` that every other disk still
  is as planned, and `DevsPlanned` that `BlkDevs` lists the disks in order with what is
  planned. A finished `BlkDevs` and the guest's choice by UUID give the mount.
* **HostInv.** `StopPrecedesCancel` relates the monitors' program counters, the
  context and the stop message; the exception is a boot that failed, after which
  nothing boots. `LeftBehind` says which services can have goroutines left.
* **GuestInv.** `ShutdownFollowsStop` ties the states of `WaitAndShutdown` to the
  stops handled and to `sync`; for the contract, `PostedBefore` adds that what has been
  posted lies before the probe under way.
* **ExecInv.** `LinesAccounted`: each line the command wrote is with the client, the
  provider, a scanner or the pipe. `RunConsistent` and `ProviderConsistent` relate the
  goroutines' states, `OutcomeDue` follows the outcome from `Publish` to the client.
  For the contract, `StreamOrdered` adds what is on its way: no line behind an
  outcome, one outcome, and scanners that have returned before it is published.
* **Ports.** `StageInv` says which ports a session has found at each stage and that
  one which is up in gvisor mode still has its forwarder; the exclusivity of listeners
  (`Exclusive`) then identifies whoever answers. For `RaceHasWinner` it says, too, that
  without other programs nobody else has the port a session lost. `HeldInv` keeps the
  daemons that wait for their pipe apart from those that listen.
* **UnixForward.** A port is determined by the number of rules before its own, so the
  proof rests on lemmas about counting (`PortsDiffer`, `PortGrows`, `BehindOwnPort`):
  two sides that agree on the rules up to a path agree on its port. `HostStage` follows
  the rules from the command line through the merge with the agent's to libkrun;
  `StartOrder` follows the loop of the guest over the sorted paths.
* **Relay.** `HalfCloses` ties a half-closed socket to the copy that is through with its
  direction. A tunnel has no half-close, so it needs `FirstClose`: of two copies that have
  ended, one ended for a reason of its own and not because the other closed its sockets.

Assumptions, all named and evaluated by TLC in the runs: the special values (`NoProc`,
`NoIno`, `NoUUID`, `NoVer`, `Free`, `NoPort`) are none of the ordinary ones; the var
disk is not an external disk and external disks form a sequence (which may name a disk
twice); the fixed UUID, the UUID in the shipped image and the others differ; no mount
point is the special one; the bounds are natural numbers; `Faulty` is a set of services
and `Networks` a set of the two modes; CPU counts are integers and amounts of memory
natural numbers, and `MemLimit` is above 512; a list of forward rules is a sequence of
specs, each blank, malformed or a pair of known paths, and patches name known guest
paths.

Only model-checked: the liveness properties, since fairness and `ENABLED` are out of the
prover's reach (`RecoversUnlessStuck`, `CaughtSignalEnds`, `OrphanEndsUnlessUnwatched`,
`PodmanReadyReported`, `OneStopEnds`, `LoneStopHandled`, `ReadinessPosted`,
`FinishedRunEnds`, `LeftRequestEnds`, `ConnectionsEnd`, `CancelEndsProxy`,
`DaemonsListen`). Nothing here needs induction over data, and no module declares a
RECURSIVE operator.

## 5. Not modelled

* External code is modelled from its use: `flock(2)` and gofrs/flock (its `Unlock`
  needs the mutex that `Lock` holds inside `flock(2)`), errgroup, os/signal, go-sse's
  provider, io.Pipe, bufio.Scanner, the kernel, `sync`, `poweroff`, libkrun.
* The event dispatcher: events are emitted by one goroutine at a time, and publish
  and close exclude each other by a lock; which events are emitted is in
  HostLifecycle. `VNetGuestReady` has no consumer.
* `healthz` and `GET /vmconfig`, which only read; `attach`; system probes; build scripts.
* virtio-fs: the parsing of `--mount` and the tag hashed from the target are functions of
  one string without state; the mount itself is a step of GuestAgent.
* The configuration calls of libkrun, a straight sequence of which any may fail, but for
  the vsock ports (UnixForward); archive entries and modes, which are libarchive's; the
  packets inside gvisor-tap-vsock; the ssh agent protocol.
* `MaxRunTimeout`, `MaxRetries` and `Stop` of the supervisor, which have no caller.
* The formats of log lines and of the JSON file; a string that is split and checked
  (a rule, a port number) is modelled by the outcome.

## 6. Plan

Done: the nine components, in the order in which a mistake costs most (Session, RawDisk,
VMConfig, HostLifecycle, GuestAgent, ExecStream, then Relay, UnixForward, Ports), the
three abstract specifications with their refinements, and the proofs of all safety
properties.

Next:

1. the safety half of the liveness properties, as invariants that say what each waiting
   goroutine waits for (for instance: a signal that was caught has a monitor, a message
   in the pipe or a timer), proved from `HostInv`, `GuestInv` and `ExecInv`;
2. the lemmas that two proof modules share (images that differ in one field, counting of
   rules) stated once, should a further component need them.
