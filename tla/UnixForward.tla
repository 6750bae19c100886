---------------------------- MODULE UnixForward ----------------------------
(***************************************************************************)
(* --forward-unix: a unix socket in the guest leads to one on the host.    *)
(* The host and the guest each number the same rules, in the order of the  *)
(* guest paths, and so agree on a vsock port per rule without exchanging   *)
(* it: the host maps its ports when the VM is created, the guest counts    *)
(* again from the machine description it fetches at boot.  The built-in    *)
(* ssh agent is one more rule, unless the user has one for its path.       *)
(*                                                                         *)
(* pkg/librevm/unix_forward.go, pkg/librevm/vm.go, pkg/define/             *)
(* unix_forward.go, pkg/libkrun/vsock.go, pkg/service/ssh/oo_ssh_agent.go, *)
(* pkg/service/ignition/server.go, cmd/guest-agent/pkg/service/            *)
(* unix_forwarder.go.  Relay models a connection once it is made.          *)
(***************************************************************************)
EXTENDS Naturals, Sequences, FiniteSets

CONSTANTS SpecLists,  \* the values of --forward-unix the user may give
          Blank,      \* a spec of white space
          Malformed,  \* a spec without a colon, an empty or a relative path
          FileOf,     \* the file each guest path names; paths are numbers, in
                      \* the order of the strings
          HostPaths,  \* the host paths a rule may name
          AgentGuest, \* OOSSHAgentGuestSocket
          AgentHost,  \* oo-ssh-agent.sock in the session's workspace
          Patches,    \* rules that PATCH /vmconfig may merge
          BasePort,   \* UnixForwardVSockBasePort
          MaxPort,    \* the largest vsock port
          None        \* no rule, no connection

GuestPaths == DOMAIN FileOf
Files == {FileOf[g] : g \in GuestPaths}

RuleSpecs == [guest : GuestPaths, host : HostPaths]

ASSUME ForwardAssumption ==
    /\ GuestPaths \subseteq Nat
    /\ SpecLists \subseteq Seq({Blank, Malformed} \cup RuleSpecs)
    /\ {Blank, Malformed} \cap RuleSpecs = {}
    /\ AgentGuest \in GuestPaths /\ AgentHost \in HostPaths
    /\ \A patch \in Patches : DOMAIN patch \subseteq GuestPaths
    /\ BasePort \in Nat /\ MaxPort \in Nat

VARIABLES
    stage,    \* "config", "build", "create", "boot", "start", "up", "failed"
    given,    \* --forward-unix as the user gave it
    agentEnv, \* SSH_AUTH_SOCK is set
    specs,    \* cfg.ForwardUnix
    agent,    \* the built-in agent: "off", "on", "serving", "ended"
    rules,    \* UnixSocketForwards of the machine, a function of guest paths
    mapped,   \* the rules whose ports krun_add_vsock_port2 has mapped
    krunErr,  \* it refused a port
    fetched,  \* UnixSocketForwards as the guest has it
    tried,    \* the guest paths StartUnixForwarder was called for
    bad,      \* those it failed for
    listen,   \* per file, the guest path whose listener it is
    conn      \* the last connection of a guest process: where, by which rule,
              \* and the host path it reached

vars == <<stage, given, agentEnv, specs, agent, rules, mapped, krunErr, fetched,
          tried, bad, listen, conn>>

hostVars == <<given, agentEnv, specs, mapped, krunErr>>
guestVars == <<fetched, tried, bad, listen, conn>>

-----------------------------------------------------------------------------
(* The pure parts.                                                         *)

\* parseForwardUnixRules: an error, or a map of the specs that are not blank.
Given(ss) == {i \in DOMAIN ss : ss[i] # Blank}
Valid(ss) ==
    /\ \A i \in Given(ss) : ss[i] # Malformed
    /\ \A i, j \in Given(ss) : ss[i].guest = ss[j].guest => i = j
Rules(ss) ==
    [g \in {ss[i].guest : i \in Given(ss)} |->
        ss[CHOOSE i \in Given(ss) : ss[i].guest = g].host]

\* mergeAutoForwardUnixRule.
TakenByUser(ss) ==
    AgentGuest \in DOMAIN Rules(ss) /\ Rules(ss)[AgentGuest] # AgentHost
Merged(ss) ==
    IF AgentGuest \in DOMAIN Rules(ss)
    THEN ss
    ELSE Append(ss, [guest |-> AgentGuest, host |-> AgentHost])

\* BuildUnixSocketForwardRoutes: the port of a rule is its index among the
\* sorted guest paths, unless that overflows.
Port(rs, g) == BasePort + Cardinality({k \in DOMAIN rs : k < g})
RoutesFit(rs) == \A g \in DOMAIN rs : Port(rs, g) <= MaxPort

\* The host path behind a vsock port, None when the port is not mapped.
Behind(rs, port) ==
    IF \E g \in DOMAIN rs : Port(rs, g) = port
    THEN rs[CHOOSE g \in DOMAIN rs : Port(rs, g) = port]
    ELSE None

-----------------------------------------------------------------------------
(* Plausible bugs of the definitions below.                                *)

\* The guest numbers the rules it could start.
DialStarted(g) == Behind(mapped, Port([k \in DOMAIN fetched \ bad |-> None], g))

\* The first error ends StartUnixForwarders.
StartForwarderOrReturn(g) ==
    /\ stage = "start" /\ RoutesFit(fetched)
    /\ g \in DOMAIN fetched \ tried
    /\ \A k \in DOMAIN fetched \ tried : g <= k
    /\ tried' = tried \cup {g}
    /\ \/ /\ listen' = [listen EXCEPT ![FileOf[g]] = g]
          /\ UNCHANGED <<bad, stage>>
       \/ /\ bad' = bad \cup {g}
          /\ stage' = "up"
          /\ UNCHANGED listen
    /\ UNCHANGED <<hostVars, agent, rules, fetched, conn>>

\* PATCH decodes into a fresh machine description.
PatchConfigReplacing(patch) ==
    /\ stage \in {"boot", "start", "up"}
    /\ rules' = patch
    /\ UNCHANGED <<stage, hostVars, agent, guestVars>>

-----------------------------------------------------------------------------

Init ==
    /\ stage = "config"
    /\ given \in SpecLists
    /\ agentEnv \in BOOLEAN
    /\ specs = given
    /\ agent = "off"
    /\ rules = <<>> /\ mapped = <<>> /\ krunErr = FALSE
    /\ fetched = <<>> /\ tried = {} /\ bad = {}
    /\ listen = [f \in Files |-> None]
    /\ conn = None

(* ---- the host: init, RunDocker ---- *)

\* configureOOSSHAgentForward.
ConfigureAgent ==
    /\ stage = "config"
    /\ \/ /\ ~agentEnv
          /\ stage' = "build"
          /\ UNCHANGED <<specs, agent>>
       \/ /\ agentEnv /\ ~Valid(specs)
          /\ stage' = "failed"
          /\ UNCHANGED <<specs, agent>>
       \/ /\ agentEnv /\ Valid(specs)
          /\ stage' = "build"
          /\ specs' = Merged(specs)
          /\ agent' = IF TakenByUser(specs) THEN "off" ELSE "on"
    /\ UNCHANGED <<given, agentEnv, rules, mapped, krunErr, guestVars>>

\* buildMachine parses the merged list again and tries the numbering.
BuildRules ==
    /\ stage = "build"
    /\ \/ /\ Valid(specs) /\ RoutesFit(Rules(specs))
          /\ stage' = "create"
          /\ rules' = Rules(specs)
       \/ /\ ~(Valid(specs) /\ RoutesFit(Rules(specs)))
          /\ stage' = "failed"
          /\ UNCHANGED rules
    /\ UNCHANGED <<hostVars, agent, guestVars>>

\* setupVSock: the ignition port and one port per rule, in their order; the
\* first error is returned.
SetupVSock ==
    /\ stage = "create"
    /\ \/ /\ stage' = "boot"
          /\ mapped' = rules
          /\ UNCHANGED krunErr
       \/ /\ stage' = "failed"
          /\ krunErr' = TRUE
          /\ UNCHANGED mapped
    /\ UNCHANGED <<given, agentEnv, specs, agent, rules, guestVars>>

\* startOOSSHAgent: the agent replaces its socket and serves, or its error is
\* logged and nothing more.
AgentRuns ==
    /\ stage \in {"boot", "start", "up"} /\ agent = "on"
    /\ agent' \in {"serving", "ended"}
    /\ UNCHANGED <<stage, hostVars, rules, guestVars>>

\* Serve returns an error; its deferred Remove takes the socket away.
AgentEnds ==
    /\ agent = "serving"
    /\ agent' = "ended"
    /\ UNCHANGED <<stage, hostVars, rules, guestVars>>

\* PATCH /vmconfig, from any client of the ignition socket.  Unmarshal fills
\* the map that is there: rules are added and replaced and never removed.
PatchConfig(patch) ==
    /\ stage \in {"boot", "start", "up"}
    /\ rules' = [g \in DOMAIN patch \cup DOMAIN rules |->
                    IF g \in DOMAIN patch THEN patch[g] ELSE rules[g]]
    /\ UNCHANGED <<stage, hostVars, agent, guestVars>>

(* ---- the guest ---- *)

\* GetVMConfig, over the ignition port.
FetchConfig ==
    /\ stage = "boot"
    /\ stage' = "start"
    /\ fetched' = rules
    /\ UNCHANGED <<hostVars, agent, rules, tried, bad, listen, conn>>

\* StartUnixForwarder for the next rule: the file is removed and a listener
\* made in its place, for whichever rule it was before.  An error before or
\* after the removal is logged, and the next rule is tried.
StartForwarder(g) ==
    /\ stage = "start" /\ RoutesFit(fetched)
    /\ g \in DOMAIN fetched \ tried
    /\ \A k \in DOMAIN fetched \ tried : g <= k
    /\ tried' = tried \cup {g}
    /\ \/ /\ listen' = [listen EXCEPT ![FileOf[g]] = g]
          /\ UNCHANGED bad
       \/ /\ listen' \in {listen, [listen EXCEPT ![FileOf[g]] = None]}
          /\ bad' = bad \cup {g}
    /\ UNCHANGED <<stage, hostVars, agent, rules, fetched, conn>>

\* StartUnixForwarders returns; at once, when the numbering fails.
ForwardersStarted ==
    /\ stage = "start"
    /\ ~RoutesFit(fetched) \/ tried = DOMAIN fetched
    /\ stage' = "up"
    /\ UNCHANGED <<hostVars, agent, rules, guestVars>>

\* vsock.Dial to the port of the rule, and libkrun's connect to the host path.
Dial(g) == Behind(mapped, Port(fetched, g))

\* serveUnixForwarder accepts a guest process and handleUnixForwardConn dials.
\* Nobody may be listening at the host path.
Connect(f) ==
    /\ stage \in {"start", "up"} /\ listen[f] # None
    /\ LET g == listen[f]
           at == IF Dial(g) = AgentHost /\ agent # "serving" THEN None ELSE Dial(g)
       IN  \E answer \in {at, None} :
               conn' = [file |-> f, rule |-> g, at |-> answer]
    /\ UNCHANGED <<stage, hostVars, agent, rules, fetched, tried, bad, listen>>

Next ==
    \/ ConfigureAgent \/ BuildRules \/ SetupVSock
    \/ AgentRuns \/ AgentEnds
    \/ \E patch \in Patches : PatchConfig(patch)
    \/ FetchConfig
    \/ \E g \in GuestPaths : StartForwarder(g)
    \/ ForwardersStarted
    \/ \E f \in Files : Connect(f)

Spec == Init /\ [][Next]_vars

-----------------------------------------------------------------------------

TypeOK ==
    /\ stage \in {"config", "build", "create", "boot", "start", "up", "failed"}
    /\ given \in SpecLists
    /\ agentEnv \in BOOLEAN /\ krunErr \in BOOLEAN
    /\ agent \in {"off", "on", "serving", "ended"}
    /\ DOMAIN rules \subseteq GuestPaths /\ DOMAIN mapped \subseteq GuestPaths
    /\ DOMAIN fetched \subseteq GuestPaths
    /\ tried \subseteq GuestPaths /\ bad \subseteq tried
    /\ listen \in [Files -> GuestPaths \cup {None}]

\* What the user asked for at a guest path: their own rule, or else the built-in
\* agent ("user config takes precedence", README).
Wanted(g) ==
    IF g \in DOMAIN Rules(given)
    THEN Rules(given)[g]
    ELSE IF agentEnv /\ g = AgentGuest THEN AgentHost ELSE None

\* A connection to a guest socket arrives at the host path the user gave for it,
\* however many of the other rules failed to start and whatever PATCH did to
\* the rule's host path since; only a guest path that PATCH added in front of it
\* shifts the numbers.
RoutedAsConfigured ==
    conn # None /\ conn.at # None =>
        \/ conn.at = Wanted(conn.rule)
        \/ \E g \in DOMAIN fetched \ DOMAIN mapped : g <= conn.rule

\* "One bad rule should not block": when the agent is through, every rule that did
\* not fail has the listener at its file, unless a later name of the same file
\* took it away; and no listener is at a file that its rule does not name.
SocketsServed ==
    /\ \A f \in Files :
           listen[f] # None =>
               /\ FileOf[listen[f]] = f
               /\ \A g \in tried \ bad : FileOf[g] = f => g <= listen[f]
    /\ stage = "up" /\ RoutesFit(fetched) =>
           \A g \in DOMAIN fetched \ bad :
               \/ listen[FileOf[g]] = g
               \/ \E k \in DOMAIN fetched : k > g /\ FileOf[k] = FileOf[g]

\* The built-in rule never makes a start fail: a start fails for what the user
\* gave, for want of ports or because libkrun refuses one.
BuiltInRuleHarmless ==
    stage = "failed" =>
        ~Valid(given) \/ ~RoutesFit(Rules(Merged(given))) \/ krunErr

\* What RoutedAsConfigured rests on: what the host has mapped is
\* what the user wanted, the guest has no fewer rules than the host mapped, and
\* only a list that was bad to begin with ends a start.
ForwardInv ==
    /\ TypeOK
    /\ BuiltInRuleHarmless
    /\ stage \in {"boot", "start", "up"} =>
           /\ Valid(given)
           /\ \A g \in DOMAIN mapped : mapped[g] = Wanted(g)
           /\ DOMAIN mapped \subseteq DOMAIN rules
    /\ stage \in {"start", "up"} => DOMAIN mapped \subseteq DOMAIN fetched
    /\ \A f \in Files : listen[f] # None => listen[f] \in tried
    /\ tried \subseteq DOMAIN fetched
    /\ stage \notin {"start", "up"} => fetched = <<>> /\ conn = None

=============================================================================
