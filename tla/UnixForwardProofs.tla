-------------------------- MODULE UnixForwardProofs --------------------------
(***************************************************************************)
(* Proofs about UnixForward for every list of rules, every set of guest    *)
(* paths and every range of ports: the numbering of the rules is one to    *)
(* one and grows with the rules, host and guest agree on it as far as they *)
(* have the same paths, and the forwarders are started in its order.       *)
(***************************************************************************)
EXTENDS UnixForward, FiniteSetTheorems, SequenceTheorems, TLAPS

\* What is assumed of the numbers.
LEMMA Numbers == GuestPaths \subseteq Nat /\ BasePort \in Nat /\ MaxPort \in Nat
BY ForwardAssumption

\* The numbers of a rule are natural numbers: finitely many paths come before
\* one that is a number.
LEMMA PortType ==
    ASSUME NEW D \in SUBSET GuestPaths, NEW g \in GuestPaths
    PROVE  /\ IsFiniteSet({k \in D : k < g})
           /\ Cardinality({k \in D : k < g}) \in Nat
<1> DEFINE S == {k \in D : k < g}
<1>1. S \in SUBSET Nat /\ g \in Nat /\ \A k \in S : k <= g
  <2>1. g \in Nat /\ \A k \in D : k \in Nat
    BY Numbers
  <2>2. \A k \in S : k \in Nat /\ k < g
    BY <2>1
  <2> HIDE DEF S
  <2>3. S \in SUBSET Nat
    BY <2>2
  <2>4. \A k \in S : k <= g
    BY <2>1, <2>2
  <2> QED
    BY <2>1, <2>3, <2>4
<1>2. IsFiniteSet(S)
  BY <1>1, FS_BoundedSetOfNaturals
<1> QED
  BY <1>2, FS_CardinalityType

\* Two rules never have the same port.
LEMMA PortsDiffer ==
    ASSUME NEW rs, DOMAIN rs \subseteq GuestPaths,
           NEW g \in DOMAIN rs, NEW h \in DOMAIN rs, Port(rs, g) = Port(rs, h)
    PROVE  g = h
<1> DEFINE Below(x) == {k \in DOMAIN rs : k < x}
<1>1. ASSUME NEW a \in DOMAIN rs, NEW b \in DOMAIN rs, a < b
      PROVE  Cardinality(Below(a)) # Cardinality(Below(b))
  <2>1. a \in Nat /\ b \in Nat /\ \A k \in DOMAIN rs : k \in Nat
    BY Numbers
  <2>2. Below(a) \in SUBSET Below(b)
    BY <1>1, <2>1
  <2>3. a \in Below(b) /\ a \notin Below(a)
    BY <1>1, <2>1
  <2>4. IsFiniteSet(Below(b))
    BY PortType
  <2> HIDE DEF Below
  <2>5. Cardinality(Below(b)) = Cardinality(Below(a)) => Below(b) = Below(a)
    BY <2>2, <2>4, FS_Subset
  <2> QED
    BY <2>3, <2>5
<1>2. /\ Cardinality(Below(g)) \in Nat
      /\ Cardinality(Below(h)) \in Nat
  BY PortType
<1>3. Cardinality(Below(g)) = Cardinality(Below(h))
  <2> HIDE DEF Below
  <2>1. Port(rs, g) = BasePort + Cardinality(Below(g))
    BY DEF Port, Below
  <2>2. Port(rs, h) = BasePort + Cardinality(Below(h))
    BY DEF Port, Below
  <2>3. \A b, m, n \in Nat : b + m = b + n => m = n
    OBVIOUS
  <2> QED
    BY <1>2, <2>1, <2>2, <2>3, Numbers
<1>4. g \in Nat /\ h \in Nat
  BY Numbers
<1> HIDE DEF Below
<1> QED
  BY <1>1, <1>3, <1>4

\* More rules never lower a number.
LEMMA PortGrows ==
    ASSUME NEW rs, NEW more, DOMAIN rs \subseteq DOMAIN more,
           DOMAIN more \subseteq GuestPaths, NEW g \in DOMAIN rs
    PROVE  Port(rs, g) <= Port(more, g)
<1> DEFINE A == {k \in DOMAIN rs : k < g}
           B == {k \in DOMAIN more : k < g}
<1>1. A \in SUBSET B
  OBVIOUS
<1>2. IsFiniteSet(B) /\ Cardinality(B) \in Nat /\ Cardinality(A) \in Nat
  BY PortType
<1>3. Port(rs, g) = BasePort + Cardinality(A)
  BY DEF Port
<1>4. Port(more, g) = BasePort + Cardinality(B)
  BY DEF Port
<1> HIDE DEF A, B
<1>5. Cardinality(A) <= Cardinality(B)
  BY <1>1, <1>2, FS_Subset
<1> QED
  BY <1>2, <1>3, <1>4, <1>5, Numbers

\* A list that fits with more rules fits without them.
LEMMA FewerRulesFit ==
    ASSUME NEW rs, NEW more, DOMAIN rs \subseteq DOMAIN more,
           DOMAIN more \subseteq GuestPaths, RoutesFit(more)
    PROVE  RoutesFit(rs)
<1> SUFFICES ASSUME NEW g \in DOMAIN rs PROVE Port(rs, g) <= MaxPort
  BY DEF RoutesFit
<1>1. Port(rs, g) <= Port(more, g) /\ Port(more, g) <= MaxPort
  BY PortGrows DEF RoutesFit
<1>2. Port(rs, g) \in Nat /\ Port(more, g) \in Nat
  <2>1. Cardinality({k \in DOMAIN rs : k < g}) \in Nat
    BY PortType
  <2>2. Cardinality({k \in DOMAIN more : k < g}) \in Nat
    BY PortType
  <2> QED
    BY <2>1, <2>2, Numbers DEF Port
<1> QED
  BY <1>1, <1>2, Numbers

\* The port of a rule leads back to the rule.
LEMMA BehindOwnPort ==
    ASSUME NEW rs, DOMAIN rs \subseteq GuestPaths, NEW g \in DOMAIN rs
    PROVE  Behind(rs, Port(rs, g)) = rs[g]
<1> DEFINE c == CHOOSE k \in DOMAIN rs : Port(rs, k) = Port(rs, g)
<1>1. c \in DOMAIN rs /\ Port(rs, c) = Port(rs, g)
  OBVIOUS
<1>2. c = g
  BY <1>1, PortsDiffer
<1> QED
  BY <1>2 DEF Behind

\* The specs of a valid list, and the map that parseForwardUnixRules makes.
SpecSet == {Blank, Malformed} \cup RuleSpecs

\* Every given spec of a valid list is a rule, and the map has it.
LEMMA RulesAre ==
    ASSUME NEW ss \in Seq(SpecSet), Valid(ss)
    PROVE  /\ \A i \in Given(ss) :
                  /\ ss[i] \in RuleSpecs
                  /\ ss[i].guest \in DOMAIN Rules(ss)
                  /\ Rules(ss)[ss[i].guest] = ss[i].host
           /\ \A g \in DOMAIN Rules(ss) :
                  \E i \in Given(ss) : ss[i].guest = g
           /\ DOMAIN Rules(ss) \subseteq GuestPaths
<1>1. \A i \in Given(ss) : ss[i] \in RuleSpecs
  BY DEF Given, Valid, SpecSet
<1>2. \A g : g \in DOMAIN Rules(ss) <=> \E i \in Given(ss) : ss[i].guest = g
  BY DEF Rules
<1>3. ASSUME NEW i \in Given(ss)
      PROVE  Rules(ss)[ss[i].guest] = ss[i].host
  <2> DEFINE c == CHOOSE j \in Given(ss) : ss[j].guest = ss[i].guest
  <2>1. c \in Given(ss) /\ ss[c].guest = ss[i].guest
    OBVIOUS
  <2>2. c = i
    BY <2>1 DEF Valid
  <2>3. Rules(ss)[ss[i].guest] = ss[c].host
    BY <1>2 DEF Rules
  <2> QED
    BY <2>2, <2>3
<1> QED
  BY <1>1, <1>2, <1>3 DEF RuleSpecs

\* mergeAutoForwardUnixRule keeps a valid list valid and adds one rule to its
\* map, unless the user has one for the path.
LEMMA MergedAre ==
    ASSUME NEW ss \in Seq(SpecSet), Valid(ss)
    PROVE  /\ Merged(ss) \in Seq(SpecSet)
           /\ Valid(Merged(ss))
           /\ DOMAIN Rules(Merged(ss)) = DOMAIN Rules(ss) \cup {AgentGuest}
           /\ \A g \in DOMAIN Rules(ss) : Rules(Merged(ss))[g] = Rules(ss)[g]
           /\ AgentGuest \notin DOMAIN Rules(ss) =>
                  Rules(Merged(ss))[AgentGuest] = AgentHost
<1>1. CASE AgentGuest \in DOMAIN Rules(ss)
  BY <1>1 DEF Merged
<1>2. CASE AgentGuest \notin DOMAIN Rules(ss)
  <2> DEFINE rule == [guest |-> AgentGuest, host |-> AgentHost]
             mm == Append(ss, rule)
             n == Len(ss) + 1
  <2>0. Merged(ss) = mm
    BY <1>2 DEF Merged
  <2>1. /\ rule \in SpecSet /\ rule \notin {Blank, Malformed}
        /\ rule.guest = AgentGuest /\ rule.host = AgentHost
    BY ForwardAssumption DEF SpecSet, RuleSpecs
  <2> HIDE DEF rule
  <2>2. /\ mm \in Seq(SpecSet) /\ Len(mm) = n /\ mm[n] = rule
        /\ \A i \in 1 .. Len(ss) : mm[i] = ss[i]
    BY <2>1, AppendProperties
  <2> HIDE DEF mm
  <2>3. Len(ss) \in Nat /\ DOMAIN ss = 1 .. Len(ss) /\ DOMAIN mm = 1 .. n
    BY <2>2, LenProperties
  <2>4. \A i : i \in Given(mm) <=> i \in Given(ss) \/ i = n
    <3>1. \A i \in Given(ss) : i \in 1 .. Len(ss)
      BY <2>3 DEF Given
    <3>2. n \in 1 .. n /\ \A i \in 1 .. n : i \in 1 .. Len(ss) \/ i = n
      BY <2>3
    <3>3. n \in Given(mm)
      BY <2>1, <2>2, <2>3, <3>2 DEF Given
    <3>4. ASSUME NEW i \in 1 .. Len(ss)
          PROVE  i \in Given(mm) <=> i \in Given(ss)
      <4>1. i \in 1 .. n
        BY <2>3
      <4> QED
        BY <2>2, <2>3, <4>1 DEF Given
    <3>5. \A i \in Given(mm) : i \in 1 .. n
      BY <2>3 DEF Given
    <3> QED
      BY <3>1, <3>2, <3>3, <3>4, <3>5
  <2>5. \A i \in Given(ss) : i \in 1 .. Len(ss) /\ i # n
    BY <2>3 DEF Given
  <2>6. \A i \in Given(ss) : mm[i] = ss[i] /\ ss[i].guest # AgentGuest
    BY <1>2, <2>2, <2>5, RulesAre
  <2> HIDE DEF n
  <2>7. Valid(mm)
    BY <2>1, <2>2, <2>4, <2>6 DEF Valid
  <2>8. \A g : g \in DOMAIN Rules(mm) <=> g \in DOMAIN Rules(ss) \/ g = AgentGuest
    BY <2>1, <2>2, <2>4, <2>6 DEF Rules
  <2>9. Rules(mm)[AgentGuest] = AgentHost
    BY <2>1, <2>2, <2>4, <2>7, RulesAre
  <2>10. ASSUME NEW g \in DOMAIN Rules(ss)
         PROVE  Rules(mm)[g] = Rules(ss)[g]
    <3>1. PICK i \in Given(ss) : ss[i].guest = g
      BY RulesAre
    <3>2. Rules(ss)[g] = ss[i].host
      BY <3>1, RulesAre
    <3>3. i \in Given(mm) /\ mm[i] = ss[i]
      BY <2>4, <2>6
    <3>4. Rules(mm)[mm[i].guest] = mm[i].host
      BY <2>2, <2>7, <3>3, RulesAre
    <3> QED
      BY <3>1, <3>2, <3>3, <3>4
  <2> QED
    BY <2>0, <2>2, <2>7, <2>8, <2>9, <2>10
<1> QED
  BY <1>1, <1>2

-----------------------------------------------------------------------------
(* The state.                                                              *)

\* What the host has, stage by stage: the user's list, merged once if there is
\* an agent, and then the rules the user wanted.
HostStage ==
    /\ stage = "config" => specs = given
    /\ stage = "build" =>
           IF agentEnv
           THEN Valid(given) /\ specs = Merged(given)
           ELSE specs = given
    /\ stage = "create" =>
           Valid(given) /\ \A g \in DOMAIN rules : rules[g] = Wanted(g)
    /\ stage \notin {"boot", "start", "up"} => mapped = <<>>

\* The guest starts the forwarders in the order of their paths; one that did not
\* fail has its listener until another of the same file is tried.
StartOrder ==
    /\ \A a \in tried, b \in DOMAIN fetched \ tried : a < b
    /\ stage = "up" /\ RoutesFit(fetched) => tried = DOMAIN fetched
    /\ \A f \in Files : listen[f] # None =>
           /\ FileOf[listen[f]] = f
           /\ \A g \in tried \ bad : FileOf[g] = f => g <= listen[f]
    /\ \A g \in tried \ bad :
           \/ listen[FileOf[g]] = g
           \/ \E k \in tried : k > g /\ FileOf[k] = FileOf[g]

\* What is proved inductive.
Inv == ForwardInv /\ HostStage /\ StartOrder /\ RoutedAsConfigured

\* A list the user may give is a list of specs.
LEMMA GivenIsList == TypeOK => given \in Seq(SpecSet)
BY ForwardAssumption DEF TypeOK, SpecSet

\* What the user wanted does not change while the process runs.
LEMMA WantedKept ==
    ASSUME UNCHANGED <<given, agentEnv>>, NEW g
    PROVE  Wanted(g)' = Wanted(g)
BY DEF Wanted

\* Everything the invariant speaks of is as it was.
LEMMA SameKeepsInv ==
    ASSUME Inv, agent' \in {"off", "on", "serving", "ended"},
           UNCHANGED <<stage, given, agentEnv, specs, rules, mapped, krunErr,
                       fetched, tried, bad, listen, conn>>
    PROVE  Inv'
<1>1. \A g : Wanted(g)' = Wanted(g)
  BY WantedKept
<1> QED
  BY <1>1 DEF Inv, ForwardInv, TypeOK, BuiltInRuleHarmless, HostStage, StartOrder,
              RoutedAsConfigured

\* Until the guest has fetched its configuration it has nothing.
LEMMA NothingFetched ==
    ASSUME Inv, stage \notin {"start", "up"}
    PROVE  /\ DOMAIN fetched = {} /\ tried = {} /\ bad = {} /\ conn = None
           /\ \A f \in Files : listen[f] = None
<1>1. fetched = <<>> /\ conn = None
  BY DEF Inv, ForwardInv
<1>2. DOMAIN fetched = {}
  BY <1>1
<1> QED
  BY <1>1, <1>2 DEF Inv, ForwardInv, TypeOK

\* configureOOSSHAgentForward.
LEMMA ConfigureAgentStep ==
    ASSUME Inv, ConfigureAgent
    PROVE  Inv'
<1> USE DEF Inv
<1>1. /\ stage = "config" /\ stage' \in {"build", "failed"} /\ specs = given
      /\ UNCHANGED <<given, agentEnv, rules, mapped, krunErr, fetched, tried,
                     bad, listen, conn>>
  BY DEF ConfigureAgent, guestVars, HostStage
<1>2. agent' \in {"off", "on", "serving", "ended"}
  BY DEF ConfigureAgent, ForwardInv, TypeOK
<1>3. TypeOK'
  BY <1>1, <1>2 DEF ForwardInv, TypeOK
<1>4. HostStage'
  BY <1>1 DEF HostStage, ConfigureAgent
<1>5. BuiltInRuleHarmless'
  BY <1>1 DEF BuiltInRuleHarmless, ConfigureAgent
<1>6. ForwardInv'
  BY <1>1, <1>3, <1>5 DEF ForwardInv
<1>7. StartOrder'
  BY <1>1 DEF StartOrder
<1>8. RoutedAsConfigured'
  BY <1>1, NothingFetched DEF RoutedAsConfigured
<1> QED
  BY <1>4, <1>6, <1>7, <1>8

\* buildMachine.
LEMMA BuildRulesStep ==
    ASSUME Inv, BuildRules
    PROVE  Inv'
<1> USE DEF Inv
<1>1. /\ stage = "build"
      /\ UNCHANGED <<given, agentEnv, specs, agent, mapped, krunErr, fetched,
                     tried, bad, listen, conn>>
  BY DEF BuildRules, hostVars, guestVars
<1>2. given \in Seq(SpecSet)
  BY GivenIsList DEF ForwardInv
<1>3. \A g : Wanted(g)' = Wanted(g)
  BY <1>1, WantedKept
<1>4. StartOrder' /\ RoutedAsConfigured'
  <2>1. stage' # "up"
    BY DEF BuildRules
  <2> QED
    BY <1>1, <2>1, NothingFetched DEF StartOrder, RoutedAsConfigured
<1>5. CASE stage' = "create"
  <2>1. /\ Valid(specs) /\ rules' = Rules(specs)
    BY <1>1, <1>5 DEF BuildRules
  <2>2. /\ Valid(given)
        /\ DOMAIN Rules(specs) \subseteq GuestPaths
        /\ \A g \in DOMAIN Rules(specs) : Rules(specs)[g] = Wanted(g)
    <3>1. CASE agentEnv
      <4>1. Valid(given) /\ specs = Merged(given)
        BY <1>1, <3>1 DEF HostStage
      <4>2. /\ DOMAIN Rules(specs) = DOMAIN Rules(given) \cup {AgentGuest}
            /\ \A g \in DOMAIN Rules(given) : Rules(specs)[g] = Rules(given)[g]
            /\ AgentGuest \notin DOMAIN Rules(given) =>
                   Rules(specs)[AgentGuest] = AgentHost
        BY <1>2, <4>1, MergedAre
      <4>3. DOMAIN Rules(given) \subseteq GuestPaths /\ AgentGuest \in GuestPaths
        BY <1>2, <4>1, RulesAre, ForwardAssumption
      <4> QED
        BY <3>1, <4>1, <4>2, <4>3 DEF Wanted
    <3>2. CASE ~agentEnv
      <4>1. specs = given
        BY <1>1, <3>2 DEF HostStage
      <4>2. DOMAIN Rules(given) \subseteq GuestPaths
        BY <1>2, <2>1, <4>1, RulesAre
      <4> QED
        BY <2>1, <4>1, <4>2 DEF Wanted
    <3> QED
      BY <3>1, <3>2
  <2>3. TypeOK'
    BY <1>1, <1>5, <2>1, <2>2 DEF ForwardInv, TypeOK
  <2>4. HostStage'
    BY <1>1, <1>3, <1>5, <2>1, <2>2 DEF HostStage
  <2>5. ForwardInv'
    BY <1>1, <1>5, <2>3 DEF ForwardInv, BuiltInRuleHarmless
  <2> QED
    BY <1>4, <2>4, <2>5
<1>6. CASE stage' = "failed"
  <2>1. UNCHANGED rules /\ ~(Valid(specs) /\ RoutesFit(Rules(specs)))
    BY <1>6 DEF BuildRules
  <2>2. ~Valid(given) \/ ~RoutesFit(Rules(Merged(given)))
    <3> SUFFICES ASSUME Valid(given), RoutesFit(Rules(Merged(given)))
                 PROVE  FALSE
      OBVIOUS
    <3>1. /\ Valid(Merged(given)) /\ Merged(given) \in Seq(SpecSet)
          /\ DOMAIN Rules(given) \subseteq DOMAIN Rules(Merged(given))
      BY <1>2, MergedAre
    <3>2. DOMAIN Rules(Merged(given)) \subseteq GuestPaths
      BY <3>1, RulesAre
    <3>3. RoutesFit(Rules(given))
      BY <3>1, <3>2, FewerRulesFit
    <3> QED
      BY <1>1, <2>1, <3>1, <3>3 DEF HostStage
  <2>3. TypeOK'
    BY <1>1, <1>6, <2>1 DEF ForwardInv, TypeOK
  <2>4. HostStage'
    BY <1>1, <1>6 DEF HostStage
  <2>5. ForwardInv'
    BY <1>1, <1>6, <2>2, <2>3 DEF ForwardInv, BuiltInRuleHarmless
  <2> QED
    BY <1>4, <2>4, <2>5
<1> QED
  BY <1>5, <1>6 DEF BuildRules

\* setupVSock maps the rules as they were built.
LEMMA SetupVSockStep ==
    ASSUME Inv, SetupVSock
    PROVE  Inv'
<1> USE DEF Inv
<1>1. /\ stage = "create" /\ stage' \in {"boot", "failed"}
      /\ UNCHANGED <<given, agentEnv, specs, agent, rules, fetched, tried, bad,
                     listen, conn>>
  BY DEF SetupVSock, guestVars
<1>2. \A g : Wanted(g)' = Wanted(g)
  BY <1>1, WantedKept
<1>3. StartOrder' /\ RoutedAsConfigured'
  BY <1>1, NothingFetched DEF StartOrder, RoutedAsConfigured
<1>4. CASE stage' = "boot"
  <2>1. mapped' = rules /\ krunErr' = krunErr
    BY <1>4 DEF SetupVSock
  <2>2. TypeOK'
    BY <1>1, <1>4, <2>1 DEF ForwardInv, TypeOK
  <2>3. /\ Valid(given)'
        /\ \A g \in DOMAIN mapped' : mapped'[g] = Wanted(g)'
    BY <1>1, <1>2, <2>1 DEF HostStage
  <2>4. HostStage'
    BY <1>4 DEF HostStage
  <2>5. ForwardInv'
    BY <1>1, <1>4, <2>1, <2>2, <2>3 DEF ForwardInv, BuiltInRuleHarmless
  <2> QED
    BY <1>3, <2>4, <2>5
<1>5. CASE stage' = "failed"
  <2>1. mapped' = mapped /\ krunErr' = TRUE
    BY <1>5 DEF SetupVSock
  <2>2. TypeOK'
    BY <1>1, <1>5, <2>1 DEF ForwardInv, TypeOK
  <2>3. HostStage'
    BY <1>1, <1>5, <2>1 DEF HostStage
  <2>4. ForwardInv'
    BY <1>1, <1>5, <2>1, <2>2 DEF ForwardInv, BuiltInRuleHarmless
  <2> QED
    BY <1>3, <2>3, <2>4
<1> QED
  BY <1>1, <1>4, <1>5

\* PATCH adds rules to the machine and takes none away.
LEMMA PatchStep ==
    ASSUME Inv, NEW patch \in Patches, PatchConfig(patch)
    PROVE  Inv'
<1> USE DEF Inv
<1>1. /\ stage \in {"boot", "start", "up"}
      /\ UNCHANGED <<stage, given, agentEnv, specs, agent, mapped, krunErr,
                     fetched, tried, bad, listen, conn>>
  BY DEF PatchConfig, hostVars, guestVars
<1>2. DOMAIN rules' = DOMAIN patch \cup DOMAIN rules
  BY DEF PatchConfig
<1>3. DOMAIN patch \subseteq GuestPaths
  BY ForwardAssumption
<1>4. \A g : Wanted(g)' = Wanted(g)
  BY <1>1, WantedKept
<1>5. TypeOK'
  BY <1>1, <1>2, <1>3 DEF ForwardInv, TypeOK
<1>6. ForwardInv'
  BY <1>1, <1>2, <1>4, <1>5 DEF ForwardInv, BuiltInRuleHarmless
<1>7. HostStage' /\ StartOrder' /\ RoutedAsConfigured'
  BY <1>1, <1>4 DEF HostStage, StartOrder, RoutedAsConfigured
<1> QED
  BY <1>6, <1>7

\* The guest fetches the rules of this moment, which has no fewer paths than the
\* host mapped.
LEMMA FetchStep ==
    ASSUME Inv, FetchConfig
    PROVE  Inv'
<1> USE DEF Inv
<1>1. /\ stage = "boot" /\ stage' = "start" /\ fetched' = rules
      /\ UNCHANGED <<given, agentEnv, specs, agent, rules, mapped, krunErr,
                     tried, bad, listen, conn>>
  BY DEF FetchConfig, hostVars
<1>2. \A g : Wanted(g)' = Wanted(g)
  BY <1>1, WantedKept
<1>3. /\ tried = {} /\ bad = {} /\ conn = None
      /\ \A f \in Files : listen[f] = None
  BY <1>1, NothingFetched
<1>4. TypeOK'
  BY <1>1 DEF ForwardInv, TypeOK
<1>5. ForwardInv'
  BY <1>1, <1>2, <1>3, <1>4 DEF ForwardInv, BuiltInRuleHarmless
<1>6. HostStage' /\ StartOrder' /\ RoutedAsConfigured'
  BY <1>1, <1>3 DEF HostStage, StartOrder, RoutedAsConfigured
<1> QED
  BY <1>5, <1>6

\* The next forwarder has a larger path than those before it, so it may take a
\* file from an earlier one and never loses it to one.
LEMMA StartForwarderStep ==
    ASSUME Inv, NEW g \in GuestPaths, StartForwarder(g)
    PROVE  Inv'
<1> USE DEF Inv
<1>1. /\ stage = "start"
      /\ g \in DOMAIN fetched \ tried
      /\ \A k \in DOMAIN fetched \ tried : g <= k
      /\ tried' = tried \cup {g}
      /\ UNCHANGED <<stage, given, agentEnv, specs, agent, rules, mapped, krunErr,
                     fetched, conn>>
  BY DEF StartForwarder, hostVars
<1>t. /\ g \in Nat /\ \A k \in GuestPaths : k \in Nat
      /\ FileOf[g] \in Files
      /\ tried \subseteq GuestPaths /\ bad \subseteq tried
      /\ DOMAIN fetched \subseteq GuestPaths
      /\ listen \in [Files -> GuestPaths \cup {None}]
  BY Numbers DEF Files, ForwardInv, TypeOK
<1>2. \A a \in tried : a < g
  BY <1>1 DEF StartOrder
<1>3. \A a \in tried', b \in DOMAIN fetched' \ tried' : a < b
  <2> SUFFICES ASSUME NEW a \in tried \cup {g},
                      NEW b \in DOMAIN fetched \ (tried \cup {g})
               PROVE  a < b
    BY <1>1
  <2>1. a \in Nat /\ b \in Nat
    BY <1>t
  <2>2. b \in DOMAIN fetched \ tried /\ b # g
    OBVIOUS
  <2>3. CASE a = g
    BY <1>1, <1>t, <2>1, <2>2, <2>3
  <2>4. CASE a \in tried
    BY <2>2, <2>4 DEF StartOrder
  <2> QED
    BY <2>3, <2>4
<1>4. \A x : Wanted(x)' = Wanted(x)
  BY <1>1, WantedKept
<1>5. \/ listen' = [listen EXCEPT ![FileOf[g]] = g] /\ bad' = bad
      \/ listen' = listen /\ bad' = bad \cup {g}
      \/ listen' = [listen EXCEPT ![FileOf[g]] = None] /\ bad' = bad \cup {g}
  BY DEF StartForwarder
<1>6. /\ listen' \in [Files -> GuestPaths \cup {None}]
      /\ bad' \subseteq tried'
      /\ \A f \in Files : listen'[f] # None =>
             \/ listen[f] # None /\ listen'[f] = listen[f]
             \/ listen'[f] = g /\ f = FileOf[g] /\ bad' = bad
  BY <1>1, <1>5, <1>t
<1>7. TypeOK'
  BY <1>1, <1>6, <1>t DEF ForwardInv, TypeOK
<1>8. ForwardInv'
  <2>1. \A f \in Files : listen'[f] # None => listen'[f] \in tried'
    BY <1>1, <1>6 DEF ForwardInv
  <2>2. tried' \subseteq DOMAIN fetched'
    BY <1>1 DEF ForwardInv
  <2> QED
    BY <1>1, <1>4, <1>7, <2>1, <2>2 DEF ForwardInv, BuiltInRuleHarmless
<1>9. HostStage' /\ RoutedAsConfigured'
  BY <1>1, <1>4 DEF HostStage, RoutedAsConfigured
<1>10. ASSUME NEW f \in Files, listen'[f] # None
       PROVE  /\ FileOf[listen'[f]] = f
              /\ \A k \in tried' \ bad' : FileOf[k] = f => k <= listen'[f]
  <2>1. CASE listen[f] # None /\ listen'[f] = listen[f]
    <3>1. \A k \in tried \ bad : FileOf[k] = f => k <= listen[f]
      BY <2>1 DEF StartOrder
    <3>2. FileOf[g] = f => g \in bad' \/ listen'[f] = g
      BY <1>5, <1>t
    <3>3. bad \subseteq bad' /\ g <= g
      BY <1>5, <1>t
    <3>4. FileOf[listen[f]] = f
      BY <2>1 DEF StartOrder
    <3> QED
      BY <1>1, <2>1, <3>1, <3>2, <3>3, <3>4
  <2>2. CASE listen'[f] = g /\ f = FileOf[g]
    BY <1>1, <1>2, <1>t, <2>2
  <2> QED
    BY <1>6, <1>10, <2>1, <2>2
<1>11. ASSUME NEW k \in tried' \ bad'
       PROVE  \/ listen'[FileOf[k]] = k
              \/ \E j \in tried' : j > k /\ FileOf[j] = FileOf[k]
  <2>1. CASE k = g
    BY <1>5, <1>11, <1>t, <2>1
  <2>2. CASE k # g
    <3>1. k \in tried \ bad /\ k < g /\ k \in Nat
      BY <1>1, <1>2, <1>5, <1>11, <1>t, <2>2
    <3>2. CASE FileOf[k] = FileOf[g]
      BY <1>1, <1>t, <3>1, <3>2
    <3>3. CASE FileOf[k] # FileOf[g]
      <4>1. FileOf[k] \in Files
        BY <1>t, <3>1 DEF Files
      <4>2. listen'[FileOf[k]] = listen[FileOf[k]]
        BY <1>5, <1>t, <3>3, <4>1
      <4> QED
        BY <1>1, <3>1, <4>2 DEF StartOrder
    <3> QED
      BY <3>2, <3>3
  <2> QED
    BY <2>1, <2>2
<1>12. StartOrder'
  BY <1>1, <1>3, <1>10, <1>11 DEF StartOrder
<1> QED
  BY <1>8, <1>9, <1>12

\* StartUnixForwarders returns after the last rule, or has started none.
LEMMA ForwardersStartedStep ==
    ASSUME Inv, ForwardersStarted
    PROVE  Inv'
<1> USE DEF Inv
<1>1. /\ stage = "start" /\ stage' = "up"
      /\ ~RoutesFit(fetched) \/ tried = DOMAIN fetched
      /\ UNCHANGED <<given, agentEnv, specs, agent, rules, mapped, krunErr,
                     fetched, tried, bad, listen, conn>>
  BY DEF ForwardersStarted, hostVars, guestVars
<1>2. \A g : Wanted(g)' = Wanted(g)
  BY <1>1, WantedKept
<1>3. TypeOK'
  BY <1>1 DEF ForwardInv, TypeOK
<1>4. ForwardInv'
  BY <1>1, <1>2, <1>3 DEF ForwardInv, BuiltInRuleHarmless
<1>5. HostStage' /\ StartOrder' /\ RoutedAsConfigured'
  BY <1>1, <1>2 DEF HostStage, StartOrder, RoutedAsConfigured
<1> QED
  BY <1>4, <1>5

\* As far as the guest has the paths the host has mapped and no others, the
\* number it counts is the one the host mapped.
LEMMA DialArrives ==
    ASSUME Inv, stage \in {"start", "up"}, NEW g \in DOMAIN fetched,
           ~\E k \in DOMAIN fetched \ DOMAIN mapped : k <= g
    PROVE  Dial(g) = Wanted(g)
<1>1. /\ DOMAIN mapped \subseteq DOMAIN fetched
      /\ DOMAIN fetched \subseteq GuestPaths
      /\ \A k \in DOMAIN mapped : mapped[k] = Wanted(k)
  BY DEF Inv, ForwardInv, TypeOK
<1>2. \A k \in DOMAIN fetched : k \in Nat
  BY <1>1, Numbers
<1>3. \A k \in DOMAIN fetched : k <= g => k \in DOMAIN mapped
  OBVIOUS
<1>4. g \in DOMAIN mapped
  BY <1>2, <1>3
<1>5. {k \in DOMAIN fetched : k < g} = {k \in DOMAIN mapped : k < g}
  <2>1. ASSUME NEW k \in DOMAIN fetched, k < g PROVE k \in DOMAIN mapped
    BY <1>2, <1>3, <2>1
  <2> QED
    BY <1>1, <2>1
<1>6. Port(fetched, g) = Port(mapped, g)
  BY <1>5 DEF Port
<1>7. Dial(g) = mapped[g]
  BY <1>1, <1>4, <1>6, BehindOwnPort DEF Dial
<1> QED
  BY <1>1, <1>4, <1>7

\* A connection is routed by the numbers both sides have counted.
LEMMA ConnectStep ==
    ASSUME Inv, NEW f \in Files, Connect(f)
    PROVE  Inv'
<1> USE DEF Inv
<1>1. /\ stage \in {"start", "up"} /\ listen[f] # None
      /\ UNCHANGED <<stage, given, agentEnv, specs, agent, rules, mapped, krunErr,
                     fetched, tried, bad, listen>>
  BY DEF Connect, hostVars
<1>2. \A g : Wanted(g)' = Wanted(g)
  BY <1>1, WantedKept
<1>3. PICK answer : /\ conn' = [file |-> f, rule |-> listen[f], at |-> answer]
                    /\ answer \in {Dial(listen[f]), None}
  BY DEF Connect
<1>4. listen[f] \in DOMAIN fetched
  BY <1>1 DEF ForwardInv
<1>5. RoutedAsConfigured'
  <2> SUFFICES ASSUME conn'.at # None,
                      ~\E g \in DOMAIN fetched \ DOMAIN mapped : g <= listen[f]
               PROVE  conn'.at = Wanted(listen[f])
    BY <1>1, <1>2, <1>3 DEF RoutedAsConfigured
  <2>1. conn'.at = Dial(listen[f])
    BY <1>3
  <2> QED
    BY <1>1, <1>4, <2>1, DialArrives
<1>6. TypeOK'
  BY <1>1 DEF ForwardInv, TypeOK
<1>7. ForwardInv' /\ HostStage' /\ StartOrder'
  BY <1>1, <1>2, <1>6
     DEF ForwardInv, BuiltInRuleHarmless, HostStage, StartOrder
<1> QED
  BY <1>5, <1>7

\* Inv is inductive.
LEMMA InvPreserved == Inv /\ [Next]_vars => Inv'
<1> SUFFICES ASSUME Inv, [Next]_vars PROVE Inv'
  OBVIOUS
<1>1. CASE AgentRuns \/ AgentEnds \/ UNCHANGED vars
  <2>1. agent' \in {"off", "on", "serving", "ended"}
    BY <1>1 DEF AgentRuns, AgentEnds, vars, Inv, ForwardInv, TypeOK
  <2> QED
    BY <1>1, <2>1, SameKeepsInv
       DEF AgentRuns, AgentEnds, vars, hostVars, guestVars
<1> QED
  BY <1>1, ConfigureAgentStep, BuildRulesStep, SetupVSockStep, PatchStep, FetchStep,
     StartForwarderStep, ForwardersStartedStep, ConnectStep DEF Next

\* Nothing is parsed, mapped or started.
LEMMA InitInv == Init => Inv
<1> SUFFICES ASSUME Init PROVE Inv
  OBVIOUS
<1>1. /\ stage = "config" /\ specs = given /\ tried = {} /\ bad = {}
      /\ rules = <<>> /\ mapped = <<>> /\ fetched = <<>> /\ conn = None
      /\ \A f \in Files : listen[f] = None
  BY DEF Init
<1>2. DOMAIN rules = {} /\ DOMAIN mapped = {} /\ DOMAIN fetched = {}
  BY <1>1
<1>3. TypeOK
  BY <1>1, <1>2 DEF Init, TypeOK
<1>4. ForwardInv
  BY <1>1, <1>3 DEF ForwardInv, BuiltInRuleHarmless
<1>5. HostStage /\ StartOrder /\ RoutedAsConfigured
  BY <1>1 DEF HostStage, StartOrder, RoutedAsConfigured
<1> QED
  BY <1>4, <1>5 DEF Inv

\* The invariant with the stages of the host and the order of the guest.
LEMMA InvAlways == Spec => []Inv
BY InitInv, InvPreserved, PTL DEF Spec

\* What the host maps is what the user wanted, and the built-in rule never makes
\* a start fail, for every list of rules.
THEOREM ForwardInvariant == Spec => []ForwardInv
<1>1. Inv => ForwardInv
  BY DEF Inv
<1> QED
  BY <1>1, InvAlways, PTL

\* A connection arrives at the host path the user gave for its guest path, unless
\* PATCH added a path in front: host and guest count the same numbers, for any
\* number of rules.
THEOREM RoutedTheorem == Spec => []RoutedAsConfigured
<1>1. Inv => RoutedAsConfigured
  BY DEF Inv
<1> QED
  BY <1>1, InvAlways, PTL

\* One bad rule does not block the others, and the last name of a file has its
\* listener.
THEOREM SocketsServedTheorem == Spec => []SocketsServed
<1>1. Inv => SocketsServed
  BY DEF Inv, ForwardInv, StartOrder, SocketsServed
<1> QED
  BY <1>1, InvAlways, PTL

=============================================================================
