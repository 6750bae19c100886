----------------------------- MODULE PortsProofs -----------------------------
(***************************************************************************)
(* Proofs about Ports for any set of sessions, of ephemeral ports and of   *)
(* other programs.  PortsInv says who listens; what a session has found    *)
(* but does not listen on yet is in StageInv, and the two are inductive    *)
(* together.                                                               *)
(***************************************************************************)
EXTENDS Ports, TLAPS

\* The listeners of one address, said of pairs of them: two listeners at one
\* place are the same one, and no program of the host has the port as well.
Exclusive ==
    \A s, t \in Sessions : \A q, r \in Roles :
        Listening(s, q) =>
            /\ /\ Listening(t, r) /\ Space(s, q) = Space(t, r)
               /\ port[s][q] = port[t][r]
               => s = t /\ q = r
            /\ Space(s, q) = Host => port[s][q] \notin taken

\* A listener belongs to a stage of its session.
Staged ==
    \A s \in Sessions : \A r \in Roles : Listening(s, r) =>
        /\ port[s][r] \in Ports
        /\ pc[s] \notin {"refused", "ended"}
        /\ r # "probe" => pc[s] = "up"

\* A session that is past a search has the port it found; a gvisor session that
\* is up holds its forwarding; and without a program that takes ports, nobody
\* but a session can be in the way of the port a session has found.
StageInv ==
    \A s \in Sessions :
        /\ pc[s] \in {"podman", "forward", "new", "up"} =>
               port[s]["ssh"] \in Ports
        /\ pc[s] \in {"forward", "new", "up"} => port[s]["podman"] \in Ports
        /\ pc[s] \in {"forward", "new"} => mode[s] = "gvisor"
        /\ pc[s] = "new" => port[s]["forward"] \in Ports
        /\ pc[s] = "up" /\ mode[s] = "gvisor" => Listening(s, "forward")
        /\ Listening(s, "probe") => pc[s] \in Searches
        /\ ~raced => port[s]["forward"] \notin taken

\* A daemon that its supervisor waits for is one of a session that is up, and
\* does not listen.
HeldInv == \A h \in held : pc[h[1]] = "up" /\ h \notin bound

\* What is proved inductive.
Inv == TypeOK /\ Exclusive /\ Staged /\ StageInv /\ HeldInv

\* Who listens at an address, without the tuples.
LEMMA ListenersAre ==
    ASSUME TypeOK, NEW space, NEW p
    PROVE  /\ \A s \in Sessions, r \in Roles :
                  <<s, r>> \in Listeners(space, p) <=>
                      /\ Listening(s, r)
                      /\ Space(s, r) = space
                      /\ port[s][r] = p
           /\ <<NoPort, "other">> \in Listeners(space, p) <=>
                  space = Host /\ p \in taken
           /\ \A l \in Listeners(space, p) :
                  \/ l = <<NoPort, "other">>
                  \/ \E s \in Sessions, r \in Roles : l = <<s, r>>
<1>1. \A l \in bound : \E s \in Sessions, r \in Roles : l = <<s, r>>
  BY DEF TypeOK
<1>2. <<NoPort, "other">> \notin bound
  BY PortsAssumption DEF TypeOK
<1>3. \A s \in Sessions, r \in Roles :
          <<s, r>> \in Listeners(space, p) <=>
              Listening(s, r) /\ Space(s, r) = space /\ port[s][r] = p
  BY PortsAssumption DEF Listeners, Listening
<1>4. <<NoPort, "other">> \in Listeners(space, p) <=>
          space = Host /\ p \in taken
  BY <1>2 DEF Listeners
<1>5. \A l \in Listeners(space, p) : l = <<NoPort, "other">> \/ l \in bound
  BY DEF Listeners
<1> QED
  BY <1>1, <1>3, <1>4, <1>5

\* An address is free when no session listens there, and on the host no other
\* program either.
LEMMA FreeIs ==
    ASSUME TypeOK, NEW space, NEW p
    PROVE  Free(space, p) <=>
               /\ \A s \in Sessions, r \in Roles :
                      ~(/\ Listening(s, r) /\ Space(s, r) = space
                        /\ port[s][r] = p)
               /\ ~(space = Host /\ p \in taken)
<1>1. Free(space, p) <=> \A l \in Listeners(space, p) : FALSE
  <2>1. \A S : S = {} <=> \A l \in S : FALSE
    OBVIOUS
  <2> QED
    BY <2>1 DEF Free
<1>2. ASSUME Free(space, p)
      PROVE  /\ \A s \in Sessions, r \in Roles :
                    ~(/\ Listening(s, r) /\ Space(s, r) = space
                      /\ port[s][r] = p)
             /\ ~(space = Host /\ p \in taken)
  <2>1. \A s \in Sessions, r \in Roles : <<s, r>> \notin Listeners(space, p)
    BY <1>1, <1>2
  <2>2. <<NoPort, "other">> \notin Listeners(space, p)
    BY <1>1, <1>2
  <2> QED
    BY <2>1, <2>2, ListenersAre
<1>3. ASSUME \A s \in Sessions, r \in Roles :
                 ~(/\ Listening(s, r) /\ Space(s, r) = space
                   /\ port[s][r] = p),
             ~(space = Host /\ p \in taken)
      PROVE  \A l \in Listeners(space, p) : FALSE
  BY <1>3, ListenersAre
<1> QED
  BY <1>1, <1>2, <1>3

\* Exclusive and Staged are what PortsInv says of the listeners.
LEMMA ExclusiveIsUnique ==
    ASSUME TypeOK, Exclusive, Staged, HeldInv
    PROVE  PortsInv
<1>1. ASSUME NEW space \in Sessions \cup {Host}, NEW p \in Ports,
             NEW k \in Listeners(space, p), NEW l \in Listeners(space, p)
      PROVE  k = l
  <2>1. CASE k = <<NoPort, "other">> /\ l = <<NoPort, "other">>
    BY <2>1
  <2>2. ASSUME NEW s \in Sessions, NEW q \in Roles, k = <<s, q>>,
               l = <<NoPort, "other">>
        PROVE  FALSE
    BY <2>2, ListenersAre DEF Exclusive
  <2>3. ASSUME NEW s \in Sessions, NEW q \in Roles, l = <<s, q>>,
               k = <<NoPort, "other">>
        PROVE  FALSE
    BY <2>3, ListenersAre DEF Exclusive
  <2>4. ASSUME NEW s \in Sessions, NEW q \in Roles, k = <<s, q>>,
               NEW t \in Sessions, NEW r \in Roles, l = <<t, r>>
        PROVE  k = l
    BY <2>4, ListenersAre DEF Exclusive
  <2> QED
    BY <2>1, <2>2, <2>3, <2>4, ListenersAre
<1> QED
  BY <1>1 DEF PortsInv, Staged, HeldInv

\* With the listeners exclusive, one that is at an address is the only one.
LEMMA OnlyListener ==
    ASSUME TypeOK, Exclusive, NEW s \in Sessions, NEW r \in Roles,
           Listening(s, r)
    PROVE  Listeners(Space(s, r), port[s][r]) = {<<s, r>>}
<1>1. <<s, r>> \in Listeners(Space(s, r), port[s][r])
  BY ListenersAre
<1>2. ASSUME NEW l \in Listeners(Space(s, r), port[s][r])
      PROVE  l = <<s, r>>
  <2>1. l # <<NoPort, "other">>
    BY <1>2, ListenersAre DEF Exclusive
  <2>2. ASSUME NEW t \in Sessions, NEW q \in Roles, l = <<t, q>>
        PROVE  t = s /\ q = r
    BY <1>2, <2>2, ListenersAre DEF Exclusive
  <2> QED
    BY <1>2, <2>1, <2>2, ListenersAre
<1> QED
  BY <1>1, <1>2

\* A session that starts to listen does so at a free port, and the others'
\* listeners are where they were.
LEMMA ListenKeepsExclusive ==
    ASSUME TypeOK, TypeOK', Exclusive, NEW s \in Sessions, NEW r \in Roles,
           UNCHANGED <<mode, taken>>,
           bound' = bound \cup {<<s, r>>}, ~Listening(s, r),
           Free(Space(s, r), port'[s][r]),
           \A t \in Sessions, q \in Roles :
               Listening(t, q) => port'[t][q] = port[t][q]
    PROVE  Exclusive'
<1>1. \A t \in Sessions, q \in Roles :
          /\ Space(t, q)' = Space(t, q)
          /\ Listening(t, q)' <=> Listening(t, q) \/ (t = s /\ q = r)
  BY DEF Space, Listening
<1>2. \A t \in Sessions, q \in Roles :
          Listening(t, q) /\ Space(t, q) = Space(s, r) =>
              port[t][q] # port'[s][r]
  BY FreeIs
<1>3. Space(s, r) = Host => port'[s][r] \notin taken
  BY FreeIs
<1> SUFFICES ASSUME NEW t \in Sessions, NEW u \in Sessions,
                    NEW p \in Roles, NEW q \in Roles, Listening(t, p)'
             PROVE  /\ /\ Listening(u, q)' /\ Space(t, p)' = Space(u, q)'
                       /\ port'[t][p] = port'[u][q]
                       => t = u /\ p = q
                    /\ Space(t, p)' = Host' => port'[t][p] \notin taken'
  BY DEF Exclusive
<1>4. Host' = Host
  BY DEF Host
<1>5. CASE t = s /\ p = r
  BY <1>1, <1>2, <1>3, <1>4, <1>5
<1>6. CASE Listening(t, p)
  BY <1>1, <1>2, <1>4, <1>6 DEF Exclusive
<1> QED
  BY <1>1, <1>5, <1>6

\* Listeners that are closed leave the rest as they were.
LEMMA CloseKeepsExclusive ==
    ASSUME TypeOK, Exclusive, mode' = mode, taken' \subseteq taken,
           bound' \subseteq bound,
           \A t \in Sessions, q \in Roles :
               Listening(t, q)' => port'[t][q] = port[t][q]
    PROVE  Exclusive'
<1>1. \A t \in Sessions, q \in Roles :
          /\ Space(t, q)' = Space(t, q)
          /\ Listening(t, q)' => Listening(t, q)
  BY DEF Space, Listening
<1>2. Host' = Host
  BY DEF Host
<1> QED
  BY <1>1, <1>2 DEF Exclusive

\* The next stage is one of the stages, and "up" only without a network stack.
LEMMA AfterIs ==
    ASSUME TypeOK, StageInv, NEW s \in Sessions, pc[s] \in Searches
    PROVE  \/ pc[s] = "ssh" /\ After(s) = "podman"
           \/ pc[s] = "podman" /\ mode[s] = "gvisor" /\ After(s) = "forward"
           \/ pc[s] = "podman" /\ mode[s] = "tsi" /\ After(s) = "up"
           \/ pc[s] = "forward" /\ mode[s] = "gvisor" /\ After(s) = "new"
BY DEF TypeOK, StageInv, Searches, After

\* The waiting supervisors are not disturbed by a session that is not up: by
\* where it goes, and by a listener it adds that is no daemon.
LEMMA HeldKept ==
    ASSUME TypeOK, HeldInv, NEW s \in Sessions, held' = held,
           NEW stage, pc' = [pc EXCEPT ![s] = stage], pc[s] # "up",
           \A t \in Sessions, d \in Daemons :
               <<t, d>> \in bound' => <<t, d>> \in bound
    PROVE  HeldInv'
<1> SUFFICES ASSUME NEW h \in held PROVE pc'[h[1]] = "up" /\ h \notin bound'
  BY DEF HeldInv
<1>1. PICK t \in Sessions, d \in Daemons : h = <<t, d>>
  BY DEF TypeOK
<1>2. pc[t] = "up" /\ h \notin bound
  BY <1>1 DEF HeldInv
<1>3. pc'[t] = pc[t]
  BY <1>2 DEF TypeOK
<1> QED
  BY <1>1, <1>2, <1>3

\* Opening a probe, or a daemon or the forwarding starting to listen.
LEMMA OpenProbeStep ==
    ASSUME Inv, NEW s \in Sessions, NEW p \in Ports, OpenProbe(s, p)
    PROVE  Inv'
<1> USE DEF Inv
<1>2. Free(Host, p)
  BY DEF OpenProbe, Candidates
<1>3. "probe" \in Roles /\ Space(s, "probe") = Host
  BY DEF Roles, Space, Daemons
<1>1. TypeOK'
  BY <1>3 DEF OpenProbe, TypeOK
<1>4. port'[s]["probe"] = p
  BY <1>3 DEF OpenProbe, TypeOK
<1>5. \A t \in Sessions, q \in Roles :
          ~(t = s /\ q = "probe") => port'[t][q] = port[t][q]
  BY DEF OpenProbe, TypeOK
<1>6. \A t \in Sessions, q \in Roles :
          Listening(t, q)' <=> Listening(t, q) \/ (t = s /\ q = "probe")
  BY DEF OpenProbe, Listening
<1>7. Exclusive'
  BY <1>1, <1>2, <1>3, <1>4, <1>5, ListenKeepsExclusive DEF OpenProbe
<1>8. Staged'
  BY <1>4, <1>5, <1>6 DEF OpenProbe, Staged, Searches
<1>9. StageInv'
  BY <1>5, <1>6 DEF OpenProbe, StageInv, Roles, Daemons
<1>10. HeldInv'
  <2>1. <<s, "probe">> \notin held
    BY DEF TypeOK, Daemons
  <2> QED
    BY <2>1 DEF OpenProbe, HeldInv
<1> QED
  BY <1>1, <1>7, <1>8, <1>9, <1>10

\* The probe is closed and its port recorded for a role that does not listen.
LEMMA CloseProbeStep ==
    ASSUME Inv, NEW s \in Sessions, CloseProbe(s)
    PROVE  Inv'
<1> USE DEF Inv
<1> DEFINE new == port[s]["probe"]
<1>1. /\ pc[s] \in Searches /\ Listening(s, "probe")
      /\ pc' = [pc EXCEPT ![s] = After(s)]
      /\ bound' = bound \ {<<s, "probe">>}
      /\ UNCHANGED <<mode, taken, raced, held>>
  BY DEF CloseProbe
<1>2. pc[s] \in Roles /\ "probe" \in Roles /\ pc[s] # "probe"
  BY <1>1 DEF Roles, Daemons, Searches
<1>3. new \in Ports /\ new \notin taken
  <2>1. Space(s, "probe") = Host
    BY DEF Space, Daemons
  <2> QED
    BY <1>1, <1>2, <2>1 DEF Staged, Exclusive
<1>4. /\ port'[s][pc[s]] = new
      /\ \A t \in Sessions, q \in Roles :
             ~(t = s /\ q \in {pc[s], "probe"}) => port'[t][q] = port[t][q]
      /\ port' \in [Sessions -> [Roles -> Ports \cup {NoPort}]]
  BY <1>2, <1>3 DEF CloseProbe, TypeOK
<1>5. \A t \in Sessions, q \in Roles :
          Listening(t, q)' <=> Listening(t, q) /\ ~(t = s /\ q = "probe")
  BY <1>1 DEF Listening
<1>6. ~Listening(s, pc[s])
  BY <1>1, <1>2 DEF Staged, Searches
<1>7. \A t \in Sessions, q \in Roles :
          Listening(t, q)' => port'[t][q] = port[t][q]
  BY <1>4, <1>5, <1>6
<1>8. \/ pc[s] = "ssh" /\ After(s) = "podman"
      \/ pc[s] = "podman" /\ mode[s] = "gvisor" /\ After(s) = "forward"
      \/ pc[s] = "podman" /\ mode[s] = "tsi" /\ After(s) = "up"
      \/ pc[s] = "forward" /\ mode[s] = "gvisor" /\ After(s) = "new"
  BY <1>1, AfterIs
<1>9. TypeOK'
  BY <1>1, <1>4, <1>8 DEF TypeOK
<1>10. Exclusive'
  BY <1>1, <1>7, CloseKeepsExclusive
<1>11. Staged'
  <2> SUFFICES ASSUME NEW t \in Sessions, NEW q \in Roles, Listening(t, q)'
               PROVE  /\ port'[t][q] \in Ports
                      /\ pc'[t] \notin {"refused", "ended"}
                      /\ q # "probe" => pc'[t] = "up"
    BY DEF Staged
  <2>1. CASE t = s
    BY <1>1, <1>5, <2>1 DEF Staged, Searches
  <2>2. CASE t # s
    BY <1>1, <1>5, <1>7, <2>2 DEF Staged, TypeOK
  <2> QED
    BY <2>1, <2>2
<1>12. StageInv'
  <2> SUFFICES ASSUME NEW t \in Sessions
               PROVE  /\ pc'[t] \in {"podman", "forward", "new", "up"} =>
                             port'[t]["ssh"] \in Ports
                      /\ pc'[t] \in {"forward", "new", "up"} =>
                             port'[t]["podman"] \in Ports
                      /\ pc'[t] \in {"forward", "new"} => mode[t] = "gvisor"
                      /\ pc'[t] = "new" => port'[t]["forward"] \in Ports
                      /\ pc'[t] = "up" /\ mode[t] = "gvisor" =>
                             Listening(t, "forward")'
                      /\ Listening(t, "probe")' => pc'[t] \in Searches
                      /\ ~raced => port'[t]["forward"] \notin taken
    BY <1>1 DEF StageInv, Ports, Searches
  <2>r. {"ssh", "podman", "forward", "probe"} \subseteq Roles
    BY DEF Roles, Daemons
  <2>1. CASE t = s
    <3>1. pc'[s] = After(s)
      BY <1>1 DEF TypeOK
    <3>2. ~Listening(s, "probe")'
      BY <1>2, <1>5
    <3>3. pc[s] = "forward" \/ port'[s]["forward"] = port[s]["forward"]
      BY <1>4, <2>r
    <3>4. ~raced => port'[s]["forward"] \notin taken
      BY <1>3, <1>4, <3>3 DEF StageInv
    <3> QED
      BY <1>3, <1>4, <1>8, <2>1, <2>r, <3>1, <3>2, <3>4 DEF StageInv
  <2>2. CASE t # s
    BY <1>1, <1>4, <1>5, <2>2, <2>r DEF StageInv, TypeOK
  <2> QED
    BY <2>1, <2>2
<1>13. HeldInv'
  BY <1>1, HeldKept DEF Searches
<1> QED
  BY <1>9, <1>10, <1>11, <1>12, <1>13

\* A process ends: whatever it listened on is free again, and nobody waits for
\* its daemons.
LEMMA EndStep ==
    ASSUME Inv, NEW s \in Sessions, NEW stage \in {"refused", "ended"},
           pc' = [pc EXCEPT ![s] = stage], bound' = Without(s),
           \/ held' = held /\ pc[s] # "up"
           \/ held' = {h \in held : h[1] # s},
           UNCHANGED <<mode, port, taken, raced>>
    PROVE  Inv'
<1> USE DEF Inv
<1>1. \A t \in Sessions, q \in Roles :
          Listening(t, q)' <=> Listening(t, q) /\ t # s
  BY DEF Listening, Without
<1>2. TypeOK'
  BY DEF TypeOK, Without
<1>3. bound' \subseteq bound
  BY DEF Without
<1>4. Exclusive'
  BY <1>3, CloseKeepsExclusive
<1>5. Staged'
  BY <1>1 DEF Staged, TypeOK
<1>6. StageInv'
  BY <1>1 DEF StageInv, TypeOK, Roles, Daemons, Searches
<1>7. HeldInv'
  <2>1. ASSUME NEW h \in held' PROVE h \in held /\ h[1] # s
    BY <2>1 DEF HeldInv
  <2>2. ASSUME NEW h \in held' PROVE pc'[h[1]] = "up" /\ h \notin bound'
    <3>1. h \in held /\ h[1] # s
      BY <2>1, <2>2
    <3>2. h[1] \in Sessions
      BY <3>1 DEF TypeOK
    <3> QED
      BY <1>3, <3>1, <3>2 DEF HeldInv, TypeOK
  <2> QED
    BY <2>2 DEF HeldInv
<1> QED
  BY <1>2, <1>4, <1>5, <1>6, <1>7

\* virtualnetwork.New takes the port of the forwarding or ends the process.
LEMMA NewVirtualNetworkStep ==
    ASSUME Inv, NEW s \in Sessions, NewVirtualNetwork(s)
    PROVE  Inv'
<1> USE DEF Inv
<1>1. /\ pc[s] = "new" /\ mode[s] = "gvisor"
      /\ UNCHANGED <<mode, port, taken, raced, held>>
      /\ port[s]["forward"] \in Ports
  BY DEF NewVirtualNetwork, StageInv
<1>2. CASE ~Free(Host, port[s]["forward"])
  BY <1>1, <1>2, EndStep DEF NewVirtualNetwork
<1>3. CASE /\ Free(Host, port[s]["forward"])
           /\ pc' = [pc EXCEPT ![s] = "up"]
           /\ bound' = bound \cup {<<s, "forward">>}
  <2>1. "forward" \in Roles /\ Space(s, "forward") = Host
    BY DEF Roles, Daemons, Space
  <2>2. \A t \in Sessions, q \in Roles :
            Listening(t, q)' <=> Listening(t, q) \/ (t = s /\ q = "forward")
    BY <1>3 DEF Listening
  <2>3. TypeOK'
    BY <1>1, <1>3, <2>1 DEF TypeOK
  <2>4. ~Listening(s, "forward") /\ ~Listening(s, "probe")
    BY <1>1, <2>1 DEF Staged, StageInv, Searches
  <2>5. Exclusive'
    BY <1>1, <1>3, <2>1, <2>3, <2>4, ListenKeepsExclusive
  <2>6. Staged'
    BY <1>1, <1>3, <2>1, <2>2 DEF Staged, TypeOK
  <2>7. StageInv'
    BY <1>1, <1>3, <2>1, <2>2, <2>4 DEF StageInv, TypeOK, Roles, Daemons
  <2>8. HeldInv'
    <3>1. \A t \in Sessions, d \in Daemons :
              <<t, d>> \in bound' => <<t, d>> \in bound
      BY <1>3 DEF Daemons
    <3> QED
      BY <1>1, <1>3, <3>1, HeldKept
  <2> QED
    BY <2>3, <2>5, <2>6, <2>7, <2>8
<1> QED
  BY <1>2, <1>3 DEF NewVirtualNetwork

\* A daemon starts at a free port, or exits; an exited one may be started again
\* at once or only when its pipe is closed.
LEMMA DaemonStep ==
    ASSUME Inv, NEW s \in Sessions, NEW d \in Daemons,
           StartDaemon(s, d) \/ DaemonExits(s, d)
    PROVE  Inv'
<1> USE DEF Inv
<1>1. pc[s] = "up" /\ UNCHANGED <<mode, pc, port, taken, raced>>
  BY DEF StartDaemon, DaemonExits
<1>2. /\ d \in Roles /\ d \notin {"forward", "probe"}
      /\ {"forward", "probe"} \subseteq Roles
  BY DEF Roles, Daemons
<1>3. port[s][d] \in Ports
  BY <1>1 DEF StageInv, Daemons
<1>4. \A t \in Sessions, q \in Roles :
          Listening(t, q)' => Listening(t, q) \/ (t = s /\ q = d)
  BY DEF StartDaemon, DaemonExits, Listening
<1>5. \A t \in Sessions, q \in Roles :
          q # d => (Listening(t, q)' <=> Listening(t, q))
  BY DEF StartDaemon, DaemonExits, Listening
<1>h. /\ held' \subseteq held \cup {<<s, d>>}
      /\ bound' \subseteq bound \cup {<<s, d>>}
      /\ ~(<<s, d>> \in held' /\ <<s, d>> \in bound')
  BY DEF StartDaemon, DaemonExits, HeldInv
<1>6. TypeOK'
  BY <1>1, <1>2, <1>h DEF TypeOK
<1>7. Exclusive'
  <2>1. CASE StartDaemon(s, d)
    BY <1>1, <1>2, <1>6, <2>1, ListenKeepsExclusive DEF StartDaemon
  <2>2. CASE DaemonExits(s, d)
    BY <1>1, <2>2, CloseKeepsExclusive DEF DaemonExits
  <2> QED
    BY <2>1, <2>2
<1>8. Staged'
  BY <1>1, <1>2, <1>3, <1>4 DEF Staged
<1>9. StageInv'
  BY <1>1, <1>2, <1>5 DEF StageInv
<1>10. HeldInv'
  BY <1>1, <1>h DEF HeldInv
<1> QED
  BY <1>6, <1>7, <1>8, <1>9, <1>10

\* The pipe of an exited daemon is closed.
LEMMA PipeStep ==
    ASSUME Inv, NEW s \in Sessions, NEW d \in Daemons, PipeCloses(s, d)
    PROVE  Inv'
<1>1. /\ held' \subseteq held
      /\ UNCHANGED <<mode, pc, port, bound, taken, raced>>
  BY DEF PipeCloses
<1>2. TypeOK' /\ HeldInv'
  BY <1>1 DEF Inv, TypeOK, HeldInv
<1>3. Exclusive' /\ Staged' /\ StageInv'
  BY <1>1 DEF Inv, Exclusive, Staged, StageInv, Listening, Space, Host
<1> QED
  BY <1>2, <1>3 DEF Inv

\* Another program takes a free port of the host, or releases one.
LEMMA OthersStep ==
    ASSUME Inv, NEW p \in Ports, Take(p) \/ Release(p)
    PROVE  Inv'
<1> USE DEF Inv
<1>1. UNCHANGED <<mode, pc, port, bound, held>>
  BY DEF Take, Release
<1>2. \A t \in Sessions, q \in Roles :
          /\ Listening(t, q)' <=> Listening(t, q)
          /\ Space(t, q)' = Space(t, q)
  BY <1>1 DEF Listening, Space
<1>3. Host' = Host
  BY DEF Host
<1>4. TypeOK' /\ Staged' /\ HeldInv'
  BY <1>1, <1>2 DEF Take, Release, TypeOK, Staged, HeldInv
<1>5. CASE Take(p)
  <2>1. Free(Host, p) /\ taken' = taken \cup {p} /\ raced'
    BY <1>5 DEF Take
  <2>2. \A t \in Sessions, q \in Roles :
            Listening(t, q) /\ Space(t, q) = Host => port[t][q] # p
    BY <2>1, FreeIs
  <2>3. Exclusive'
    BY <1>1, <1>2, <1>3, <2>1, <2>2 DEF Exclusive
  <2>4. StageInv'
    BY <1>1, <1>2, <2>1 DEF StageInv, Roles, Daemons
  <2> QED
    BY <1>4, <2>3, <2>4
<1>6. CASE Release(p)
  <2>1. taken' \subseteq taken /\ raced' = raced
    BY <1>6 DEF Release
  <2>2. Exclusive'
    BY <1>1, <2>1, CloseKeepsExclusive
  <2>3. StageInv'
    BY <1>1, <1>2, <2>1 DEF StageInv, Roles, Daemons, TypeOK
  <2> QED
    BY <1>4, <2>2, <2>3
<1> QED
  BY <1>5, <1>6

\* Inv is inductive.
LEMMA InvPreserved == Inv /\ [Next]_vars => Inv'
<1> SUFFICES ASSUME Inv, [Next]_vars PROVE Inv'
  OBVIOUS
<1>1. ASSUME NEW s \in Sessions, NoPortLeft(s) \/ End(s) PROVE Inv'
  BY <1>1, EndStep DEF NoPortLeft, End, Searches
<1>2. CASE UNCHANGED vars
  BY <1>2 DEF vars, Inv, TypeOK, Exclusive, Staged, StageInv, HeldInv,
              Listening, Space, Host
<1> QED
  BY <1>1, <1>2, OpenProbeStep, CloseProbeStep, NewVirtualNetworkStep,
     DaemonStep, PipeStep, OthersStep DEF Next

\* Nobody listens and nothing is found yet.
LEMMA InitInv == Init => Inv
<1> SUFFICES ASSUME Init PROVE Inv
  OBVIOUS
<1>1. TypeOK
  BY DEF Init, TypeOK, Ports
<1>2. Exclusive /\ Staged
  BY DEF Init, Exclusive, Staged, Listening
<1>3. StageInv
  BY <1>1, PortsAssumption
     DEF Init, StageInv, Listening, TypeOK, Roles, Daemons
<1>4. HeldInv
  BY DEF Init, HeldInv
<1> QED
  BY <1>1, <1>2, <1>3, <1>4 DEF Inv

\* The invariant of the ports, with what the sessions have found.
LEMMA InvAlways == Spec => []Inv
BY InitInv, InvPreserved, PTL DEF Spec

\* No port ever has two listeners, however many sessions and programs look for
\* ports at the same time, and a session listens only as its stage has it.
THEOREM PortsInvariant == Spec => []PortsInv
<1>1. Inv => PortsInv
  BY ExclusiveIsUnique DEF Inv
<1> QED
  BY <1>1, InvAlways, PTL

\* The ssh port that GET /info reports and the podman proxy of a session lead to
\* that session, for any number of sessions with either network.
THEOREM ClientsReachOwnTheorem == Spec => []ClientsReachOwn
<1>1. Inv => ClientsReachOwn
  <2> SUFFICES ASSUME Inv, NEW s \in Sessions
               PROVE  /\ pc[s] = "up" /\ mode[s] = "gvisor" =>
                             /\ InfoReaches(s) = {<<s, "forward">>}
                             /\ \A l \in PodmanProxy(s) : l[1] = s
                      /\ Listening(s, "ssh") /\ mode[s] = "tsi" =>
                             InfoReaches(s) = {<<s, "ssh">>}
                      /\ Listening(s, "podman") =>
                             PodmanProxy(s) = {<<s, "podman">>}
    BY DEF ClientsReachOwn
  <2> USE DEF Inv
  <2>r. {"ssh", "podman", "forward"} \subseteq Roles
    BY DEF Roles, Daemons
  <2>1. ASSUME pc[s] = "up", mode[s] = "gvisor"
        PROVE  InfoReaches(s) = {<<s, "forward">>}
    <3>1. Listening(s, "forward")
      BY <2>1 DEF StageInv
    <3>2. Space(s, "forward") = Host
      BY DEF Space, Daemons
    <3> QED
      BY <2>1, <2>r, <3>1, <3>2, OnlyListener DEF InfoReaches, SSHProxyPort
  <2>2. ASSUME mode[s] = "gvisor", NEW l \in PodmanProxy(s)
        PROVE  l[1] = s
    <3>1. Space(s, "podman") = s /\ s # Host
      BY <2>2, PortsAssumption DEF Space, Daemons, Host
    <3>2. l \in Listeners(s, port[s]["podman"])
      BY <2>2, <3>1 DEF PodmanProxy
    <3>3. PICK t \in Sessions, q \in Roles : l = <<t, q>>
      BY <3>1, <3>2, ListenersAre
    <3>4. Space(t, q) = s
      BY <3>2, <3>3, ListenersAre
    <3> QED
      BY <3>1, <3>3, <3>4 DEF Space
  <2>3. ASSUME Listening(s, "ssh"), mode[s] = "tsi"
        PROVE  InfoReaches(s) = {<<s, "ssh">>}
    <3>1. Space(s, "ssh") = Host
      BY <2>3 DEF Space
    <3> QED
      BY <2>3, <2>r, <3>1, OnlyListener DEF InfoReaches, SSHProxyPort
  <2>4. ASSUME Listening(s, "podman")
        PROVE  PodmanProxy(s) = {<<s, "podman">>}
    BY <2>4, <2>r, OnlyListener DEF PodmanProxy
  <2> QED
    BY <2>1, <2>2, <2>3, <2>4
<1> QED
  BY <1>1, InvAlways, PTL

\* A session that is refused has lost its port to one that runs: a step that
\* refuses one session leaves another that is not.
LEMMA RacePreserved == Inv /\ RaceHasWinner /\ [Next]_vars => RaceHasWinner'
<1> SUFFICES ASSUME Inv, RaceHasWinner, [Next]_vars, Sessions # {}, ~raced'
             PROVE  \E s \in Sessions : pc'[s] # "refused"
  BY DEF RaceHasWinner
<1> USE DEF Inv
<1>1. ~raced
  BY DEF Next, OpenProbe, CloseProbe, NoPortLeft, NewVirtualNetwork,
         StartDaemon, DaemonExits, PipeCloses, End, Take, Release, vars, TypeOK
<1>2. PICK w \in Sessions : pc[w] # "refused"
  BY <1>1 DEF RaceHasWinner
<1>3. ASSUME NEW s \in Sessions, NewVirtualNetwork(s)
      PROVE  \E k \in Sessions : pc'[k] # "refused"
  <2>1. CASE Free(Host, port[s]["forward"])
    BY <1>3, <2>1 DEF NewVirtualNetwork, TypeOK
  <2>2. CASE ~Free(Host, port[s]["forward"])
    <3>1. port[s]["forward"] \notin taken
      BY <1>1 DEF StageInv
    <3>2. PICK k \in Sessions, r \in Roles : Listening(k, r)
                  /\ Space(k, r) = Host /\ port[k][r] = port[s]["forward"]
      BY <2>2, <3>1, FreeIs
    <3>3. pc[k] \notin {"refused", "ended"}
      BY <3>2 DEF Staged
    <3>4. k # s
      <4>1. pc[s] = "new"
        BY <1>3 DEF NewVirtualNetwork
      <4>2. ASSUME NEW q \in Roles PROVE ~Listening(s, q)
        BY <4>1 DEF Staged, StageInv, Searches
      <4> QED
        BY <3>2, <4>2
    <3> QED
      BY <1>3, <3>3, <3>4 DEF NewVirtualNetwork, TypeOK
  <2> QED
    BY <2>1, <2>2
<1>4. ASSUME NEW s \in Sessions, CloseProbe(s)
      PROVE  \E k \in Sessions : pc'[k] # "refused"
  <2>1. pc'[s] = After(s) /\ pc[s] \in Searches
    BY <1>4 DEF CloseProbe, TypeOK
  <2>2. After(s) # "refused"
    BY <2>1, AfterIs
  <2> QED
    BY <2>1, <2>2
<1>5. ASSUME NEW s \in Sessions, NoPortLeft(s) \/ End(s)
      PROVE  \E k \in Sessions : pc'[k] # "refused"
  <2>1. pc'[s] = "ended"
    BY <1>5 DEF NoPortLeft, End, TypeOK
  <2> QED
    BY <2>1
<1>6. CASE UNCHANGED pc
  BY <1>2, <1>6
<1> QED
  BY <1>3, <1>4, <1>5, <1>6
     DEF Next, OpenProbe, StartDaemon, DaemonExits, PipeCloses, Take, Release, vars

\* Of any number of sessions that race for ports among themselves, at least one
\* is not refused by virtualnetwork.New.
THEOREM RaceHasWinnerTheorem == Spec => []RaceHasWinner
<1>1. Init => RaceHasWinner
  BY DEF Init, RaceHasWinner
<1> QED
  BY <1>1, InvAlways, RacePreserved, PTL DEF Spec

=============================================================================
