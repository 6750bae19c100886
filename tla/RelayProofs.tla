----------------------------- MODULE RelayProofs -----------------------------
(***************************************************************************)
(* Proofs about Relay for any number of bytes and any window.  RelayInv    *)
(* says what a handler leaves behind; why a socket is closed, which is     *)
(* what a clean end means to the far side, is in HalfCloses for the relays *)
(* that pass a half-close on and in FirstClose for the tunnel.             *)
(***************************************************************************)
EXTENDS Relay, TLAPS

Ended(d) == copy[d] \in {"closing", "done"}

\* Direction d is through: its source has finished and all it sent is written.
ReadAll(d) == Src(d) \in fin /\ moved[d] = sent[d]

\* The dialed socket is made by the dial, and an end that has left has finished.
Sockets ==
    /\ phase \in {"idle", "dial"} => sock["server"] = "none"
    /\ left \subseteq fin

\* proxy and relayBidirectional: a write side is closed by the copy that feeds
\* it, which was through or met an end that is gone, or by the context.
HalfCloses ==
    kind # "tunnel" =>
        \A d \in Dirs :
            /\ copy[d] # "closing"
            /\ Ended(d) => \/ ReadAll(d) \/ Src(d) \in aborted
                           \/ cancelled \/ Dst(d) \in left
            /\ sock[Dst(d)] \in {"half", "closed"} =>
                   Ended(d) \/ cancelled \/ refused
            /\ sock[Dst(d)] = "closed" /\ phase = "relay" => cancelled

\* bidirectionalCopy: the first copy that ends was through or met a reset; the
\* other one may end only because its sockets were closed by the first.
FirstClose ==
    kind = "tunnel" =>
        /\ \A e \in Ends : sock[e] # "half"
        /\ (\E e \in Ends : sock[e] = "closed") /\ ~refused =>
               \E d \in Dirs : Ended(d)
        /\ (\E d \in Dirs : Ended(d)) =>
               \E d \in Dirs : Ended(d) /\ (ReadAll(d) \/ aborted # {})

\* What is proved inductive.
Inv == RelayInv /\ Sockets /\ HalfCloses /\ FirstClose /\ CleanEndComplete

\* The other end and the other direction are different ones.
LEMMA Opposite ==
    ASSUME NEW d \in Dirs
    PROVE  /\ Src(d) \in Ends /\ Dst(d) \in Ends /\ Src(d) # Dst(d)
           /\ \A e \in Ends : e = Src(d) \/ e = Dst(d)
           /\ Out(Src(d)) = d /\ In(Dst(d)) = d
           /\ \A x \in Dirs : x # d => Src(x) = Dst(d) /\ Dst(x) = Src(d)
BY DEF Dirs, Ends, Src, Dst, Out, In

\* What the end of a copy does to the copies and the sockets.
LEMMA EndCopyIs ==
    ASSUME TypeOK, NEW d \in Dirs, EndCopy(d)
    PROVE  /\ copy' \in [Dirs -> {"none", "run", "closing", "done"}]
           /\ sock' \in [Ends -> {"none", "open", "half", "closed"}]
           /\ reset' \subseteq Ends
           /\ copy'[d] = IF kind = "tunnel" THEN "closing" ELSE "done"
           /\ \A x \in Dirs : x # d => copy'[x] = copy[x]
           /\ sock'[Src(d)] = sock[Src(d)]
           /\ sock'[Dst(d)] = IF kind = "tunnel" THEN "closed"
                              ELSE IF sock[Dst(d)] = "open" THEN "half"
                              ELSE sock[Dst(d)]
<1>1. CASE kind = "tunnel"
  <2>1. copy' = [copy EXCEPT ![d] = "closing"] /\ CloseAll({Dst(d)})
    BY <1>1 DEF EndCopy
  <2>2. /\ sock' = [e \in Ends |-> IF e \in {Dst(d)} THEN "closed" ELSE sock[e]]
        /\ reset' \subseteq Ends
    BY <2>1, Opposite DEF CloseAll, TypeOK
  <2> QED
    BY <1>1, <2>1, <2>2, Opposite DEF TypeOK
<1>2. CASE kind # "tunnel"
  <2>1. copy' = [copy EXCEPT ![d] = "done"] /\ CloseWrite(Dst(d))
    BY <1>2 DEF EndCopy
  <2> QED
    BY <1>2, <2>1, Opposite DEF CloseWrite, TypeOK
<1> QED
  BY <1>1, <1>2

\* Every step keeps the types.
LEMMA TypePreserved ==
    ASSUME TypeOK, [Next]_vars
    PROVE  TypeOK'
<1> USE DEF TypeOK, Kinds, Ends, Dirs, bytes, peers, Src, Dst, Out, In
<1>1. CASE Accept
  BY <1>1 DEF Accept
<1>2. CASE DialSucceeds
  BY <1>2 DEF DialSucceeds
<1>3. CASE DialFails
  BY <1>3 DEF DialFails, CloseAll
<1>4. CASE RelayEnds
  BY <1>4 DEF RelayEnds, CloseAll
<1>5. CASE Cancel
  BY <1>5 DEF Cancel
<1>6. ASSUME NEW d \in Dirs, Take(d) PROVE TypeOK'
  BY <1>6 DEF Take
<1>7. ASSUME NEW d \in Dirs, Put(d) PROVE TypeOK'
  BY <1>7 DEF Put
<1>8. ASSUME NEW d \in Dirs, CopyReadEnds(d) PROVE TypeOK'
  <2>1. /\ copy' \in [Dirs -> {"none", "run", "closing", "done"}]
        /\ sock' \in [Ends -> {"none", "open", "half", "closed"}]
        /\ reset' \subseteq Ends
    BY <1>8, EndCopyIs DEF CopyReadEnds
  <2> QED
    BY <1>8, <2>1 DEF CopyReadEnds
<1>9. ASSUME NEW d \in Dirs, CopyWriteFails(d) PROVE TypeOK'
  <2>1. /\ copy' \in [Dirs -> {"none", "run", "closing", "done"}]
        /\ sock' \in [Ends -> {"none", "open", "half", "closed"}]
        /\ reset' \subseteq Ends
    BY <1>9, EndCopyIs DEF CopyWriteFails
  <2>2. aborted' = aborted \cup ({Dst(d)} \cap left)
    BY <1>9 DEF CopyWriteFails
  <2> QED
    BY <1>9, <2>1, <2>2 DEF CopyWriteFails
<1>10. ASSUME NEW d \in Dirs, CloseSource(d) PROVE TypeOK'
  BY <1>10 DEF CloseSource, CloseAll
<1>11. ASSUME NEW e \in Ends, WatchCloses(e) PROVE TypeOK'
  BY <1>11 DEF WatchCloses, CloseAll
<1>12. ASSUME NEW e \in Ends, Send(e) PROVE TypeOK'
  BY <1>12 DEF Send
<1>13. ASSUME NEW e \in Ends, Finish(e) PROVE TypeOK'
  BY <1>13 DEF Finish
<1>14. ASSUME NEW e \in Ends, Leave(e) PROVE TypeOK'
  BY <1>14 DEF Leave
<1>15. ASSUME NEW e \in Ends, Read(e) PROVE TypeOK'
  BY <1>15 DEF Read
<1>16. ASSUME NEW e \in Ends, SeeEnd(e) PROVE TypeOK'
  BY <1>16 DEF SeeEnd
<1>17. ASSUME NEW e \in Ends, StopReading(e) PROVE TypeOK'
  BY <1>17 DEF StopReading
<1>18. CASE UNCHANGED vars
  BY <1>18 DEF vars
<1> QED
  BY <1>1, <1>2, <1>3, <1>4, <1>5, <1>6, <1>7, <1>8, <1>9, <1>10, <1>11, <1>12,
     <1>13, <1>14, <1>15, <1>16, <1>17, <1>18
     DEF Next, Handle, Peer

\* Bytes stay in order and a handler that returns leaves nothing behind.
LEMMA RelayPreserved ==
    ASSUME RelayInv, Sockets, TypeOK', HalfCloses, [Next]_vars
    PROVE  RelayInv' /\ Sockets'
<1> USE DEF RelayInv, TypeOK, Sockets, Kinds, Ends, Dirs, bytes, peers, Src, Dst, Out, In
<1>1. CASE Accept
  BY <1>1 DEF Accept
<1>2. CASE DialSucceeds
  BY <1>2 DEF DialSucceeds
<1>3. CASE DialFails
  BY <1>3 DEF DialFails, CloseAll
<1>4. CASE RelayEnds
  BY <1>4 DEF RelayEnds, CloseAll
<1>5. CASE Cancel
  BY <1>5 DEF Cancel
<1>6. ASSUME NEW d \in Dirs, Take(d) PROVE RelayInv' /\ Sockets'
  BY <1>6 DEF Take
<1>7. ASSUME NEW d \in Dirs, Put(d) PROVE RelayInv' /\ Sockets'
  BY <1>7 DEF Put
<1>8. ASSUME NEW d \in Dirs, CopyReadEnds(d) PROVE RelayInv' /\ Sockets'
  BY <1>8 DEF CopyReadEnds, EndCopy, CloseAll, CloseWrite
<1>9. ASSUME NEW d \in Dirs, CopyWriteFails(d) PROVE RelayInv' /\ Sockets'
  BY <1>9 DEF CopyWriteFails, EndCopy, CloseAll, CloseWrite
<1>10. ASSUME NEW d \in Dirs, CloseSource(d) PROVE RelayInv' /\ Sockets'
  BY <1>10 DEF CloseSource, CloseAll
<1>11. ASSUME NEW e \in Ends, WatchCloses(e) PROVE RelayInv' /\ Sockets'
  BY <1>11 DEF WatchCloses, CloseAll
<1>12. ASSUME NEW e \in Ends, Send(e) PROVE RelayInv' /\ Sockets'
  BY <1>12 DEF Send
<1>13. ASSUME NEW e \in Ends, Finish(e) PROVE RelayInv' /\ Sockets'
  BY <1>13 DEF Finish
<1>14. ASSUME NEW e \in Ends, Leave(e) PROVE RelayInv' /\ Sockets'
  BY <1>14 DEF Leave
<1>15. ASSUME NEW e \in Ends, Read(e) PROVE RelayInv' /\ Sockets'
  BY <1>15 DEF Read
<1>16. ASSUME NEW e \in Ends, SeeEnd(e) PROVE RelayInv' /\ Sockets'
  BY <1>16 DEF SeeEnd
<1>17. ASSUME NEW e \in Ends, StopReading(e) PROVE RelayInv' /\ Sockets'
  BY <1>17 DEF StopReading
<1>18. CASE UNCHANGED vars
  BY <1>18 DEF vars
<1> QED
  BY <1>1, <1>2, <1>3, <1>4, <1>5, <1>6, <1>7, <1>8, <1>9, <1>10, <1>11, <1>12,
     <1>13, <1>14, <1>15, <1>16, <1>17, <1>18
     DEF Next, Handle, Peer

\* A half-close is passed on when the copy is through, and not before.
LEMMA HalfClosesPreserved ==
    ASSUME RelayInv, Sockets, HalfCloses, TypeOK', [Next]_vars
    PROVE  HalfCloses'
<1> USE DEF RelayInv, TypeOK, Sockets, HalfCloses, Ended, ReadAll,
        Kinds, Ends, Dirs, bytes, peers, Src, Dst, Out, In
<1>1. CASE Accept
  BY <1>1 DEF Accept
<1>2. CASE DialSucceeds
  BY <1>2 DEF DialSucceeds
<1>3. CASE DialFails
  BY <1>3 DEF DialFails, CloseAll
<1>4. CASE RelayEnds
  BY <1>4 DEF RelayEnds, CloseAll
<1>5. CASE Cancel
  BY <1>5 DEF Cancel
<1>6. ASSUME NEW d \in Dirs, Take(d) PROVE HalfCloses'
  BY <1>6 DEF Take
<1>7. ASSUME NEW d \in Dirs, Put(d) PROVE HalfCloses'
  BY <1>7 DEF Put
<1>8. ASSUME NEW d \in Dirs, CopyReadEnds(d) PROVE HalfCloses'
  <2> SUFFICES ASSUME kind' # "tunnel"
               PROVE  HalfCloses'
    OBVIOUS
  <2>1. /\ kind' = kind /\ phase' = phase /\ cancelled' = cancelled
        /\ refused' = refused /\ fin' = fin /\ left' = left
        /\ moved' = moved /\ sent' = sent /\ taken' = taken
        /\ aborted' = aborted
    BY <1>8 DEF CopyReadEnds
  <2>2. copy[d] = "run" /\ EndCopy(d)
    BY <1>8 DEF CopyReadEnds
  <2>k. kind # "tunnel"
    BY <2>1
  <2>r. phase = "relay"
    BY <2>2
  <2>3. /\ copy'[d] = "done"
        /\ \A x \in Dirs : x # d => copy'[x] = copy[x]
        /\ sock'[Src(d)] = sock[Src(d)]
        /\ sock'[Dst(d)] \in {"half", sock[Dst(d)]}
    BY <2>2, <2>k, EndCopyIs
  <2>4. \/ ReadAll(d)' \/ Src(d) \in aborted' \/ cancelled' \/ Dst(d) \in left'
    <3>1. ReadEnds(d)
      BY <1>8 DEF CopyReadEnds
    <3>2. sock[Src(d)] = "closed" => cancelled
      <4>1. PICK y \in Dirs : Dst(y) = Src(d)
        OBVIOUS
      <4> QED
        BY <2>k, <2>r, <4>1
    <3> QED
      BY <2>1, <2>2, <3>1, <3>2 DEF ReadEnds
  <2>5. sock'[Dst(d)] = "closed" => cancelled'
    BY <2>1, <2>3, <2>k, <2>r
  <2>6. ASSUME NEW x \in Dirs, x # d
        PROVE  /\ copy'[x] = copy[x] /\ sock'[Dst(x)] = sock[Dst(x)]
               /\ ReadAll(x)' = ReadAll(x)
    BY <2>1, <2>3, <2>6
  <2>7. ASSUME NEW x \in Dirs
        PROVE  /\ copy'[x] # "closing"
               /\ Ended(x)' => \/ ReadAll(x)' \/ Src(x) \in aborted'
                               \/ cancelled' \/ Dst(x) \in left'
               /\ sock'[Dst(x)] \in {"half", "closed"} =>
                      Ended(x)' \/ cancelled' \/ refused'
               /\ sock'[Dst(x)] = "closed" /\ phase' = "relay" => cancelled'
    <3>1. CASE x = d
      BY <2>3, <2>4, <2>5, <3>1
    <3>2. CASE x # d
      BY <2>1, <2>6, <2>k, <3>2
    <3> QED
      BY <3>1, <3>2
  <2> QED
    BY <2>7
<1>9. ASSUME NEW d \in Dirs, CopyWriteFails(d) PROVE HalfCloses'
  <2> SUFFICES ASSUME kind' # "tunnel"
               PROVE  HalfCloses'
    OBVIOUS
  <2>1. /\ kind' = kind /\ phase' = phase /\ cancelled' = cancelled
        /\ refused' = refused /\ fin' = fin /\ left' = left
        /\ moved' = moved /\ sent' = sent /\ taken' = taken
        /\ aborted \subseteq aborted'
    BY <1>9 DEF CopyWriteFails
  <2>2. copy[d] = "run" /\ EndCopy(d)
    BY <1>9 DEF CopyWriteFails
  <2>k. kind # "tunnel"
    BY <2>1
  <2>r. phase = "relay"
    BY <2>2
  <2>3. /\ copy'[d] = "done"
        /\ \A x \in Dirs : x # d => copy'[x] = copy[x]
        /\ sock'[Src(d)] = sock[Src(d)]
        /\ sock'[Dst(d)] \in {"half", sock[Dst(d)]}
    BY <2>2, <2>k, EndCopyIs
  <2>4. \/ ReadAll(d)' \/ Src(d) \in aborted' \/ cancelled' \/ Dst(d) \in left'
    <3>1. Dst(d) \in left \/ sock[Dst(d)] = "closed"
      BY <1>9 DEF CopyWriteFails, WriteFails
    <3> QED
      BY <2>1, <2>k, <2>r, <3>1
  <2>5. sock'[Dst(d)] = "closed" => cancelled'
    BY <2>1, <2>3, <2>k, <2>r
  <2>6. ASSUME NEW x \in Dirs, x # d
        PROVE  /\ copy'[x] = copy[x] /\ sock'[Dst(x)] = sock[Dst(x)]
               /\ ReadAll(x)' = ReadAll(x)
    BY <2>1, <2>3, <2>6
  <2>7. ASSUME NEW x \in Dirs
        PROVE  /\ copy'[x] # "closing"
               /\ Ended(x)' => \/ ReadAll(x)' \/ Src(x) \in aborted'
                               \/ cancelled' \/ Dst(x) \in left'
               /\ sock'[Dst(x)] \in {"half", "closed"} =>
                      Ended(x)' \/ cancelled' \/ refused'
               /\ sock'[Dst(x)] = "closed" /\ phase' = "relay" => cancelled'
    <3>1. CASE x = d
      BY <2>3, <2>4, <2>5, <3>1
    <3>2. CASE x # d
      BY <2>1, <2>6, <2>k, <3>2
    <3> QED
      BY <3>1, <3>2
  <2> QED
    BY <2>7
<1>10. ASSUME NEW d \in Dirs, CloseSource(d) PROVE HalfCloses'
  BY <1>10 DEF CloseSource, CloseAll
<1>11. ASSUME NEW e \in Ends, WatchCloses(e) PROVE HalfCloses'
  BY <1>11 DEF WatchCloses, CloseAll
<1>12. ASSUME NEW e \in Ends, Send(e) PROVE HalfCloses'
  BY <1>12 DEF Send
<1>13. ASSUME NEW e \in Ends, Finish(e) PROVE HalfCloses'
  BY <1>13 DEF Finish
<1>14. ASSUME NEW e \in Ends, Leave(e) PROVE HalfCloses'
  BY <1>14 DEF Leave
<1>15. ASSUME NEW e \in Ends, Read(e) PROVE HalfCloses'
  BY <1>15 DEF Read
<1>16. ASSUME NEW e \in Ends, SeeEnd(e) PROVE HalfCloses'
  BY <1>16 DEF SeeEnd
<1>17. ASSUME NEW e \in Ends, StopReading(e) PROVE HalfCloses'
  BY <1>17 DEF StopReading
<1>18. CASE UNCHANGED vars
  BY <1>18 DEF vars
<1> QED
  BY <1>1, <1>2, <1>3, <1>4, <1>5, <1>6, <1>7, <1>8, <1>9, <1>10, <1>11, <1>12,
     <1>13, <1>14, <1>15, <1>16, <1>17, <1>18
     DEF Next, Handle, Peer

\* The first close of a tunnel has a reason of its own.
LEMMA FirstClosePreserved ==
    ASSUME RelayInv, Sockets, FirstClose, TypeOK', [Next]_vars
    PROVE  FirstClose'
<1> USE DEF RelayInv, TypeOK, Sockets, FirstClose, Ended, ReadAll,
        Kinds, Ends, Dirs, bytes, peers, Src, Dst, Out, In
<1>1. CASE Accept
  BY <1>1 DEF Accept
<1>2. CASE DialSucceeds
  BY <1>2 DEF DialSucceeds
<1>3. CASE DialFails
  BY <1>3 DEF DialFails, CloseAll
<1>4. CASE RelayEnds
  BY <1>4 DEF RelayEnds, CloseAll
<1>5. CASE Cancel
  BY <1>5 DEF Cancel
<1>6. ASSUME NEW d \in Dirs, Take(d) PROVE FirstClose'
  BY <1>6 DEF Take
<1>7. ASSUME NEW d \in Dirs, Put(d) PROVE FirstClose'
  BY <1>7 DEF Put
<1>8. ASSUME NEW d \in Dirs, CopyReadEnds(d) PROVE FirstClose'
  <2> SUFFICES ASSUME kind' = "tunnel"
               PROVE  FirstClose'
    OBVIOUS
  <2>1. /\ kind' = kind /\ refused' = refused /\ fin' = fin
        /\ moved' = moved /\ sent' = sent /\ taken' = taken
        /\ aborted' = aborted
    BY <1>8 DEF CopyReadEnds
  <2>2. copy[d] = "run" /\ EndCopy(d) /\ kind = "tunnel" /\ ~refused
    BY <1>8, <2>1 DEF CopyReadEnds
  <2>3. /\ copy'[d] = "closing"
        /\ \A x \in Dirs : x # d => copy'[x] = copy[x]
        /\ \A e \in Ends : sock'[e] \in {"closed", sock[e]}
    BY <2>2, EndCopyIs
  <2>4. \E x \in Dirs : Ended(x)' /\ (ReadAll(x)' \/ aborted' # {})
    <3>1. CASE \E x \in Dirs : Ended(x)
      BY <2>1, <2>2, <2>3, <3>1
    <3>2. CASE ~\E x \in Dirs : Ended(x)
      <4>1. \A e \in Ends : sock[e] # "closed"
        BY <2>2, <3>2
      <4>2. ReadEnds(d)
        BY <1>8 DEF CopyReadEnds
      <4>3. ReadAll(d)' \/ aborted' # {}
        BY <2>1, <4>1, <4>2 DEF ReadEnds
      <4> QED
        BY <2>3, <4>3
    <3> QED
      BY <3>1, <3>2
  <2>5. \A e \in Ends : sock'[e] # "half"
    BY <2>2, <2>3
  <2> QED
    BY <2>4, <2>5
<1>9. ASSUME NEW d \in Dirs, CopyWriteFails(d) PROVE FirstClose'
  <2> SUFFICES ASSUME kind' = "tunnel"
               PROVE  FirstClose'
    OBVIOUS
  <2>1. /\ kind' = kind /\ refused' = refused /\ fin' = fin
        /\ moved' = moved /\ sent' = sent /\ taken' = taken
        /\ aborted \subseteq aborted'
    BY <1>9 DEF CopyWriteFails
  <2>2. copy[d] = "run" /\ EndCopy(d) /\ kind = "tunnel" /\ ~refused
    BY <1>9, <2>1 DEF CopyWriteFails
  <2>3. /\ copy'[d] = "closing"
        /\ \A x \in Dirs : x # d => copy'[x] = copy[x]
        /\ \A e \in Ends : sock'[e] \in {"closed", sock[e]}
    BY <2>2, EndCopyIs
  <2>4. \E x \in Dirs : Ended(x)' /\ (ReadAll(x)' \/ aborted' # {})
    <3>1. CASE \E x \in Dirs : Ended(x)
      BY <2>1, <2>2, <2>3, <3>1
    <3>2. CASE ~\E x \in Dirs : Ended(x)
      <4>1. \A e \in Ends : sock[e] # "closed"
        BY <2>2, <3>2
      <4>2. WriteFails(d) /\ aborted' = aborted \cup ({Dst(d)} \cap left)
        BY <1>9 DEF CopyWriteFails
      <4>3. aborted' # {}
        BY <4>1, <4>2 DEF WriteFails
      <4> QED
        BY <2>3, <4>3
    <3> QED
      BY <3>1, <3>2
  <2>5. \A e \in Ends : sock'[e] # "half"
    BY <2>2, <2>3
  <2> QED
    BY <2>4, <2>5
<1>10. ASSUME NEW d \in Dirs, CloseSource(d) PROVE FirstClose'
  BY <1>10 DEF CloseSource, CloseAll
<1>11. ASSUME NEW e \in Ends, WatchCloses(e) PROVE FirstClose'
  BY <1>11 DEF WatchCloses, CloseAll
<1>12. ASSUME NEW e \in Ends, Send(e) PROVE FirstClose'
  BY <1>12 DEF Send
<1>13. ASSUME NEW e \in Ends, Finish(e) PROVE FirstClose'
  BY <1>13 DEF Finish
<1>14. ASSUME NEW e \in Ends, Leave(e) PROVE FirstClose'
  BY <1>14 DEF Leave
<1>15. ASSUME NEW e \in Ends, Read(e) PROVE FirstClose'
  BY <1>15 DEF Read
<1>16. ASSUME NEW e \in Ends, SeeEnd(e) PROVE FirstClose'
  BY <1>16 DEF SeeEnd
<1>17. ASSUME NEW e \in Ends, StopReading(e) PROVE FirstClose'
  BY <1>17 DEF StopReading
<1>18. CASE UNCHANGED vars
  BY <1>18 DEF vars
<1> QED
  BY <1>1, <1>2, <1>3, <1>4, <1>5, <1>6, <1>7, <1>8, <1>9, <1>10, <1>11, <1>12,
     <1>13, <1>14, <1>15, <1>16, <1>17, <1>18
     DEF Next, Handle, Peer

\* The right side of CleanEndComplete: why direction d may look ended.
GoodEnd(d) ==
    \/ Src(d) \in fin /\ got[d] = sent[d]
    \/ cancelled \/ refused \/ Src(d) \in aborted
    \/ kind = "tunnel" /\ Dst(d) \in fin

\* A reason, once there, stays: nothing is sent after the end, and what has
\* arrived is all there is.
LEMMA GoodEndStays ==
    ASSUME RelayInv, [Next]_vars, NEW d \in Dirs, GoodEnd(d)
    PROVE  GoodEnd(d)'
<1> USE DEF RelayInv, TypeOK, Kinds, Ends, Dirs
<1>1. /\ kind' = kind /\ fin \subseteq fin' /\ aborted \subseteq aborted'
      /\ cancelled => cancelled'
      /\ refused => refused'
  BY DEF Next, Handle, Peer, vars, peers, Accept, DialSucceeds, DialFails,
         RelayEnds, Cancel, Take, Put, CopyReadEnds, CopyWriteFails, CloseSource,
         WatchCloses, Send, Finish, Leave, Read, SeeEnd, StopReading
<1>2. CASE Src(d) \in fin /\ got[d] = sent[d]
  <2>1. got[d] \in Nat /\ moved[d] \in Nat /\ sent[d] \in Nat
        /\ moved[d] = got[d]
    BY <1>2
  <2>2. ASSUME NEW e \in Ends, Send(e) \/ Read(e)
        PROVE  got'[d] = got[d] /\ sent'[d] = sent[d]
    BY <1>2, <2>1, <2>2 DEF Send, Read, Src, Dst, In, Out
  <2>3. ASSUME ~\E e \in Ends : Send(e) \/ Read(e)
        PROVE  got'[d] = got[d] /\ sent'[d] = sent[d]
    BY <2>3 DEF Next, Handle, Peer, vars, bytes, Accept, DialSucceeds, DialFails,
       RelayEnds, Cancel, Take, Put, CopyReadEnds, CopyWriteFails, CloseSource,
       WatchCloses, Finish, Leave, SeeEnd, StopReading
  <2> QED
    BY <1>1, <1>2, <2>2, <2>3 DEF GoodEnd
<1>3. CASE ~(Src(d) \in fin /\ got[d] = sent[d])
  BY <1>1, <1>3 DEF GoodEnd
<1> QED
  BY <1>2, <1>3

\* An end that reads EOF has a reason to: its socket was closed by a copy that
\* was through, by the context, or in a tunnel by the copy the other way.
LEMMA EOFHasReason ==
    ASSUME RelayInv, Sockets, HalfCloses, FirstClose, NEW d \in Dirs,
           sock[Dst(d)] \in {"half", "closed"}, got[d] = moved[d],
           Dst(d) \notin left
    PROVE  GoodEnd(d)
<1>1. CASE kind # "tunnel"
  BY <1>1 DEF HalfCloses, GoodEnd, ReadAll
<1>2. CASE kind = "tunnel" /\ ~refused
  <2>1. sock[Dst(d)] = "closed"
    BY <1>2, Opposite DEF FirstClose
  <2>2. PICK x \in Dirs : Ended(x) /\ (ReadAll(x) \/ aborted # {})
    BY <1>2, <2>1, Opposite DEF FirstClose
  <2>3. CASE aborted # {}
    <3>1. \A e \in aborted : e \in fin /\ e \in Ends
      BY DEF RelayInv, TypeOK, Sockets
    <3> QED
      BY <1>2, <2>3, <3>1, Opposite DEF GoodEnd
  <2>4. CASE ReadAll(x)
    BY <1>2, <2>4, Opposite DEF ReadAll, GoodEnd
  <2> QED
    BY <2>2, <2>3, <2>4
<1>3. CASE refused
  BY <1>3 DEF GoodEnd
<1> QED
  BY <1>1, <1>2, <1>3

\* SeeEnd is the only step that lets an end see EOF.
LEMMA CleanEndPreserved ==
    ASSUME Inv, [Next]_vars
    PROVE  CleanEndComplete'
<1> USE DEF Inv
<1> SUFFICES ASSUME NEW d \in Dirs, seen'[d] = "eof"
             PROVE  GoodEnd(d)'
  BY DEF CleanEndComplete, GoodEnd
<1>1. CASE seen[d] = "eof"
  <2>1. GoodEnd(d)
    BY <1>1 DEF CleanEndComplete, GoodEnd
  <2> QED
    BY <2>1, GoodEndStays
<1>2. CASE seen[d] # "eof"
  <2>1. PICK e \in Ends : SeeEnd(e)
    BY <1>2 DEF Next, Handle, Peer, vars, peers, Accept, DialSucceeds, DialFails,
       RelayEnds, Cancel, Take, Put, CopyReadEnds, CopyWriteFails, CloseSource,
       WatchCloses, Send, Finish, Leave, Read, StopReading
  <2>2. e = Dst(d)
    BY <1>2, <2>1
       DEF SeeEnd, RelayInv, TypeOK, Ends, Dirs, In, Dst
  <2>3. In(e) = d
    BY <2>2, Opposite
  <2>4. /\ sock[e] \in {"half", "closed"}
        /\ got[d] = moved[d] /\ e \notin left
    BY <2>1, <2>3 DEF SeeEnd, RelayInv, TypeOK
  <2>5. GoodEnd(d)
    BY <2>2, <2>4, EOFHasReason
  <2> QED
    BY <2>5, GoodEndStays
<1> QED
  BY <1>1, <1>2

\* Inv is inductive.
LEMMA InvPreserved == Inv /\ [Next]_vars => Inv'
<1> SUFFICES ASSUME Inv, [Next]_vars PROVE Inv'
  OBVIOUS
<1>1. TypeOK'
  BY TypePreserved DEF Inv, RelayInv
<1> QED
  BY <1>1, RelayPreserved, HalfClosesPreserved, FirstClosePreserved,
     CleanEndPreserved DEF Inv

\* Nothing is accepted, dialed, closed or seen.
LEMMA InitInv == Init => Inv
<1> SUFFICES ASSUME Init PROVE Inv
  OBVIOUS
<1> USE DEF Init, Ends, Dirs, Kinds
<1>1. RelayInv
  <2>1. TypeOK
    BY DEF TypeOK
  <2>2. \A d \in Dirs : got[d] = 0 /\ moved[d] = 0 /\ taken[d] = 0
                        /\ sent[d] = 0 /\ copy[d] = "none"
    OBVIOUS
  <2> QED
    BY <2>1, <2>2 DEF RelayInv
<1>2. Sockets /\ CleanEndComplete
  BY DEF Sockets, CleanEndComplete
<1>3. HalfCloses /\ FirstClose
  BY DEF HalfCloses, FirstClose, Ended, Dst
<1> QED
  BY <1>1, <1>2, <1>3 DEF Inv

\* The invariant with the reasons of the closes.
LEMMA InvAlways == Spec => []Inv
BY InitInv, InvPreserved, PTL DEF Spec

\* No relay makes up or reorders bytes, and a handler that has returned has left
\* neither a goroutine nor a socket, for any number of bytes and any window.
THEOREM RelayInvariant == Spec => []RelayInv
<1>1. Inv => RelayInv
  BY DEF Inv
<1> QED
  BY <1>1, InvAlways, PTL

\* A clean end of a stream is complete, with the exceptions CleanEndComplete
\* names.
THEOREM CleanEndTheorem == Spec => []CleanEndComplete
<1>1. Inv => CleanEndComplete
  BY DEF Inv
<1> QED
  BY <1>1, InvAlways, PTL

=============================================================================
