------------------------------- MODULE Relay -------------------------------
(***************************************************************************)
(* One connection through the program.  Three pieces of code relay bytes   *)
(* between an accepted socket (the end "client") and a dialed one (the end *)
(* "server"), each with two copying goroutines, and they end differently:  *)
(*                                                                         *)
(*   tunnel  the podman socket of a gvisor session; the first copy that    *)
(*           ends closes both sockets, and no context reaches it           *)
(*   proxy   the podman socket of a TSI session; a copy that ends closes   *)
(*           the write side it fed, and a goroutine closes both sockets    *)
(*           when the context is done                                      *)
(*   unix    a --forward-unix socket in the guest; like proxy, but under   *)
(*           the agent's background context, which is never cancelled      *)
(*                                                                         *)
(* pkg/gvproxy/tunnel.go, pkg/network/forwarder.go,                        *)
(* cmd/guest-agent/pkg/service/unix_forwarder.go.  The sockets and the two *)
(* ends are external: closing a socket that holds unread bytes resets the  *)
(* connection, otherwise the far end reads everything and then EOF.        *)
(***************************************************************************)
EXTENDS Naturals

CONSTANTS MaxBytes, \* bound: bytes (or chunks) sent, per direction
          Window    \* what a socket holds before its writer has to wait

Kinds == {"tunnel", "proxy", "unix"}
Ends == {"client", "server"}
Dirs == {"up", "down"}

ASSUME RelayAssumption == /\ MaxBytes \in [Dirs -> Nat]
                          /\ Window \in Nat \ {0}

Src(d) == IF d = "up" THEN "client" ELSE "server"
Dst(d) == IF d = "up" THEN "server" ELSE "client"
Out(e) == IF e = "client" THEN "up" ELSE "down"
In(e) == IF e = "client" THEN "down" ELSE "up"

VARIABLES
    kind,      \* which of the three relays
    phase,     \* "idle", "dial", "relay", "over"
    cancelled, \* the context of the relay is done
    refused,   \* the dial failed
    sock,      \* the relay's socket to each end: "none", "open", "half" (its
               \* write side closed), "closed"
    copy,      \* the copying goroutine per direction: "none", "run",
               \* "closing" between its two closes, "done"
    sent,      \* bytes the source end wrote, per direction
    taken,     \* bytes the copy has read from its source
    moved,     \* bytes the copy has written to its destination
    got,       \* bytes the destination end has read
    fin,       \* the ends that will send nothing more
    left,      \* the ends that have closed their socket altogether
    aborted,   \* the ends whose close reset the connection
    deaf,      \* the ends that have stopped reading
    reset,     \* the ends whose connection the relay has reset
    seen       \* what the destination end read last: "open", "eof", "reset"

vars == <<kind, phase, cancelled, refused, sock, copy, sent, taken, moved, got,
          fin, left, aborted, deaf, reset, seen>>

bytes == <<sent, taken, moved, got>>
peers == <<fin, left, aborted, deaf, seen>>

\* Close: unread bytes turn the close into a reset.
Unread(e) == sent[Out(e)] > taken[Out(e)]
CloseAll(es) ==
    /\ sock' = [e \in Ends |-> IF e \in es THEN "closed" ELSE sock[e]]
    /\ reset' = reset \cup {e \in es : sock[e] \in {"open", "half"} /\ Unread(e)}

CloseWrite(e) ==
    /\ sock' = [sock EXCEPT ![e] = IF @ = "open" THEN "half" ELSE @]
    /\ UNCHANGED reset

-----------------------------------------------------------------------------
(* Plausible bugs of the definitions below.                                *)

\* bidirectionalCopy is used by every relay.
EndCopyByClosing(d) ==
    /\ copy' = [copy EXCEPT ![d] = "closing"]
    /\ CloseAll({Dst(d)})

\* proxy is used by every relay.
EndCopyByHalfClosing(d) ==
    /\ copy' = [copy EXCEPT ![d] = "done"]
    /\ CloseWrite(Dst(d))

\* proxy without the goroutine that waits for ctx.Done.
WatchMissing(e) ==
    /\ kind = "proxy" /\ cancelled /\ FALSE
    /\ UNCHANGED vars

\* relayBidirectional waits for one of its copies only.
RelayEndsEarly ==
    /\ phase = "relay"
    /\ \E d \in Dirs : copy[d] = "done"
    /\ phase' = "over"
    /\ CloseAll(Ends)
    /\ UNCHANGED <<kind, cancelled, refused, copy, bytes, peers>>

-----------------------------------------------------------------------------

Init ==
    /\ kind \in Kinds
    /\ phase = "idle"
    /\ cancelled = FALSE /\ refused = FALSE
    /\ sock = [e \in Ends |-> "none"]
    /\ copy = [d \in Dirs |-> "none"]
    /\ sent = [d \in Dirs |-> 0] /\ taken = [d \in Dirs |-> 0]
    /\ moved = [d \in Dirs |-> 0] /\ got = [d \in Dirs |-> 0]
    /\ fin = {} /\ left = {} /\ aborted = {} /\ deaf = {} /\ reset = {}
    /\ seen = [d \in Dirs |-> "open"]

(* ---- the handler of a connection ---- *)

\* acceptLoop, LocalForwarder.Run or serveUnixForwarder; the listener is closed
\* when the context is done.
Accept ==
    /\ phase = "idle" /\ ~cancelled
    /\ phase' = "dial"
    /\ sock' = [sock EXCEPT !["client"] = "open"]
    /\ UNCHANGED <<kind, cancelled, refused, copy, bytes, peers, reset>>

\* The far side is connected, for a tunnel by transport.Tunnel's handshake.
\* DialContext of the proxy refuses once its context is done.
DialSucceeds ==
    /\ phase = "dial"
    /\ kind = "proxy" => ~cancelled
    /\ phase' = "relay"
    /\ sock' = [sock EXCEPT !["server"] = "open"]
    /\ copy' = [d \in Dirs |-> "run"]
    /\ UNCHANGED <<kind, cancelled, refused, bytes, peers, reset>>

\* Every handler then closes the accepted connection.
DialFails ==
    /\ phase = "dial"
    /\ phase' = "over"
    /\ refused' = TRUE
    /\ CloseAll({"client"})
    /\ UNCHANGED <<kind, cancelled, copy, bytes, peers>>

\* io.Copy reads what its source has ...
Take(d) ==
    /\ copy[d] = "run" /\ sock[Src(d)] # "closed"
    /\ taken[d] = moved[d] /\ sent[d] > taken[d]
    /\ taken' = [taken EXCEPT ![d] = sent[d]]
    /\ UNCHANGED <<kind, phase, cancelled, refused, sock, copy, sent, moved, got,
                   peers, reset>>

\* ... and writes it, waiting while the destination does not read.
Put(d) ==
    /\ copy[d] = "run" /\ sock[Dst(d)] = "open" /\ Dst(d) \notin left
    /\ taken[d] > moved[d] /\ moved[d] < got[d] + Window
    /\ moved' = [moved EXCEPT ![d] = @ + 1]
    /\ UNCHANGED <<kind, phase, cancelled, refused, sock, copy, sent, taken, got,
                   peers, reset>>

\* io.Copy returns: at EOF or with a read error, ...
ReadEnds(d) ==
    /\ taken[d] = moved[d]
    /\ \/ Src(d) \in fin /\ taken[d] = sent[d]
       \/ Src(d) \in aborted
       \/ sock[Src(d)] = "closed"

\* ... or with a write error.
WriteFails(d) ==
    /\ taken[d] > moved[d]
    /\ Dst(d) \in left \/ sock[Dst(d)] = "closed"

\* copyFn, copyConn or copyAndShutdown after io.Copy; the error is dropped.
EndCopy(d) ==
    \/ /\ kind = "tunnel"
       /\ copy' = [copy EXCEPT ![d] = "closing"]
       /\ CloseAll({Dst(d)})
    \/ /\ kind # "tunnel"
       /\ copy' = [copy EXCEPT ![d] = "done"]
       /\ CloseWrite(Dst(d))

CopyReadEnds(d) ==
    /\ copy[d] = "run" /\ ReadEnds(d)
    /\ EndCopy(d)
    /\ UNCHANGED <<kind, phase, cancelled, refused, bytes, peers>>

\* Writing to an end that has left makes it reset the connection.
CopyWriteFails(d) ==
    /\ copy[d] = "run" /\ WriteFails(d)
    /\ EndCopy(d)
    /\ aborted' = aborted \cup ({Dst(d)} \cap left)
    /\ UNCHANGED <<kind, phase, cancelled, refused, bytes, fin, left, deaf, seen>>

\* The second close of the tunnel's copy.
CloseSource(d) ==
    /\ copy[d] = "closing"
    /\ copy' = [copy EXCEPT ![d] = "done"]
    /\ CloseAll({Src(d)})
    /\ UNCHANGED <<kind, phase, cancelled, refused, bytes, peers>>

\* wg.Wait returns; the deferred closes, or those of relayBidirectional.
RelayEnds ==
    /\ phase = "relay"
    /\ \A d \in Dirs : copy[d] = "done"
    /\ phase' = "over"
    /\ CloseAll(Ends)
    /\ UNCHANGED <<kind, cancelled, refused, copy, bytes, peers>>

\* The goroutine of proxy that waits for the context: a.Close, then b.Close.
WatchCloses(e) ==
    /\ kind = "proxy" /\ cancelled /\ phase = "relay"
    /\ sock[e] # "closed"
    /\ e = "server" => sock["client"] = "closed"
    /\ CloseAll({e})
    /\ UNCHANGED <<kind, phase, cancelled, refused, copy, bytes, peers>>

(* ---- the ends and the context ---- *)

\* Sending to a relay that has closed its socket is answered with a reset.
Send(e) ==
    /\ e \notin fin /\ sock[e] # "none" /\ sent[Out(e)] < MaxBytes[Out(e)]
    /\ sent' = [sent EXCEPT ![Out(e)] = @ + 1]
    /\ reset' = IF sock[e] = "closed" THEN reset \cup {e} ELSE reset
    /\ UNCHANGED <<kind, phase, cancelled, refused, sock, copy, taken, moved, got,
                   peers>>

\* shutdown(SHUT_WR).
Finish(e) ==
    /\ e \notin fin /\ sock[e] # "none"
    /\ fin' = fin \cup {e}
    /\ UNCHANGED <<kind, phase, cancelled, refused, sock, copy, bytes, left,
                   aborted, deaf, seen, reset>>

Leave(e) ==
    /\ e \notin left /\ sock[e] # "none"
    /\ fin' = fin \cup {e}
    /\ left' = left \cup {e}
    /\ aborted' = IF moved[In(e)] > got[In(e)] THEN aborted \cup {e} ELSE aborted
    /\ UNCHANGED <<kind, phase, cancelled, refused, sock, copy, bytes, deaf, seen,
                   reset>>

Read(e) ==
    /\ e \notin left \cup deaf
    /\ got[In(e)] < moved[In(e)]
    /\ got' = [got EXCEPT ![In(e)] = @ + 1]
    /\ UNCHANGED <<kind, phase, cancelled, refused, sock, copy, sent, taken, moved,
                   peers, reset>>

SeeEnd(e) ==
    /\ e \notin left \cup deaf /\ seen[In(e)] = "open"
    /\ \/ /\ e \in reset
          /\ seen' = [seen EXCEPT ![In(e)] = "reset"]
       \/ /\ e \notin reset /\ sock[e] \in {"half", "closed"}
          /\ got[In(e)] = moved[In(e)]
          /\ seen' = [seen EXCEPT ![In(e)] = "eof"]
    /\ UNCHANGED <<kind, phase, cancelled, refused, sock, copy, bytes, fin, left,
                   aborted, deaf, reset>>

StopReading(e) ==
    /\ e \notin left \cup deaf /\ sock[e] # "none"
    /\ deaf' = deaf \cup {e}
    /\ UNCHANGED <<kind, phase, cancelled, refused, sock, copy, bytes, fin, left,
                   aborted, seen, reset>>

\* The errgroup of the host ends; the agent's context is context.Background().
Cancel ==
    /\ kind # "unix" /\ ~cancelled
    /\ cancelled' = TRUE
    /\ UNCHANGED <<kind, phase, refused, sock, copy, bytes, peers, reset>>

Handle ==
    \/ DialFails \/ RelayEnds
    \/ \E d \in Dirs : \/ Take(d) \/ Put(d) \/ CopyReadEnds(d)
                       \/ CopyWriteFails(d) \/ CloseSource(d)
    \/ \E e \in Ends : WatchCloses(e)

Peer ==
    \E e \in Ends :
        Send(e) \/ Finish(e) \/ Leave(e) \/ Read(e) \/ SeeEnd(e) \/ StopReading(e)

Next == Accept \/ DialSucceeds \/ Handle \/ Peer \/ Cancel

\* Goroutines run, and an end that has not stopped reading reads.  A dial ends
\* by itself except in a tunnel, whose handshake has no deadline.
Fairness ==
    /\ WF_vars(kind # "tunnel" /\ (DialSucceeds \/ DialFails))
    /\ WF_vars(RelayEnds)
    /\ \A d \in Dirs :
          /\ WF_vars(Take(d) \/ Put(d) \/ CopyReadEnds(d) \/ CopyWriteFails(d))
          /\ WF_vars(CloseSource(d))
    /\ \A e \in Ends : WF_vars(WatchCloses(e)) /\ WF_vars(Read(e))

Spec == Init /\ [][Next]_vars /\ Fairness

-----------------------------------------------------------------------------
(* Safety.                                                                 *)

TypeOK ==
    /\ kind \in Kinds
    /\ phase \in {"idle", "dial", "relay", "over"}
    /\ cancelled \in BOOLEAN /\ refused \in BOOLEAN
    /\ sock \in [Ends -> {"none", "open", "half", "closed"}]
    /\ copy \in [Dirs -> {"none", "run", "closing", "done"}]
    /\ sent \in [Dirs -> Nat] /\ taken \in [Dirs -> Nat]
    /\ moved \in [Dirs -> Nat] /\ got \in [Dirs -> Nat]
    /\ fin \subseteq Ends /\ left \subseteq Ends /\ aborted \subseteq left
    /\ deaf \subseteq Ends /\ reset \subseteq Ends
    /\ seen \in [Dirs -> {"open", "eof", "reset"}]

\* Bytes arrive in order and none is made up, and a handler that has returned
\* leaves neither a copying goroutine nor an open socket behind.
RelayInv ==
    /\ TypeOK
    /\ \A d \in Dirs :
           /\ got[d] <= moved[d] /\ moved[d] <= taken[d] /\ taken[d] <= sent[d]
           /\ copy[d] = "none" <=> phase \in {"idle", "dial"} \/ refused
    /\ phase = "over" =>
           /\ \A d \in Dirs : copy[d] \in {"none", "done"}
           /\ \A e \in Ends : sock[e] \in {"none", "closed"}
    /\ refused => phase = "over"

\* What one end may take as the regular end of the other's stream is that: the
\* other end has finished and all it sent has arrived.  A relay ends a stream
\* early when the context is cancelled, the dial failed or the sender reset its
\* connection, and the errors of io.Copy are dropped, so these look like a
\* regular end as well.  So does a tunnel, which passes no half-close on, when
\* the receiver itself has finished sending.
CleanEndComplete ==
    \A d \in Dirs :
        seen[d] = "eof" =>
            \/ Src(d) \in fin /\ got[d] = sent[d]
            \/ cancelled \/ refused \/ Src(d) \in aborted
            \/ kind = "tunnel" /\ Dst(d) \in fin

-----------------------------------------------------------------------------
(* Liveness.                                                               *)

\* A connection lasts as long as its relay means it to: a tunnel ends with the
\* first of its ends that finishes, a proxy or a forwarded unix socket when both
\* have.  Then the handler returns, unless an end has stopped reading.
ConnectionsEnd ==
    /\ phase = "relay"
    /\ IF kind = "tunnel" THEN fin # {} ELSE fin = Ends
    ~> (phase = "over" \/ deaf # {})

\* The end of the errgroup ends the connections of a proxy, whatever its ends
\* do.  (A tunnel has no context and ends with the process.)
CancelEndsProxy ==
    kind = "proxy" /\ cancelled /\ phase # "idle" ~> phase = "over"

=============================================================================
