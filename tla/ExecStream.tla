----------------------------- MODULE ExecStream -----------------------------
(***************************************************************************)
(* POST /v2/exec and /exec of the management API: a command is run in the  *)
(* guest over ssh and its output is streamed to the client as server-sent  *)
(* events.  One request is six goroutines: the HTTP handler, which         *)
(* subscribes to the request's topic; executeCommand, which dials, waits   *)
(* for the scanners and publishes the outcome; the one around RunWith;     *)
(* session.Run with its copies into two io.Pipes; and a scanner per pipe.  *)
(* All requests share the SSE server's provider, one goroutine that writes *)
(* each event to its client before it takes the next.                      *)
(*                                                                         *)
(* pkg/service/management/server.go, pkg/sse/sse_server.go,                *)
(* pkg/service/ssh/ssh.go, pkg/ssh/ssh.go.  The SSE provider (go-sse's     *)
(* Joe), io.Pipe, bufio.Scanner and the ssh session are external.          *)
(***************************************************************************)
EXTENDS Naturals

CONSTANTS Requests,  \* exec requests, each sent once
          Free,      \* the provider has nothing to send
          MaxLines,  \* bound: lines the command of a request writes to a stream
          Kinds,     \* the kinds of lines, of "line", "long", "limit"
          MayHang,   \* TRUE: the guest may stop answering
          MayStall   \* the requests whose client may stop reading its response

Streams == {"out", "err"}

ASSUME ExecAssumption == /\ Kinds \subseteq {"line", "long", "limit"}
                         /\ MayHang \in BOOLEAN
                         /\ Free \notin Requests \X
                                         {"out", "err", "done", "fail"}
ASSUME BoundAssumption == /\ MaxLines \in [Requests -> [Streams -> Nat]]
                          /\ MayStall \subseteq Requests

VARIABLES
    handler,  \* "idle", "serving", "subscribed", "returned", "rejected"
    ctxDone,  \* the requests whose context is cancelled
    gone,     \* the requests whose client has disconnected
    stalled,  \* the requests whose client does not read
    exec,     \* executeCommand: "none", "dial", "wait", "failing",
              \* "finishing", "ended"
    runner,   \* RunWith: "none", "session", "running", "returned", "aborted"
    result,   \* what RunWith put into ErrChan: "none", "ok", "error"
    open,     \* the streams whose pipe has an open writer
    pipe,     \* the write that waits in a pipe: "empty", "line", "long" (over
              \* the scanner's 1 MiB), "limit" (the last one, exactly 1 MiB)
    scanner,  \* "none", "scanning", "publishing", "quit"
    sent,     \* lines the command has written, per stream
    got,      \* lines the client has received, per stream
    told,     \* the outcome the client has received: "none", "done", "fail"
    joe,      \* the event the provider is sending: <<request, what>> or Free
    hung,     \* the guest has stopped answering
    early,    \* history: requests with an event before the subscription
    cut       \* history: requests whose last line a scanner dropped

vars == <<handler, ctxDone, gone, stalled, exec, runner, result, open, pipe,
          scanner, sent, got, told, joe, hung, early, cut>>

clientVars == <<gone, stalled, hung>>
runVars == <<runner, result, open, pipe, sent>>
seenVars == <<got, told>>

-----------------------------------------------------------------------------
(* Plausible bugs of the actions below; none of them is part of Next.      *)

\* executeCommand takes the result without waiting for the scanners.
CollectAtOnce(r) ==
    /\ exec[r] = "wait"
    /\ result[r] # "none"
    /\ exec' = [exec EXCEPT ![r] =
                    IF result[r] = "ok" THEN "finishing" ELSE "failing"]
    /\ UNCHANGED <<handler, ctxDone, runVars, scanner, seenVars, joe,
                   clientVars, early, cut>>

\* The context is cancelled before the outcome is published.
CollectAndCancel(r) ==
    /\ exec[r] = "wait"
    /\ \A s \in Streams : scanner[r][s] = "quit"
    /\ result[r] # "none"
    /\ exec' = [exec EXCEPT ![r] =
                    IF result[r] = "ok" THEN "finishing" ELSE "failing"]
    /\ ctxDone' = ctxDone \cup {r}
    /\ UNCHANGED <<handler, runVars, scanner, seenVars, joe, clientVars,
                   early, cut>>

\* RunWith sends SIGTERM and then waits for session.Run.
RunAbortsLate(r) ==
    /\ runner[r] = "running"
    /\ r \in ctxDone
    /\ \A s \in Streams : pipe[r][s] = "empty"
    /\ runner' = [runner EXCEPT ![r] = "aborted"]
    /\ result' = [result EXCEPT ![r] = "error"]
    /\ UNCHANGED <<handler, ctxDone, exec, open, pipe, sent, scanner,
                   seenVars, joe, clientVars, early, cut>>

\* The provider tries a write to a client that has left again.
JoeDropsNever(r, what) ==
    /\ joe = <<r, what>>
    /\ r \in gone
    /\ UNCHANGED vars

\* Only the writer of stdout is closed.
CloseStdout(r, s) ==
    /\ runner[r] \in {"returned", "aborted"}
    /\ s \in open[r]
    /\ s = "out"
    /\ open' = [open EXCEPT ![r] = @ \ {s}]
    /\ pipe' = [pipe EXCEPT ![r][s] = "empty"]
    /\ UNCHANGED <<handler, ctxDone, exec, runner, result, sent, scanner,
                   seenVars, joe, clientVars, early, cut>>

-----------------------------------------------------------------------------

Init ==
    /\ handler = [r \in Requests |-> "idle"]
    /\ ctxDone = {}
    /\ gone = {}
    /\ stalled = {}
    /\ exec = [r \in Requests |-> "none"]
    /\ runner = [r \in Requests |-> "none"]
    /\ result = [r \in Requests |-> "none"]
    /\ open = [r \in Requests |-> {}]
    /\ pipe = [r \in Requests |-> [s \in Streams |-> "empty"]]
    /\ scanner = [r \in Requests |-> [s \in Streams |-> "none"]]
    /\ sent = [r \in Requests |-> [s \in Streams |-> 0]]
    /\ got = [r \in Requests |-> [s \in Streams |-> 0]]
    /\ told = [r \in Requests |-> "none"]
    /\ joe = Free
    /\ hung = FALSE
    /\ early = {}
    /\ cut = {}

\* Publish: the provider takes the event when it is idle; with no subscriber of
\* the topic the event is gone.
Publish(r, what) ==
    /\ joe = Free
    /\ joe' = IF handler[r] = "subscribed" THEN <<r, what>> ELSE Free
    /\ early' = IF handler[r] = "serving" THEN early \cup {r} ELSE early

-----------------------------------------------------------------------------
(* The handler.                                                            *)

\* A POST with a JSON body gets a topic and a context and starts
\* executeCommand ...
Accept(r) ==
    /\ handler[r] = "idle"
    /\ handler' = [handler EXCEPT ![r] = "serving"]
    /\ exec' = [exec EXCEPT ![r] = "dial"]
    /\ UNCHANGED <<ctxDone, runVars, scanner, seenVars, joe, clientVars,
                   early, cut>>

\* ... any other request is answered at once.
Reject(r) ==
    /\ handler[r] = "idle"
    /\ handler' = [handler EXCEPT ![r] = "rejected"]
    /\ UNCHANGED <<ctxDone, exec, runVars, scanner, seenVars, joe, clientVars,
                   early, cut>>

\* sse.ServeHTTP subscribes while executeCommand is already running.
Subscribe(r) ==
    /\ handler[r] = "serving"
    /\ joe = Free
    /\ handler' = [handler EXCEPT ![r] = "subscribed"]
    /\ UNCHANGED <<ctxDone, exec, runVars, scanner, seenVars, joe, clientVars,
                   early, cut>>

\* The unsubscription on ctx.Done passes through the provider as well.
Unsubscribe(r) ==
    /\ handler[r] = "subscribed"
    /\ r \in ctxDone
    /\ joe = Free
    /\ handler' = [handler EXCEPT ![r] = "returned"]
    /\ UNCHANGED <<ctxDone, exec, runVars, scanner, seenVars, joe, clientVars,
                   early, cut>>

-----------------------------------------------------------------------------
(* executeCommand.                                                         *)

\* The key cannot be read, the connection or the handshake fails.
DialFails(r) ==
    /\ exec[r] = "dial"
    /\ exec' = [exec EXCEPT ![r] = "failing"]
    /\ UNCHANGED <<handler, ctxDone, runVars, scanner, seenVars, joe,
                   clientVars, early, cut>>

\* The two pipes exist, RunWith and the scanners run.
DialSucceeds(r) ==
    /\ exec[r] = "dial"
    /\ ~hung
    /\ exec' = [exec EXCEPT ![r] = "wait"]
    /\ runner' = [runner EXCEPT ![r] = "session"]
    /\ open' = [open EXCEPT ![r] = Streams]
    /\ scanner' = [scanner EXCEPT ![r] = [s \in Streams |-> "scanning"]]
    /\ UNCHANGED <<handler, ctxDone, result, pipe, sent, seenVars, joe,
                   clientVars, early, cut>>

\* wg.Wait and then <-ErrChan.
Collect(r) ==
    /\ exec[r] = "wait"
    /\ \A s \in Streams : scanner[r][s] = "quit"
    /\ result[r] # "none"
    /\ exec' = [exec EXCEPT ![r] =
                    IF result[r] = "ok" THEN "finishing" ELSE "failing"]
    /\ UNCHANGED <<handler, ctxDone, runVars, scanner, seenVars, joe,
                   clientVars, early, cut>>

\* The outcome is published before the deferred cancel().
PublishOutcome(r) ==
    /\ exec[r] \in {"failing", "finishing"}
    /\ Publish(r, IF exec[r] = "finishing" THEN "done" ELSE "fail")
    /\ exec' = [exec EXCEPT ![r] = "ended"]
    /\ ctxDone' = ctxDone \cup {r}
    /\ UNCHANGED <<handler, runVars, scanner, seenVars, clientVars, cut>>

-----------------------------------------------------------------------------
(* RunWith and the command.                                                *)

\* NewSession, which does not look at the context.
OpenSession(r) ==
    /\ runner[r] = "session"
    /\ ~hung
    /\ runner' = [runner EXCEPT ![r] = "running"]
    /\ UNCHANGED <<handler, ctxDone, exec, result, open, pipe, sent, scanner,
                   seenVars, joe, clientVars, early, cut>>

SessionFails(r) ==
    /\ runner[r] = "session"
    /\ runner' = [runner EXCEPT ![r] = "returned"]
    /\ result' = [result EXCEPT ![r] = "error"]
    /\ UNCHANGED <<handler, ctxDone, exec, open, pipe, sent, scanner,
                   seenVars, joe, clientVars, early, cut>>

\* A copy of session.Run writes into the pipe and waits for the reader.  After
\* the context ended RunWith it goes on until the writer is closed.
Write(r, s, kind) ==
    /\ runner[r] \in {"running", "aborted"}
    /\ s \in open[r]
    /\ pipe[r][s] = "empty"
    /\ scanner[r][s] # "quit"
    /\ sent[r][s] < MaxLines[r][s]
    /\ pipe' = [pipe EXCEPT ![r][s] = kind]
    /\ sent' = [sent EXCEPT ![r][s] = @ + 1]
    /\ UNCHANGED <<handler, ctxDone, exec, runner, result, open, scanner,
                   seenVars, joe, clientVars, early, cut>>

\* session.Run returns once the command has ended and both copies are through.
RunReturns(r) ==
    /\ runner[r] = "running"
    /\ \A s \in Streams : pipe[r][s] = "empty"
    /\ runner' = [runner EXCEPT ![r] = "returned"]
    /\ \E res \in {"ok", "error"} : result' = [result EXCEPT ![r] = res]
    /\ UNCHANGED <<handler, ctxDone, exec, open, pipe, sent, scanner,
                   seenVars, joe, clientVars, early, cut>>

\* The ctx.Done arm: SIGTERM to the command, without waiting for it.
RunAborts(r) ==
    /\ runner[r] = "running"
    /\ r \in ctxDone
    /\ runner' = [runner EXCEPT ![r] = "aborted"]
    /\ result' = [result EXCEPT ![r] = "error"]
    /\ UNCHANGED <<handler, ctxDone, exec, open, pipe, sent, scanner,
                   seenVars, joe, clientVars, early, cut>>

\* The deferred closes, stderr before stdout; a write that waits is refused.
CloseWriter(r, s) ==
    /\ runner[r] \in {"returned", "aborted"}
    /\ s \in open[r]
    /\ s = "out" => "err" \notin open[r]
    /\ open' = [open EXCEPT ![r] = @ \ {s}]
    /\ pipe' = [pipe EXCEPT ![r][s] = "empty"]
    /\ UNCHANGED <<handler, ctxDone, exec, runner, result, sent, scanner,
                   seenVars, joe, clientVars, early, cut>>

-----------------------------------------------------------------------------
(* The scanners.                                                           *)

\* Scan returns a line, and the write that held it returns.
Scan(r, s) ==
    /\ scanner[r][s] = "scanning"
    /\ s \in open[r]
    /\ pipe[r][s] = "line"
    /\ scanner' = [scanner EXCEPT ![r][s] = "publishing"]
    /\ pipe' = [pipe EXCEPT ![r][s] = "empty"]
    /\ UNCHANGED <<handler, ctxDone, exec, runner, result, open, sent,
                   seenVars, joe, clientVars, early, cut>>

PublishLine(r, s) ==
    /\ scanner[r][s] = "publishing"
    /\ Publish(r, s)
    /\ scanner' = [scanner EXCEPT ![r][s] = "scanning"]
    /\ UNCHANGED <<handler, ctxDone, exec, runVars, seenVars, clientVars, cut>>

\* bufio.ErrTooLong: the buffer is full and the scanner returns.  Of a longer
\* line the rest stays in the pipe and nobody reads it; of a last line that
\* just fills the buffer nothing is left.
ScanTooLong(r, s) ==
    /\ scanner[r][s] = "scanning"
    /\ s \in open[r]
    /\ pipe[r][s] \in {"long", "limit"}
    /\ scanner' = [scanner EXCEPT ![r][s] = "quit"]
    /\ pipe' = [pipe EXCEPT ![r][s] = IF @ = "limit" THEN "empty" ELSE @]
    /\ cut' = IF pipe[r][s] = "limit" THEN cut \cup {r} ELSE cut
    /\ UNCHANGED <<handler, ctxDone, exec, runner, result, open, sent,
                   seenVars, joe, clientVars, early>>

ScanEOF(r, s) ==
    /\ scanner[r][s] = "scanning"
    /\ s \notin open[r]
    /\ scanner' = [scanner EXCEPT ![r][s] = "quit"]
    /\ UNCHANGED <<handler, ctxDone, exec, runVars, seenVars, joe, clientVars,
                   early, cut>>

-----------------------------------------------------------------------------
(* The provider, the clients and the guest.                                *)

\* A line is written to the client's connection ...
JoeSendsLine(r, s) ==
    /\ joe = <<r, s>>
    /\ r \notin stalled /\ r \notin gone
    /\ joe' = Free
    /\ got' = [got EXCEPT ![r][s] = @ + 1]
    /\ UNCHANGED <<handler, ctxDone, exec, runVars, scanner, told, clientVars,
                   early, cut>>

\* ... or the outcome.
JoeSendsOutcome(r, outcome) ==
    /\ joe = <<r, outcome>>
    /\ r \notin stalled /\ r \notin gone
    /\ joe' = Free
    /\ told' = [told EXCEPT ![r] = outcome]
    /\ UNCHANGED <<handler, ctxDone, exec, runVars, scanner, got, clientVars,
                   early, cut>>

\* The client has left: the write is lost in the connection, or it fails and
\* ends the subscription and with it the handler.
JoeDrops(r, what) ==
    /\ joe = <<r, what>>
    /\ r \in gone
    /\ joe' = Free
    /\ handler' \in {handler, [handler EXCEPT ![r] = "returned"]}
    /\ UNCHANGED <<ctxDone, exec, runVars, scanner, seenVars, clientVars,
                   early, cut>>

\* net/http cancels the request's context.
ClientLeaves(r) ==
    /\ handler[r] \in {"serving", "subscribed"}
    /\ r \notin gone
    /\ gone' = gone \cup {r}
    /\ ctxDone' = ctxDone \cup {r}
    /\ UNCHANGED <<handler, stalled, exec, runVars, scanner, seenVars, joe,
                   hung, early, cut>>

ClientStalls(r) ==
    /\ r \in MayStall
    /\ handler[r] \in {"serving", "subscribed"}
    /\ stalled' \in {stalled \cup {r}, stalled \ {r}}
    /\ UNCHANGED <<handler, ctxDone, gone, exec, runVars, scanner, seenVars,
                   joe, hung, early, cut>>

GuestHangs ==
    /\ MayHang
    /\ hung' = TRUE
    /\ UNCHANGED <<handler, ctxDone, gone, stalled, exec, runVars, scanner,
                   seenVars, joe, early, cut>>

-----------------------------------------------------------------------------

Handler(r) == Accept(r) \/ Reject(r) \/ Subscribe(r) \/ Unsubscribe(r)

ExecuteCommand(r) ==
    DialFails(r) \/ DialSucceeds(r) \/ Collect(r) \/ PublishOutcome(r)

RunWith(r) ==
    \/ OpenSession(r) \/ SessionFails(r) \/ RunReturns(r) \/ RunAborts(r)
    \/ \E s \in Streams : CloseWriter(r, s)
    \/ \E s \in Streams, kind \in Kinds : Write(r, s, kind)

Scanner(r, s) ==
    Scan(r, s) \/ PublishLine(r, s) \/ ScanTooLong(r, s) \/ ScanEOF(r, s)

Provider(r) ==
    \/ \E s \in Streams : JoeSendsLine(r, s)
    \/ \E outcome \in {"done", "fail"} : JoeSendsOutcome(r, outcome)
    \/ \E what \in {"out", "err", "done", "fail"} : JoeDrops(r, what)

RequestNext(r) ==
    \/ Handler(r) \/ ExecuteCommand(r) \/ RunWith(r)
    \/ \E s \in Streams : Scanner(r, s)
    \/ Provider(r)
    \/ ClientLeaves(r) \/ ClientStalls(r)

Next == (\E r \in Requests : RequestNext(r)) \/ GuestHangs

\* Goroutines that can run do run, a guest that answers finishes the handshake
\* and the session request.  Nothing is assumed of the command, of the clients
\* or of a hung guest.
Fairness ==
    /\ \A r \in Requests :
          /\ WF_vars(Subscribe(r) \/ Unsubscribe(r))
          /\ WF_vars(DialSucceeds(r) \/ Collect(r) \/ PublishOutcome(r))
          /\ WF_vars(OpenSession(r) \/ RunAborts(r) \/ \E s \in Streams : CloseWriter(r, s))
          /\ \A s \in Streams : WF_vars(Scanner(r, s))
    /\ WF_vars(\E r \in Requests : Provider(r))

Spec == Init /\ [][Next]_vars

FairSpec == Spec /\ Fairness

-----------------------------------------------------------------------------

TypeOK ==
    /\ handler \in [Requests -> {"idle", "serving", "subscribed", "returned",
                                 "rejected"}]
    /\ ctxDone \subseteq Requests
    /\ gone \subseteq Requests
    /\ stalled \subseteq Requests
    /\ exec \in [Requests -> {"none", "dial", "wait", "failing", "finishing",
                              "ended"}]
    /\ runner \in [Requests -> {"none", "session", "running", "returned", "aborted"}]
    /\ result \in [Requests -> {"none", "ok", "error"}]
    /\ open \in [Requests -> SUBSET Streams]
    /\ pipe \in [Requests -> [Streams -> {"empty", "line", "long", "limit"}]]
    /\ scanner \in [Requests -> [Streams -> {"none", "scanning", "publishing", "quit"}]]
    /\ sent \in [Requests -> [Streams -> Nat]]
    /\ got \in [Requests -> [Streams -> Nat]]
    /\ told \in [Requests -> {"none", "done", "fail"}]
    /\ joe \in {Free} \cup (Requests \X {"out", "err", "done", "fail"})
    /\ hung \in BOOLEAN
    /\ early \subseteq Requests
    /\ cut \subseteq Requests

\* A client that is told "done" by executeCommand has received every line the
\* command wrote, unless events were published before ServeHTTP had subscribed,
\* or the last line just filled a scanner's buffer.
DoneMeansComplete ==
    \A r \in Requests :
        told[r] = "done" /\ r \notin early /\ r \notin cut =>
            \A s \in Streams : got[r][s] = sent[r][s]

\* The handler does not end the response of a client that is there before the
\* client has the outcome of its command, although executeCommand cancels the
\* handler's context as soon as it has published it.
OutcomeTold ==
    \A r \in Requests :
        handler[r] = "returned" /\ r \notin gone /\ r \notin early =>
            told[r] = IF result[r] = "ok" THEN "done" ELSE "fail"

\* What the goroutines of one request know of each other: RunWith leaves a
\* result when it has returned, and a good one only with both pipes empty; the
\* executor's state says what it has waited for.
RunConsistent ==
    \A r \in Requests :
        /\ handler[r] \in {"idle", "rejected"} => exec[r] = "none"
        /\ exec[r] \in {"none", "dial"} => runner[r] = "none"
        /\ exec[r] = "wait" => runner[r] # "none"
        /\ exec[r] = "failing" => result[r] # "ok"
        /\ exec[r] = "finishing" => result[r] = "ok"
        /\ exec[r] \in {"failing", "finishing", "ended"} =>
               runner[r] \in {"none", "returned", "aborted"}
        /\ runner[r] \in {"none", "session", "running"} <=> result[r] = "none"
        /\ runner[r] = "aborted" => result[r] = "error"
        /\ \A s \in Streams :
               /\ result[r] = "ok" => pipe[r][s] = "empty"
               /\ result[r] = "ok" /\ exec[r] # "wait" => scanner[r][s] = "quit"
               /\ runner[r] = "none" =>
                      pipe[r][s] = "empty" /\ scanner[r][s] = "none"

\* The provider only sends to subscribers, and the outcome it sends or has
\* sent is that of the request, with no line of the request behind it.
ProviderConsistent ==
    \A r \in Requests :
        /\ \A what \in {"out", "err", "done", "fail"} :
               joe = <<r, what>> => handler[r] = "subscribed"
        /\ joe = <<r, "done">> \/ told[r] = "done" =>
               exec[r] = "ended" /\ result[r] = "ok"
        /\ joe = <<r, "fail">> \/ told[r] = "fail" =>
               exec[r] = "ended" /\ result[r] # "ok"
        /\ \A s \in Streams : told[r] = "done" => joe # <<r, s>>

\* Every line of a command that RunWith has not given up is with the client,
\* the provider, a scanner or a pipe.
LinesAccounted ==
    \A r \in Requests :
        /\ handler[r] \in {"idle", "serving", "subscribed"}
        /\ r \notin gone /\ r \notin early /\ r \notin cut
        /\ result[r] # "error"
        => \A s \in Streams :
               sent[r][s] = got[r][s] + (IF joe = <<r, s>> THEN 1 ELSE 0)
                                + (IF scanner[r][s] = "publishing" THEN 1 ELSE 0)
                                + (IF pipe[r][s] = "empty" THEN 0 ELSE 1)

\* While the client is there the context is cancelled by the executor only,
\* whose outcome then is with the provider or the client.
OutcomeDue ==
    \A r \in Requests :
        r \notin gone =>
            /\ r \in ctxDone \/ handler[r] = "returned" => exec[r] = "ended"
            /\ exec[r] = "ended" /\ r \notin early =>
                   /\ handler[r] # "serving"
                   /\ LET outcome == IF result[r] = "ok" THEN "done" ELSE "fail"
                      IN  told[r] = outcome \/ joe = <<r, outcome>>

\* The inductive invariant behind DoneMeansComplete and OutcomeTold: a line or
\* an outcome on its way is always in exactly one place, and the order of
\* wg.Wait, <-ErrChan, Publish and cancel() leaves nothing behind.
ExecInv ==
    /\ TypeOK
    /\ RunConsistent
    /\ ProviderConsistent
    /\ LinesAccounted
    /\ DoneMeansComplete
    /\ OutcomeDue

\* The provider writes to a client, of whichever request, that does not read
\* and has not left.
ProviderStuck ==
    \E q \in stalled \ gone, what \in {"out", "err", "done", "fail"} :
        joe = <<q, what>>

\* Once RunWith has returned by itself the response ends, whatever the lines
\* were and although another request shares the provider, unless the provider
\* is caught in a write to a client that does not read.  A stalled client that
\* has nothing to be sent holds nobody up.
FinishedRunEnds ==
    \A r \in Requests :
        runner[r] = "returned" ~> (handler[r] = "returned" \/ ProviderStuck)

\* When a client leaves, executeCommand and the goroutines it waits for end,
\* a command blocked on an overlong line included, unless the guest hangs in a
\* step that has no context, or another request's client holds the provider up.
LeftRequestEnds ==
    \A r \in Requests :
        r \in gone ~>
            \/ exec[r] = "ended"
            \/ hung /\ (exec[r] = "dial" \/ runner[r] = "session")
            \/ ProviderStuck

-----------------------------------------------------------------------------
(* Refinement.                                                             *)

\* The goroutines, pipes and the provider of a request implement what the
\* endpoint promises its client: lines in full, one outcome, nothing behind it.
Contract == INSTANCE ExecContract WITH
    written <- sent, received <- got, outcome <- told, lossy <- early \cup cut

ImplementsContract == Contract!Spec

=============================================================================
