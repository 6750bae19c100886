---------------------------- MODULE ExecContract ----------------------------
(***************************************************************************)
(* What the exec endpoint promises the client of each request: lines that  *)
(* the command wrote, then exactly one outcome, and nothing after it; an   *)
(* outcome "done" comes behind every line.  A request may be lossy, when   *)
(* events were published before the client was subscribed or a line just   *)
(* filled a scanner's buffer; its client may miss lines but still gets no  *)
(* line after the outcome.                                                 *)
(*                                                                         *)
(* ExecStream implements this specification.                               *)
(***************************************************************************)
EXTENDS Naturals

CONSTANTS Requests, Streams

VARIABLES written,  \* lines the command wrote, per request and stream
          received, \* lines the client has, per request and stream
          outcome,  \* what the client was told: "none", "done", "fail"
          lossy     \* the requests that may have lost lines

vars == <<written, received, outcome, lossy>>

Init ==
    /\ written = [r \in Requests |-> [s \in Streams |-> 0]]
    /\ received = [r \in Requests |-> [s \in Streams |-> 0]]
    /\ outcome = [r \in Requests |-> "none"]
    /\ lossy = {}

Write(r, s) ==
    /\ outcome[r] = "none"
    /\ written' = [written EXCEPT ![r][s] = @ + 1]
    /\ UNCHANGED <<received, outcome, lossy>>

Receive(r, s) ==
    /\ outcome[r] = "none"
    /\ received[r][s] < written[r][s]
    /\ received' = [received EXCEPT ![r][s] = @ + 1]
    /\ UNCHANGED <<written, outcome, lossy>>

Lose(r) ==
    /\ outcome[r] = "none"
    /\ lossy' = lossy \cup {r}
    /\ UNCHANGED <<written, received, outcome>>

Done(r) ==
    /\ outcome[r] = "none"
    /\ r \in lossy \/ \A s \in Streams : received[r][s] = written[r][s]
    /\ outcome' = [outcome EXCEPT ![r] = "done"]
    /\ UNCHANGED <<written, received, lossy>>

Fail(r) ==
    /\ outcome[r] = "none"
    /\ outcome' = [outcome EXCEPT ![r] = "fail"]
    /\ UNCHANGED <<written, received, lossy>>

Next ==
    \E r \in Requests :
        \/ \E s \in Streams : Write(r, s) \/ Receive(r, s)
        \/ Lose(r) \/ Done(r) \/ Fail(r)

Spec == Init /\ [][Next]_vars

=============================================================================
