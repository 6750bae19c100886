---------------------------- MODULE MCExecStream ----------------------------
(* ExecStream for TLC: one request with up to two lines per stream, of      *)
(* every kind; and two requests that share the provider, of which the       *)
(* second writes one line and may have a client that stalls.                *)
EXTENDS ExecStream

TwoLines == [r \in Requests |-> [s \in Streams |-> 2]]
LineOfSecond ==
    [r \in Requests |->
        [s \in Streams |-> IF r = "second" /\ s = "out" THEN 1 ELSE 0]]

=============================================================================
