-------------------------- MODULE ExecStreamProofs --------------------------
(* Proofs about ExecStream for any set of requests, any number of lines and *)
(* any kinds of them.                                                       *)
EXTENDS ExecStream, TLAPS

\* Every step of the handler, the executor, RunWith, the scanners, the provider
\* and the client keeps the types.
LEMMA TypePreserved ==
    ASSUME TypeOK, NEW r \in Requests, RequestNext(r)
    PROVE  TypeOK'
<1> USE DEF TypeOK, Streams, runVars, seenVars, clientVars
<1>1. CASE Accept(r)
  BY <1>1 DEF Accept
<1>2. CASE Reject(r)
  BY <1>2 DEF Reject
<1>3. CASE Subscribe(r)
  BY <1>3 DEF Subscribe
<1>4. CASE Unsubscribe(r)
  BY <1>4 DEF Unsubscribe
<1>5. CASE DialFails(r)
  BY <1>5 DEF DialFails
<1>6. CASE DialSucceeds(r)
  BY <1>6 DEF DialSucceeds
<1>7. CASE Collect(r)
  BY <1>7 DEF Collect
<1>8. CASE PublishOutcome(r)
  BY <1>8 DEF PublishOutcome, Publish
<1>9. CASE OpenSession(r)
  BY <1>9 DEF OpenSession
<1>10. CASE SessionFails(r)
  BY <1>10 DEF SessionFails
<1>11. CASE RunReturns(r)
  BY <1>11 DEF RunReturns
<1>12. CASE RunAborts(r)
  BY <1>12 DEF RunAborts
<1>13. ASSUME NEW s \in Streams, CloseWriter(r, s)
      PROVE  TypeOK'
  BY <1>13 DEF CloseWriter
<1>14. ASSUME NEW s \in Streams, NEW kind \in Kinds, Write(r, s, kind)
      PROVE  TypeOK'
  BY <1>14, ExecAssumption DEF Write
<1>15. ASSUME NEW s \in Streams, Scan(r, s)
      PROVE  TypeOK'
  BY <1>15 DEF Scan
<1>16. ASSUME NEW s \in Streams, PublishLine(r, s)
      PROVE  TypeOK'
  BY <1>16 DEF PublishLine, Publish
<1>17. ASSUME NEW s \in Streams, ScanTooLong(r, s)
      PROVE  TypeOK'
  BY <1>17 DEF ScanTooLong
<1>18. ASSUME NEW s \in Streams, ScanEOF(r, s)
      PROVE  TypeOK'
  BY <1>18 DEF ScanEOF
<1>19. ASSUME NEW s \in Streams, JoeSendsLine(r, s)
      PROVE  TypeOK'
  BY <1>19 DEF JoeSendsLine
<1>20. ASSUME NEW outcome \in {"done", "fail"}, JoeSendsOutcome(r, outcome)
      PROVE  TypeOK'
  BY <1>20 DEF JoeSendsOutcome
<1>21. ASSUME NEW what \in {"out", "err", "done", "fail"}, JoeDrops(r, what)
      PROVE  TypeOK'
  BY <1>21 DEF JoeDrops
<1>22. CASE ClientLeaves(r)
  BY <1>22 DEF ClientLeaves
<1>23. CASE ClientStalls(r)
  BY <1>23 DEF ClientStalls
<1> HIDE DEF TypeOK, Streams, runVars, seenVars, clientVars
<1> QED
  BY <1>1, <1>2, <1>3, <1>4, <1>5, <1>6, <1>7, <1>8, <1>9, <1>10, <1>11, <1>12,
     <1>13, <1>14, <1>15, <1>16, <1>17, <1>18, <1>19, <1>20, <1>21, <1>22, <1>23
     DEF RequestNext, Handler, ExecuteCommand, RunWith, Scanner, Provider

\* RunWith leaves its result before it closes the pipes, and executeCommand
\* goes on only with the scanners ended and the result taken.
LEMMA RunPreserved ==
    ASSUME TypeOK, RunConsistent, NEW r \in Requests, RequestNext(r)
    PROVE  RunConsistent'
<1> USE DEF TypeOK, RunConsistent, Streams, runVars, seenVars, clientVars
<1>1. CASE Accept(r)
  BY <1>1 DEF Accept
<1>2. CASE Reject(r)
  BY <1>2 DEF Reject
<1>3. CASE Subscribe(r)
  BY <1>3 DEF Subscribe
<1>4. CASE Unsubscribe(r)
  BY <1>4 DEF Unsubscribe
<1>5. CASE DialFails(r)
  BY <1>5 DEF DialFails
<1>6. CASE DialSucceeds(r)
  BY <1>6 DEF DialSucceeds
<1>7. CASE Collect(r)
  BY <1>7 DEF Collect
<1>8. CASE PublishOutcome(r)
  BY <1>8 DEF PublishOutcome, Publish
<1>9. CASE OpenSession(r)
  BY <1>9 DEF OpenSession
<1>10. CASE SessionFails(r)
  BY <1>10 DEF SessionFails
<1>11. CASE RunReturns(r)
  BY <1>11 DEF RunReturns
<1>12. CASE RunAborts(r)
  BY <1>12 DEF RunAborts
<1>13. ASSUME NEW s \in Streams, CloseWriter(r, s)
      PROVE  RunConsistent'
  BY <1>13 DEF CloseWriter
<1>14. ASSUME NEW s \in Streams, NEW kind \in Kinds, Write(r, s, kind)
      PROVE  RunConsistent'
  BY <1>14 DEF Write
<1>15. ASSUME NEW s \in Streams, Scan(r, s)
      PROVE  RunConsistent'
  BY <1>15 DEF Scan
<1>16. ASSUME NEW s \in Streams, PublishLine(r, s)
      PROVE  RunConsistent'
  BY <1>16 DEF PublishLine, Publish
<1>17. ASSUME NEW s \in Streams, ScanTooLong(r, s)
      PROVE  RunConsistent'
  BY <1>17 DEF ScanTooLong
<1>18. ASSUME NEW s \in Streams, ScanEOF(r, s)
      PROVE  RunConsistent'
  BY <1>18 DEF ScanEOF
<1>19. ASSUME NEW s \in Streams, JoeSendsLine(r, s)
      PROVE  RunConsistent'
  BY <1>19 DEF JoeSendsLine
<1>20. ASSUME NEW outcome \in {"done", "fail"}, JoeSendsOutcome(r, outcome)
      PROVE  RunConsistent'
  BY <1>20 DEF JoeSendsOutcome
<1>21. ASSUME NEW what \in {"out", "err", "done", "fail"}, JoeDrops(r, what)
      PROVE  RunConsistent'
  BY <1>21 DEF JoeDrops
<1>22. CASE ClientLeaves(r)
  BY <1>22 DEF ClientLeaves
<1>23. CASE ClientStalls(r)
  BY <1>23 DEF ClientStalls
<1> HIDE DEF TypeOK, RunConsistent, Streams, runVars, seenVars, clientVars
<1> QED
  BY <1>1, <1>2, <1>3, <1>4, <1>5, <1>6, <1>7, <1>8, <1>9, <1>10, <1>11, <1>12,
     <1>13, <1>14, <1>15, <1>16, <1>17, <1>18, <1>19, <1>20, <1>21, <1>22, <1>23
     DEF RequestNext, Handler, ExecuteCommand, RunWith, Scanner, Provider

\* The provider takes events of subscribed requests only, an unsubscription
\* waits for it, and no scanner publishes once the outcome is out.
LEMMA ProviderPreserved ==
    ASSUME TypeOK, RunConsistent, ProviderConsistent, NEW r \in Requests,
           RequestNext(r)
    PROVE  ProviderConsistent'
<1> USE ExecAssumption
    DEF TypeOK, RunConsistent, ProviderConsistent,
        Streams, runVars, seenVars, clientVars
<1>1. CASE Accept(r)
  BY <1>1 DEF Accept
<1>2. CASE Reject(r)
  BY <1>2 DEF Reject
<1>3. CASE Subscribe(r)
  BY <1>3 DEF Subscribe
<1>4. CASE Unsubscribe(r)
  BY <1>4 DEF Unsubscribe
<1>5. CASE DialFails(r)
  BY <1>5 DEF DialFails
<1>6. CASE DialSucceeds(r)
  BY <1>6 DEF DialSucceeds
<1>7. CASE Collect(r)
  BY <1>7 DEF Collect
<1>8. CASE PublishOutcome(r)
  BY <1>8 DEF PublishOutcome, Publish
<1>9. CASE OpenSession(r)
  BY <1>9 DEF OpenSession
<1>10. CASE SessionFails(r)
  BY <1>10 DEF SessionFails
<1>11. CASE RunReturns(r)
  <2>1. /\ UNCHANGED <<handler, exec, joe, told>>
        /\ runner[r] = "running"
        /\ \A q \in Requests \ {r} : result'[q] = result[q]
    BY <1>11 DEF RunReturns
  <2>2. exec[r] # "ended"
    BY <2>1
  <2> QED
    BY <2>1, <2>2
<1>12. CASE RunAborts(r)
  BY <1>12 DEF RunAborts
<1>13. ASSUME NEW s \in Streams, CloseWriter(r, s)
      PROVE  ProviderConsistent'
  BY <1>13 DEF CloseWriter
<1>14. ASSUME NEW s \in Streams, NEW kind \in Kinds, Write(r, s, kind)
      PROVE  ProviderConsistent'
  BY <1>14 DEF Write
<1>15. ASSUME NEW s \in Streams, Scan(r, s)
      PROVE  ProviderConsistent'
  BY <1>15 DEF Scan
<1>16. ASSUME NEW s \in Streams, PublishLine(r, s)
      PROVE  ProviderConsistent'
  <2>1. told[r] # "done"
    BY <1>16 DEF PublishLine
  <2>2. joe' = Free \/ (joe' = <<r, s>> /\ handler[r] = "subscribed")
    BY <1>16 DEF PublishLine, Publish
  <2>3. UNCHANGED <<handler, exec, result, told>>
    BY <1>16 DEF PublishLine
  <2> QED
    BY <2>1, <2>2, <2>3
<1>17. ASSUME NEW s \in Streams, ScanTooLong(r, s)
      PROVE  ProviderConsistent'
  BY <1>17 DEF ScanTooLong
<1>18. ASSUME NEW s \in Streams, ScanEOF(r, s)
      PROVE  ProviderConsistent'
  BY <1>18 DEF ScanEOF
<1>19. ASSUME NEW s \in Streams, JoeSendsLine(r, s)
      PROVE  ProviderConsistent'
  BY <1>19 DEF JoeSendsLine
<1>20. ASSUME NEW outcome \in {"done", "fail"}, JoeSendsOutcome(r, outcome)
      PROVE  ProviderConsistent'
  BY <1>20 DEF JoeSendsOutcome
<1>21. ASSUME NEW what \in {"out", "err", "done", "fail"}, JoeDrops(r, what)
      PROVE  ProviderConsistent'
  BY <1>21 DEF JoeDrops
<1>22. CASE ClientLeaves(r)
  BY <1>22 DEF ClientLeaves
<1>23. CASE ClientStalls(r)
  BY <1>23 DEF ClientStalls
<1> HIDE DEF TypeOK, RunConsistent, ProviderConsistent, Streams, runVars,
    seenVars, clientVars
<1> QED
  BY <1>1, <1>2, <1>3, <1>4, <1>5, <1>6, <1>7, <1>8, <1>9, <1>10, <1>11, <1>12,
     <1>13, <1>14, <1>15, <1>16, <1>17, <1>18, <1>19, <1>20, <1>21, <1>22, <1>23
     DEF RequestNext, Handler, ExecuteCommand, RunWith, Scanner, Provider

\* A line moves from the pipe to the scanner, the provider and the client, one
\* place at a time.
LEMMA LinesPreserved ==
    ASSUME TypeOK, RunConsistent, ProviderConsistent, LinesAccounted,
           NEW r \in Requests, RequestNext(r)
    PROVE  LinesAccounted'
<1> USE ExecAssumption
    DEF TypeOK, RunConsistent, ProviderConsistent, LinesAccounted,
        Streams, runVars, seenVars, clientVars
<1>1. CASE Accept(r)
  BY <1>1 DEF Accept
<1>2. CASE Reject(r)
  BY <1>2 DEF Reject
<1>3. CASE Subscribe(r)
  BY <1>3 DEF Subscribe
<1>4. CASE Unsubscribe(r)
  BY <1>4 DEF Unsubscribe
<1>5. CASE DialFails(r)
  BY <1>5 DEF DialFails
<1>6. CASE DialSucceeds(r)
  BY <1>6 DEF DialSucceeds
<1>7. CASE Collect(r)
  BY <1>7 DEF Collect
<1>8. CASE PublishOutcome(r)
  <2>1. /\ UNCHANGED <<handler, gone, cut, result, sent, got, pipe, scanner>>
        /\ joe = Free
        /\ joe' \in {Free, <<r, "done">>, <<r, "fail">>}
        /\ early \subseteq early'
    BY <1>8 DEF PublishOutcome, Publish
  <2>2. \A q \in Requests, s \in Streams : joe # <<q, s>> /\ joe' # <<q, s>>
    BY <2>1
  <2> HIDE DEF TypeOK, RunConsistent, ProviderConsistent
  <2> QED
    BY <2>1, <2>2
<1>9. CASE OpenSession(r)
  BY <1>9 DEF OpenSession
<1>10. CASE SessionFails(r)
  BY <1>10 DEF SessionFails
<1>11. CASE RunReturns(r)
  BY <1>11 DEF RunReturns
<1>12. CASE RunAborts(r)
  BY <1>12 DEF RunAborts
<1>13. ASSUME NEW s \in Streams, CloseWriter(r, s)
      PROVE  LinesAccounted'
  BY <1>13 DEF CloseWriter
<1>14. ASSUME NEW s \in Streams, NEW kind \in Kinds, Write(r, s, kind)
      PROVE  LinesAccounted'
  BY <1>14 DEF Write
<1>15. ASSUME NEW s \in Streams, Scan(r, s)
      PROVE  LinesAccounted'
  BY <1>15 DEF Scan
<1>16. ASSUME NEW s \in Streams, PublishLine(r, s)
      PROVE  LinesAccounted'
  BY <1>16 DEF PublishLine, Publish
<1>17. ASSUME NEW s \in Streams, ScanTooLong(r, s)
      PROVE  LinesAccounted'
  BY <1>17 DEF ScanTooLong
<1>18. ASSUME NEW s \in Streams, ScanEOF(r, s)
      PROVE  LinesAccounted'
  BY <1>18 DEF ScanEOF
<1>19. ASSUME NEW s \in Streams, JoeSendsLine(r, s)
      PROVE  LinesAccounted'
  BY <1>19 DEF JoeSendsLine
<1>20. ASSUME NEW outcome \in {"done", "fail"}, JoeSendsOutcome(r, outcome)
      PROVE  LinesAccounted'
  BY <1>20 DEF JoeSendsOutcome
<1>21. ASSUME NEW what \in {"out", "err", "done", "fail"}, JoeDrops(r, what)
      PROVE  LinesAccounted'
  BY <1>21 DEF JoeDrops
<1>22. CASE ClientLeaves(r)
  BY <1>22 DEF ClientLeaves
<1>23. CASE ClientStalls(r)
  BY <1>23 DEF ClientStalls
<1> HIDE DEF TypeOK, RunConsistent, ProviderConsistent, LinesAccounted,
    Streams, runVars, seenVars, clientVars
<1> QED
  BY <1>1, <1>2, <1>3, <1>4, <1>5, <1>6, <1>7, <1>8, <1>9, <1>10, <1>11, <1>12,
     <1>13, <1>14, <1>15, <1>16, <1>17, <1>18, <1>19, <1>20, <1>21, <1>22, <1>23
     DEF RequestNext, Handler, ExecuteCommand, RunWith, Scanner, Provider

\* With the provider, the scanner and the pipe empty, what was written has
\* arrived.
LEMMA LinesArrived ==
    ASSUME TypeOK, LinesAccounted, NEW r \in Requests, NEW s \in Streams,
           handler[r] = "subscribed", r \notin gone, r \notin early,
           r \notin cut, result[r] = "ok", joe # <<r, s>>,
           scanner[r][s] = "quit", pipe[r][s] = "empty"
    PROVE  sent[r][s] = got[r][s]
<1>1. sent[r][s] = got[r][s] + (IF joe = <<r, s>> THEN 1 ELSE 0)
                       + (IF scanner[r][s] = "publishing" THEN 1 ELSE 0)
                       + (IF pipe[r][s] = "empty" THEN 0 ELSE 1)
  BY DEF LinesAccounted
<1>2. got[r][s] \in Nat
  BY DEF TypeOK
<1> QED
  BY <1>1, <1>2

\* When "done" reaches the client, pipes, scanners and provider hold no line of
\* the request any more, and none is added later.
LEMMA DonePreserved ==
    ASSUME TypeOK, RunConsistent, ProviderConsistent, LinesAccounted,
           DoneMeansComplete, NEW r \in Requests, RequestNext(r)
    PROVE  DoneMeansComplete'
<1> USE ExecAssumption
    DEF TypeOK, RunConsistent, ProviderConsistent, LinesAccounted,
        DoneMeansComplete,
        Streams, runVars, seenVars, clientVars
<1>1. CASE Accept(r)
  BY <1>1 DEF Accept
<1>2. CASE Reject(r)
  BY <1>2 DEF Reject
<1>3. CASE Subscribe(r)
  BY <1>3 DEF Subscribe
<1>4. CASE Unsubscribe(r)
  BY <1>4 DEF Unsubscribe
<1>5. CASE DialFails(r)
  BY <1>5 DEF DialFails
<1>6. CASE DialSucceeds(r)
  BY <1>6 DEF DialSucceeds
<1>7. CASE Collect(r)
  BY <1>7 DEF Collect
<1>8. CASE PublishOutcome(r)
  BY <1>8 DEF PublishOutcome, Publish
<1>9. CASE OpenSession(r)
  BY <1>9 DEF OpenSession
<1>10. CASE SessionFails(r)
  BY <1>10 DEF SessionFails
<1>11. CASE RunReturns(r)
  BY <1>11 DEF RunReturns
<1>12. CASE RunAborts(r)
  BY <1>12 DEF RunAborts
<1>13. ASSUME NEW s \in Streams, CloseWriter(r, s)
      PROVE  DoneMeansComplete'
  BY <1>13 DEF CloseWriter
<1>14. ASSUME NEW s \in Streams, NEW kind \in Kinds, Write(r, s, kind)
      PROVE  DoneMeansComplete'
  BY <1>14 DEF Write
<1>15. ASSUME NEW s \in Streams, Scan(r, s)
      PROVE  DoneMeansComplete'
  BY <1>15 DEF Scan
<1>16. ASSUME NEW s \in Streams, PublishLine(r, s)
      PROVE  DoneMeansComplete'
  BY <1>16 DEF PublishLine, Publish
<1>17. ASSUME NEW s \in Streams, ScanTooLong(r, s)
      PROVE  DoneMeansComplete'
  BY <1>17 DEF ScanTooLong
<1>18. ASSUME NEW s \in Streams, ScanEOF(r, s)
      PROVE  DoneMeansComplete'
  BY <1>18 DEF ScanEOF
<1>19. ASSUME NEW s \in Streams, JoeSendsLine(r, s)
      PROVE  DoneMeansComplete'
  BY <1>19 DEF JoeSendsLine
<1>20. ASSUME NEW outcome \in {"done", "fail"}, JoeSendsOutcome(r, outcome)
      PROVE  DoneMeansComplete'
  <2> SUFFICES ASSUME NEW q \in Requests, told'[q] = "done",
                      q \notin early, q \notin cut, NEW s \in Streams
               PROVE  got[q][s] = sent[q][s]
    BY <1>20 DEF JoeSendsOutcome
  <2>1. CASE q # r
    BY <1>20, <2>1 DEF JoeSendsOutcome
  <2>2. CASE q = r
    <3>1. outcome = "done" /\ joe = <<r, "done">> /\ r \notin gone
      BY <1>20, <2>2 DEF JoeSendsOutcome
    <3>2. exec[r] = "ended" /\ result[r] = "ok" /\ handler[r] = "subscribed"
      BY <3>1
    <3>3. pipe[r][s] = "empty" /\ scanner[r][s] = "quit" /\ joe # <<r, s>>
      BY <3>1, <3>2
    <3>4. r \notin early /\ r \notin cut
      BY <2>2
    <3>5. sent[r][s] = got[r][s]
      BY <3>1, <3>2, <3>3, <3>4, LinesArrived
    <3> QED
      BY <2>2, <3>5
  <2> QED
    BY <2>1, <2>2
<1>21. ASSUME NEW what \in {"out", "err", "done", "fail"}, JoeDrops(r, what)
      PROVE  DoneMeansComplete'
  BY <1>21 DEF JoeDrops
<1>22. CASE ClientLeaves(r)
  BY <1>22 DEF ClientLeaves
<1>23. CASE ClientStalls(r)
  BY <1>23 DEF ClientStalls
<1> HIDE DEF TypeOK, RunConsistent, ProviderConsistent, LinesAccounted,
    DoneMeansComplete, Streams, runVars, seenVars, clientVars
<1> QED
  BY <1>1, <1>2, <1>3, <1>4, <1>5, <1>6, <1>7, <1>8, <1>9, <1>10, <1>11, <1>12,
     <1>13, <1>14, <1>15, <1>16, <1>17, <1>18, <1>19, <1>20, <1>21, <1>22, <1>23
     DEF RequestNext, Handler, ExecuteCommand, RunWith, Scanner, Provider

\* executeCommand publishes the outcome before it cancels the context, and the
\* provider finishes sending before it takes the unsubscription.
LEMMA OutcomePreserved ==
    ASSUME TypeOK, RunConsistent, ProviderConsistent, OutcomeDue, NEW r \in Requests,
           RequestNext(r)
    PROVE  OutcomeDue'
<1> USE ExecAssumption
    DEF TypeOK, RunConsistent, ProviderConsistent, OutcomeDue,
        Streams, runVars, seenVars, clientVars
<1>1. CASE Accept(r)
  BY <1>1 DEF Accept
<1>2. CASE Reject(r)
  BY <1>2 DEF Reject
<1>3. CASE Subscribe(r)
  BY <1>3 DEF Subscribe
<1>4. CASE Unsubscribe(r)
  BY <1>4 DEF Unsubscribe
<1>5. CASE DialFails(r)
  BY <1>5 DEF DialFails
<1>6. CASE DialSucceeds(r)
  BY <1>6 DEF DialSucceeds
<1>7. CASE Collect(r)
  BY <1>7 DEF Collect
<1>8. CASE PublishOutcome(r)
  BY <1>8 DEF PublishOutcome, Publish
<1>9. CASE OpenSession(r)
  BY <1>9 DEF OpenSession
<1>10. CASE SessionFails(r)
  BY <1>10 DEF SessionFails
<1>11. CASE RunReturns(r)
  BY <1>11 DEF RunReturns
<1>12. CASE RunAborts(r)
  BY <1>12 DEF RunAborts
<1>13. ASSUME NEW s \in Streams, CloseWriter(r, s)
      PROVE  OutcomeDue'
  BY <1>13 DEF CloseWriter
<1>14. ASSUME NEW s \in Streams, NEW kind \in Kinds, Write(r, s, kind)
      PROVE  OutcomeDue'
  BY <1>14 DEF Write
<1>15. ASSUME NEW s \in Streams, Scan(r, s)
      PROVE  OutcomeDue'
  BY <1>15 DEF Scan
<1>16. ASSUME NEW s \in Streams, PublishLine(r, s)
      PROVE  OutcomeDue'
  BY <1>16 DEF PublishLine, Publish
<1>17. ASSUME NEW s \in Streams, ScanTooLong(r, s)
      PROVE  OutcomeDue'
  BY <1>17 DEF ScanTooLong
<1>18. ASSUME NEW s \in Streams, ScanEOF(r, s)
      PROVE  OutcomeDue'
  BY <1>18 DEF ScanEOF
<1>19. ASSUME NEW s \in Streams, JoeSendsLine(r, s)
      PROVE  OutcomeDue'
  BY <1>19 DEF JoeSendsLine
<1>20. ASSUME NEW outcome \in {"done", "fail"}, JoeSendsOutcome(r, outcome)
      PROVE  OutcomeDue'
  BY <1>20 DEF JoeSendsOutcome
<1>21. ASSUME NEW what \in {"out", "err", "done", "fail"}, JoeDrops(r, what)
      PROVE  OutcomeDue'
  BY <1>21 DEF JoeDrops
<1>22. CASE ClientLeaves(r)
  BY <1>22 DEF ClientLeaves
<1>23. CASE ClientStalls(r)
  BY <1>23 DEF ClientStalls
<1> HIDE DEF TypeOK, RunConsistent, ProviderConsistent, OutcomeDue, Streams,
    runVars, seenVars, clientVars
<1> QED
  BY <1>1, <1>2, <1>3, <1>4, <1>5, <1>6, <1>7, <1>8, <1>9, <1>10, <1>11, <1>12,
     <1>13, <1>14, <1>15, <1>16, <1>17, <1>18, <1>19, <1>20, <1>21, <1>22, <1>23
     DEF RequestNext, Handler, ExecuteCommand, RunWith, Scanner, Provider

\* Nothing but the flag of the guest changes.
LEMMA HangPreserved ==
    ASSUME ExecInv, GuestHangs
    PROVE  ExecInv'
BY DEF ExecInv, GuestHangs, TypeOK, RunConsistent, ProviderConsistent,
       LinesAccounted, DoneMeansComplete, OutcomeDue, runVars, seenVars

\* A step of another part of the server changes nothing here.
LEMMA StutterPreserved ==
    ASSUME ExecInv, UNCHANGED vars
    PROVE  ExecInv'
BY DEF ExecInv, vars, TypeOK, RunConsistent, ProviderConsistent,
       LinesAccounted, DoneMeansComplete, OutcomeDue

\* No request has arrived: nothing is on its way and nothing is owed.
LEMMA InitInv == Init => ExecInv
<1> SUFFICES ASSUME Init
             PROVE  ExecInv
  OBVIOUS
<1> USE DEF Init, Streams
<1>1. TypeOK
  BY DEF TypeOK
<1>2. RunConsistent /\ DoneMeansComplete /\ OutcomeDue
  BY DEF RunConsistent, DoneMeansComplete, OutcomeDue
<1>3. ProviderConsistent /\ LinesAccounted
  BY ExecAssumption DEF ProviderConsistent, LinesAccounted
<1> QED
  BY <1>1, <1>2, <1>3 DEF ExecInv

\* The streaming of exec keeps track of every line and every outcome, for any
\* set of requests that share the provider: what handleExec, executeCommand and
\* RunWith know of each other is an inductive invariant.
THEOREM ExecInvariant == Spec => []ExecInv
<1>1. ExecInv /\ [Next]_vars => ExecInv'
  <2> SUFFICES ASSUME ExecInv, [Next]_vars
               PROVE  ExecInv'
    OBVIOUS
  <2>1. ASSUME NEW r \in Requests, RequestNext(r)
        PROVE  ExecInv'
    BY <2>1, TypePreserved, RunPreserved, ProviderPreserved, LinesPreserved,
       DonePreserved, OutcomePreserved DEF ExecInv
  <2>2. CASE GuestHangs
    BY <2>2, HangPreserved
  <2>3. CASE UNCHANGED vars
    BY <2>3, StutterPreserved
  <2> QED
    BY <2>1, <2>2, <2>3 DEF Next
<1> QED
  BY <1>1, InitInv, PTL DEF Spec

\* A client that receives "done" has received all the output of its command,
\* up to the two named exceptions.
THEOREM DoneIsComplete == Spec => []DoneMeansComplete
<1>1. ExecInv => DoneMeansComplete
  BY DEF ExecInv
<1> QED
  BY <1>1, ExecInvariant, PTL

\* A client that stays, and whose subscription was in time, knows the outcome
\* when the handler returns.
THEOREM OutcomeIsTold == Spec => []OutcomeTold
<1>1. ExecInv => OutcomeTold
  <2> SUFFICES ASSUME ExecInv, NEW r \in Requests,
                      handler[r] = "returned", r \notin gone, r \notin early
               PROVE  told[r] = IF result[r] = "ok" THEN "done" ELSE "fail"
    BY DEF OutcomeTold
  <2> DEFINE outcome == IF result[r] = "ok" THEN "done" ELSE "fail"
  <2>1. told[r] = outcome \/ joe = <<r, outcome>>
    BY DEF ExecInv, OutcomeDue
  <2>2. joe # <<r, outcome>>
    BY DEF ExecInv, ProviderConsistent
  <2> QED
    BY <2>1, <2>2
<1> QED
  BY <1>1, ExecInvariant, PTL

\* What keeps the events of a request in order.  wg.Wait has seen both scanners
\* return before the executor publishes the outcome, so no line is published
\* behind it; there is one outcome; and the client never has more lines than
\* the command has written, whatever was lost on the way.
StreamOrdered ==
    \A r \in Requests :
        /\ exec[r] \in {"failing", "finishing", "ended"} =>
               \A s \in Streams :
                   scanner[r][s] = IF runner[r] = "none" THEN "none" ELSE "quit"
        /\ exec[r] = "ended" => \A s \in Streams : joe # <<r, s>>
        /\ \A outcome \in {"done", "fail"} :
               joe = <<r, outcome>> => told[r] = "none"
        /\ \A s \in Streams :
               got[r][s] + (IF joe = <<r, s>> THEN 1 ELSE 0)
                         + (IF scanner[r][s] = "publishing" THEN 1 ELSE 0)
                         + (IF pipe[r][s] = "empty" THEN 0 ELSE 1) <= sent[r][s]

\* The order is kept by every step of a request.
LEMMA OrderPreserved ==
    ASSUME TypeOK, RunConsistent, ProviderConsistent, StreamOrdered,
           NEW r \in Requests, RequestNext(r)
    PROVE  StreamOrdered'
<1> USE ExecAssumption
    DEF TypeOK, RunConsistent, ProviderConsistent, StreamOrdered,
        Streams, runVars, seenVars, clientVars
<1>1. CASE Accept(r)
  BY <1>1 DEF Accept
<1>2. CASE Reject(r)
  BY <1>2 DEF Reject
<1>3. CASE Subscribe(r)
  BY <1>3 DEF Subscribe
<1>4. CASE Unsubscribe(r)
  BY <1>4 DEF Unsubscribe
<1>5. CASE DialFails(r)
  BY <1>5 DEF DialFails
<1>6. CASE DialSucceeds(r)
  BY <1>6 DEF DialSucceeds
<1>7. CASE Collect(r)
  BY <1>7 DEF Collect
<1>8. CASE PublishOutcome(r)
  <2>1. /\ UNCHANGED <<sent, got, pipe, scanner, told, runner>>
        /\ joe = Free
        /\ joe' \in {Free, <<r, "done">>, <<r, "fail">>}
    BY <1>8 DEF PublishOutcome, Publish
  <2>2. \A q \in Requests, s \in Streams : joe # <<q, s>> /\ joe' # <<q, s>>
    BY <2>1
  <2>3. exec[r] \in {"failing", "finishing"} /\ exec' = [exec EXCEPT ![r] = "ended"]
    BY <1>8 DEF PublishOutcome
  <2>4. told[r] = "none"
    BY <2>3
  <2>5. \A q \in Requests : exec'[q] \in {"failing", "finishing", "ended"}
                              => exec[q] \in {"failing", "finishing", "ended"}
    BY <2>3
  <2>6. \A q \in Requests : \A outcome \in {"done", "fail"} :
            joe' = <<q, outcome>> => q = r
    BY <2>1
  <2> HIDE DEF TypeOK, RunConsistent, ProviderConsistent
  <2> QED
    BY <2>1, <2>2, <2>4, <2>5, <2>6
<1>9. CASE OpenSession(r)
  BY <1>9 DEF OpenSession
<1>10. CASE SessionFails(r)
  BY <1>10 DEF SessionFails
<1>11. CASE RunReturns(r)
  BY <1>11 DEF RunReturns
<1>12. CASE RunAborts(r)
  BY <1>12 DEF RunAborts
<1>13. ASSUME NEW s \in Streams, CloseWriter(r, s)
      PROVE  StreamOrdered'
  BY <1>13 DEF CloseWriter
<1>14. ASSUME NEW s \in Streams, NEW kind \in Kinds, Write(r, s, kind)
      PROVE  StreamOrdered'
  BY <1>14 DEF Write
<1>15. ASSUME NEW s \in Streams, Scan(r, s)
      PROVE  StreamOrdered'
  BY <1>15 DEF Scan
<1>16. ASSUME NEW s \in Streams, PublishLine(r, s)
      PROVE  StreamOrdered'
  <2>1. UNCHANGED <<exec, runner, told, got, sent, pipe>>
    BY <1>16 DEF PublishLine
  <2>2. scanner[r][s] = "publishing" /\ joe = Free
    BY <1>16 DEF PublishLine, Publish
  <2>3. scanner' = [scanner EXCEPT ![r][s] = "scanning"]
    BY <1>16 DEF PublishLine
  <2>4. joe' = Free \/ joe' = <<r, s>>
    BY <1>16 DEF PublishLine, Publish
  <2>5. exec[r] \notin {"failing", "finishing", "ended"}
    BY <2>2
  <2>6. \A q \in Requests : exec'[q] \in {"failing", "finishing", "ended"} =>
            \A t \in Streams : scanner'[q][t] = scanner[q][t]
    BY <2>1, <2>3, <2>5
  <2>7. \A q \in Requests : exec'[q] = "ended" =>
            \A t \in Streams : joe' # <<q, t>>
    BY <2>1, <2>4, <2>5
  <2>8. \A q \in Requests, t \in Streams :
            got'[q][t] + (IF joe' = <<q, t>> THEN 1 ELSE 0)
                       + (IF scanner'[q][t] = "publishing" THEN 1 ELSE 0)
                       + (IF pipe'[q][t] = "empty" THEN 0 ELSE 1) <= sent'[q][t]
    <3> TAKE q \in Requests, t \in Streams
    <3>1. joe # <<q, t>>
      BY <2>2
    <3>2. got[q][t] \in Nat /\ sent[q][t] \in Nat
      OBVIOUS
    <3>3. got[q][t] + (IF scanner[q][t] = "publishing" THEN 1 ELSE 0)
                    + (IF pipe[q][t] = "empty" THEN 0 ELSE 1) <= sent[q][t]
      BY <3>1, <3>2
    <3>4. CASE q = r /\ t = s
      BY <2>1, <2>2, <2>3, <3>2, <3>3, <3>4
    <3>5. CASE ~(q = r /\ t = s)
      <4>1. joe' # <<q, t>>
        BY <2>4, <3>5
      <4>2. scanner'[q][t] = scanner[q][t]
        BY <2>3, <3>5
      <4> QED
        BY <2>1, <3>2, <3>3, <4>1, <4>2
    <3> QED
      BY <3>4, <3>5
  <2>9. \A q \in Requests : \A o \in {"done", "fail"} : joe' # <<q, o>>
    BY <2>4
  <2> QED
    BY <2>1, <2>6, <2>7, <2>8, <2>9
<1>17. ASSUME NEW s \in Streams, ScanTooLong(r, s)
      PROVE  StreamOrdered'
  BY <1>17 DEF ScanTooLong
<1>18. ASSUME NEW s \in Streams, ScanEOF(r, s)
      PROVE  StreamOrdered'
  BY <1>18 DEF ScanEOF
<1>19. ASSUME NEW s \in Streams, JoeSendsLine(r, s)
      PROVE  StreamOrdered'
  BY <1>19 DEF JoeSendsLine
<1>20. ASSUME NEW outcome \in {"done", "fail"}, JoeSendsOutcome(r, outcome)
      PROVE  StreamOrdered'
  BY <1>20 DEF JoeSendsOutcome
<1>21. ASSUME NEW what \in {"out", "err", "done", "fail"}, JoeDrops(r, what)
      PROVE  StreamOrdered'
  BY <1>21 DEF JoeDrops
<1>22. CASE ClientLeaves(r)
  BY <1>22 DEF ClientLeaves
<1>23. CASE ClientStalls(r)
  BY <1>23 DEF ClientStalls
<1> HIDE DEF TypeOK, RunConsistent, ProviderConsistent, StreamOrdered, Streams,
    runVars, seenVars, clientVars
<1> QED
  BY <1>1, <1>2, <1>3, <1>4, <1>5, <1>6, <1>7, <1>8, <1>9, <1>10, <1>11, <1>12,
     <1>13, <1>14, <1>15, <1>16, <1>17, <1>18, <1>19, <1>20, <1>21, <1>22, <1>23
     DEF RequestNext, Handler, ExecuteCommand, RunWith, Scanner, Provider

\* Each step of a request is a step of the contract or changes nothing the
\* contract sees.
LEMMA ContractStep ==
    ASSUME ExecInv, StreamOrdered, DoneMeansComplete', NEW r \in Requests,
           RequestNext(r)
    PROVE  [Contract!Next]_(Contract!vars)
<1> DEFINE Same == UNCHANGED <<sent, got, told, early, cut>>
<1>s. ASSUME Same PROVE [Contract!Next]_(Contract!vars)
  BY <1>s DEF Contract!vars
<1>l. ASSUME Contract!Lose(r) PROVE [Contract!Next]_(Contract!vars)
  BY <1>l DEF Contract!Next
<1>n. exec[r] # "ended" => told[r] = "none"
  BY DEF ExecInv, TypeOK, ProviderConsistent
<1>1. CASE Accept(r)
  BY <1>s, <1>1 DEF Accept, runVars, seenVars
<1>2. CASE Reject(r)
  BY <1>s, <1>2 DEF Reject, runVars, seenVars
<1>3. CASE Subscribe(r)
  BY <1>s, <1>3 DEF Subscribe, runVars, seenVars
<1>4. CASE Unsubscribe(r)
  BY <1>s, <1>4 DEF Unsubscribe, runVars, seenVars
<1>5. CASE DialFails(r)
  BY <1>s, <1>5 DEF DialFails, runVars, seenVars
<1>6. CASE DialSucceeds(r)
  BY <1>s, <1>6 DEF DialSucceeds, runVars, seenVars
<1>7. CASE Collect(r)
  BY <1>s, <1>7 DEF Collect, runVars, seenVars
<1>8. CASE PublishOutcome(r)
  <2>1. told[r] = "none" /\ UNCHANGED <<sent, got, told, cut>>
    BY <1>8, <1>n DEF PublishOutcome, runVars, seenVars
  <2>2. early' = early \cup {r} \/ early' = early
    BY <1>8 DEF PublishOutcome, Publish
  <2>3. CASE early' = early \cup {r}
    BY <1>l, <2>1, <2>3 DEF Contract!Lose
  <2> QED
    BY <1>s, <2>1, <2>2, <2>3
<1>9. CASE OpenSession(r)
  BY <1>s, <1>9 DEF OpenSession, runVars, seenVars
<1>10. CASE SessionFails(r)
  BY <1>s, <1>10 DEF SessionFails, runVars, seenVars
<1>11. CASE RunReturns(r)
  BY <1>s, <1>11 DEF RunReturns, runVars, seenVars
<1>12. CASE RunAborts(r)
  BY <1>s, <1>12 DEF RunAborts, runVars, seenVars
<1>13. ASSUME NEW s \in Streams, CloseWriter(r, s)
      PROVE  [Contract!Next]_(Contract!vars)
  BY <1>s, <1>13 DEF CloseWriter, runVars, seenVars
<1>14. ASSUME NEW s \in Streams, NEW kind \in Kinds, Write(r, s, kind)
      PROVE  [Contract!Next]_(Contract!vars)
  <2>1. told[r] = "none"
    BY <1>14, <1>n DEF Write, ExecInv, TypeOK, RunConsistent, StreamOrdered
  <2>2. Contract!Write(r, s)
    BY <1>14, <2>1 DEF Write, seenVars, Contract!Write
  <2> QED
    BY <2>2 DEF Contract!Next
<1>15. ASSUME NEW s \in Streams, Scan(r, s)
      PROVE  [Contract!Next]_(Contract!vars)
  BY <1>s, <1>15 DEF Scan, runVars, seenVars
<1>16. ASSUME NEW s \in Streams, PublishLine(r, s)
      PROVE  [Contract!Next]_(Contract!vars)
  <2>1. told[r] = "none" /\ UNCHANGED <<sent, got, told, cut>>
    BY <1>16, <1>n DEF PublishLine, StreamOrdered, runVars, seenVars
  <2>2. early' = early \cup {r} \/ early' = early
    BY <1>16 DEF PublishLine, Publish
  <2>3. CASE early' = early \cup {r}
    BY <1>l, <2>1, <2>3 DEF Contract!Lose
  <2> QED
    BY <1>s, <2>1, <2>2, <2>3
<1>17. ASSUME NEW s \in Streams, ScanTooLong(r, s)
      PROVE  [Contract!Next]_(Contract!vars)
  <2>1. told[r] = "none" /\ UNCHANGED <<sent, got, told, early>>
    BY <1>17, <1>n DEF ScanTooLong, StreamOrdered, seenVars
  <2>2. cut' = cut \cup {r} \/ cut' = cut
    BY <1>17 DEF ScanTooLong
  <2>3. CASE cut' = cut \cup {r}
    BY <1>l, <2>1, <2>3 DEF Contract!Lose
  <2> QED
    BY <1>s, <2>1, <2>2, <2>3
<1>18. ASSUME NEW s \in Streams, ScanEOF(r, s)
      PROVE  [Contract!Next]_(Contract!vars)
  BY <1>s, <1>18 DEF ScanEOF, runVars, seenVars
<1>19. ASSUME NEW s \in Streams, JoeSendsLine(r, s)
      PROVE  [Contract!Next]_(Contract!vars)
  <2>1. told[r] = "none"
    BY <1>19, <1>n DEF JoeSendsLine, StreamOrdered
  <2>2. got[r][s] < sent[r][s]
    <3>1. got[r][s] + 1 + (IF scanner[r][s] = "publishing" THEN 1 ELSE 0)
              + (IF pipe[r][s] = "empty" THEN 0 ELSE 1) <= sent[r][s]
      BY <1>19 DEF JoeSendsLine, StreamOrdered
    <3>2. got[r][s] \in Nat /\ sent[r][s] \in Nat
      BY DEF ExecInv, TypeOK
    <3> QED
      BY <3>1, <3>2
  <2>3. Contract!Receive(r, s)
    BY <1>19, <2>1, <2>2 DEF JoeSendsLine, runVars, Contract!Receive
  <2> QED
    BY <2>3 DEF Contract!Next
<1>20. ASSUME NEW outcome \in {"done", "fail"}, JoeSendsOutcome(r, outcome)
      PROVE  [Contract!Next]_(Contract!vars)
  <2>1. told[r] = "none" /\ told' = [told EXCEPT ![r] = outcome]
    BY <1>20 DEF JoeSendsOutcome, StreamOrdered
  <2>2. UNCHANGED <<sent, got, early, cut>>
    BY <1>20 DEF JoeSendsOutcome, runVars
  <2>3. CASE outcome = "done"
    <3>1. told'[r] = "done"
      BY <2>1, <2>3 DEF ExecInv, TypeOK
    <3>2. r \in early \cup cut \/ \A s \in Streams : got[r][s] = sent[r][s]
      BY <2>2, <3>1 DEF DoneMeansComplete
    <3>3. Contract!Done(r)
      BY <2>1, <2>2, <2>3, <3>2 DEF Contract!Done
    <3> QED
      BY <3>3 DEF Contract!Next
  <2>4. CASE outcome = "fail"
    <3>1. Contract!Fail(r)
      BY <2>1, <2>2, <2>4 DEF Contract!Fail
    <3> QED
      BY <3>1 DEF Contract!Next
  <2> QED
    BY <2>3, <2>4
<1>21. ASSUME NEW what \in {"out", "err", "done", "fail"}, JoeDrops(r, what)
      PROVE  [Contract!Next]_(Contract!vars)
  BY <1>s, <1>21 DEF JoeDrops, runVars, seenVars
<1>22. CASE ClientLeaves(r)
  BY <1>s, <1>22 DEF ClientLeaves, runVars, seenVars
<1>23. CASE ClientStalls(r)
  BY <1>s, <1>23 DEF ClientStalls, runVars, seenVars
<1> HIDE DEF Same
<1> QED
  BY <1>1, <1>2, <1>3, <1>4, <1>5, <1>6, <1>7, <1>8, <1>9, <1>10, <1>11, <1>12,
     <1>13, <1>14, <1>15, <1>16, <1>17, <1>18, <1>19, <1>20, <1>21, <1>22, <1>23
     DEF RequestNext, Handler, ExecuteCommand, RunWith, Scanner, Provider

\* The endpoint keeps its promise to the client of every request, however many
\* requests share the provider, whatever the commands write and whoever hangs,
\* stalls or leaves: lines that were written, then one outcome, nothing behind
\* it, and "done" only behind every line.
THEOREM ExecKeepsContract == Spec => ImplementsContract
<1>1. Init => Contract!Init /\ StreamOrdered
  <2> SUFFICES ASSUME Init PROVE Contract!Init /\ StreamOrdered
    OBVIOUS
  <2>1. Contract!Init
    BY DEF Init, Contract!Init
  <2>2. StreamOrdered
    <3>1. \A r \in Requests, what \in {"out", "err", "done", "fail"} :
              joe # <<r, what>>
      BY ExecAssumption DEF Init
    <3>2. \A r \in Requests : exec[r] = "none" /\ told[r] = "none"
      BY DEF Init
    <3>3. \A r \in Requests, s \in Streams :
              /\ scanner[r][s] = "none" /\ pipe[r][s] = "empty"
              /\ got[r][s] = 0 /\ sent[r][s] = 0
      BY DEF Init
    <3>4. \A s \in Streams : s \in {"out", "err", "done", "fail"}
      BY DEF Streams
    <3>5. ASSUME NEW r \in Requests, NEW s \in Streams
          PROVE  got[r][s] + (IF joe = <<r, s>> THEN 1 ELSE 0)
                     + (IF scanner[r][s] = "publishing" THEN 1 ELSE 0)
                     + (IF pipe[r][s] = "empty" THEN 0 ELSE 1) <= sent[r][s]
      <4>1. joe # <<r, s>>
        BY <3>1, <3>4
      <4> QED
        BY <3>3, <4>1
    <3> QED
      BY <3>1, <3>2, <3>3, <3>4, <3>5 DEF StreamOrdered
  <2> QED
    BY <2>1, <2>2
<1>2. ExecInv /\ StreamOrdered /\ [Next]_vars => StreamOrdered'
  <2> SUFFICES ASSUME ExecInv, StreamOrdered, [Next]_vars
               PROVE  StreamOrdered'
    OBVIOUS
  <2>1. ASSUME NEW r \in Requests, RequestNext(r)
        PROVE  StreamOrdered'
    BY <2>1, OrderPreserved DEF ExecInv
  <2>2. CASE GuestHangs \/ UNCHANGED vars
    BY <2>2 DEF GuestHangs, vars, StreamOrdered, runVars, seenVars
  <2> QED
    BY <2>1, <2>2 DEF Next
<1>3. ExecInv /\ ExecInv' /\ StreamOrdered /\ [Next]_vars
          => [Contract!Next]_(Contract!vars)
  <2> SUFFICES ASSUME ExecInv, ExecInv', StreamOrdered, [Next]_vars
               PROVE  [Contract!Next]_(Contract!vars)
    OBVIOUS
  <2>1. ASSUME NEW r \in Requests, RequestNext(r)
        PROVE  [Contract!Next]_(Contract!vars)
    BY <2>1, ContractStep DEF ExecInv
  <2>2. CASE GuestHangs \/ UNCHANGED vars
    BY <2>2 DEF GuestHangs, vars, Contract!vars, runVars, seenVars
  <2> QED
    BY <2>1, <2>2 DEF Next
<1> QED
  BY <1>1, <1>2, <1>3, ExecInvariant, PTL
     DEF Spec, ImplementsContract, Contract!Spec
=============================================================================
