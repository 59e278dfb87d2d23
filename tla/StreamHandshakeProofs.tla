------------------------ MODULE StreamHandshakeProofs ------------------------
(***************************************************************************)
(* Theorems about StreamHandshake, for any set of requests, of             *)
(* conversations and of payloads.  They rest on RequestAssumption only.    *)
(***************************************************************************)
EXTENDS StreamHandshake, FiniteSetTheorems, TLAPS

------------------------------------------------------------------------------
(* The inductive invariant *)

\* The worker itself is talking to the llama-server.
Posting == wpc \in {"complete", "retry"}

\* Slots whose route has been given the llama-server and may still use it.
Handed == {s \in ready : route[s] # "over" /\ s \notin overran}

\* Who uses the llama-server is a route that was given it, or the worker.
Users ==
  \A s \in using : \/ route[s] = "piping" /\ s \in ready
                   \/ s = cur /\ Posting

\* The worker waits for the one it has given the llama-server to; after it was
\* cancelled nobody waits, and nobody else will be given it.
HandedIsCur == wpc # "stopped" => \A s \in Handed : s = cur /\ wpc = "stream"

HandedIsOne == \A s, t \in Handed : s = t

\* While the worker runs, stream_done_event is set by the routes alone.
DoneIsOver == wpc # "stopped" => \A s \in done : route[s] = "over"

\* A slot not yet taken has not been near the llama-server, and one that is
\* handed over comes there with its route only.
Fresh ==
  /\ \A s \in Slot : (route[s] = "new" \/ s \in queued)
                       => sent[s] = 0 /\ s \notin ready /\ s # cur
  /\ \A s \in queued : route[s] # "new"
  /\ wpc \in {"active", "promoted"} => sent[cur] = 0
  /\ wpc = "complete" => sent[cur] <= 1
  /\ wpc \in {"active", "promoted", "complete", "retry"} => cur \notin ready
  /\ \A s \in ready : route[s] \notin {"piping", "over"} => sent[s] = 0

StreamInv ==
  /\ Users /\ HandedIsCur /\ HandedIsOne /\ DoneIsOver
  /\ Fresh /\ OneUpstream

------------------------------------------------------------------------------
(* Types *)

LEMMA InitTypes == StreamInit => StreamTypeOK
BY RequestAssumption DEF StreamInit, StreamTypeOK

\* An upstream answer is retried, once and only for a thinking model, or it
\* ends the request.
LEMMA AnswerEffect ==
  ASSUME StreamTypeOK, UpstreamAnswers
  PROVE  /\ cur \in Slot /\ Posting
         /\ UNCHANGED <<routeVars, client, flagged, queued, eventVars, overran>>
         /\ \E c \in {"valid", "invalid"} : content' = [content EXCEPT ![cur] = c]
         /\ \/ /\ wpc = "complete" /\ wpc' = "retry" /\ cur \in thinking
               /\ sent' = [sent EXCEPT ![cur] = @ + 1]
               /\ UNCHANGED <<future, using, anchor, cur>>
            \/ /\ \E place \in {"loop", "grace"} : BackTo(place)
               /\ \E how \in {"failed", "result"} : Settle(cur, how)
               /\ using' = using \ {cur}
               /\ UNCHANGED sent
<1>1. PICK c \in {"valid", "invalid"} :
        /\ content' = [content EXCEPT ![cur] = c]
        /\ IF MayRetry(cur, c)
           THEN /\ wpc' = "retry"
                /\ sent' = [sent EXCEPT ![cur] = @ + 1]
                /\ UNCHANGED <<future, using, anchor, cur>>
           ELSE /\ BackTo(IF cur \in thinking /\ c = "invalid" /\ cur = anchor
                          THEN "loop" ELSE "grace")
                /\ Settle(cur, IF cur \in thinking /\ c = "invalid"
                               THEN "failed" ELSE "result")
                /\ using' = using \ {cur}
                /\ UNCHANGED sent
  BY DEF UpstreamAnswers
<1>2. /\ cur \in Slot /\ Posting
      /\ UNCHANGED <<routeVars, client, flagged, queued, eventVars, overran>>
  BY DEF UpstreamAnswers, StreamTypeOK, Posting
<1>3. CASE MayRetry(cur, c)
  BY <1>1, <1>2, <1>3 DEF MayRetry
<1>4. CASE ~MayRetry(cur, c)
  <2>1. \E place \in {"loop", "grace"} : BackTo(place)
    BY <1>1, <1>4
  <2>2. \E how \in {"failed", "result"} : Settle(cur, how)
    BY <1>1, <1>4
  <2>3. QED  BY <1>1, <1>2, <1>4, <2>1, <2>2
<1>5. QED  BY <1>3, <1>4

\* No step changes the shape of the state.
LEMMA StepTypes == StreamTypeOK /\ [StreamNext]_vars => StreamTypeOK'
<1> SUFFICES ASSUME StreamTypeOK, [StreamNext]_vars PROVE StreamTypeOK'
  OBVIOUS
<1> USE RequestAssumption
    DEF StreamTypeOK, Replies, Futures, routeVars, eventVars, workerVars, sideVars
<1>1. ASSUME NEW s \in Slot, RouteRejects(s) PROVE StreamTypeOK'
  BY <1>1 DEF RouteRejects, End
<1>2. ASSUME NEW s \in Slot, RouteSubmits(s) PROVE StreamTypeOK'
  BY <1>2 DEF RouteSubmits, ReadsBudget
<1>3. ASSUME NEW s \in Slot, SubmitReturns(s) PROVE StreamTypeOK'
  BY <1>3 DEF SubmitReturns
<1>4. ASSUME NEW s \in Slot, GeneratorStarts(s) PROVE StreamTypeOK'
  BY <1>4 DEF GeneratorStarts
<1>5. ASSUME NEW s \in Slot, GeneratorDropped(s) \/ SubmitRaises(s)
      PROVE  StreamTypeOK'
  BY <1>5 DEF GeneratorDropped, SubmitRaises, End
<1>6. ASSUME NEW s \in Slot, RouteOpensUpstream(s) PROVE StreamTypeOK'
  BY <1>6 DEF RouteOpensUpstream
<1>7. ASSUME NEW s \in Slot, UpstreamEnds(s) PROVE StreamTypeOK'
  BY <1>7 DEF UpstreamEnds, Leave, End, CutsConnection
<1>8. ASSUME NEW s \in Slot, UpstreamFails(s) PROVE StreamTypeOK'
  BY <1>8 DEF UpstreamFails, Leave, End, CutsConnection
<1>9. ASSUME NEW s \in Slot, StreamCancelled(s) PROVE StreamTypeOK'
  BY <1>9 DEF StreamCancelled, Leave, End, CutsConnection
<1>10. ASSUME NEW s \in Slot, FutureAnswers(s) PROVE StreamTypeOK'
  BY <1>10 DEF FutureAnswers, End, ReplyOf
<1>11. ASSUME NEW s \in Slot, ReadyTimesOut(s) PROVE StreamTypeOK'
  BY <1>11 DEF ReadyTimesOut, Leave, End, CutsConnection
<1>12. ASSUME NEW s \in Slot, FutureTimesOut(s) PROVE StreamTypeOK'
  BY <1>12 DEF FutureTimesOut, End, Settle
<1>13. ASSUME NEW s \in Slot, ClientLeaves(s) PROVE StreamTypeOK'
  BY <1>13 DEF ClientLeaves
<1>14. ASSUME NEW s \in Slot, WatcherFlags(s) PROVE StreamTypeOK'
  BY <1>14 DEF WatcherFlags
<1>15. ASSUME NEW s \in Slot, WorkerEvicts(s) PROVE StreamTypeOK'
  BY <1>15 DEF WorkerEvicts, Settle
<1>16. ASSUME NEW s \in Slot, WorkerRefuses(s) PROVE StreamTypeOK'
  BY <1>16 DEF WorkerRefuses, Settle
<1>17. ASSUME NEW s \in Slot, WorkerActivates(s) PROVE StreamTypeOK'
  BY <1>17 DEF WorkerActivates
<1>18. ASSUME NEW s \in Slot, WorkerPromotes(s) PROVE StreamTypeOK'
  BY <1>18 DEF WorkerPromotes
<1>19. CASE AnchorServed
  BY <1>19 DEF AnchorServed, HandOver, Complete, BackTo, Settle
<1>20. CASE FollowUpServed
  BY <1>20 DEF FollowUpServed, HandOver, Complete, AssertionFails, BackTo, Settle
<1>21. CASE StreamReleases
  BY <1>21 DEF StreamReleases, BackTo, Settle
<1>22. CASE StreamOverruns
  BY <1>22 DEF StreamOverruns, BackTo, Settle
<1>23. CASE UpstreamAnswers
  <2>1. CASE wpc' = "retry" /\ UNCHANGED <<future, using, anchor, cur>>
    BY <1>23, <2>1, AnswerEffect DEF Posting
  <2>2. ASSUME NEW place \in {"loop", "grace"}, BackTo(place),
               NEW how \in {"failed", "result"}, Settle(cur, how),
               using' = using \ {cur}, UNCHANGED sent
        PROVE  StreamTypeOK'
    BY <1>23, <2>2, AnswerEffect DEF Posting, BackTo, Settle
  <2>3. QED  BY <1>23, <2>1, <2>2, AnswerEffect
<1>24. CASE UpstreamRaises
  BY <1>24 DEF UpstreamRaises, BackTo, Settle
<1>25. CASE GraceEnds
  BY <1>25 DEF GraceEnds, BackTo
<1>26. CASE WorkerCancelled
  BY <1>26 DEF WorkerCancelled, BackTo, Pending
<1>27. CASE UNCHANGED vars
  BY <1>27 DEF vars
<1>28. QED
  BY <1>1, <1>2, <1>3, <1>4, <1>5, <1>6, <1>7, <1>8, <1>9, <1>10, <1>11, <1>12,
     <1>13, <1>14, <1>15, <1>16, <1>17, <1>18, <1>19, <1>20, <1>21, <1>22, <1>23,
     <1>24, <1>25, <1>26, <1>27
     DEF StreamNext, SubmitStep, RouteStep, TimerStep, WorkerStep
------------------------------------------------------------------------------
(* The invariant: steps of the routes *)

LEMMA InitStream == StreamInit => StreamInv
BY RequestAssumption
   DEF StreamInit, StreamInv, Users, HandedIsCur, HandedIsOne, DoneIsOver, Fresh,
       OneUpstream, Handed

\* A route that has not been given the llama-server goes on or ends.
LEMMA RouteMoves ==
  ASSUME StreamTypeOK, StreamInv, NEW s \in Slot, NEW r,
         route' = [route EXCEPT ![s] = r],
         route[s] \notin {"piping", "over"}, r \notin {"new", "piping"},
         UNCHANGED <<thinking, queued, ready, done, wpc, cur, using, sent, overran>>
  PROVE  StreamInv'
<1> USE DEF StreamTypeOK, StreamInv
<1>1. Users'
  BY DEF Users, Posting
<1>2. Handed' \subseteq Handed
  BY DEF Handed
<1>3. HandedIsCur' /\ HandedIsOne'
  BY <1>2 DEF HandedIsCur, HandedIsOne
<1>4. DoneIsOver'
  BY DEF DoneIsOver
<1>5. Fresh' /\ OneUpstream'
  BY DEF Fresh, OneUpstream
<1>6. QED  BY <1>1, <1>3, <1>4, <1>5

\* The finally of a route: whatever it had been given is given back.
LEMMA RouteLeaves ==
  ASSUME StreamTypeOK, StreamInv, NEW s \in Slot, NEW r, Leave(s, r),
         route[s] \notin {"new", "over"}
  PROVE  StreamInv'
<1>1. /\ route' = [route EXCEPT ![s] = "over"] /\ done' = done \cup {s}
      /\ using' = IF route[s] = "piping" THEN using \ {s} ELSE using
      /\ UNCHANGED <<thinking, queued, ready, wpc, cur, sent, overran>>
  BY DEF Leave, End, CutsConnection, workerVars
<1> USE DEF StreamTypeOK, StreamInv
<1>2. Users'
  BY <1>1 DEF Users, Posting
<1>3. Handed' \subseteq Handed
  BY <1>1 DEF Handed
<1>4. HandedIsCur' /\ HandedIsOne'
  BY <1>1, <1>3 DEF HandedIsCur, HandedIsOne
<1>5. DoneIsOver'
  BY <1>1 DEF DoneIsOver
<1>6. Fresh' /\ OneUpstream'
  BY <1>1 DEF Fresh, OneUpstream
<1>7. QED  BY <1>2, <1>4, <1>5, <1>6

\* A request is queued before anybody has dealt with it.
LEMMA SubmitsStep ==
  ASSUME StreamTypeOK, StreamInv, NEW s \in Slot, RouteSubmits(s)
  PROVE  StreamInv'
<1>1. /\ route[s] = "new" /\ route' = [route EXCEPT ![s] = "submitting"]
      /\ queued' = queued \cup {s} /\ thinking \subseteq thinking'
      /\ UNCHANGED <<ready, done, wpc, cur, using, sent, overran>>
  BY DEF RouteSubmits, ReadsBudget, eventVars, workerVars, sideVars
<1> USE DEF StreamTypeOK, StreamInv
<1>2. Users'
  BY <1>1 DEF Users, Posting
<1>3. Handed' = Handed
  BY <1>1 DEF Handed
<1>4. HandedIsCur' /\ HandedIsOne' /\ DoneIsOver'
  BY <1>1, <1>3 DEF HandedIsCur, HandedIsOne, DoneIsOver
<1>5. Fresh' /\ OneUpstream'
  BY <1>1 DEF Fresh, OneUpstream
<1>6. QED  BY <1>2, <1>4, <1>5

\* A route opens the connection it was given the llama-server for.
LEMMA OpensStep ==
  ASSUME StreamTypeOK, StreamInv, NEW s \in Slot, RouteOpensUpstream(s)
  PROVE  StreamInv'
<1>1. /\ route[s] = "waiting" /\ s \in ready
      /\ route' = [route EXCEPT ![s] = "piping"]
      /\ using' = using \cup {s} /\ sent' = [sent EXCEPT ![s] = @ + 1]
      /\ UNCHANGED <<thinking, queued, ready, done, wpc, cur, overran>>
  BY DEF RouteOpensUpstream, eventVars, workerVars
<1> USE DEF StreamTypeOK, StreamInv
<1>2. Users'
  BY <1>1 DEF Users, Posting
<1>3. Handed' = Handed
  BY <1>1 DEF Handed
<1>4. HandedIsCur' /\ HandedIsOne' /\ DoneIsOver'
  BY <1>1, <1>3 DEF HandedIsCur, HandedIsOne, DoneIsOver
<1>5. sent[s] = 0 /\ s \notin queued
  BY <1>1 DEF Fresh
<1>6. Fresh'
  BY <1>1, <1>5 DEF Fresh
<1>7. OneUpstream'
  BY <1>1, <1>5 DEF OneUpstream
<1>8. QED  BY <1>2, <1>4, <1>6, <1>7

------------------------------------------------------------------------------
(* The invariant: steps of the worker *)

\* A slot leaves the queue: dropped, or taken by a worker with nothing in hand.
LEMMA TakesStep ==
  ASSUME StreamTypeOK, StreamInv, NEW s \in queued, queued' = queued \ {s},
         \/ UNCHANGED <<wpc, cur>>
         \/ wpc \in {"loop", "grace"} /\ wpc' \in {"active", "promoted"} /\ cur' = s,
         UNCHANGED <<route, thinking, ready, done, using, sent, overran>>
  PROVE  StreamInv'
<1> USE DEF StreamTypeOK, StreamInv
<1>1. Users'
  BY DEF Users, Posting
<1>2. Handed' = Handed
  BY DEF Handed
<1>3. HandedIsCur' /\ HandedIsOne' /\ DoneIsOver'
  BY <1>2 DEF HandedIsCur, HandedIsOne, DoneIsOver
<1>4. Fresh' /\ OneUpstream'
  BY DEF Fresh, OneUpstream
<1>5. QED  BY <1>1, <1>3, <1>4

\* The llama-server is given to the route of cur, when nobody else has it.
LEMMA HandOverStep ==
  ASSUME StreamTypeOK, StreamInv, wpc \in {"active", "promoted"}, HandOver(cur)
  PROVE  StreamInv'
<1>1. /\ wpc' = "stream" /\ ready' = ready \cup {cur} /\ cur \in Slot
      /\ UNCHANGED <<route, thinking, queued, done, cur, using, sent, overran>>
  BY DEF HandOver, routeVars, sideVars, StreamTypeOK
<1> USE DEF StreamTypeOK, StreamInv
<1>2. Users'
  BY <1>1 DEF Users, Posting
<1>3. Handed' \subseteq {cur}
  BY <1>1 DEF Handed, HandedIsCur
<1>4. HandedIsCur' /\ HandedIsOne' /\ DoneIsOver'
  BY <1>1, <1>3 DEF HandedIsCur, HandedIsOne, DoneIsOver
<1>5. Fresh' /\ OneUpstream'
  BY <1>1 DEF Fresh, OneUpstream
<1>6. QED  BY <1>2, <1>4, <1>5

\* The worker is done with cur, and cur no longer has the llama-server.
LEMMA BackStep ==
  ASSUME StreamTypeOK, StreamInv, wpc # "stopped",
         NEW place \in {"loop", "grace"}, BackTo(place),
         using' = using \ {cur} \/ (~Posting /\ using' = using),
         Handed' = {}, overran \subseteq overran',
         UNCHANGED <<route, thinking, queued, ready, done, sent>>
  PROVE  StreamInv'
<1>1. wpc' = place /\ cur' = None
  BY DEF BackTo
<1> USE DEF StreamTypeOK, StreamInv
<1>2. Users'
  BY <1>1 DEF Users, Posting
<1>3. HandedIsCur' /\ HandedIsOne' /\ DoneIsOver'
  BY <1>1 DEF HandedIsCur, HandedIsOne, DoneIsOver
<1>4. Fresh' /\ OneUpstream'
  BY <1>1, RequestAssumption DEF Fresh, OneUpstream
<1>5. QED  BY <1>2, <1>3, <1>4

\* Unless the worker waits for a stream, no route has the llama-server.
LEMMA NobodyHanded ==
  ASSUME StreamInv, wpc \notin {"stream", "stopped"},
         UNCHANGED <<route, ready, overran>>
  PROVE  Handed = {} /\ Handed' = {}
BY DEF StreamInv, HandedIsCur, Handed

\* The worker posts the request of cur itself, or has none to post.
LEMMA CompleteStep ==
  ASSUME StreamTypeOK, StreamInv, wpc \in {"active", "promoted"}, Complete(cur)
  PROVE  StreamInv'
<1>1. /\ cur \in Slot
      /\ UNCHANGED <<route, thinking, queued, ready, done, overran>>
  BY DEF Complete, routeVars, eventVars, StreamTypeOK
<1>2. Handed = {} /\ Handed' = {}
  BY <1>1, NobodyHanded
<1>3. CASE ask[cur].endpoint = "embeddings"
  <2>1. BackTo("grace") /\ UNCHANGED <<using, sent>>
    BY <1>3 DEF Complete
  <2>2. QED  BY <1>1, <1>2, <2>1, BackStep DEF Posting
<1>4. CASE ask[cur].endpoint # "embeddings"
  <2>1. /\ wpc' = "complete" /\ cur' = cur
        /\ using' = using \cup {cur} /\ sent' = [sent EXCEPT ![cur] = @ + 1]
    BY <1>4 DEF Complete
  <2> USE DEF StreamTypeOK, StreamInv
  <2>2. Users'
    BY <1>1, <2>1 DEF Users, Posting
  <2>3. HandedIsCur' /\ HandedIsOne' /\ DoneIsOver'
    BY <1>1, <1>2, <2>1 DEF HandedIsCur, HandedIsOne, DoneIsOver
  <2>4. Fresh' /\ OneUpstream'
    BY <1>1, <2>1 DEF Fresh, OneUpstream
  <2>5. QED  BY <2>2, <2>3, <2>4
<1>5. QED  BY <1>3, <1>4

\* An answer came, or the retry goes out.
LEMMA AnswersStep ==
  ASSUME StreamTypeOK, StreamInv, UpstreamAnswers
  PROVE  StreamInv'
<1>1. /\ cur \in Slot /\ Posting /\ UNCHANGED <<route, thinking, queued, ready, done, overran>>
  BY AnswerEffect DEF routeVars, eventVars
<1>2. Handed = {} /\ Handed' = {}
  BY <1>1, NobodyHanded DEF Posting
<1>3. CASE /\ wpc = "complete" /\ wpc' = "retry" /\ cur \in thinking
           /\ sent' = [sent EXCEPT ![cur] = @ + 1]
           /\ UNCHANGED <<future, using, anchor, cur>>
  <2> USE DEF StreamTypeOK, StreamInv
  <2>1. Users'
    BY <1>1, <1>3 DEF Users, Posting
  <2>2. HandedIsCur' /\ HandedIsOne' /\ DoneIsOver'
    BY <1>1, <1>2, <1>3 DEF HandedIsCur, HandedIsOne, DoneIsOver, Posting
  <2>3. Fresh' /\ OneUpstream'
    BY <1>1, <1>3 DEF Fresh, OneUpstream, Posting
  <2>4. QED  BY <2>1, <2>2, <2>3
<1>4. ASSUME NEW place \in {"loop", "grace"}, BackTo(place),
             using' = using \ {cur}, UNCHANGED sent
      PROVE  StreamInv'
  BY <1>1, <1>2, <1>4, BackStep DEF Posting
<1>5. QED  BY <1>3, <1>4, AnswerEffect

\* shutdown: what a route has been given it may go on using, and nothing more
\* is given away.
LEMMA CancelledStep ==
  ASSUME StreamTypeOK, StreamInv, WorkerCancelled
  PROVE  StreamInv'
<1>1. /\ wpc # "stopped" /\ wpc' = "stopped" /\ cur' = None /\ queued' = {}
      /\ using' = IF Posting THEN using \ {cur} ELSE using
      /\ UNCHANGED <<route, thinking, ready, sent, overran>>
  BY DEF WorkerCancelled, BackTo, Posting, routeVars
<1> USE DEF StreamTypeOK, StreamInv
<1>2. Users'
  BY <1>1 DEF Users, Posting
<1>3. Handed' = Handed
  BY <1>1 DEF Handed
<1>4. HandedIsCur' /\ HandedIsOne' /\ DoneIsOver'
  BY <1>1, <1>3 DEF HandedIsCur, HandedIsOne, DoneIsOver
<1>5. Fresh' /\ OneUpstream'
  BY <1>1, RequestAssumption DEF Fresh, OneUpstream
<1>6. QED  BY <1>2, <1>4, <1>5

\* Every step preserves the invariant.
LEMMA StepStream == StreamTypeOK /\ StreamInv /\ [StreamNext]_vars => StreamInv'
<1> SUFFICES ASSUME StreamTypeOK, StreamInv, [StreamNext]_vars PROVE StreamInv'
  OBVIOUS
<1>1. ASSUME NEW s \in Slot,
             RouteRejects(s) \/ SubmitReturns(s) \/ GeneratorStarts(s)
             \/ SubmitRaises(s) \/ GeneratorDropped(s) \/ FutureAnswers(s)
             \/ FutureTimesOut(s)
      PROVE  StreamInv'
  <2>1. /\ \E r \in {"response", "waiting", "over"} : route' = [route EXCEPT ![s] = r]
        /\ route[s] \notin {"piping", "over"}
        /\ UNCHANGED <<thinking, queued, ready, done, wpc, cur, using, sent, overran>>
    BY <1>1 DEF RouteRejects, SubmitReturns, SubmitRaises, GeneratorStarts,
       GeneratorDropped, FutureAnswers, FutureTimesOut, End, eventVars, workerVars, sideVars
  <2>2. QED  BY <2>1, RouteMoves
<1>2. ASSUME NEW s \in Slot,
             UpstreamEnds(s) \/ UpstreamFails(s) \/ StreamCancelled(s) \/ ReadyTimesOut(s)
      PROVE  StreamInv'
  <2>1. /\ \E r \in {"answer", "error", "dropped", "timeout"} : Leave(s, r)
        /\ route[s] \notin {"new", "over"}
    BY <1>2 DEF UpstreamEnds, UpstreamFails, StreamCancelled, ReadyTimesOut
  <2>2. QED  BY <2>1, RouteLeaves
<1>3. ASSUME NEW s \in Slot, WorkerEvicts(s) \/ WorkerRefuses(s) \/ WorkerActivates(s)
                             \/ WorkerPromotes(s)
      PROVE  StreamInv'
  <2>1. /\ s \in queued /\ queued' = queued \ {s}
        /\ \/ UNCHANGED <<wpc, cur>>
           \/ /\ wpc \in {"loop", "grace"} /\ wpc' \in {"active", "promoted"}
              /\ cur' = s
        /\ UNCHANGED <<route, thinking, ready, done, using, sent, overran>>
    BY <1>3 DEF WorkerEvicts, WorkerRefuses, WorkerActivates, WorkerPromotes,
       routeVars, eventVars, workerVars, sideVars
  <2>2. QED  BY <2>1, TakesStep
<1>4. ASSUME \/ vars' = vars
             \/ \E s \in Slot : ClientLeaves(s) \/ WatcherFlags(s)
      PROVE  StreamInv'
  <2>1. UNCHANGED <<route, thinking, queued, ready, done, wpc, cur, using, sent, overran>>
    BY <1>4 DEF vars, ClientLeaves, WatcherFlags, routeVars, eventVars, workerVars,
       sideVars
  <2>2. QED
    BY <2>1 DEF StreamInv, Users, HandedIsCur, HandedIsOne, DoneIsOver, Fresh,
       OneUpstream, Handed, Posting
<1>5. CASE AnchorServed
  BY <1>5, HandOverStep, CompleteStep DEF AnchorServed
<1>6. CASE FollowUpServed
  <2>1. ASSUME AssertionFails(cur) PROVE StreamInv'
    <3>1. /\ wpc = "promoted" /\ BackTo("grace")
          /\ UNCHANGED <<route, thinking, queued, ready, done, using, sent, overran>>
      BY <1>6, <2>1 DEF FollowUpServed, AssertionFails, routeVars, eventVars, sideVars
    <3>2. QED  BY <3>1, NobodyHanded, BackStep DEF Posting
  <2>2. QED  BY <1>6, <2>1, HandOverStep, CompleteStep DEF FollowUpServed
<1>7. CASE StreamReleases \/ StreamOverruns
  <2>1. /\ wpc = "stream" /\ BackTo("grace")
        /\ UNCHANGED <<route, thinking, queued, ready, done, using, sent>>
        /\ overran \subseteq overran'
        /\ cur \in done \/ cur \in overran'
    BY <1>7 DEF StreamReleases, StreamOverruns, routeVars, eventVars, sideVars
  <2>2. Handed' = {}
    BY <2>1 DEF Handed, StreamInv, HandedIsCur, DoneIsOver
  <2>3. QED  BY <2>1, <2>2, BackStep DEF Posting
<1>8. CASE UpstreamRaises \/ GraceEnds
  <2>1. /\ wpc \in {"complete", "retry", "grace"}
        /\ \E place \in {"loop", "grace"} : BackTo(place)
        /\ using' = using \ {cur} \/ (~Posting /\ using' = using)
        /\ UNCHANGED <<route, thinking, queued, ready, done, sent, overran>>
    BY <1>8 DEF UpstreamRaises, GraceEnds, Posting, routeVars, eventVars, sideVars
  <2>2. QED  BY <2>1, NobodyHanded, BackStep
<1>9. QED
  BY <1>1, <1>2, <1>3, <1>4, <1>5, <1>6, <1>7, <1>8, SubmitsStep, OpensStep,
     AnswersStep, CancelledStep
     DEF StreamNext, SubmitStep, RouteStep, TimerStep, WorkerStep

------------------------------------------------------------------------------
(* What the clients are told *)

\* A disconnect is flagged only for a client that has left.
Flags == \A s \in flagged : ~client[s]

\* A slot that was evicted or has its result is in nobody's hands any more.
Settled == \A s \in Slot : future[s] \in {"evicted", "result"} => s \notin queued /\ s # cur

Evictions == \A s \in Slot : future[s] = "evicted" => ~client[s] /\ sent[s] = 0 /\ s \notin ready

Results ==
  \A s \in Slot : future[s] = "result" =>
    /\ sent[s] > 0 \/ ask[s].endpoint = "embeddings"
    /\ s \in thinking => content[s] = "valid"

\* Whoever waits for an upstream answer has made the request.
Sending ==
  /\ Posting => sent[cur] > 0
  /\ \A s \in Slot : route[s] = "piping" => sent[s] > 0 /\ OwnsUpstream(s)

\* The validated requests are the worker's to send.
Thinkers == \A s \in thinking : ~OwnsUpstream(s) /\ route[s] # "new"

\* A reply repeats what the future says, or what the route's own pipe brought.
Told ==
  \A s \in Slot :
    /\ reply[s] # None => route[s] = "over"
    /\ reply[s] = "evicted" => future[s] = "evicted"
    /\ reply[s] = "answer" => \/ future[s] = "result" /\ ~OwnsUpstream(s)
                              \/ sent[s] > 0 /\ s \notin thinking

ReplyInv == Flags /\ Settled /\ Evictions /\ Results /\ Sending /\ Thinkers /\ Told

LEMMA InitReplies == StreamInit => ReplyInv
BY RequestAssumption
   DEF StreamInit, ReplyInv, Flags, Settled, Evictions, Results, Sending, Thinkers, Told,
       Posting, Replies, Futures

\* Every step preserves what the replies rest on.
LEMMA StepReplies ==
  StreamTypeOK /\ StreamInv /\ ReplyInv /\ [StreamNext]_vars => ReplyInv'
<1> SUFFICES ASSUME StreamTypeOK, StreamInv, ReplyInv, [StreamNext]_vars PROVE ReplyInv'
  OBVIOUS
<1> /\ None \notin Slot \cup Replies \cup Futures
    /\ cur \in Slot \cup {None} /\ queued \subseteq Slot /\ using \subseteq Slot
    /\ flagged \subseteq Slot /\ ready \subseteq Slot /\ thinking \subseteq Slot
    /\ sent \in [Slot -> Nat] /\ client \in [Slot -> BOOLEAN]
    /\ DOMAIN route = Slot /\ DOMAIN reply = Slot /\ DOMAIN future = Slot
    /\ DOMAIN content = Slot
    /\ cur = None <=> wpc \in {"loop", "grace", "stopped"}
  BY RequestAssumption DEF StreamTypeOK
<1> Fresh
  BY DEF StreamInv
<1> USE DEF ReplyInv, Flags, Settled, Evictions, Results, Sending, Thinkers, Told, Fresh,
        Replies, Futures, Posting, OwnsUpstream, Pending, routeVars, eventVars, workerVars, sideVars
<1>1. ASSUME NEW s \in Slot, RouteRejects(s) PROVE ReplyInv'
  BY <1>1 DEF RouteRejects, End
<1>2. ASSUME NEW s \in Slot, RouteSubmits(s) PROVE ReplyInv'
  <2>1. /\ route[s] = "new" /\ s \notin thinking /\ reply[s] = None
        /\ \A t \in Slot \ {s} : ask'[t] = ask[t]
        /\ \A t \in thinking' \ {s} : t \in thinking
        /\ s \in thinking' => ~OwnsUpstream(s)'
    BY <1>2 DEF RouteSubmits, ReadsBudget
  <2>2. QED  BY <1>2, <2>1 DEF RouteSubmits
<1>3. ASSUME NEW s \in Slot, SubmitReturns(s) PROVE ReplyInv'
  BY <1>3 DEF SubmitReturns
<1>4. ASSUME NEW s \in Slot, GeneratorStarts(s) PROVE ReplyInv'
  BY <1>4 DEF GeneratorStarts
<1>5. ASSUME NEW s \in Slot, GeneratorDropped(s) \/ SubmitRaises(s) PROVE ReplyInv'
  BY <1>5 DEF GeneratorDropped, SubmitRaises, End
<1>6. ASSUME NEW s \in Slot, RouteOpensUpstream(s) PROVE ReplyInv'
  BY <1>6 DEF RouteOpensUpstream
<1>7. ASSUME NEW s \in Slot, UpstreamEnds(s) PROVE ReplyInv'
  BY <1>7 DEF UpstreamEnds, Leave, End, CutsConnection
<1>8. ASSUME NEW s \in Slot, UpstreamFails(s) \/ StreamCancelled(s) \/ ReadyTimesOut(s)
      PROVE  ReplyInv'
  BY <1>8 DEF UpstreamFails, StreamCancelled, ReadyTimesOut, Leave, End, CutsConnection
<1>9. ASSUME NEW s \in Slot, FutureAnswers(s) PROVE ReplyInv'
  BY <1>9 DEF FutureAnswers, End, ReplyOf
<1>10. ASSUME NEW s \in Slot, FutureTimesOut(s) PROVE ReplyInv'
  BY <1>10 DEF FutureTimesOut, End, Settle
<1>11. ASSUME NEW s \in Slot, ClientLeaves(s) \/ WatcherFlags(s) PROVE ReplyInv'
  BY <1>11 DEF ClientLeaves, WatcherFlags
<1>12. ASSUME NEW s \in Slot, WorkerEvicts(s) PROVE ReplyInv'
  BY <1>12 DEF WorkerEvicts, Settle
<1>13. ASSUME NEW s \in Slot, WorkerRefuses(s) PROVE ReplyInv'
  BY <1>13 DEF WorkerRefuses, Settle
<1>14. ASSUME NEW s \in Slot, WorkerActivates(s) \/ WorkerPromotes(s) PROVE ReplyInv'
  BY <1>14 DEF WorkerActivates, WorkerPromotes
<1>15. ASSUME wpc \in {"active", "promoted"}, HandOver(cur) PROVE ReplyInv'
  BY <1>15 DEF HandOver
<1>16. ASSUME wpc \in {"active", "promoted"}, Complete(cur) PROVE ReplyInv'
  BY <1>16 DEF Complete, BackTo, Settle
<1>17. ASSUME wpc \in {"active", "promoted"}, AssertionFails(cur) PROVE ReplyInv'
  BY <1>17 DEF AssertionFails, BackTo, Settle
<1>18. CASE StreamReleases \/ StreamOverruns
  BY <1>18 DEF StreamReleases, StreamOverruns, BackTo, Settle
<1>19. CASE UpstreamAnswers
  BY <1>19 DEF UpstreamAnswers, MayRetry, BackTo, Settle
<1>20. CASE UpstreamRaises \/ GraceEnds
  BY <1>20 DEF UpstreamRaises, GraceEnds, BackTo, Settle
<1>21. CASE WorkerCancelled
  BY <1>21 DEF WorkerCancelled, BackTo
<1>22. CASE UNCHANGED vars
  BY <1>22 DEF vars
<1>23. QED
  BY <1>1, <1>2, <1>3, <1>4, <1>5, <1>6, <1>7, <1>8, <1>9, <1>10, <1>11, <1>12, <1>13,
     <1>14, <1>15, <1>16, <1>17, <1>18, <1>19, <1>20, <1>21, <1>22
     DEF StreamNext, SubmitStep, RouteStep, TimerStep, WorkerStep, AnchorServed, FollowUpServed

------------------------------------------------------------------------------
(* The theorems *)

\* StreamSpec keeps the shape of the state and the invariant.
THEOREM AlwaysStream == StreamSpec => [](StreamTypeOK /\ StreamInv)
BY InitTypes, StepTypes, InitStream, StepStream, PTL DEF StreamSpec

\* The routes and the worker keep the state well typed.
THEOREM StreamTypes == StreamSpec => []StreamTypeOK
BY AlwaysStream, PTL

\* Of the users of the llama-server all are the same, but for streams that have
\* outlived the worker's hour.
LEMMA OneUser == StreamInv => \A s, t \in using \ overran : s = t
<1> SUFFICES ASSUME StreamInv, NEW s \in using \ overran, NEW t \in using \ overran
             PROVE  s = t
  OBVIOUS
<1>1. \A u \in {s, t} : u \in Handed \/ (u = cur /\ Posting)
  BY DEF StreamInv, Users, Handed
<1>2. Posting => Handed = {}
  BY DEF StreamInv, HandedIsCur, Handed, Posting
<1>3. QED  BY <1>1, <1>2 DEF StreamInv, HandedIsOne

\* Two requests are never under way on the llama-server at once: the worker
\* keeps a slot in ACTIVE until its route has set stream_done_event.
THEOREM ExclusiveSidecar == StreamSpec => []SidecarExclusive
<1>1. StreamInv => SidecarExclusive
  <2> SUFFICES ASSUME StreamInv PROVE SidecarExclusive
    OBVIOUS
  <2>1. CASE using \ overran = {}
    BY <2>1, FS_EmptySet DEF SidecarExclusive
  <2>2. CASE using \ overran # {}
    <3>1. PICK s : s \in using \ overran
      BY <2>2
    <3>2. using \ overran = {s}
      BY <3>1, OneUser
    <3>3. Cardinality({s}) = 1
      BY FS_Singleton
    <3>4. QED  BY <3>2, <3>3 DEF SidecarExclusive
  <2>3. QED  BY <2>1, <2>2
<1>2. QED  BY <1>1, AlwaysStream, PTL

\* worker_loop and the route never both send a request upstream, and it is sent
\* twice for the schema retry only.
THEOREM SentOnce == StreamSpec => []OneUpstream
<1>1. StreamInv => OneUpstream
  BY DEF StreamInv
<1>2. QED  BY <1>1, AlwaysStream, PTL

\* No client is told what has not happened: "evicted" (499) only once it has
\* left and without an upstream request, an answer only after one, and a
\* schema-bound answer of a thinking model only when it is valid.
THEOREM RepliesAreHonest == StreamSpec => []HonestReply
<1>1. StreamSpec => [](StreamTypeOK /\ StreamInv /\ ReplyInv)
  BY InitTypes, StepTypes, InitStream, StepStream, InitReplies, StepReplies, PTL DEF StreamSpec
<1>2. ReplyInv => HonestReply
  BY DEF ReplyInv, Told, Evictions, Results, Thinkers, HonestReply, OwnsUpstream
<1>3. QED  BY <1>1, <1>2, PTL
==============================================================================
