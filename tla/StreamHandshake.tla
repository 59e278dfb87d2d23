--------------------------- MODULE StreamHandshake ---------------------------
(***************************************************************************)
(* The hand-over of the one llama-server between worker_loop and the HTTP  *)
(* routes.  /v1/chat/completions without stream and /api/chat let the      *)
(* worker make the upstream request and wait for completion_future; the    *)
(* SSE route and /v1/embeddings make it themselves between                 *)
(* stream_ready_event and stream_done_event.  stream_handle is assigned in *)
(* the same step as stream_ready_event is set, and is read only after it.  *)
(*                                                                         *)
(* The order in which the worker takes queued slots is the business of     *)
(* Manager: here it takes any.  Timers (600 s, one hour) may run out at    *)
(* any moment.                                                             *)
(***************************************************************************)
EXTENDS Integers, FiniteSets

CONSTANTS
  Slot,           \* requests, one slot each
  Key,            \* [Slot -> conversations]: (thread_id, model_tag)
  Requests,       \* what a client may ask for: records of AnyRequest
  ReasoningBudget,\* the manifest's reasoning_budget, read at submission
  None            \* nothing yet

AnyRequest == [endpoint : {"openai", "ollama", "embeddings"},
               stream   : BOOLEAN,
               tools    : BOOLEAN,
               format   : {"free", "schema", "unsound"}]

\* What a client is told, and the states of a completion_future.
Replies == {"answer", "error", "evicted", "timeout", "dropped", "rejected"}
Futures == {"pending", "result", "streamed", "failed", "evicted", "cancelled"}

ASSUME RequestAssumption ==
  /\ Requests \subseteq AnyRequest
  /\ ReasoningBudget \in Nat
  /\ None \notin Slot \cup Replies \cup Futures

VARIABLES
  ask,       \* [Slot -> the request, once it has come]
  route,     \* where each request's route is
  reply,     \* what its client was told
  client,    \* whether its client still listens
  flagged,   \* slots whose disconnect_event is set
  queued,    \* slots in the request queue
  future,    \* completion_future
  armed,     \* slots whose two stream events exist
  ready,     \* slots whose stream_ready_event is set
  done,      \* slots whose stream_done_event is set
  wpc,       \* where worker_loop is
  anchor,    \* the slot of _process_slot
  cur,       \* the slot being served: the anchor or a promoted follow-up
  using,     \* slots with a request under way on the llama-server
  sent,      \* [Slot -> number of upstream requests made for it]
  content,   \* [Slot -> the last upstream answer]
  thinking,  \* slots with thinking_manifest.reasoning_budget > 0
  overran    \* slots whose stream outlived the worker's hour

routeVars  == <<ask, route, reply, thinking>>
eventVars  == <<armed, ready, done>>
workerVars == <<wpc, anchor, cur>>
sideVars   == <<using, sent, content>>
vars == <<routeVars, client, flagged, queued, future, eventVars, workerVars,
          sideVars, overran>>

\* The routes that call submit_for_streaming and post upstream themselves.
OwnsUpstream(s) == \/ ask[s].endpoint = "embeddings"
                   \/ ask[s].endpoint = "openai" /\ ask[s].stream

\* The route that answers with a StreamingResponse.
IsSse(s) == ask[s].endpoint = "openai" /\ ask[s].stream

\* Routes with a watch_disconnect task; the SSE route has none.
Watched(s) == ~IsSse(s)

\* client_meta["stream"], which the worker looks at: /api/chat copies it from
\* the payload, though it waits for the completion like the plain route.
MetaStream(s) == OwnsUpstream(s) \/ ask[s].stream

\* The routes' checks of a payload: 400, 413 and 422.
Rejects(r) == \/ r.format = "unsound"
              \/ r.endpoint = "ollama" /\ r.stream /\ r.tools

StreamInit ==
  /\ ask = [s \in Slot |-> None]
  /\ route = [s \in Slot |-> "new"]
  /\ reply = [s \in Slot |-> None]
  /\ client = [s \in Slot |-> TRUE]
  /\ future = [s \in Slot |-> None]
  /\ sent = [s \in Slot |-> 0]
  /\ content = [s \in Slot |-> None]
  /\ wpc = "loop" /\ anchor = None /\ cur = None
  /\ flagged = {} /\ queued = {} /\ armed = {} /\ ready = {} /\ done = {}
  /\ using = {} /\ thinking = {} /\ overran = {}

Pending(s) == future[s] = "pending"

\* Where worker_loop goes on once it is done with cur.
BackTo(place) ==
  /\ wpc' = place
  /\ cur' = None
  /\ anchor' = IF place = "grace" THEN anchor ELSE None

\* set_result and _fail_completion_future leave a settled future alone.
Settle(s, how) ==
  future' = IF Pending(s) THEN [future EXCEPT ![s] = how] ELSE future

End(s, r) ==
  /\ route' = [route EXCEPT ![s] = "over"]
  /\ reply' = [reply EXCEPT ![s] = r]
  /\ UNCHANGED <<ask, thinking>>

\* The route's own connection is cut; one the worker has made for it is not.
CutsConnection(s) ==
  using' = IF route[s] = "piping" THEN using \ {s} ELSE using

\* A mutant of Leave: the finally forgets stream_done_event.
LeaveSilently(s, r) ==
  /\ End(s, r)
  /\ CutsConnection(s)
  /\ UNCHANGED <<client, flagged, queued, future, eventVars, workerVars,
                 sent, content, overran>>

\* The finally of the routes that own the upstream: cut the connection, set
\* stream_done_event.
Leave(s, r) ==
  /\ End(s, r)
  /\ CutsConnection(s)
  /\ done' = done \cup {s}
  /\ UNCHANGED <<client, flagged, queued, future, armed, ready, workerVars,
                 sent, content, overran>>

------------------------------------------------------------------------------
(* The routes *)

\* A request that does not pass the checks is never queued.
RouteRejects(s) ==
  /\ route[s] = "new"
  /\ \E r \in Requests : Rejects(r)
  /\ End(s, "rejected")
  /\ UNCHANGED <<client, flagged, queued, future, eventVars, workerVars,
                 sideVars, overran>>

\* thinking_manifest of a schema-bound request; a failed read of the manifest
\* is forgiven and disables the retry.
ReadsBudget(s, r) ==
  \E readable \in BOOLEAN :
    thinking' = IF /\ r.format = "schema" /\ readable /\ ReasoningBudget > 0
                   /\ ~OwnsUpstream(s)'
                THEN thinking \cup {s} ELSE thinking

\* The route builds client_meta; submit queues the slot and then awaits its
\* audit write.
RouteSubmits(s) ==
  /\ route[s] = "new"
  /\ \E r \in Requests : /\ ~Rejects(r)
                        /\ ask' = [ask EXCEPT ![s] = r]
                        /\ ReadsBudget(s, r)
  /\ route' = [route EXCEPT ![s] = "submitting"]
  /\ queued' = queued \cup {s}
  /\ future' = [future EXCEPT ![s] = "pending"]
  /\ UNCHANGED <<reply, client, flagged, eventVars, workerVars, sideVars,
                 overran>>

\* submit returns: submit_for_streaming now makes the two events.
SubmitReturns(s) ==
  /\ route[s] = "submitting"
  /\ route' = [route EXCEPT
       ![s] = IF IsSse(s) THEN "response" ELSE "waiting"]
  /\ armed' = IF OwnsUpstream(s) THEN armed \cup {s} ELSE armed
  /\ UNCHANGED <<ask, reply, thinking, client, flagged, queued, future, ready,
                 done, workerVars, sideVars, overran>>

\* The row or the audit write of submit raises: the client gets an error, the
\* slot stays queued and its events are never made.
SubmitRaises(s) ==
  /\ route[s] = "submitting"
  /\ End(s, "error")
  /\ UNCHANGED <<client, flagged, queued, future, eventVars, workerVars,
                 sideVars, overran>>

\* The server asks stream_gen for its first chunk.
GeneratorStarts(s) ==
  /\ route[s] = "response"
  /\ route' = [route EXCEPT ![s] = "waiting"]
  /\ UNCHANGED <<ask, reply, thinking, client, flagged, queued, future, eventVars,
                 workerVars, sideVars, overran>>

\* The client left before that: stream_gen never runs, nor does its finally.
GeneratorDropped(s) ==
  /\ route[s] = "response"
  /\ ~client[s]
  /\ End(s, "dropped")
  /\ UNCHANGED <<client, flagged, queued, future, eventVars, workerVars,
                 sideVars, overran>>

\* SLOT_READY_TIMEOUT_S runs out.
ReadyTimesOut(s) ==
  /\ route[s] = "waiting" /\ OwnsUpstream(s)
  /\ s \notin ready
  /\ Leave(s, "timeout")

\* stream_handle is there: open the upstream connection.
RouteOpensUpstream(s) ==
  /\ route[s] = "waiting" /\ OwnsUpstream(s)
  /\ s \in ready
  /\ route' = [route EXCEPT ![s] = "piping"]
  /\ using' = using \cup {s}
  /\ sent' = [sent EXCEPT ![s] = @ + 1]
  /\ UNCHANGED <<ask, reply, thinking, client, flagged, queued, future, eventVars,
                 workerVars, content, overran>>

UpstreamEnds(s) == route[s] = "piping" /\ Leave(s, "answer")

\* An HTTP error status, a broken connection or a timeout of httpx.
UpstreamFails(s) == route[s] = "piping" /\ Leave(s, "error")

\* Starlette cancels a running stream_gen whose client has left.
StreamCancelled(s) ==
  /\ route[s] \in {"waiting", "piping"} /\ IsSse(s)
  /\ ~client[s]
  /\ Leave(s, "dropped")

\* submit_and_wait hears of the slot.
ReplyOf(f) == CASE f = "result"  -> "answer"
                [] f = "evicted" -> "evicted"
                [] OTHER         -> "error"

FutureAnswers(s) ==
  /\ route[s] = "waiting" /\ ~OwnsUpstream(s)
  /\ ~Pending(s)
  /\ End(s, ReplyOf(future[s]))
  /\ UNCHANGED <<client, flagged, queued, future, eventVars, workerVars,
                 sideVars, overran>>

\* A mutant of FutureTimesOut: the timeout counts only while queued.
FutureTimesOutInQueue(s) ==
  /\ route[s] = "waiting" /\ ~OwnsUpstream(s)
  /\ Pending(s) /\ s \in queued
  /\ End(s, "timeout")
  /\ Settle(s, "cancelled")
  /\ UNCHANGED <<client, flagged, queued, eventVars, workerVars, sideVars,
                 overran>>

\* wait_for gives up after timeout_s and cancels the future.
FutureTimesOut(s) ==
  /\ route[s] = "waiting" /\ ~OwnsUpstream(s)
  /\ Pending(s)
  /\ End(s, "timeout")
  /\ Settle(s, "cancelled")
  /\ UNCHANGED <<client, flagged, queued, eventVars, workerVars, sideVars,
                 overran>>

ClientLeaves(s) ==
  /\ client[s] /\ route[s] \notin {"new", "over"}
  /\ client' = [client EXCEPT ![s] = FALSE]
  /\ UNCHANGED <<routeVars, flagged, queued, future, eventVars, workerVars,
                 sideVars, overran>>

\* watch_disconnect polls the connection until the route's finally cancels it.
WatcherFlags(s) ==
  /\ route[s] \in {"submitting", "waiting", "piping"} /\ Watched(s)
  /\ ~client[s]
  /\ s \notin flagged
  /\ flagged' = flagged \cup {s}
  /\ UNCHANGED <<routeVars, client, queued, future, eventVars, workerVars,
                 sideVars, overran>>

------------------------------------------------------------------------------
(* worker_loop *)

\* pop_next returned a slot whose client has left.
WorkerEvicts(s) ==
  /\ wpc = "loop"
  /\ s \in queued /\ s \in flagged
  /\ queued' = queued \ {s}
  /\ Settle(s, "evicted")
  /\ UNCHANGED <<routeVars, client, flagged, eventVars, workerVars, sideVars,
                 overran>>

\* No manifest, a refused gate, a failed spawn or health check: the future is
\* failed, the stream events are left alone.
WorkerRefuses(s) ==
  /\ wpc = "loop"
  /\ s \in queued /\ s \notin flagged
  /\ queued' = queued \ {s}
  /\ Settle(s, "failed")
  /\ UNCHANGED <<routeVars, client, flagged, eventVars, workerVars, sideVars,
                 overran>>

\* The anchor reaches ACTIVE and its audit write is awaited.
WorkerActivates(s) ==
  /\ wpc = "loop"
  /\ s \in queued /\ s \notin flagged
  /\ queued' = queued \ {s}
  /\ wpc' = "active" /\ anchor' = s /\ cur' = s
  /\ UNCHANGED <<routeVars, client, flagged, future, eventVars, sideVars,
                 overran>>

\* is_streaming: the handle goes to the route.
HandOver(s) ==
  /\ wpc' = "stream" /\ UNCHANGED <<anchor, cur>>
  /\ ready' = ready \cup {s}
  /\ UNCHANGED <<routeVars, client, flagged, queued, future, armed, done,
                 sideVars, overran>>

\* _complete_fn posts the request; without messages it returns at once.
Complete(s) ==
  /\ IF ask[s].endpoint = "embeddings"
     THEN BackTo("grace") /\ Settle(s, "result") /\ UNCHANGED <<using, sent>>
     ELSE /\ wpc' = "complete" /\ UNCHANGED <<anchor, cur>>
          /\ using' = using \cup {s}
          /\ sent' = [sent EXCEPT ![s] = @ + 1]
          /\ UNCHANGED future
  /\ UNCHANGED <<routeVars, client, flagged, queued, eventVars, content, overran>>

AnchorServed ==
  /\ wpc = "active"
  /\ IF MetaStream(cur) /\ cur \in armed THEN HandOver(cur) ELSE Complete(cur)

\* The grace loop promotes a queued follow-up of the anchor's conversation.
WorkerPromotes(s) ==
  /\ wpc = "grace"
  /\ s \in queued /\ Key[s] = Key[anchor]
  /\ queued' = queued \ {s}
  /\ wpc' = "promoted" /\ cur' = s /\ UNCHANGED anchor
  /\ UNCHANGED <<routeVars, client, flagged, future, eventVars, sideVars,
                 overran>>

\* matched_is_streaming: a slot without events fails the assertion.
AssertionFails(s) ==
  /\ BackTo("grace")
  /\ Settle(s, "failed")
  /\ UNCHANGED <<routeVars, client, flagged, queued, eventVars, sideVars,
                 overran>>

FollowUpServed ==
  /\ wpc = "promoted"
  /\ IF ~MetaStream(cur) THEN Complete(cur)
     ELSE IF cur \in armed THEN HandOver(cur) ELSE AssertionFails(cur)

\* A mutant of StreamReleases: the worker does not wait for the route.
StreamReleasesAtOnce ==
  /\ wpc = "stream"
  /\ BackTo("grace")
  /\ Settle(cur, "streamed")
  /\ UNCHANGED <<routeVars, client, flagged, queued, eventVars, sideVars,
                 overran>>

\* The stream is over: the future is settled, the slot goes on to GRACE.
StreamReleases ==
  /\ wpc = "stream"
  /\ cur \in done
  /\ BackTo("grace")
  /\ Settle(cur, "streamed")
  /\ UNCHANGED <<routeVars, client, flagged, queued, eventVars, sideVars,
                 overran>>

\* The worker's hour has passed.
StreamOverruns ==
  /\ wpc = "stream"
  /\ cur \notin done
  /\ BackTo("grace")
  /\ Settle(cur, "streamed")
  /\ overran' = overran \cup {cur}
  /\ UNCHANGED <<routeVars, client, flagged, queued, eventVars, sideVars>>

\* A mutant of MayRetry: the second answer is offered a retry as well.
MayRetryAgain(s, c) == s \in thinking /\ c = "invalid"

\* The retry is offered to a strict request of a thinking model, once.
MayRetry(s, c) == s \in thinking /\ c = "invalid" /\ wpc = "complete"

\* A mutant of UpstreamAnswers: the second answer is not validated.
UpstreamAnswersUnchecked ==
  /\ wpc \in {"complete", "retry"}
  /\ \E c \in {"valid", "invalid"} :
       /\ content' = [content EXCEPT ![cur] = c]
       /\ IF MayRetry(cur, c)
          THEN /\ wpc' = "retry"
               /\ sent' = [sent EXCEPT ![cur] = @ + 1]
               /\ UNCHANGED <<future, using, anchor, cur>>
          ELSE /\ BackTo("grace")
               /\ Settle(cur, "result")
               /\ using' = using \ {cur}
               /\ UNCHANGED sent
  /\ UNCHANGED <<routeVars, client, flagged, queued, eventVars, overran>>

\* The answer came: validate it, retry with enable_thinking false, or return.
UpstreamAnswers ==
  /\ wpc \in {"complete", "retry"}
  /\ \E c \in {"valid", "invalid"} :
       /\ content' = [content EXCEPT ![cur] = c]
       /\ IF MayRetry(cur, c)
          THEN /\ wpc' = "retry"
               /\ sent' = [sent EXCEPT ![cur] = @ + 1]
               /\ UNCHANGED <<future, using, anchor, cur>>
          ELSE /\ BackTo(IF cur \in thinking /\ c = "invalid" /\ cur = anchor
                         THEN "loop" ELSE "grace")
               /\ Settle(cur, IF cur \in thinking /\ c = "invalid"
                              THEN "failed" ELSE "result")
               /\ using' = using \ {cur}
               /\ UNCHANGED sent
  /\ UNCHANGED <<routeVars, client, flagged, queued, eventVars, overran>>

\* An httpx error: a failed anchor is torn down, a failed follow-up leaves
\* the anchor in its grace loop.
UpstreamRaises ==
  /\ wpc \in {"complete", "retry"}
  /\ BackTo(IF cur = anchor THEN "loop" ELSE "grace")
  /\ Settle(cur, "failed")
  /\ using' = using \ {cur}
  /\ UNCHANGED <<routeVars, client, flagged, queued, eventVars, sent, content,
                 overran>>

\* Grace runs out: teardown, or the warm holder takes the llama-server.
GraceEnds ==
  /\ wpc = "grace"
  /\ BackTo("loop")
  /\ UNCHANGED <<routeVars, client, flagged, queued, future, eventVars, sideVars,
                 overran>>

\* shutdown cancels the worker: a promoted follow-up is unwound, the anchor's
\* future is left as it is, and queued slots are failed.
WorkerCancelled ==
  /\ wpc # "stopped"
  /\ BackTo("stopped")
  /\ LET unwound == IF wpc \in {"stream", "complete", "retry"} /\ cur # anchor
                    THEN {cur} ELSE {}
     IN  /\ done' = IF wpc = "stream" THEN done \cup unwound ELSE done
         /\ future' = [s \in Slot |->
              IF s \in queued \cup unwound /\ Pending(s) THEN "failed"
              ELSE future[s]]
  /\ queued' = {}
  /\ using' = IF wpc \in {"complete", "retry"} THEN using \ {cur} ELSE using
  /\ UNCHANGED <<routeVars, client, flagged, armed, ready, sent, content,
                 overran>>

------------------------------------------------------------------------------
SubmitStep(s) == RouteRejects(s) \/ RouteSubmits(s) \/ SubmitRaises(s)

RouteStep(s) ==
  \/ SubmitReturns(s) \/ GeneratorStarts(s) \/ GeneratorDropped(s)
  \/ RouteOpensUpstream(s) \/ UpstreamEnds(s) \/ UpstreamFails(s)
  \/ StreamCancelled(s) \/ FutureAnswers(s)

TimerStep(s) == ReadyTimesOut(s) \/ FutureTimesOut(s)

WorkerStep ==
  \/ \E s \in Slot : WorkerEvicts(s) \/ WorkerRefuses(s) \/ WorkerActivates(s)
                     \/ WorkerPromotes(s)
  \/ AnchorServed \/ FollowUpServed \/ StreamReleases
  \/ UpstreamAnswers \/ UpstreamRaises \/ GraceEnds

StreamNext ==
  \/ \E s \in Slot : SubmitStep(s) \/ RouteStep(s) \/ TimerStep(s)
                     \/ ClientLeaves(s) \/ WatcherFlags(s)
  \/ WorkerStep
  \/ StreamOverruns
  \/ WorkerCancelled

\* Everybody may be done: no deadlock check.
StreamSpec == StreamInit /\ [][StreamNext]_vars

\* The event loop runs what is ready, timers expire and an upstream request
\* ends (httpx has a timeout); nobody has to submit, to leave, to stop, or to
\* stay an hour.
StreamFairness ==
  /\ \A s \in Slot : WF_vars(RouteStep(s)) /\ WF_vars(TimerStep(s))
  /\ WF_vars(WorkerStep)

FairStreamSpec == StreamSpec /\ StreamFairness

------------------------------------------------------------------------------
(* Properties *)

\* State shape; the worker has a slot in hand exactly where its code has one.
StreamTypeOK ==
  /\ route \in [Slot -> {"new", "submitting", "response", "waiting", "piping",
                         "over"}]
  /\ reply \in [Slot -> Replies \cup {None}]
  /\ future \in [Slot -> Futures \cup {None}]
  /\ sent \in [Slot -> Nat]
  /\ content \in [Slot -> {None, "valid", "invalid"}]
  /\ client \in [Slot -> BOOLEAN]
  /\ flagged \subseteq Slot /\ queued \subseteq Slot /\ armed \subseteq Slot
  /\ ready \subseteq Slot /\ done \subseteq Slot
  /\ using \subseteq Slot /\ thinking \subseteq Slot /\ overran \subseteq Slot
  /\ wpc \in {"loop", "active", "stream", "complete", "retry", "grace",
              "promoted", "stopped"}
  /\ anchor \in Slot \cup {None} /\ cur \in Slot \cup {None}
  /\ cur = None <=> wpc \in {"loop", "grace", "stopped"}
  /\ anchor = None <=> wpc \in {"loop", "stopped"}

\* "Slot stays in ACTIVE the entire time so ACTIVE_MATCH cannot promote a
\* second submission against the same sidecar" (manager.py:866): two requests
\* are never under way on the llama-server at once, except beside a stream
\* that has outlived the worker's hour.
SidecarExclusive == Cardinality(using \ overran) <= 1

\* A request reaches the llama-server once, through its worker or through its
\* route and never through both; a schema-bound one of a thinking model at most
\* once more, for the retry, and never a third time.
OneUpstream ==
  \A s \in Slot : sent[s] <= IF s \in thinking THEN 2 ELSE 1

\* A reply says what happened: 499 only to a client that left, an answer only
\* after an upstream request of its own, and a schema-bound answer of a
\* thinking model only after it was validated.
HonestReply ==
  \A s \in Slot :
    /\ reply[s] = "evicted" => ~client[s] /\ sent[s] = 0
    /\ reply[s] = "answer" => sent[s] > 0
    /\ reply[s] = "answer" /\ s \in thinking => content[s] = "valid"

\* Every request that was taken in is answered or given up.
RouteEnds ==
  \A s \in Slot : (route[s] = "submitting") ~> (route[s] = "over")

\* The worker is released by the route and not by its hour, unless the
\* generator was dropped before it started: every other way out of a route
\* sets stream_done_event.
StreamReleasesWorker ==
  (wpc = "stream") ~> (wpc # "stream" \/ reply[cur] = "dropped")
==============================================================================
