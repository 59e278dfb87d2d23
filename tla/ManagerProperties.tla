-------------------------- MODULE ManagerProperties --------------------------
(***************************************************************************)
(* What the manager must guarantee, and what its documents say it does.    *)
(***************************************************************************)
EXTENDS Manager

\* Fairness: the worker task, an expiry task and a sidecar told to terminate
\* (drained_sigterm escalates to SIGKILL) always get on; clocks advance.
\* Clients and faults are under no obligation.
ServeFairness ==
  /\ WF_vars(Worker)
  /\ WF_vars(ExpiryTask)
  /\ \A h \in Handles : WF_vars(SidecarExits(h))
  /\ WF_vars(GraceTimerElapses) /\ WF_vars(DeadlineElapses) /\ WF_vars(IdleElapses)

FairServeSpec == ServeSpec /\ ServeFairness

------------------------------------------------------------------------------
WorkerPcs == ProcessPcs \cup LoopPcs \cup FinallyPcs \cup
             {"idle", "unreadable", "match_complete", "match_cancelled", "done", "crashed"}

ManagerTypeOK ==
  /\ staging \in Seq(Slots)
  /\ acceptBuf \in Seq(Slots)
  /\ evicted \subseteq disconnected
  /\ phase \in [Slots -> SlotStates \cup {"QUEUED"}]
  /\ future \in [Slots -> {"none", "pending", "ok", "failed", "evicted", "timeout",
                           "refused", "cancelled"}]
  /\ graceCount \in 0 .. MaxExtensions
  /\ wpc \in WorkerPcs
  /\ {anchor, matched} \subseteq Slots \cup {NoSlot}
  /\ sidecars \in Seq([model : {Model[s] : s \in Slots},
                       status : {"up", "terminating", "stuck", "dead"}])
  /\ Len(sidecars) <= Cardinality(Slots)
  /\ {activeHandle, idleHandle, held} \subseteq DOMAIN sidecars \cup {NoHandle}
  /\ detached \subseteq DOMAIN sidecars
  /\ idleExpires \in {"unset", "running", "past"}
  /\ faults \in 0 .. MaxFaults

(***************************************************************************)
(* The manager implements SerialService: one request runs at a time, only  *)
(* what has run is answered with a result, and an answer is never changed. *)
(***************************************************************************)
ServiceStage ==
  [s \in Slots |->
     IF future[s] = "none" THEN "new"
     ELSE IF future[s] # "pending" THEN "answered"
     ELSE IF phase[s] = "ACTIVE" THEN "running" ELSE "waiting"]

ServiceAnswer ==
  [s \in Slots |-> IF future[s] \in {"none", "pending"} THEN "none" ELSE future[s]]

Service == INSTANCE SerialService WITH stage <- ServiceStage, answer <- ServiceAnswer

ImplementsSerialService == Service!SerialSpec

------------------------------------------------------------------------------
\* A handle the manager counts on is one nobody is terminating: the warm
\* holder, and the sidecar of the request being served, are safe from the
\* detached teardown, the swap and the orphan scans of both.
ServingPcs == {"health", "active", "complete", "grace_enter", "grace", "promoted",
               "match_complete", "match_grace", "match_failed", "match_popped", "idle_enter",
               "inherit"}

Doomed(h) ==
  /\ h # NoHandle
  /\ \/ sidecars[h].status \in {"terminating", "stuck"}
     \/ sidecars[h].status = "dead" /\ faults = 0

HolderNotDoomed  == ~Doomed(idleHandle)
ServingNotDoomed == wpc \in ServingPcs => ~Doomed(activeHandle)

\* Whatever failed, was cancelled or shut down, a sidecar nobody has told to
\* terminate is one the manager still holds a handle of (C2: no PID leak).
NoLeak ==
  \A h \in DOMAIN sidecars :
    sidecars[h].status = "up" => h \in {activeHandle, idleHandle}

\* Handle bookkeeping: the handle in the worker's hands while it serves was
\* spawned for the model of the current request, fresh, inherited or follow-up,
\* and the idle handle for the model under which it is inherited.  All sidecars
\* share one port: which process answers there is another matter (TwoSidecars).
Current == IF matched = NoSlot THEN anchor ELSE matched

HandleOfModel ==
  /\ wpc \in ServingPcs =>
       /\ activeHandle # NoHandle
       /\ sidecars[activeHandle].model = Model[Current]
  /\ idleHandle # NoHandle => sidecars[idleHandle].model = idleTag

\* A request whose client waits is queued, or the worker has it in hand: no
\* path through the worker drops a slot without settling its future.
NoAbandonedRequest ==
  \A s \in Slots :
    future[s] = "pending" => s \in Staged \cup Buffered \cup {anchor, matched}

\* Shutdown fails every request that was still waiting in the queue, also one
\* that was queued between its stop signal, its cancel and its close.
NoneLeftInQueue ==
  closed => \A s \in Slots : future[s] = "pending" => phase[s] # "QUEUED"

\* Once shutdown is over no sidecar runs on unattended: each has exited or has
\* been told to, whichever await the worker was cancelled at.
StoppedIsTerminating ==
  shut = "stopped" => \A h \in DOMAIN sidecars : sidecars[h].status # "up"

\* A request whose processing died is parked in COLD, whichever of its states
\* the exception found it in: the bounded walk of _force_cold is long enough.
ParkedIsCold == wpc = "force_cold" => phase[anchor] = "COLD"

\* A request for a model without manifest never costs another model's warm
\* holder: the check and the swap it guards are an await apart.
UnknownModelKeepsHolder ==
  [][wpc # "swap" /\ wpc' = "swap" =>
       \/ Model[anchor] \in Manifested
       \/ sidecars[held'].model = Model[anchor]]_vars

\* Every move of a slot is in fsm.LEGAL_TRANSITIONS, through whichever tier,
\* path and error it came, so that no transition() of the worker ever raises;
\* only the forced park may leave the table.
LegalMoves ==
  [][\A s \in Slots :
       /\ tier'[s] # tier[s] => CanTransition(tier[s], tier'[s])
       /\ LET before == IF phase[s] = "QUEUED" THEN tier'[s] ELSE phase[s]
          IN  phase'[s] \notin {"QUEUED", before} =>
                CanTransition(before, phase'[s]) \/ wpc' = "force_cold"]_vars

\* A request's client is answered in the end, whatever else is served first.
Answered == \A s \in Slots : future[s] = "pending" ~> future[s] # "pending"

\* A warm holder whose window is over is released in the end: the expiry test
\* and the task it starts, a swap, a new holder or a failed heir see to it.
HolderReleased ==
  \A h \in Handles :
    idleHandle = h /\ idleExpires = "past" ~> idleHandle # h

------------------------------------------------------------------------------
\* README.md: "Single-slot serial sidecar (one llama-server child holds the
\* model)".
SingleSidecar == Cardinality({h \in DOMAIN sidecars : Alive(h)}) <= 1

\* manager.py on worker_loop: "Drive the FSM forever".
WorkerSurvives == wpc # "crashed"
==============================================================================
