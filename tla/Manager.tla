------------------------------- MODULE Manager -------------------------------
(***************************************************************************)
(* TurbohaulManager of manager.py: submit, the worker loop that drives one *)
(* request after another through a single llama-server sidecar, the warm   *)
(* (idle) holder, the detached teardown of an expired holder, and shutdown.*)
(*                                                                         *)
(* Everything runs on one event loop, so a coroutine's code between two    *)
(* suspending awaits is one action.  wpc names the await at which the      *)
(* worker task is suspended; "idle", the top of worker_loop, and           *)
(* "unreadable" are no awaits: they are left as they were reached, without *)
(* giving up the event loop.                                               *)
(* An await that only writes audit rows is a suspension and nothing more;  *)
(* two of them with no change of the state between them are one.           *)
(***************************************************************************)
EXTENDS TurbohaulQueue, GraceTimer, SlotFsm, FiniteSets

CONSTANTS
  Model,          \* Model[s]: the model_tag of s
  Manifested,     \* the models read_manifest finds
  UnloadSlots,    \* the requests sent with keep_alive 0
  ManagerIsInit,  \* the manager is pid 1 of its pid namespace (container)
  MaxFaults,      \* bound: sidecar crashes and raising awaits
  NoSlot,         \* _active_slot = None
  NoModel         \* _idle_model_tag = None

ASSUME ManagerAssumption ==
  /\ IsFiniteSet(Slots)
  /\ MaxFaults \in Nat
  /\ ManagerIsInit \in BOOLEAN
  /\ UnloadSlots \subseteq Slots
  /\ \A s, t \in Slots : Key[s] = Key[t] => Model[s] = Model[t]
  /\ NoSlot \notin Slots

NoHandle == 0
Handles  == 1 .. Cardinality(Slots)  \* a request spawns at most one sidecar

VARIABLES
  phase,          \* phase[s]: slot.state once the worker wrote it, else "QUEUED"
  future,         \* future[s]: the completion_future of s
  wpc,            \* where the worker task is suspended
  anchor,         \* _process_slot's slot
  matched,        \* the follow-up it is running on anchor's sidecar
  deadlineOpen,   \* time.monotonic() < deadline in the grace loop
  unloadAfter,    \* _latest_keep_alive_s = 0
  activeHandle,   \* _active_handle
  idleHandle,     \* _idle_handle
  idleTag,        \* _idle_model_tag
  idleExpires,    \* _idle_expires_at: "unset", "running" or "past"
  sidecars,       \* every sidecar spawned, oldest first; a handle is an index
  held,           \* the handle a swap or shutdown teardown is waiting on
  taskCreated,    \* an idle_expired teardown task exists and has not started
  detached,       \* the handles such tasks wait on
  stop,           \* _stop_event
  cancelling,     \* the worker task's CancelledError is still to be raised
  shut,           \* how far shutdown() is
  faults          \* the faults there have been

requestVars == <<phase, future>>
workerVars  == <<wpc, anchor, matched, deadlineOpen, unloadAfter>>
idleVars    == <<idleHandle, idleTag, idleExpires>>
handleVars  == <<activeHandle, idleVars, sidecars, held, taskCreated, detached>>
stopVars    == <<stop, cancelling, shut>>
vars == <<queueVars, graceVars, requestVars, workerVars, handleVars, stopVars, faults>>

ManagerInit ==
  /\ QueueInit
  /\ GraceInit
  /\ phase = [s \in Slots |-> "QUEUED"]
  /\ future = [s \in Slots |-> "none"]
  /\ wpc = "nap"
  /\ anchor = NoSlot
  /\ matched = NoSlot
  /\ deadlineOpen = FALSE
  /\ unloadAfter = FALSE
  /\ activeHandle = NoHandle
  /\ idleHandle = NoHandle
  /\ idleTag = NoModel
  /\ idleExpires = "unset"
  /\ sidecars = <<>>
  /\ held = NoHandle
  /\ taskCreated = FALSE
  /\ detached = {}
  /\ stop = FALSE
  /\ cancelling = FALSE
  /\ shut = "running"
  /\ faults = 0

------------------------------------------------------------------------------
\* The state of a request: the worker's word for it, or else the queue's.
StateOf(s) == IF phase[s] = "QUEUED" THEN tier[s] ELSE phase[s]

SetPhase(s, state) == phase' = [phase EXCEPT ![s] = state]

\* A mutant of Settle: the done() test is missing.
SettleAgain(S, outcome) == future' = [s \in Slots |-> IF s \in S THEN outcome ELSE future[s]]

\* set_result and _fail_completion_future leave a future that is done alone.
Settle(S, outcome) ==
  future' = [s \in Slots |->
               IF s \in S /\ future[s] = "pending" THEN outcome ELSE future[s]]

\* Handles of the sidecar process table.
Alive(h) == h # NoHandle /\ sidecars[h].status # "dead"

\* drained_sigterm has returned: h is gone, or it could not be killed.
Gone(h) == ~(h # NoHandle /\ sidecars[h].status \in {"up", "terminating"})

\* drained_sigterm's first step: SIGTERM to the process group of h.
Sigtermed(table, h) ==
  IF h # NoHandle /\ table[h].status = "up"
  THEN [table EXCEPT ![h].status = "terminating"] ELSE table

\* Mutants of LiveHandles: one of the two handles is not counted as live.
ActiveHandles == {h \in {activeHandle} : Alive(h)}
IdleHandles   == {h \in {idleHandle} : Alive(h)}

\* _live_handle_pids
LiveHandles == {h \in {activeHandle, idleHandle} : Alive(h)}

(***************************************************************************)
(* What follows every sigterm in a teardown: boot_orphan_reaper with no    *)
(* known pids kills every sidecar whose parent is pid 1, and then          *)
(* intra_lifetime_orphan_scan SIGTERMs those outside the live handles.     *)
(* Neither gets rid of a sidecar that cannot be killed.                    *)
(***************************************************************************)
Reaped(table, live) ==
  [h \in DOMAIN table |->
     [table[h] EXCEPT !.status =
        IF ManagerIsInit /\ @ # "stuck" THEN "dead"
        ELSE IF @ = "up" /\ h \notin live THEN "terminating" ELSE @]]

ClearIdle ==
  /\ idleHandle' = NoHandle
  /\ idleTag' = NoModel
  /\ idleExpires' = "unset"

\* Other coroutines run only while the worker is suspended at an await.
Yielded == wpc \notin {"idle", "unreadable"}

\* The worker resumes where it is suspended at pc: it is not being
\* cancelled, and a task created before has had its first turn.
Resume(pc) == wpc = pc /\ ~cancelling /\ ~taskCreated

Goto(pc) == wpc' = pc

------------------------------------------------------------------------------
(***************************************************************************)
(* submit.  The future is attached before the slot is queued.              *)
(***************************************************************************)
MayCall(s) == Yielded /\ future[s] = "none"

SubmitAtHead(s) ==
  /\ MayCall(s)
  /\ ~stop
  /\ GraceMatches(Key[s])
  /\ EnqueueHead(s)
  /\ GraceRestart
  /\ future' = [future EXCEPT ![s] = "pending"]
  /\ UNCHANGED <<phase, wpc, anchor, matched, deadlineOpen, unloadAfter,
                 handleVars, stopVars, faults>>

SubmitAtTail(s) ==
  /\ MayCall(s)
  /\ ~stop
  /\ ~GraceMatches(Key[s])
  /\ Enqueue(s)
  /\ future' = [future EXCEPT ![s] = "pending"]
  /\ UNCHANGED <<graceVars, phase, workerVars, handleVars, stopVars, faults>>

\* submit raises QueueClosed after the stop signal, QueueFull at the caps.
SubmitRefused(s) ==
  /\ MayCall(s)
  /\ stop \/ (~GraceMatches(Key[s]) /\ EnqueueRefused)
  /\ future' = [future EXCEPT ![s] = "refused"]
  /\ UNCHANGED <<queueVars, graceVars, phase, workerVars, handleVars, stopVars, faults>>

Submit(s) == SubmitAtHead(s) \/ SubmitAtTail(s) \/ SubmitRefused(s)

\* The client closes its connection; submit_and_wait gives up after timeout_s.
ClientLeaves(s) ==
  /\ Yielded
  /\ future[s] = "pending"
  /\ Disconnect(s)
  /\ UNCHANGED <<graceVars, requestVars, workerVars, handleVars, stopVars, faults>>

ClientTimesOut(s) ==
  /\ Yielded
  /\ Settle({s}, "timeout")
  /\ future[s] = "pending"
  /\ UNCHANGED <<queueVars, graceVars, phase, workerVars, handleVars, stopVars, faults>>

------------------------------------------------------------------------------
(***************************************************************************)
(* The finally block of _process_slot, entered with outcome e ("none",     *)
(* "error" or "cancel") while _active_handle is h and _idle_handle is i.   *)
(* A live handle that is not the idle holder is SIGTERMed and awaited;     *)
(* otherwise the handle is dropped and worker_loop takes over.             *)
(***************************************************************************)
FinallyPc == [none |-> "finally", error |-> "finally_error", cancel |-> "finally_cancel"]
FinallyPcs == {FinallyPc[e] : e \in DOMAIN FinallyPc}

\* worker_loop after _process_slot: next slot, terminal park, or exit.
BackToLoop(e, h, table) ==
  /\ anchor' = IF e = "error" THEN anchor ELSE NoSlot
  /\ matched' = NoSlot
  /\ activeHandle' = h
  /\ \/ e = "none" /\ Goto("idle") /\ sidecars' = table
     \/ e = "cancel" /\ Goto("done") /\ sidecars' = table
     \/ e = "error" /\ h # NoHandle /\ Goto("error_teardown") /\ sidecars' = Sigtermed(table, h)
     \/ e = "error" /\ h = NoHandle /\ Goto("force_cold") /\ sidecars' = table

\* A mutant of ErrorSettles: the except clause does not fail the future.
ErrorParksOnly(e, h) ==
  /\ UNCHANGED future
  /\ IF e = "error" /\ h = NoHandle THEN SetPhase(anchor, ForceCold(StateOf(anchor)))
     ELSE UNCHANGED phase

\* The requests and phases worker_loop's except clause settles.
ErrorSettles(e, h) ==
  /\ Settle(IF e = "error" THEN {anchor} ELSE {}, "failed")
  /\ IF e = "error" /\ h = NoHandle THEN SetPhase(anchor, ForceCold(StateOf(anchor)))
     ELSE UNCHANGED phase

NeedsSigterm(h, i) == h # i /\ Alive(h)

\* A mutant of Unwind: the finally block has no defensive sigterm.
UnwindWithoutSigterm(e, h, i) == BackToLoop(e, NoHandle, sidecars)

Unwind(e, h, i) ==
  IF NeedsSigterm(h, i)
  THEN /\ Goto(FinallyPc[e])
       /\ sidecars' = Sigtermed(sidecars, h)
       /\ UNCHANGED <<anchor, matched, activeHandle>>
  ELSE BackToLoop(e, NoHandle, sidecars)

\* An exception escapes an await of _process_slot.
Raise ==
  /\ Unwind("error", activeHandle, idleHandle)
  /\ IF NeedsSigterm(activeHandle, idleHandle) THEN UNCHANGED requestVars
     ELSE ErrorSettles("error", NoHandle)
  /\ UNCHANGED <<queueVars, graceVars, deadlineOpen, unloadAfter,
                 idleVars, taskCreated, detached, stopVars>>
  /\ held' = NoHandle

FinallyDone ==
  \E e \in DOMAIN FinallyPc :
    /\ Resume(FinallyPc[e])
    /\ Gone(activeHandle)
    /\ BackToLoop(e, NoHandle, sidecars)
    /\ ErrorSettles(e, NoHandle)
    /\ UNCHANGED <<queueVars, graceVars, deadlineOpen, unloadAfter,
                   idleVars, held, taskCreated, detached, stopVars, faults>>

------------------------------------------------------------------------------
(***************************************************************************)
(* worker_loop.                                                            *)
(***************************************************************************)
\* A mutant of ExpireIdleHolder: expiry is not looked at.
NeverExpire == UNCHANGED <<idleExpires, taskCreated>>

\* Both idle branches: an expired holder is handed to a fire-and-forget task.
ExpireIdleHolder ==
  IF idleHandle # NoHandle /\ idleExpires = "past"
  THEN idleExpires' = "unset" /\ taskCreated' = TRUE
  ELSE UNCHANGED <<idleExpires, taskCreated>>

loopUnchanged == <<graceVars, anchor, matched, deadlineOpen, unloadAfter,
                   activeHandle, idleHandle, idleTag, sidecars, held, detached,
                   stopVars, faults>>

\* pop_next returned None: look after the holder, sleep 50 ms, look again.
FindNothing ==
  /\ wpc = "idle" /\ ~stop
  /\ NothingToPop
  /\ ExpireIdleHolder
  /\ Goto("nap")
  /\ UNCHANGED <<queueVars, requestVars, loopUnchanged>>

\* The stop event ends the loop, if an exception has swallowed the cancellation.
LoopExits ==
  /\ wpc = "idle" /\ stop
  /\ Goto("done")
  /\ UNCHANGED <<queueVars, requestVars, idleExpires, taskCreated, loopUnchanged>>

Wake ==
  /\ Resume("nap")
  /\ Goto("idle")
  /\ UNCHANGED <<queueVars, requestVars, idleExpires, taskCreated, loopUnchanged>>

\* A mutant of PopEvicted: the eviction does not fail the future.
PopEvictedSilently(s) ==
  /\ wpc = "idle" /\ ~stop
  /\ PopNext(s)
  /\ s \in evicted'
  /\ Goto("evict")
  /\ UNCHANGED <<requestVars, idleExpires, taskCreated, loopUnchanged>>

\* The client of the popped slot is gone: answer it and audit.
PopEvicted(s) ==
  /\ wpc = "idle" /\ ~stop
  /\ PopNext(s)
  /\ s \in evicted'
  /\ Settle({s}, "evicted")
  /\ Goto("evict")
  /\ UNCHANGED <<phase, idleExpires, taskCreated, loopUnchanged>>

EvictionAudited ==
  /\ Resume("evict")
  /\ ExpireIdleHolder
  /\ Goto("idle")
  /\ UNCHANGED <<queueVars, requestVars, loopUnchanged>>

\* A mutant of HolderAtRisk: an expired holder is thought to be gone.
WarmHolderAtRisk(s) ==
  /\ Model[s] \notin Manifested
  /\ idleHandle # NoHandle
  /\ idleExpires = "running"
  /\ idleTag # Model[s]

(***************************************************************************)
(* _process_slot up to its first await.  A request for a model without     *)
(* manifest is turned away if it would cost another model's warm holder; a *)
(* manifest that does not parse or validate makes read_manifest raise.     *)
(***************************************************************************)
HolderAtRisk(s) ==
  /\ Model[s] \notin Manifested
  /\ idleHandle # NoHandle
  /\ idleTag # Model[s]

PopStart(s) ==
  /\ wpc = "idle" /\ ~stop
  /\ PopNext(s)
  /\ s \notin evicted'
  /\ anchor' = s
  /\ unloadAfter' = FALSE
  /\ \/ /\ SetPhase(s, "LOADING")
        /\ Goto(IF HolderAtRisk(s) THEN "no_manifest" ELSE "staged")
     \/ /\ Model[s] \in Manifested
        /\ SetPhase(s, "STAGED")
        /\ Goto("unreadable")
  /\ UNCHANGED <<graceVars, future, matched, deadlineOpen,
                 handleVars, stopVars, faults>>

\* A warm holder is left alone, also one whose expiry task has not started.
ManifestRaises ==
  /\ wpc = "unreadable"
  /\ Raise
  /\ UNCHANGED faults

pathUnchanged == <<queueVars, graceVars, deadlineOpen, taskCreated,
                   detached, stopVars, faults>>

RefuseNoManifest ==
  /\ Resume("no_manifest")
  /\ SetPhase(anchor, "LOADING_FAIL")
  /\ Goto("no_manifest_fail")
  /\ UNCHANGED <<future, anchor, matched, unloadAfter, activeHandle, idleVars,
                 sidecars, held, pathUnchanged>>

NoManifestFailed ==
  /\ Resume("no_manifest_fail")
  /\ SetPhase(anchor, "POPPED")
  /\ Settle({anchor}, "failed")
  /\ Unwind("none", activeHandle, idleHandle)
  /\ UNCHANGED <<unloadAfter, idleVars, held, pathUnchanged>>

------------------------------------------------------------------------------
(***************************************************************************)
(* LOADING: inherit the warm holder of the same model inside its window,   *)
(* or tear the holder down, pass the safety gates and spawn.               *)
(***************************************************************************)
\* A mutant of WarmInherit: any warm holder will do.
InheritAnyModel == idleHandle # NoHandle /\ idleExpires = "running"

WarmInherit == idleHandle # NoHandle /\ idleTag = Model[anchor] /\ idleExpires = "running"

Inherit ==
  /\ Resume("staged")
  /\ WarmInherit
  /\ activeHandle' = idleHandle
  /\ ClearIdle
  /\ Goto("inherit")
  /\ UNCHANGED <<requestVars, anchor, matched, unloadAfter, sidecars, held, pathUnchanged>>

StartSwap ==
  /\ Resume("staged")
  /\ idleHandle # NoHandle
  /\ ~WarmInherit
  /\ held' = idleHandle
  /\ ClearIdle
  /\ sidecars' = Sigtermed(sidecars, idleHandle)
  /\ Goto("swap")
  /\ UNCHANGED <<requestVars, anchor, matched, unloadAfter, activeHandle, pathUnchanged>>

\* _teardown_idle_holder("model_swap") is over.
Swapped ==
  /\ Resume("swap")
  /\ Gone(held)
  /\ held' = NoHandle
  /\ sidecars' = Reaped(sidecars, LiveHandles)
  /\ Goto("gates")
  /\ UNCHANGED <<requestVars, anchor, matched, unloadAfter, activeHandle, idleVars, pathUnchanged>>

\* "gates": the audit of the swap's teardown, the last await before them.
ReadyToSpawn == Resume("gates") \/ (Resume("staged") /\ idleHandle = NoHandle)

GatesRefuse ==
  /\ ReadyToSpawn
  /\ SetPhase(anchor, "LOADING_FAIL")
  /\ Goto("gates_refused")
  /\ UNCHANGED <<future, anchor, matched, unloadAfter, activeHandle, idleVars,
                 sidecars, held, pathUnchanged>>

GatesRefused ==
  /\ Resume("gates_refused")
  /\ SetPhase(anchor, "POPPED")
  /\ Settle({anchor}, "failed")
  /\ Unwind("none", activeHandle, idleHandle)
  /\ UNCHANGED <<unloadAfter, idleVars, held, pathUnchanged>>

Spawn ==
  /\ ReadyToSpawn
  /\ sidecars' = Append(sidecars, [model |-> Model[anchor], status |-> "up"])
  /\ activeHandle' = Len(sidecars')
  /\ Goto("health")
  /\ UNCHANGED <<requestVars, anchor, matched, unloadAfter, idleVars, held, pathUnchanged>>

SpawnFails ==
  /\ ReadyToSpawn
  /\ Raise
  /\ UNCHANGED faults

\* GET /health on the one shared port: any sidecar still alive may answer.
HealthOk ==
  /\ Resume("health")
  /\ \E h \in DOMAIN sidecars : Alive(h)
  /\ SetPhase(anchor, "ACTIVE")
  /\ Goto("active")
  /\ UNCHANGED <<future, anchor, matched, unloadAfter, activeHandle, idleVars,
                 sidecars, held, pathUnchanged>>

HealthTimesOut ==
  /\ Resume("health")
  /\ SetPhase(anchor, "LOADING_FAIL")
  /\ Goto("load_fail")
  /\ UNCHANGED <<future, anchor, matched, unloadAfter, activeHandle, idleVars,
                 sidecars, held, pathUnchanged>>

HealthRaises ==
  /\ Resume("health")
  /\ Raise
  /\ UNCHANGED faults

LoadFailAudited ==
  /\ Resume("load_fail")
  /\ SetPhase(anchor, "POPPED")
  /\ sidecars' = Sigtermed(sidecars, activeHandle)
  /\ Goto("load_fail_teardown")
  /\ UNCHANGED <<future, anchor, matched, unloadAfter, activeHandle, idleVars,
                 held, pathUnchanged>>

\* _teardown is over: scans with the handle still set, then it is dropped.
LoadFailTornDown ==
  /\ Resume("load_fail_teardown")
  /\ Gone(activeHandle)
  /\ Settle({anchor}, "failed")
  /\ BackToLoop("none", NoHandle, Reaped(sidecars, LiveHandles))
  /\ UNCHANGED <<phase, unloadAfter, idleVars, held, pathUnchanged>>

Inherited ==
  /\ Resume("inherit")
  /\ SetPhase(anchor, "ACTIVE")
  /\ Goto("active")
  /\ UNCHANGED <<future, anchor, matched, unloadAfter, activeHandle, idleVars,
                 sidecars, held, pathUnchanged>>

------------------------------------------------------------------------------
(***************************************************************************)
(* ACTIVE: _complete_fn, or the wait for stream_done_event, which the      *)
(* route of a streaming request sets and a timeout bounds.                 *)
(***************************************************************************)
Activated ==
  /\ Resume("active")
  /\ unloadAfter' = (anchor \in UnloadSlots)
  /\ Goto("complete")
  /\ UNCHANGED <<requestVars, anchor, matched, activeHandle, idleVars, sidecars,
                 held, pathUnchanged>>

CompleteOk ==
  /\ Resume("complete")
  /\ Settle({anchor}, "ok")
  /\ SetPhase(anchor, "GRACE")
  /\ GraceStart(Key[anchor])
  /\ Goto("grace_enter")
  /\ UNCHANGED <<queueVars, anchor, matched, deadlineOpen, unloadAfter,
                 handleVars, stopVars, faults>>

CompleteFails ==
  /\ Resume("complete")
  /\ Raise
  /\ UNCHANGED faults

------------------------------------------------------------------------------
(***************************************************************************)
(* GRACE: until the deadline, staged follow-ups of the anchor's key run on *)
(* its sidecar one after another.                                          *)
(***************************************************************************)
graceUnchanged == <<handleVars, stopVars, faults>>

GraceEntered ==
  /\ Resume("grace_enter")
  /\ deadlineOpen' = TRUE
  /\ Goto("grace")
  /\ UNCHANGED <<queueVars, graceVars, requestVars, anchor, matched, unloadAfter, graceUnchanged>>

Promote(s) ==
  /\ Resume("grace")
  /\ deadlineOpen
  /\ PopMatched(s, Key[anchor])
  /\ matched' = s
  /\ SetPhase(s, "ACTIVE_MATCH")
  /\ Goto("promoted")
  /\ UNCHANGED <<graceVars, future, anchor, deadlineOpen, unloadAfter, graceUnchanged>>

PromotionAudited ==
  /\ Resume("promoted")
  /\ SetPhase(matched, "ACTIVE")
  /\ unloadAfter' = (matched \in UnloadSlots)
  /\ Goto("match_complete")
  /\ UNCHANGED <<queueVars, graceVars, future, anchor, matched, deadlineOpen, graceUnchanged>>

\* A mutant of MatchCompletes: a failed follow-up skips GRACE.
MatchSkipsGrace ==
  /\ Resume("match_complete")
  /\ \/ Settle({matched}, "ok") /\ SetPhase(matched, "GRACE") /\ Goto("match_grace")
     \/ Settle({matched}, "failed") /\ SetPhase(matched, "POPPED") /\ Goto("match_failed")
  /\ UNCHANGED <<queueVars, graceVars, anchor, matched, deadlineOpen, unloadAfter, graceUnchanged>>

\* A failed follow-up is isolated: it is answered and the anchor goes on.
MatchCompletes ==
  /\ Resume("match_complete")
  /\ SetPhase(matched, "GRACE")
  /\ \/ Settle({matched}, "ok") /\ Goto("match_grace")
     \/ Settle({matched}, "failed") /\ Goto("match_failed")
  /\ UNCHANGED <<queueVars, graceVars, anchor, matched, deadlineOpen, unloadAfter, graceUnchanged>>

MatchExtends ==
  /\ Resume("match_grace")
  /\ GraceRestart
  /\ deadlineOpen' = (deadlineOpen \/ GraceMayExtend)
  /\ SetPhase(matched, "POPPED")
  /\ Goto("match_popped")
  /\ UNCHANGED <<queueVars, future, anchor, matched, unloadAfter, graceUnchanged>>

MatchFailed ==
  /\ Resume("match_failed")
  /\ SetPhase(matched, "POPPED")
  /\ Goto("match_popped")
  /\ UNCHANGED <<queueVars, graceVars, future, anchor, matched, deadlineOpen,
                 unloadAfter, graceUnchanged>>

MatchEnded ==
  /\ Resume("match_popped")
  /\ matched' = NoSlot
  /\ Goto("grace")
  /\ UNCHANGED <<queueVars, graceVars, requestVars, anchor, deadlineOpen,
                 unloadAfter, graceUnchanged>>

(***************************************************************************)
(* The deadline has passed: the sidecar becomes the warm holder, or is     *)
(* torn down when the last request it served asked for keep_alive 0.       *)
(***************************************************************************)
GraceOver ==
  /\ Resume("grace")
  /\ ~deadlineOpen
  /\ SetPhase(anchor, "POPPED")
  /\ unloadAfter' = FALSE
  /\ IF unloadAfter \/ activeHandle = NoHandle
     THEN /\ sidecars' = Sigtermed(sidecars, activeHandle)
          /\ Goto("grace_teardown")
          /\ UNCHANGED idleVars
     ELSE /\ idleHandle' = activeHandle
          /\ idleTag' = Model[anchor]
          /\ idleExpires' = "running"
          /\ Goto("idle_enter")
          /\ UNCHANGED sidecars
  /\ UNCHANGED <<future, anchor, matched, activeHandle, held, pathUnchanged>>

IdleEntered ==
  /\ Resume("idle_enter")
  /\ Unwind("none", activeHandle, idleHandle)
  /\ UNCHANGED <<requestVars, unloadAfter, idleVars, held, pathUnchanged>>

GraceTornDown ==
  /\ Resume("grace_teardown")
  /\ Gone(activeHandle)
  /\ BackToLoop("none", NoHandle, Reaped(sidecars, LiveHandles))
  /\ UNCHANGED <<requestVars, unloadAfter, idleVars, held, pathUnchanged>>

------------------------------------------------------------------------------
(***************************************************************************)
(* worker_loop's except clause: the handle a failed sigterm left behind is *)
(* torn down, then _force_cold parks the slot (and, if that teardown       *)
(* raised, first SIGTERMs the handle once more).                           *)
(***************************************************************************)
parkUnchanged == <<queueVars, graceVars, future, deadlineOpen, unloadAfter,
                   idleVars, held, taskCreated, detached, stopVars>>

ParkAnchor(table) ==
  /\ activeHandle' = NoHandle
  /\ sidecars' = table
  /\ SetPhase(anchor, ForceCold(StateOf(anchor)))
  /\ Goto("force_cold")
  /\ UNCHANGED <<anchor, matched, parkUnchanged>>

ErrorTornDown ==
  /\ Resume("error_teardown")
  /\ Gone(activeHandle)
  /\ ParkAnchor(Reaped(sidecars, LiveHandles))
  /\ UNCHANGED faults

ColdTornDown ==
  /\ Resume("cold_teardown")
  /\ Gone(activeHandle)
  /\ ParkAnchor(sidecars)
  /\ UNCHANGED faults

ForcedCold ==
  /\ Resume("force_cold")
  /\ anchor' = NoSlot
  /\ Goto("idle")
  /\ UNCHANGED <<phase, matched, activeHandle, sidecars, faults, parkUnchanged>>

------------------------------------------------------------------------------
(***************************************************************************)
(* The fire-and-forget _teardown_idle_holder("idle_expired").              *)
(***************************************************************************)
taskUnchanged == <<queueVars, graceVars, requestVars, workerVars, activeHandle, held,
                   stopVars, faults>>

ExpiryTaskStarts ==
  /\ Yielded
  /\ taskCreated
  /\ taskCreated' = FALSE
  /\ IF idleHandle = NoHandle THEN UNCHANGED <<idleVars, sidecars, detached>>
     ELSE /\ ClearIdle
          /\ sidecars' = Sigtermed(sidecars, idleHandle)
          /\ detached' = detached \cup {idleHandle}
  /\ UNCHANGED taskUnchanged

ExpiryTaskEnds ==
  \E h \in detached :
    /\ Yielded
    /\ Gone(h)
    /\ detached' = detached \ {h}
    /\ sidecars' = Reaped(sidecars, LiveHandles)
    /\ UNCHANGED <<idleVars, taskCreated, taskUnchanged>>

------------------------------------------------------------------------------
(***************************************************************************)
(* shutdown: signal, cancel the worker and wait for it, close the queue    *)
(* and fail what it held, tear the warm holder down.                       *)
(***************************************************************************)
WorkerEnded == wpc \in {"done", "crashed"}

ShutdownStarts ==
  /\ Yielded
  /\ ~stop
  /\ stop' = TRUE
  /\ shut' = "stopping"
  /\ cancelling' = ~WorkerEnded
  /\ UNCHANGED <<queueVars, graceVars, requestVars, workerVars, handleVars, faults>>

\* The awaits inside _process_slot's try block, by what may go wrong there.
AuditPcs    == {"no_manifest", "no_manifest_fail", "staged", "inherit", "gates",
                "gates_refused", "load_fail", "active", "grace_enter", "promoted",
                "match_grace", "match_failed", "match_popped", "idle_enter"}
TeardownPcs == {"swap", "load_fail_teardown", "grace_teardown"}
ProcessPcs  == AuditPcs \cup TeardownPcs \cup {"health", "complete", "grace"}
LoopPcs     == {"nap", "evict", "error_teardown", "cold_teardown", "force_cold"}

cancelUnchanged == <<queueVars, graceVars, deadlineOpen, unloadAfter,
                     idleVars, taskCreated, stop, shut, faults>>

Cancelled == cancelling /\ cancelling' = FALSE

CancelProcess ==
  /\ Cancelled
  /\ wpc \in ProcessPcs
  /\ Unwind("cancel", activeHandle, idleHandle)
  /\ held' = NoHandle
  /\ UNCHANGED <<requestVars, detached, cancelUnchanged>>

\* The follow-up that was running is failed; its hop to POPPED is tried.
CancelMatch ==
  /\ Cancelled
  /\ wpc = "match_complete"
  /\ Settle({matched}, "failed")
  /\ IF CanTransition(phase[matched], "POPPED") THEN SetPhase(matched, "POPPED")
     ELSE UNCHANGED phase
  /\ Goto("match_cancelled")
  /\ UNCHANGED <<anchor, matched, activeHandle, sidecars, held, detached, cancelUnchanged>>

MatchCancelled ==
  /\ Resume("match_cancelled")
  /\ Unwind("cancel", activeHandle, idleHandle)
  /\ UNCHANGED <<requestVars, held, detached, cancelling, cancelUnchanged>>

\* The shielded sigterm of the finally block goes on without the worker, and
\* nobody drops the handle.
CancelFinally ==
  /\ Cancelled
  /\ wpc \in FinallyPcs
  /\ Goto("done")
  /\ UNCHANGED <<requestVars, anchor, matched, activeHandle, sidecars, held, detached,
                 cancelUnchanged>>

CancelLoop ==
  /\ Cancelled
  /\ wpc \in LoopPcs
  /\ Goto("done")
  /\ UNCHANGED <<requestVars, anchor, matched, activeHandle, sidecars, held, detached,
                 cancelUnchanged>>

\* Mutants of ShutdownCloses: the buffered slots are dropped unanswered; the
\* warm holder is forgotten.
ShutdownFailsStaged ==
  /\ shut = "stopping"
  /\ WorkerEnded
  /\ Close
  /\ Settle(Staged, "cancelled")
  /\ held' = idleHandle
  /\ ClearIdle
  /\ sidecars' = Sigtermed(sidecars, idleHandle)
  /\ shut' = "closing"
  /\ UNCHANGED <<graceVars, phase, workerVars, activeHandle, taskCreated, detached,
                 stop, cancelling, faults>>

ShutdownForgetsHolder ==
  /\ shut = "stopping"
  /\ WorkerEnded
  /\ Close
  /\ Settle(Staged \cup Buffered, "cancelled")
  /\ shut' = "closing"
  /\ UNCHANGED <<graceVars, phase, workerVars, handleVars, stop, cancelling, faults>>

ShutdownCloses ==
  /\ shut = "stopping"
  /\ WorkerEnded
  /\ Close
  /\ Settle(Staged \cup Buffered, "cancelled")
  /\ held' = idleHandle
  /\ ClearIdle
  /\ sidecars' = Sigtermed(sidecars, idleHandle)
  /\ shut' = "closing"
  /\ UNCHANGED <<graceVars, phase, workerVars, activeHandle, taskCreated, detached,
                 stop, cancelling, faults>>

ShutdownEnds ==
  /\ shut = "closing"
  /\ Gone(held)
  /\ held' = NoHandle
  /\ sidecars' = IF held = NoHandle THEN sidecars ELSE Reaped(sidecars, LiveHandles)
  /\ shut' = "stopped"
  /\ UNCHANGED <<queueVars, graceVars, requestVars, workerVars, activeHandle, idleVars,
                 taskCreated, detached, stop, cancelling, faults>>

------------------------------------------------------------------------------
(***************************************************************************)
(* The world: clocks, sidecar processes, and at most MaxFaults faults.     *)
(***************************************************************************)
clockUnchanged == <<queueVars, requestVars, wpc, anchor, matched, unloadAfter, activeHandle,
                    idleHandle, idleTag, held, taskCreated, detached, stopVars, faults>>

GraceTimerElapses ==
  /\ GraceElapses
  /\ UNCHANGED <<deadlineOpen, idleExpires, sidecars, clockUnchanged>>

\* The deadline and the grace timer run apart: submit restarts the timer only,
\* and PUT /api/config may give them two lengths.
DeadlineElapses ==
  /\ deadlineOpen
  /\ deadlineOpen' = FALSE
  /\ UNCHANGED <<graceVars, idleExpires, sidecars, clockUnchanged>>

IdleElapses ==
  /\ idleExpires = "running"
  /\ idleExpires' = "past"
  /\ UNCHANGED <<graceVars, deadlineOpen, sidecars, clockUnchanged>>

SidecarExits(h) ==
  /\ h \in DOMAIN sidecars
  /\ sidecars[h].status = "terminating"
  /\ sidecars' = [sidecars EXCEPT ![h].status = "dead"]
  /\ UNCHANGED <<graceVars, deadlineOpen, idleExpires, clockUnchanged>>

\* One that could not be killed may still go in the end.
StuckExits(h) ==
  /\ h \in DOMAIN sidecars
  /\ sidecars[h].status = "stuck"
  /\ sidecars' = [sidecars EXCEPT ![h].status = "dead"]
  /\ UNCHANGED <<graceVars, deadlineOpen, idleExpires, clockUnchanged>>

Fault == faults < MaxFaults /\ faults' = faults + 1

SidecarCrashes(h) ==
  /\ Fault
  /\ h \in DOMAIN sidecars
  /\ sidecars[h].status = "up"
  /\ sidecars' = [sidecars EXCEPT ![h].status = "dead"]
  /\ UNCHANGED <<queueVars, graceVars, requestVars, workerVars, activeHandle, idleVars,
                 held, taskCreated, detached, stopVars>>

\* drained_sigterm gives up: its SIGKILL failed, or it may not send one.
SidecarSticks(h) ==
  /\ Fault
  /\ h \in DOMAIN sidecars
  /\ sidecars[h].status = "terminating"
  /\ sidecars' = [sidecars EXCEPT ![h].status = "stuck"]
  /\ UNCHANGED <<queueVars, graceVars, requestVars, workerVars, activeHandle, idleVars,
                 held, taskCreated, detached, stopVars>>

\* An audit write (or a teardown's) raises, as SQLite does when it is busy.  At
\* "match_cancelled" the exception takes the place of the cancellation.
AwaitRaises ==
  /\ Fault
  /\ \E pc \in AuditPcs \cup TeardownPcs \cup {"match_cancelled"} : Resume(pc)
  /\ Raise

\* The sigterm of the finally block raises: the handle is kept for the loop.
FinallyRaises ==
  /\ Fault
  /\ \E e \in DOMAIN FinallyPc :
       /\ Resume(FinallyPc[e])
       /\ BackToLoop(e, activeHandle, sidecars)
       /\ ErrorSettles(e, activeHandle)
  /\ UNCHANGED <<queueVars, graceVars, deadlineOpen, unloadAfter,
                 idleVars, held, taskCreated, detached, stopVars>>

ErrorTeardownRaises ==
  /\ Fault
  /\ Resume("error_teardown")
  /\ Goto("cold_teardown")
  /\ UNCHANGED <<phase, anchor, matched, activeHandle, sidecars, parkUnchanged>>

\* The defensive sigterm of _force_cold raises as well: that is caught, and the
\* handle stays until the next request replaces it.
ColdTeardownRaises ==
  /\ Fault
  /\ Resume("cold_teardown")
  /\ SetPhase(anchor, ForceCold(StateOf(anchor)))
  /\ Goto("force_cold")
  /\ UNCHANGED <<anchor, matched, activeHandle, sidecars, parkUnchanged>>

\* _force_cold is not guarded otherwise: an exception in it ends the worker task.
ForceColdRaises ==
  /\ Fault
  /\ Resume("force_cold")
  /\ Goto("crashed")
  /\ UNCHANGED <<phase, anchor, matched, activeHandle, sidecars, parkUnchanged>>

------------------------------------------------------------------------------
Client == \E s \in Slots : Submit(s) \/ ClientLeaves(s) \/ ClientTimesOut(s)

Worker ==
  \/ FindNothing \/ LoopExits \/ Wake \/ EvictionAudited \/ ManifestRaises
  \/ \E s \in Slots : PopEvicted(s) \/ PopStart(s) \/ Promote(s)
  \/ RefuseNoManifest \/ NoManifestFailed
  \/ Inherit \/ Inherited \/ StartSwap \/ Swapped
  \/ GatesRefuse \/ GatesRefused \/ Spawn \/ SpawnFails
  \/ HealthOk \/ HealthTimesOut \/ HealthRaises \/ LoadFailAudited \/ LoadFailTornDown
  \/ Activated \/ CompleteOk \/ CompleteFails
  \/ GraceEntered \/ PromotionAudited \/ MatchCompletes \/ MatchExtends
  \/ MatchFailed \/ MatchEnded \/ GraceOver \/ IdleEntered \/ GraceTornDown
  \/ FinallyDone \/ ErrorTornDown \/ ColdTornDown \/ ForcedCold

ExpiryTask == ExpiryTaskStarts \/ ExpiryTaskEnds

Shutdown ==
  \/ ShutdownStarts \/ ShutdownCloses \/ ShutdownEnds
  \/ CancelProcess \/ CancelMatch \/ MatchCancelled \/ CancelFinally \/ CancelLoop

Clock == GraceTimerElapses \/ DeadlineElapses \/ IdleElapses
Exits == \E h \in DOMAIN sidecars : SidecarExits(h) \/ StuckExits(h)

Faults ==
  \/ \E h \in DOMAIN sidecars : SidecarCrashes(h) \/ SidecarSticks(h)
  \/ AwaitRaises \/ FinallyRaises \/ ErrorTeardownRaises \/ ColdTeardownRaises
  \/ ForceColdRaises

\* A service that is never shut down, and one that may be.
ServeNext == Client \/ Worker \/ ExpiryTask \/ Clock \/ Exits \/ Faults
Next      == ServeNext \/ Shutdown

ServeSpec == ManagerInit /\ [][ServeNext]_vars
Spec      == ManagerInit /\ [][Next]_vars
==============================================================================
