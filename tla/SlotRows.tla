------------------------------- MODULE SlotRows -------------------------------
(***************************************************************************)
(* The slots table of state.sqlite across the lives of the manager: who    *)
(* writes a request's row, when it is closed, and what a crash, a          *)
(* cancelled worker or a restart leaves behind.  A row is written by       *)
(* submit, by the audit jobs (threads, which write the slot's state as it  *)
(* is when they run and which outlive the task that awaits them), by the   *)
(* end of a request, by the hourly sweeper and by boot_reconcile.          *)
(*                                                                         *)
(* Which slot the worker takes and what becomes of its request is left     *)
(* open here.  A llama-server goes by the slot it was spawned for.         *)
(***************************************************************************)
EXTENDS Integers, FiniteSets, SlotFsm

CONSTANTS
  Slot,        \* requests
  MaxLives,    \* bound: how often the program is started
  SweepBatch,  \* LIMIT of the sweeper's query
  None         \* no slot, no pid

ASSUME RowsAssumption ==
  /\ MaxLives \in Nat \ {0}
  /\ SweepBatch \in Nat \ {0}
  /\ None \notin Slot \cup SlotStates

VARIABLES
  row,      \* [Slot -> its row in the slots table]
  old,      \* slots whose created_at is older than min_age_s
  mem,      \* [Slot -> slot.state], None without a Slot object
  pid,      \* [Slot -> slot.pid]
  queued,   \* slots in the queue
  dropped,  \* slots the worker let go without closing their row
  jobs,     \* slots with an audit job on its way to the table
  pc,       \* where worker_loop is
  anchor,   \* the slot of _process_slot
  matched,  \* the follow-up it has promoted
  holder,   \* the pid of the warm holder
  alive,    \* pids of running llama-servers
  spared,   \* pids that answered boot_reconcile's kill(pid, 0)
  phase,    \* "up" or "down"
  life      \* how often the program was started

table    == <<row, old>>
objects  == <<mem, pid, queued, dropped>>
worker   == <<pc, anchor, matched, holder>>
machine  == <<alive, spared, phase, life>>
vars == <<table, objects, jobs, worker, machine>>

NoRow == [state |-> None, pid |-> None, open |-> FALSE]

RowsInit ==
  /\ row = [s \in Slot |-> NoRow] /\ old = {}
  /\ mem = [s \in Slot |-> None] /\ pid = [s \in Slot |-> None]
  /\ queued = {} /\ dropped = {} /\ jobs = {}
  /\ pc = "idle" /\ anchor = None /\ matched = None /\ holder = None
  /\ alive = {} /\ spared = {} /\ phase = "up" /\ life = 1

------------------------------------------------------------------------------
(* state.py *)

\* upsert_slot opens the row again, whatever it was.
Upserted(s) == [state |-> mem[s], pid |-> pid[s], open |-> TRUE]

\* mark_slot_ended: an UPDATE, which does nothing without a row.
Ended(r) == IF r = NoRow THEN r ELSE [r EXCEPT !.state = "COLD", !.open = FALSE]

MarkEnded(S) == row' = [s \in Slot |-> IF s \in S THEN Ended(row[s]) ELSE row[s]]

\* known_active_pids
KnownActivePids ==
  { row[s].pid : s \in { t \in Slot : /\ row[t].open /\ row[t].pid # None
                                      /\ row[t].state \notin {"POPPED", "COLD"} } }

\* A mutant of Orphaned: the first version, without the rows of no pid.
OrphanedWithPid(s, live) ==
  /\ row[s].open
  /\ row[s].pid # None /\ row[s].pid \notin live
  /\ row[s].state \notin {"POPPED", "COLD"}

\* The rows reconcile_orphaned_slots closes in its two passes.
Orphaned(s, live) ==
  /\ row[s].open
  /\ \/ /\ row[s].pid # None /\ row[s].pid \notin live
        /\ row[s].state \notin {"POPPED", "COLD"}
     \/ /\ row[s].pid = None
        /\ row[s].state \notin {"POPPED", "COLD", "IDLE_HOT"}

\* A mutant of Stale: the gate on the state is dropped.
StaleInAnyState(s) == row[s].open /\ s \in old /\ row[s].pid = None

\* The rows _run_one_sweep selects.
Stale(s) == /\ row[s].open /\ row[s].state = "STAGED"
            /\ s \in old /\ row[s].pid = None

------------------------------------------------------------------------------
(* Requests and audit jobs *)

Up == phase = "up"

\* submit queues the slot in one tier or the other and writes its row before
\* anything else runs.
Submit(s) ==
  /\ Up /\ pc # "stopped" /\ row[s] = NoRow
  /\ \E tier \in {"STAGED", "ACCEPT_BUFFER"} :
       /\ mem' = [mem EXCEPT ![s] = tier]
       /\ row' = [row EXCEPT ![s] = [state |-> tier, pid |-> None, open |-> TRUE]]
  /\ queued' = queued \cup {s}
  /\ UNCHANGED <<old, pid, dropped, jobs, worker, machine>>

\* A place became free in staging: only the Slot object is told.
MoveUp(s) ==
  /\ Up /\ s \in queued /\ mem[s] = "ACCEPT_BUFFER"
  /\ mem' = [mem EXCEPT ![s] = "STAGED"]
  /\ UNCHANGED <<table, pid, queued, dropped, jobs, worker, machine>>

AgeDay(s) ==
  /\ row[s] # NoRow /\ s \notin old
  /\ old' = old \cup {s}
  /\ UNCHANGED <<row, objects, jobs, worker, machine>>

\* The thread of _audit_async.
AuditJobRuns(s) ==
  /\ Up /\ s \in jobs
  /\ row' = [row EXCEPT ![s] = Upserted(s)]
  /\ jobs' = jobs \ {s}
  /\ UNCHANGED <<old, objects, worker, machine>>

\* The worker puts s into a state (a transition of fsm.py) and awaits its
\* audit job.
Audit(s, state) ==
  /\ mem' = [mem EXCEPT ![s] = state]
  /\ jobs' = jobs \cup {s}

Audited(s) == s \notin jobs

At(place) == Up /\ pc = place

------------------------------------------------------------------------------
(* worker_loop: the anchor *)

\* pop_next found the client gone: an event, and the row stays.
EvictsQueued(s) ==
  /\ At("idle") /\ s \in queued
  /\ queued' = queued \ {s} /\ dropped' = dropped \cup {s}
  /\ UNCHANGED <<table, mem, pid, jobs, worker, machine>>

Takes(s) ==
  /\ At("idle") /\ s \in queued /\ mem[s] = "STAGED"
  /\ queued' = queued \ {s}
  /\ Audit(s, "LOADING")
  /\ pc' = "loading" /\ anchor' = s
  /\ UNCHANGED <<table, pid, dropped, matched, holder, machine>>

\* No manifest, or a safety gate refuses.
Refuses ==
  /\ At("loading") /\ Audited(anchor)
  /\ Audit(anchor, "LOADING_FAIL")
  /\ pc' = "refused"
  /\ UNCHANGED <<table, pid, queued, dropped, anchor, matched, holder, machine>>

\* The row is closed and the worker is done with its anchor.
Finish ==
  /\ MarkEnded({anchor})
  /\ pc' = "idle" /\ anchor' = None
  /\ UNCHANGED <<old, queued, dropped, matched, spared, phase, life>>

RefusalEnds ==
  /\ At("refused") /\ Audited(anchor)
  /\ mem' = [mem EXCEPT ![anchor] = "POPPED"]
  /\ Finish
  /\ UNCHANGED <<pid, jobs, holder, alive>>

\* The warm holder serves the anchor: its pid, and one more audit.
Inherits ==
  /\ At("loading") /\ Audited(anchor) /\ holder # None
  /\ pid' = [pid EXCEPT ![anchor] = holder]
  /\ holder' = None
  /\ Audit(anchor, mem[anchor])
  /\ pc' = "loaded"
  /\ UNCHANGED <<table, queued, dropped, anchor, matched, machine>>

\* A holder of another model is torn down, a new llama-server is spawned and
\* its health is awaited; nothing is written.
Spawns ==
  /\ At("loading") /\ Audited(anchor)
  /\ pid' = [pid EXCEPT ![anchor] = anchor]
  /\ alive' = (alive \ {holder}) \cup {anchor}
  /\ holder' = None
  /\ pc' = "loaded"
  /\ UNCHANGED <<table, mem, queued, dropped, jobs, anchor, matched, spared,
                 phase, life>>

HealthTimesOut ==
  /\ At("loaded") /\ Audited(anchor) /\ pid[anchor] = anchor
  /\ Audit(anchor, "LOADING_FAIL")
  /\ pc' = "unhealthy"
  /\ UNCHANGED <<table, pid, queued, dropped, anchor, matched, holder, machine>>

Activates ==
  /\ At("loaded") /\ Audited(anchor)
  /\ Audit(anchor, "ACTIVE")
  /\ pc' = "active"
  /\ UNCHANGED <<table, pid, queued, dropped, anchor, matched, holder, machine>>

EntersGrace ==
  /\ At("active") /\ Audited(anchor)
  /\ Audit(anchor, "GRACE")
  /\ pc' = "grace"
  /\ UNCHANGED <<table, pid, queued, dropped, anchor, matched, holder, machine>>

\* The spawn, the health check, the completion or an audit (before or after its
\* upsert) raised: the finally of _process_slot kills the sidecar, unless it has
\* become the warm holder, and _force_cold closes the row.
ProcessingRaises ==
  /\ Up /\ anchor # None /\ matched = None
  /\ alive' = alive \ ({pid[anchor]} \ {holder})
  /\ mem' = [mem EXCEPT ![anchor] = ForceCold(mem[anchor])]
  /\ jobs' = jobs \ {anchor}
  /\ Finish
  /\ UNCHANGED <<pid, holder>>

\* Popped without a warm hold, or unhealthy: SIGTERM and the checks after it
\* are awaited before the row is closed.
StartsTeardown ==
  /\ Up /\ pc \in {"grace", "unhealthy"} /\ Audited(anchor)
  /\ mem' = [mem EXCEPT ![anchor] = "POPPED"]
  /\ alive' = alive \ {pid[anchor]}
  /\ pc' = "teardown"
  /\ UNCHANGED <<table, pid, queued, dropped, jobs, anchor, matched, holder,
                 spared, phase, life>>

\* A mutant of TeardownEnds: the event after it is written with _audit.
TeardownEndsWithAudit ==
  /\ At("teardown")
  /\ Finish
  /\ jobs' = jobs \cup {anchor}
  /\ UNCHANGED <<mem, pid, holder, alive>>

TeardownEnds ==
  /\ At("teardown")
  /\ Finish
  /\ UNCHANGED <<mem, pid, jobs, holder, alive>>

\* Popped with a warm hold: an event is awaited before the row is closed.
HoldsIdle ==
  /\ At("grace") /\ Audited(anchor)
  /\ mem' = [mem EXCEPT ![anchor] = "POPPED"]
  /\ holder' = pid[anchor]
  /\ pc' = "holding"
  /\ UNCHANGED <<table, pid, queued, dropped, jobs, anchor, matched, machine>>

HoldEnds ==
  /\ At("holding")
  /\ Finish
  /\ UNCHANGED <<mem, pid, jobs, holder, alive>>

------------------------------------------------------------------------------
(* worker_loop: a promoted follow-up *)

Promotes(s) ==
  /\ At("grace") /\ Audited(anchor)
  /\ s \in queued /\ mem[s] = "STAGED"
  /\ queued' = queued \ {s}
  /\ pid' = [pid EXCEPT ![s] = pid[anchor]]
  /\ Audit(s, "ACTIVE_MATCH")
  /\ pc' = "promoted" /\ matched' = s
  /\ UNCHANGED <<table, dropped, anchor, holder, machine>>

\* ACTIVE is not audited: the row says ACTIVE_MATCH while it is served.
ServesMatched ==
  /\ At("promoted") /\ Audited(matched)
  /\ mem' = [mem EXCEPT ![matched] = "ACTIVE"]
  /\ pc' = "serving"
  /\ UNCHANGED <<table, pid, queued, dropped, jobs, anchor, matched, holder,
                 machine>>

MatchedServed ==
  /\ At("serving")
  /\ Audit(matched, "GRACE")
  /\ pc' = "served"
  /\ UNCHANGED <<table, pid, queued, dropped, anchor, matched, holder, machine>>

MatchedPopped ==
  /\ At("served") /\ Audited(matched)
  /\ Audit(matched, "POPPED")
  /\ pc' = "popped"
  /\ UNCHANGED <<table, pid, queued, dropped, anchor, matched, holder, machine>>

\* A mutant of MatchedEnds: the row is left to the anchor's end.
MatchedEndsUnmarked ==
  /\ At("popped") /\ Audited(matched)
  /\ pc' = "grace" /\ matched' = None
  /\ UNCHANGED <<table, objects, jobs, anchor, holder, machine>>

MatchedEnds ==
  /\ At("popped") /\ Audited(matched)
  /\ MarkEnded({matched})
  /\ pc' = "grace" /\ matched' = None
  /\ UNCHANGED <<old, objects, jobs, anchor, holder, machine>>

\* An audit of the follow-up raised: worker_loop parks the anchor and closes
\* its row; the follow-up's is nobody's.
MatchedRaises ==
  /\ Up /\ pc \in {"promoted", "served", "popped"}
  /\ MarkEnded({anchor})
  /\ mem' = [mem EXCEPT ![anchor] = ForceCold(mem[anchor])]
  /\ jobs' = jobs \ {matched}
  /\ dropped' = dropped \cup {matched}
  /\ alive' = alive \ {pid[anchor]}
  /\ pc' = "idle" /\ anchor' = None /\ matched' = None
  /\ UNCHANGED <<old, pid, queued, holder, spared, phase, life>>

------------------------------------------------------------------------------
(* Sweeper, shutdown, crash, boot *)

Sweeps ==
  /\ Up /\ pc # "stopped"
  /\ \E S \in SUBSET { s \in Slot : Stale(s) } :
       /\ S # {} /\ Cardinality(S) <= SweepBatch
       /\ MarkEnded(S)
  /\ UNCHANGED <<old, objects, jobs, worker, machine>>

\* The idle timer tears the warm holder down; no row is concerned.
HolderExpires ==
  /\ At("idle") /\ holder # None
  /\ alive' = alive \ {holder} /\ holder' = None
  /\ UNCHANGED <<table, objects, jobs, pc, anchor, matched, spared, phase, life>>

\* shutdown cancels the worker while it serves a follow-up: it tries to pop
\* the follow-up (not legal from ACTIVE, and forgiven), audits and closes it.
CancelledServing ==
  /\ At("serving")
  /\ Audit(matched, IF CanTransition(mem[matched], "POPPED") THEN "POPPED"
                    ELSE mem[matched])
  /\ pc' = "cancelled"
  /\ UNCHANGED <<table, pid, queued, dropped, anchor, matched, holder, machine>>

\* The finally of _process_slot, then shutdown itself: sidecar and warm holder
\* are terminated, the queue is emptied, and no row is written for any of it.
Stop ==
  /\ pc' = "stopped" /\ anchor' = None /\ matched' = None /\ holder' = None
  /\ alive' = alive \ ({holder} \cup IF anchor = None THEN {} ELSE {pid[anchor]})
  /\ queued' = {}
  /\ UNCHANGED <<old, mem, pid, dropped, jobs, spared, phase, life>>

CancelledEnds ==
  /\ At("cancelled") /\ Audited(matched)
  /\ MarkEnded({matched})
  /\ Stop

\* The audit raised after its upsert: the cancellation is forgotten, the anchor
\* is parked and worker_loop ends because of the stop event.
CancelledRaises ==
  /\ At("cancelled") /\ Audited(matched)
  /\ MarkEnded({anchor})
  /\ Stop

Cancelled ==
  /\ Up /\ pc \notin {"serving", "cancelled", "stopped"}
  /\ Stop
  /\ UNCHANGED row

\* The process is gone: its objects and what its threads had not yet written.
Down ==
  /\ phase' = "down"
  /\ mem' = [s \in Slot |-> None] /\ pid' = [s \in Slot |-> None]
  /\ queued' = {} /\ jobs' = {}
  /\ pc' = "stopped" /\ anchor' = None /\ matched' = None /\ holder' = None
  /\ UNCHANGED <<table, dropped, alive, spared, life>>

\* After a shutdown the interpreter waits for its threads.
Exits == At("stopped") /\ jobs = {} /\ Down

Crashes == Up /\ Down

\* boot_reconcile: the reaper spares some sidecars, other processes may have
\* taken pids over; then the rows are looked at.
Boots ==
  /\ phase = "down" /\ life < MaxLives
  /\ \E live \in SUBSET Slot :
       /\ alive' = alive \cap live
       /\ spared' = KnownActivePids \cap live
       /\ MarkEnded({ s \in Slot : Orphaned(s, KnownActivePids \cap live) })
  /\ phase' = "up" /\ life' = life + 1 /\ pc' = "idle"
  /\ UNCHANGED <<old, objects, jobs, anchor, matched, holder>>

------------------------------------------------------------------------------
WorkerStep ==
  \/ \E s \in Slot : Takes(s) \/ Promotes(s)
  \/ Refuses \/ RefusalEnds \/ Inherits \/ Spawns \/ HealthTimesOut
  \/ Activates \/ EntersGrace \/ ProcessingRaises \/ StartsTeardown
  \/ TeardownEnds \/ HoldsIdle \/ HoldEnds
  \/ ServesMatched \/ MatchedServed \/ MatchedPopped \/ MatchedEnds
  \/ MatchedRaises \/ CancelledEnds \/ CancelledRaises

RowsNext ==
  \/ \E s \in Slot : Submit(s) \/ MoveUp(s) \/ AgeDay(s) \/ AuditJobRuns(s)
                     \/ EvictsQueued(s)
  \/ WorkerStep
  \/ HolderExpires \/ Sweeps \/ CancelledServing \/ Cancelled
  \/ Exits \/ Crashes \/ Boots

\* The program may stay down.
RowsSpec == RowsInit /\ [][RowsNext]_vars

\* Threads and the worker run, time passes, the sweeper wakes up, and the
\* program is started again while MaxLives allows it.  Nothing makes it crash
\* or stop, and no request has to come.
RowsFairness ==
  /\ \A s \in Slot : /\ WF_vars(AuditJobRuns(s)) /\ WF_vars(AgeDay(s))
                     /\ WF_vars(MoveUp(s))
  /\ SF_vars(WorkerStep) /\ WF_vars(Sweeps) /\ WF_vars(Exits) /\ WF_vars(Boots)

FairRowsSpec == RowsSpec /\ RowsFairness

------------------------------------------------------------------------------
(* Properties *)

Serving == Up /\ anchor # None

\* While the worker serves a request whose audits are written, its row is open
\* and carries the sidecar's pid once it is ACTIVE: neither the sweeper nor
\* another request's end touches it.
ServedRowIsOpen ==
  /\ Serving /\ Audited(anchor) => row[anchor].open
  /\ Up /\ pc \in {"active", "grace"} /\ Audited(anchor)
       => row[anchor].pid = pid[anchor]
  /\ matched # None /\ Audited(matched) => row[matched].open

\* A closed row stays closed ("we don't want to clobber that state"), unless
\* the sweeper closed the row of a request that was still to be served.
ClosedStaysClosed ==
  [][\A s \in Slot : row[s] # NoRow /\ ~row[s].open /\ row'[s].open
                       => /\ s \in old /\ row[s].pid = None
                          /\ row'[s].state \in {"LOADING", "ACTIVE_MATCH"}]_vars

\* A start closes every open row of the lives before it, but for two kinds:
\* rows left POPPED, and rows whose pid still answers.
BootClosesRows ==
  [][phase = "down" /\ phase' = "up" =>
       \A s \in Slot : row'[s].open => \/ row[s].state = "POPPED"
                                       \/ row[s].pid \in spared']_vars

\* Rows nothing may close any more (README, findings): left POPPED by a request
\* whose task was cancelled or crashed; dropped by the worker under a label the
\* sweeper does not look at.
Leaked(s) == \/ row[s].state = "POPPED" /\ (pc = "stopped" \/ mem[s] = None)
             \/ row[s].state # "STAGED" /\ s \in dropped
             \/ row[s].pid \in spared
             \/ phase = "down" /\ life = MaxLives

\* Every row is closed in the end: by the end of its request, by the sweeper
\* when its client left, or by the next start.
RowsAreFinalized ==
  \A s \in Slot : row[s].open ~> (~row[s].open \/ Leaked(s))
==============================================================================
