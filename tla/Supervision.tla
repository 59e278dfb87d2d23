------------------------------ MODULE Supervision ------------------------------
(***************************************************************************)
(* How one llama-server is stopped before the next one is started on the   *)
(* same port: drained_sigterm on its process group, boot_orphan_reaper     *)
(* for what was left to init, intra_lifetime_orphan_scan for the rest, and *)
(* the health wait, which asks whoever answers on the port.  A             *)
(* llama-server may start helpers, in its process group or in a session of *)
(* their own, which hold the port as it does.  A teardown runs within a    *)
(* request, or in a task of its own beside the next one; a request that    *)
(* raises ends with drained_sigterm alone.  The two scans block the event  *)
(* loop.  The manager may die at any moment and is started again.          *)
(*                                                                         *)
(* Deadlines pass at any time.  Every process belongs to the manager's     *)
(* user, so no signal is refused.                                          *)
(***************************************************************************)
EXTENDS Integers, FiniteSets

CONSTANTS
  Proc,       \* llama-server processes, each started once
  MaxDeaths,  \* bound: how often the manager dies
  None        \* no process

\* Parents that are no llama-server: the manager, and who adopts orphans.
Outside == {"manager", "reaper"}

ASSUME SupervisionAssumption ==
  /\ MaxDeaths \in Nat
  /\ None \notin Proc \cup Outside
  /\ Proc \cap Outside = {}

VARIABLES
  state,     \* [Proc -> "none", "running", "zombie" or "gone"]
  parent,    \* [Proc -> its parent: Proc, "manager" or "reaper"]
  family,    \* [Proc -> the llama-server whose process group it is in, or
             \*  whose helper it is]
  detached,  \* helpers in a session of their own
  signalled, \* processes that were sent a signal
  defied,    \* those that SIGKILL did not end
  unseen,    \* those of an earlier life that the boot scan did not find
  pinned,    \* the binary is run by way of /proc/self/fd/<fd>
  reaper,    \* who adopts orphans: one that "waits" for them, one that
             \* "idles", one "apart" from those the scans know, or the
             \* manager "self", which is pid 1 in the image
  leader,    \* the process of _active_handle, or the one being swapped out
  holder,    \* the process of _idle_handle
  pc,        \* where the worker is
  draining,  \* [Proc -> how far its teardown is]
  unscanned, \* sidecars whose request raised, with no scan since
  todo,      \* orphans boot_orphan_reaper has listed
  target,    \* the orphan in reap_orphan
  recycled,  \* the listed pids that belong to some other program by now
  mistaken,  \* the start time noted is not the orphan's
  killed,    \* the target was sent SIGKILL
  deaths     \* how often the manager has died

processes == <<state, parent, family, detached>>
signals   == <<signalled, defied>>
host      == <<pinned, reaper>>
worker    == <<leader, holder, pc>>
scan      == <<todo, target, recycled, mistaken, killed>>
vars == <<processes, signals, unseen, host, worker, draining, unscanned, scan,
          deaths>>

Running == {p \in Proc : state[p] = "running"}

NoDrains == [h \in Proc |-> "no"]

SupervisionInit ==
  /\ state = [p \in Proc |-> "none"]
  /\ parent = [p \in Proc |-> None] /\ family = [p \in Proc |-> None]
  /\ detached = {} /\ signalled = {} /\ defied = {} /\ unseen = {}
  /\ pinned \in BOOLEAN /\ reaper \in {"waits", "idles", "apart", "self"}
  /\ leader = None /\ holder = None /\ pc = "idle"
  /\ draining = NoDrains /\ unscanned = {}
  /\ todo = {} /\ target = None /\ recycled = {} /\ mistaken = FALSE
  /\ killed = FALSE /\ deaths = 0

------------------------------------------------------------------------------
(* Processes *)

\* The children of those that end are adopted.
Adopt(ended) ==
  parent' = [p \in Proc |-> IF parent[p] \in ended THEN "reaper" ELSE parent[p]]

\* Nobody waits for p as it ends: a child of the manager is waited for when
\* its handle is polled, an orphan only by a reaper that does so.
NotWaitedFor(p) == \/ parent[p] = "manager"
                   \/ parent[p] = "reaper" /\ reaper \in {"idles", "self"}

EndOf(ended) ==
  [p \in Proc |-> IF p \notin ended THEN state[p]
                  ELSE IF NotWaitedFor(p) THEN "zombie" ELSE "gone"]

Exits(p) ==
  /\ p \in Running
  /\ state' = EndOf({p})
  /\ Adopt({p})
  /\ UNCHANGED <<family, detached, signals, unseen, host, worker, draining,
                 unscanned, scan, deaths>>

\* A llama-server starts a helper, unless it is stuck.  While the boot reaper
\* is at work its list is closed already.
Forks(q, p) ==
  /\ q \in Running \ defied /\ family[q] = q /\ state[p] = "none"
  /\ state' = [state EXCEPT ![p] = "running"]
  /\ parent' = [parent EXCEPT ![p] = q]
  /\ family' = [family EXCEPT ![p] = q]
  /\ \E own \in {{}, {p}} : detached' = detached \cup own
  /\ unseen' = IF pc = "bootreap" THEN unseen \cup {p} ELSE unseen
  /\ UNCHANGED <<signals, host, worker, draining, unscanned, scan, deaths>>

\* A listed pid is used again, and is free again.
PidIsRecycled(p) ==
  /\ p \in todo /\ state[p] = "gone" /\ p \notin recycled
  /\ recycled' = recycled \cup {p}
  /\ UNCHANGED <<processes, signals, unseen, host, worker, draining, unscanned,
                 todo, target, mistaken, killed, deaths>>

StrangerExits(p) ==
  /\ p \in recycled
  /\ recycled' = recycled \ {p}
  /\ UNCHANGED <<processes, signals, unseen, host, worker, draining, unscanned,
                 todo, target, mistaken, killed, deaths>>

\* SIGKILL to a set of processes: each ends or is stuck in the driver.
SigKill(S) ==
  \E stuck \in SUBSET (S \cap Running) :
    /\ defied' = defied \cup stuck
    /\ state' = EndOf((S \cap Running) \ stuck)
    /\ Adopt((S \cap Running) \ stuck)

------------------------------------------------------------------------------
(* drained_sigterm, of several handles at a time *)

\* The event loop turns: no scan is under way in it.
Free == \A h \in Proc : draining[h] # "scan"

Group(h) == {p \in Proc : family[p] = h /\ p \notin detached}

\* getpgid finds nothing when the process has been waited for already, and
\* nobody is signalled; otherwise SIGTERM goes to the group.
Sigterm(h) ==
  \/ /\ state[h] = "gone"
     /\ draining' = [draining EXCEPT ![h] = "verify"]
     /\ UNCHANGED signalled
  \/ /\ state[h] # "gone"
     /\ signalled' = signalled \cup Group(h)
     /\ draining' = [draining EXCEPT ![h] = "term"]

\* What follows drained_sigterm: nothing in the finally of _process_slot, which
\* drops the verdict and the handle; the wait for the video memory otherwise.
Drained(h) ==
  /\ state' = [state EXCEPT ![h] = IF @ = "zombie" THEN "gone" ELSE @]
  /\ \/ /\ pc = "finally" /\ h = leader
        /\ draining' = [draining EXCEPT ![h] = "no"]
        /\ leader' = None /\ pc' = "idle"
        /\ unscanned' = unscanned \cup {h}
        /\ UNCHANGED holder
     \/ /\ ~(pc = "finally" /\ h = leader)
        /\ draining' = [draining EXCEPT ![h] = "verify"]
        /\ UNCHANGED <<worker, unscanned>>
  /\ UNCHANGED <<parent, family, detached, signals, unseen, host, scan,
                 deaths>>

\* poll sees the exit within the window and wait reaps it.
SigtermClean(h) ==
  /\ Free /\ draining[h] = "term" /\ state[h] # "running"
  /\ Drained(h)

\* A mutant of Escalates: the window is over, and that is that.
GivesUpWaiting(h) ==
  /\ Free /\ draining[h] = "term"
  /\ draining' = [draining EXCEPT ![h] = "kill"]
  /\ UNCHANGED <<processes, signals, unseen, host, worker, unscanned, scan, deaths>>

Escalates(h) ==
  /\ Free /\ draining[h] = "term"
  /\ SigKill(Group(h))
  /\ draining' = [draining EXCEPT ![h] = "kill"]
  /\ UNCHANGED <<family, detached, signalled, unseen, host, worker, unscanned,
                 scan, deaths>>

\* A mutant of Settles: the process is waited for, with no deadline.
SettlesOnceDead(h) ==
  /\ Free /\ draining[h] = "kill" /\ state[h] # "running"
  /\ Drained(h)

\* Half a second later: sigkill-failed-still-alive, or reaped and clean.
Settles(h) ==
  /\ Free /\ draining[h] = "kill"
  /\ Drained(h)

------------------------------------------------------------------------------
(* The life of a sidecar *)

\* spawn_sidecar, with no holder left; older ones may still be in a teardown.
Spawn(p) ==
  /\ Free /\ pc = "idle" /\ holder = None /\ state[p] = "none"
  /\ state' = [state EXCEPT ![p] = "running"]
  /\ parent' = [parent EXCEPT ![p] = "manager"]
  /\ family' = [family EXCEPT ![p] = p]
  /\ leader' = p /\ pc' = "loading"
  /\ UNCHANGED <<detached, signals, unseen, host, holder, draining, unscanned,
                 scan, deaths>>

\* /health is answered by a process that holds the port: nobody asks whether
\* it is the one just spawned, or whether that one is still there.
IsHealthy ==
  /\ Free /\ pc = "loading"
  /\ Running # {}
  /\ pc' = "serving"
  /\ UNCHANGED <<processes, signals, unseen, host, leader, holder, draining,
                 unscanned, scan, deaths>>

\* Warm inheritance: no health wait.
Inherits ==
  /\ Free /\ pc = "idle" /\ holder # None
  /\ leader' = holder /\ holder' = None /\ pc' = "serving"
  /\ UNCHANGED <<processes, signals, unseen, host, draining, unscanned, scan, deaths>>

\* The grace window is over and the sidecar is kept warm.
Holds ==
  /\ Free /\ pc = "serving"
  /\ holder' = leader /\ leader' = None /\ pc' = "idle"
  /\ UNCHANGED <<processes, signals, unseen, host, draining, unscanned, scan, deaths>>

\* _teardown_idle_holder, as a task of its own.
Expires ==
  /\ Free /\ pc = "idle" /\ holder # None
  /\ Sigterm(holder)
  /\ holder' = None
  /\ UNCHANGED <<processes, defied, unseen, host, leader, pc, unscanned, scan, deaths>>

\* The same, waited for: a request for another model.
Swaps ==
  /\ Free /\ pc = "idle" /\ holder # None
  /\ Sigterm(holder)
  /\ leader' = holder /\ holder' = None /\ pc' = "swap"
  /\ UNCHANGED <<processes, defied, unseen, host, unscanned, scan,
                 deaths>>

\* _teardown: the load timed out, or the grace window is over and nothing is
\* kept warm.
BeginsTeardown ==
  /\ Free /\ pc \in {"loading", "serving"}
  /\ Sigterm(leader)
  /\ pc' = "teardown"
  /\ UNCHANGED <<processes, defied, unseen, host, leader, holder, unscanned,
                 scan, deaths>>

\* The health wait or the completion raises or is cancelled: drained_sigterm
\* when is_alive finds the sidecar alive, nothing at all when it is dead.
Raises ==
  /\ Free /\ pc \in {"loading", "serving"} /\ leader \in Running
  /\ Sigterm(leader)
  /\ pc' = "finally"
  /\ UNCHANGED <<processes, defied, unseen, host, leader, holder, unscanned,
                 scan, deaths>>

RaisesDead ==
  /\ Free /\ pc \in {"loading", "serving"} /\ leader \notin Running
  /\ state' = [state EXCEPT ![leader] = "gone"]
  /\ leader' = None /\ pc' = "idle"
  /\ unscanned' = unscanned \cup {leader}
  /\ UNCHANGED <<parent, family, detached, signals, unseen, host, holder,
                 draining, scan, deaths>>

------------------------------------------------------------------------------
(* boot_orphan_reaper and reap_orphan *)

\* The scans look for "llama-server" in the command line, which a pinned
\* binary and a zombie do not have.
LlamaServers == IF pinned THEN {} ELSE Running

\* Parent pid 1, or the manager's oldest ancestor.
Orphans == {p \in LlamaServers : \/ parent[p] = "reaper" /\ reaper # "apart"
                                 \/ parent[p] = "manager" /\ reaper = "self"}

\* The video memory was waited for; one walk over /proc, before anything is
\* killed.
BeginsScan(h) ==
  /\ Free /\ draining[h] = "verify"
  /\ draining' = [draining EXCEPT ![h] = "scan"]
  /\ todo' = Orphans
  /\ UNCHANGED <<processes, signals, unseen, host, worker, unscanned, target,
                 recycled, mistaken, killed, deaths>>

\* The same in boot_reconcile: what is not listed now will not be looked for
\* again before the first teardown.
BootScan ==
  /\ pc = "bootscan"
  /\ todo' = Orphans
  /\ unseen' = Running \ Orphans
  /\ pc' = "bootreap"
  /\ UNCHANGED <<processes, signals, host, leader, holder, draining, unscanned,
                 target, recycled, mistaken, killed, deaths>>

Done ==
  /\ todo' = todo \ {target} /\ target' = None
  /\ recycled' = recycled \ {target} /\ mistaken' = FALSE /\ killed' = FALSE

\* The start time is noted and SIGTERM sent, to whoever has the pid by now.
ReapSigterm(p) ==
  /\ target = None /\ p \in todo
  /\ target' = p /\ mistaken' = (state[p] = "gone")
  /\ signalled' = signalled \cup {p}
  /\ UNCHANGED <<processes, defied, unseen, host, worker, draining, unscanned,
                 todo, recycled, killed, deaths>>

\* os.kill(pid, 0) succeeds, for a zombie too.
PidIsThere == state[target] \in {"running", "zombie"} \/ target \in recycled

\* Gone before the signal or within five seconds of it.
ReapClean ==
  /\ target # None /\ ~killed /\ ~PidIsThere
  /\ Done
  /\ UNCHANGED <<processes, signals, unseen, host, worker, draining, unscanned, deaths>>

\* SIGKILL goes to the pid, whoever has it by now.
ReapSigkill ==
  /\ target # None /\ ~killed /\ PidIsThere
  /\ SigKill({target})
  /\ recycled' \in {recycled, recycled \ {target}}
  /\ killed' = TRUE
  /\ UNCHANGED <<family, detached, signalled, unseen, host, worker, draining,
                 unscanned, todo, target, mistaken, deaths>>

\* A mutant of SameProcess: the pid is there, so the process is.
SamePid == TRUE

\* The start time is still the one that was noted.
SameProcess == state[target] \in {"running", "zombie"} \/ mistaken

\* What reap_orphan returns, as it returns: the process has ended.
ReapVerdict == ~(PidIsThere /\ SameProcess)

\* Half a second later the pid is looked at again.
ReapChecks ==
  /\ target # None /\ killed
  /\ Done
  /\ UNCHANGED <<processes, signals, unseen, host, worker, draining, unscanned, deaths>>

------------------------------------------------------------------------------
(* intra_lifetime_orphan_scan *)

\* _live_handle_pids polls the two handles, and so waits for a dead one.
Handles == ({leader, holder} \ {None}) \ IF pc = "swap" THEN {leader} ELSE {}

Polled == [p \in Proc |-> IF p \in Handles /\ state[p] = "zombie" THEN "gone"
                          ELSE state[p]]

\* The teardown of h is over; the worker goes on when it has waited for it.
TeardownOver(h) ==
  /\ draining' = [draining EXCEPT ![h] = "no"]
  /\ leader' = IF h = leader THEN None ELSE leader
  /\ pc' = IF h = leader THEN "idle" ELSE pc
  /\ UNCHANGED holder

\* A mutant of IntraScan: left out.
NoIntraScan(h) ==
  /\ draining[h] = "scan" /\ todo = {}
  /\ unscanned' = {}
  /\ TeardownOver(h)
  /\ UNCHANGED <<processes, signals, unseen, host, scan, deaths>>

\* SIGTERM to every llama-server on the port but the live handles; nobody waits
\* for them.
IntraScan(h) ==
  /\ draining[h] = "scan" /\ todo = {}
  /\ state' = Polled
  /\ signalled' = signalled \cup (LlamaServers \ Handles)
  /\ unscanned' = {}
  /\ TeardownOver(h)
  /\ UNCHANGED <<parent, family, detached, defied, unseen, host, scan, deaths>>

BootEnds ==
  /\ pc = "bootreap" /\ todo = {}
  /\ pc' = "idle"
  /\ UNCHANGED <<processes, signals, unseen, host, leader, holder, draining,
                 unscanned, scan, deaths>>

------------------------------------------------------------------------------
\* The manager dies: its children are adopted, its zombies reaped.  As pid 1 it
\* takes everything with it.
ManagerDies ==
  /\ pc # "down" /\ deaths < MaxDeaths
  /\ state' = [p \in Proc |-> IF \/ state[p] = "zombie"
                                 \/ reaper = "self" /\ state[p] = "running"
                              THEN "gone" ELSE state[p]]
  /\ Adopt({"manager"})
  /\ pc' = "down" /\ leader' = None /\ holder' = None
  /\ draining' = NoDrains /\ unscanned' = {}
  /\ todo' = {} /\ target' = None /\ recycled' = {} /\ mistaken' = FALSE
  /\ killed' = FALSE
  /\ deaths' = deaths + 1
  /\ UNCHANGED <<family, detached, signals, unseen, host>>

\* boot_reconcile begins.
Boots ==
  /\ pc = "down"
  /\ pc' = "bootscan"
  /\ UNCHANGED <<processes, signals, unseen, host, leader, holder, draining,
                 unscanned, scan, deaths>>

DrainStep(h) ==
  SigtermClean(h) \/ Escalates(h) \/ Settles(h) \/ BeginsScan(h)

ScanStep ==
  \/ BootScan \/ ReapClean \/ ReapSigkill \/ ReapChecks \/ BootEnds
  \/ \E p \in Proc : ReapSigterm(p) \/ IntraScan(p)

SupervisionNext ==
  \/ \E p, q \in Proc : Forks(q, p)
  \/ \E p \in Proc : \/ Exits(p) \/ PidIsRecycled(p) \/ StrangerExits(p)
                     \/ Spawn(p) \/ DrainStep(p)
  \/ IsHealthy \/ Inherits \/ Holds \/ Expires \/ Swaps
  \/ BeginsTeardown \/ Raises \/ RaisesDead
  \/ ScanStep
  \/ ManagerDies \/ Boots

\* Every wait of a teardown has a deadline, so its steps are taken; whether a
\* llama-server ever ends is its own affair.
SupervisionSpec ==
  /\ SupervisionInit /\ [][SupervisionNext]_vars
  /\ \A h \in Proc : WF_vars(DrainStep(h))
  /\ WF_vars(ScanStep)

------------------------------------------------------------------------------
\* Sidecars in a teardown, that of the worker or one in a task beside it.
InTeardown == {h \in Proc : draining[h] # "no"}

\* Sidecars the manager still looks after.
Attended == ({leader, holder} \ {None}) \cup InTeardown

\* Out of the reapers' reach: everything when the binary is pinned, what
\* SIGKILL does not end, what went to a parent the reaper does not know, what
\* the boot scan did not find, and the helpers of such a process.
Beyond(p) == \/ pinned
             \/ p \in defied \/ family[p] \in defied
             \/ parent[p] = "reaper" /\ reaper = "apart"
             \/ p \in unseen \/ family[p] \in unseen

\* Whoever may answer the health wait belongs to the llama-server just spawned,
\* unless it is beyond the reapers' reach or one of the two holes has let it
\* pass: a teardown in a task of its own, or the end of a request by an
\* exception, after which nobody scans.
HealthIsOwn ==
  pc = "loading" =>
    \A p \in Running : \/ family[p] \in {leader} \cup InTeardown \cup unscanned
                       \/ Beyond(p)

\* When a llama-server is started, every older one still running has at least
\* been told to stop, or is still attended to, or belongs to a request that
\* ended by an exception with no scan since.
NoneOverlooked ==
  pc \in {"idle", "loading"} =>
    \A p \in Running : \/ family[p] \in Attended \cup unscanned
                       \/ p \in signalled \/ pinned
                       \/ p \in unseen \/ family[p] \in unseen

\* What reap_orphan returns is true when it returns: ok means that the orphan
\* has ended, and not ok that it has not, or that nobody waits for it, or that
\* its pid was another's before the start time was noted.
VerdictsAreTrue ==
  [][target # None /\ target' = None /\ pc' # "down" =>
       IF ReapVerdict THEN state[target] = "gone"
       ELSE \/ state[target] = "running"
            \/ state[target] = "zombie" /\ reaper \in {"idles", "self"}
            \/ mistaken]_vars

\* A teardown ends, whatever the processes do, and so does the boot reaper.
TeardownEnds ==
  /\ \A h \in Proc : draining[h] # "no" ~> draining[h] = "no"
  /\ pc = "bootscan" ~> pc \notin {"bootscan", "bootreap"}

\* "reap before the next slot needs the port + VRAM": when a llama-server has
\* been spawned, every older one within reach has ended, but for those in a
\* teardown of their own.
ReapedBeforeNextSlot ==
  pc = "loading" =>
    \A p \in Running : family[p] \in {leader} \cup InTeardown \/ Beyond(p)
==============================================================================
