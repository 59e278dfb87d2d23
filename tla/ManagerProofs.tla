---------------------------- MODULE ManagerProofs ----------------------------
(***************************************************************************)
(* Theorems about Manager, for any set of requests, of conversations and   *)
(* of models, any bound of the queue's tiers, of grace extensions and of   *)
(* faults.  They rest on QueueAssumption, GraceAssumption and              *)
(* ManagerAssumption; two also assume that the manager is not pid 1.       *)
(*                                                                         *)
(* Inv is inductive.  The module proves first what the actions do to each  *)
(* table of the state (the sidecars, the queue, the futures, the phases),  *)
(* as one disjunction per table that every step obeys, and then one lemma  *)
(* ...Kept per conjunct of Inv.                                            *)
(***************************************************************************)
EXTENDS ManagerProperties, QueueLemmas

------------------------------------------------------------------------------
LEMMA FinallyFacts ==
  /\ DOMAIN FinallyPc = {"none", "error", "cancel"}
  /\ FinallyPc["none"] = "finally"
  /\ FinallyPc["error"] = "finally_error"
  /\ FinallyPc["cancel"] = "finally_cancel"
  /\ FinallyPcs = {"finally", "finally_error", "finally_cancel"}
<1>1. DOMAIN FinallyPc = {"none", "error", "cancel"}
  BY DEF FinallyPc
<1>2. /\ FinallyPc["none"] = "finally"
      /\ FinallyPc["error"] = "finally_error"
      /\ FinallyPc["cancel"] = "finally_cancel"
  BY DEF FinallyPc
<1> QED
  BY <1>1, <1>2 DEF FinallyPcs

\* One round of the loop of _force_cold, which a slot in COLD leaves at once.
ForceColdStep(state) == IF IsTerminal(state) THEN state ELSE ForceColdHop(state)

LEMMA ForceColdSteps ==
  /\ \A state \in SlotStates : IsTerminal(state) <=> state = "COLD"
  /\ \A state \in SlotStates \ {"ACTIVE", "GRACE", "GRACE_BUSY", "LOADING_FAIL"} :
       ForceColdStep(state) = "COLD"
  /\ ForceColdStep("GRACE") = "POPPED"
  /\ ForceColdStep("GRACE_BUSY") = "POPPED"
  /\ ForceColdStep("LOADING_FAIL") = "POPPED"
  /\ ForceColdStep("ACTIVE") = "GRACE"
<1>1. \A state \in SlotStates : IsTerminal(state) <=> state = "COLD"
  BY DEF SlotStates, IsTerminal, LegalTargets
<1>2. /\ ForceColdHop("GRACE") = "POPPED"
      /\ ForceColdHop("GRACE_BUSY") = "POPPED"
      /\ ForceColdHop("LOADING_FAIL") = "POPPED"
      /\ ForceColdHop("ACTIVE") = "GRACE"
  BY DEF ForceColdHop, LegalTargets
<1>3. \A state \in SlotStates \ {"ACTIVE", "GRACE", "GRACE_BUSY", "LOADING_FAIL", "COLD"} :
        ForceColdHop(state) = "COLD"
  BY DEF SlotStates, ForceColdHop, LegalTargets
<1> QED
  BY <1>1, <1>2, <1>3 DEF ForceColdStep, SlotStates

\* The walk is long enough from every state: three rounds, from ACTIVE.
LEMMA ForceColdParks == \A state \in SlotStates : ForceCold(state) = "COLD"
<1> SUFFICES ASSUME NEW state \in SlotStates PROVE ForceCold(state) = "COLD"
  OBVIOUS
<1> DEFINE hop(f, n) == IF n = 0 \/ IsTerminal(state) THEN state
                        ELSE IF IsTerminal(f[n - 1]) THEN f[n - 1]
                        ELSE ForceColdHop(f[n - 1])
           IsWalk(f) == f = [n \in 0 .. ForceColdBound |-> hop(f, n)]
           s1 == ForceColdStep(state)
           s2 == ForceColdStep(s1)
           s3 == ForceColdStep(s2)
           s4 == ForceColdStep(s3)
           walk == [n \in 0 .. ForceColdBound |->
                      IF n = 0 THEN state ELSE IF n = 1 THEN s1 ELSE IF n = 2 THEN s2
                      ELSE IF n = 3 THEN s3 ELSE s4]
<1>1. ForceCold(state) = (CHOOSE f : IsWalk(f))[ForceColdBound]
  BY DEF ForceCold
<1>2. IsTerminal(state) => s1 = state /\ s2 = state /\ s3 = state /\ s4 = state
  BY DEF ForceColdStep
<1>3. IsWalk(walk)
  <2>1. ASSUME NEW n \in 0 .. ForceColdBound PROVE walk[n] = hop(walk, n)
    <3> ForceColdBound = 4
      BY DEF ForceColdBound
    <3>1. walk[0] = state /\ walk[1] = s1 /\ walk[2] = s2 /\ walk[3] = s3 /\ walk[4] = s4
      OBVIOUS
    <3> HIDE DEF walk
    <3>2. CASE n = 0
      BY <3>1, <3>2
    <3>3. CASE n = 1
      BY <3>1, <3>3, <1>2 DEF ForceColdStep
    <3>4. CASE n = 2
      BY <3>1, <3>4, <1>2 DEF ForceColdStep
    <3>5. CASE n = 3
      BY <3>1, <3>5, <1>2 DEF ForceColdStep
    <3>6. CASE n = 4
      BY <3>1, <3>6, <1>2 DEF ForceColdStep
    <3> QED
      BY <3>2, <3>3, <3>4, <3>5, <3>6
  <2>2. walk = [n \in 0 .. ForceColdBound |-> walk[n]]
    OBVIOUS
  <2> QED
    BY <2>1, <2>2
<1> DEFINE path == CHOOSE f : IsWalk(f)
<1>4. IsWalk(path)
  BY <1>3
<1> HIDE DEF path, walk
<1>5. /\ path[0] = state /\ path[1] = s1 /\ path[2] = s2 /\ path[3] = s3 /\ path[4] = s4
  <2>1. \A n \in 0 .. 4 : path[n] = hop(path, n)
    BY <1>4 DEF ForceColdBound
  <2>2. path[0] = state
    BY <2>1
  <2>3. path[1] = s1
    BY <1>2, <2>1, <2>2 DEF ForceColdStep
  <2>4. path[2] = s2
    BY <1>2, <2>1, <2>3 DEF ForceColdStep
  <2>5. path[3] = s3
    BY <1>2, <2>1, <2>4 DEF ForceColdStep
  <2>6. path[4] = s4
    BY <1>2, <2>1, <2>5 DEF ForceColdStep
  <2> QED
    BY <2>2, <2>3, <2>4, <2>5, <2>6
<1>6. s4 = "COLD"
  BY ForceColdSteps DEF SlotStates
<1> QED
  BY <1>1, <1>5, <1>6 DEF path, ForceColdBound

------------------------------------------------------------------------------
(***************************************************************************)
(* The types, and what the worker has in hand.                             *)
(***************************************************************************)
\* An entry of the process table.
Sidecar == [model : {Model[s] : s \in Slots}, status : {"up", "terminating", "stuck", "dead"}]

\* The types, in the form the steps keep; the bound on Len(sidecars) is Counted.
Typed ==
  /\ TiersSound
  /\ evicted \subseteq disconnected
  /\ phase \in [Slots -> SlotStates \cup {"QUEUED"}]
  /\ future \in [Slots -> {"none", "pending", "ok", "failed", "evicted", "timeout",
                           "refused", "cancelled"}]
  /\ graceCount \in 0 .. MaxExtensions
  /\ wpc \in WorkerPcs
  /\ anchor \in Slots \cup {NoSlot} /\ matched \in Slots \cup {NoSlot}
  /\ sidecars \in Seq(Sidecar)
  /\ activeHandle \in 0 .. Len(sidecars)
  /\ idleHandle \in 0 .. Len(sidecars)
  /\ held \in 0 .. Len(sidecars)
  /\ detached \subseteq 1 .. Len(sidecars)
  /\ idleExpires \in {"unset", "running", "past"}
  /\ faults \in 0 .. MaxFaults
  /\ taskCreated \in BOOLEAN /\ stop \in BOOLEAN /\ cancelling \in BOOLEAN
  /\ shut \in {"running", "stopping", "closing", "stopped"}

\* Where a follow-up is in hand, and where no request is.
MatchPcs    == {"promoted", "match_complete", "match_grace", "match_failed", "match_popped",
                "match_cancelled"}
NoAnchorPcs == {"nap", "idle", "evict"}

\* Which requests the worker has in hand at each await, and that a follow-up
\* is of its anchor's conversation.
Hands ==
  /\ wpc \in NoAnchorPcs => anchor = NoSlot
  /\ wpc \notin NoAnchorPcs \cup {"done"} => anchor \in Slots
  /\ wpc \in MatchPcs => matched \in Slots
  /\ wpc \notin MatchPcs \cup FinallyPcs \cup {"done"} => matched = NoSlot
  /\ matched \in Slots => anchor \in Slots /\ Key[matched] = Key[anchor]

\* The steps of everybody else, and those of the worker task.
Bystander ==
  \/ Client \/ ExpiryTask \/ Clock \/ Exits \/ (\E h \in DOMAIN sidecars : SidecarCrashes(h) \/ SidecarSticks(h))
  \/ ShutdownStarts \/ ShutdownCloses \/ ShutdownEnds
  \/ UNCHANGED vars

WorkerStep ==
  \/ Worker
  \/ CancelProcess \/ CancelMatch \/ MatchCancelled \/ CancelFinally \/ CancelLoop
  \/ AwaitRaises \/ FinallyRaises \/ ErrorTeardownRaises \/ ColdTeardownRaises \/ ForceColdRaises

LEMMA StepKinds == [Next]_vars => Bystander \/ WorkerStep
BY DEF Next, ServeNext, Faults, Shutdown, Bystander, WorkerStep

LEMMA BystanderKeeps ==
  Bystander => UNCHANGED <<phase, wpc, anchor, matched, activeHandle>>
<1>1. Client => UNCHANGED <<phase, wpc, anchor, matched, activeHandle>>
  BY DEF Client, Submit, SubmitAtHead, SubmitAtTail, SubmitRefused, ClientLeaves, ClientTimesOut,
         requestVars, workerVars, handleVars
<1>2. ExpiryTask \/ Clock \/ Exits => UNCHANGED <<phase, wpc, anchor, matched, activeHandle>>
  BY DEF ExpiryTask, ExpiryTaskStarts, ExpiryTaskEnds, Clock, GraceTimerElapses, DeadlineElapses,
         IdleElapses, Exits, SidecarExits, StuckExits, taskUnchanged, clockUnchanged, requestVars, workerVars
<1>3. (\E h \in DOMAIN sidecars : SidecarCrashes(h) \/ SidecarSticks(h)) \/ ShutdownStarts \/ ShutdownCloses \/ ShutdownEnds
        => UNCHANGED <<phase, wpc, anchor, matched, activeHandle>>
  BY DEF SidecarCrashes, SidecarSticks, ShutdownStarts, ShutdownCloses, ShutdownEnds,
         requestVars, workerVars, handleVars
<1>4. UNCHANGED vars => UNCHANGED <<phase, wpc, anchor, matched, activeHandle>>
  BY DEF vars, requestVars, workerVars, handleVars
<1> QED
  BY <1>1, <1>2, <1>3, <1>4 DEF Bystander

LEMMA HandsBystander ==
  ASSUME Hands, Bystander
  PROVE  Hands'
BY BystanderKeeps DEF Hands

LEMMA HandsWorker ==
  ASSUME Typed, Hands, WorkerStep
  PROVE  Hands'
<1> USE FinallyFacts, ManagerAssumption DEF Hands, NoAnchorPcs, MatchPcs, Resume, Goto
<1>1. CASE FindNothing \/ LoopExits \/ Wake \/ EvictionAudited \/ (\E s \in Slots : PopEvicted(s) \/ PopStart(s))
  BY <1>1 DEF FindNothing, LoopExits, Wake, EvictionAudited, PopEvicted, PopStart, loopUnchanged
<1>2. CASE RefuseNoManifest \/ Inherit \/ Inherited \/ StartSwap \/ Swapped \/ GatesRefuse
           \/ Spawn \/ HealthOk \/ HealthTimesOut \/ LoadFailAudited \/ Activated \/ CompleteOk
           \/ GraceEntered
  BY <1>2 DEF RefuseNoManifest, Inherit, Inherited, StartSwap, Swapped, GatesRefuse, ReadyToSpawn,
           Spawn, HealthOk, HealthTimesOut, LoadFailAudited, Activated, CompleteOk, GraceEntered
<1>3. CASE \E s \in Slots : Promote(s)
  BY <1>3, PopMatchedSound DEF Promote, Typed
<1>4. CASE PromotionAudited \/ MatchCompletes \/ MatchExtends \/ MatchFailed \/ MatchEnded \/ GraceOver
  BY <1>4 DEF PromotionAudited, MatchCompletes, MatchExtends, MatchFailed, MatchEnded, GraceOver
<1>5. CASE NoManifestFailed \/ GatesRefused \/ IdleEntered \/ LoadFailTornDown \/ GraceTornDown
  BY <1>5 DEF NoManifestFailed, GatesRefused, IdleEntered, LoadFailTornDown, GraceTornDown, Unwind, BackToLoop
<1>6. CASE SpawnFails \/ HealthRaises \/ CompleteFails \/ ManifestRaises
  BY <1>6 DEF SpawnFails, HealthRaises, CompleteFails, ManifestRaises, ReadyToSpawn, Raise, Unwind, BackToLoop
<1>7. CASE AwaitRaises
  BY <1>7 DEF AwaitRaises, AuditPcs, TeardownPcs, Raise, Unwind, BackToLoop
<1>8. CASE FinallyDone
  BY <1>8 DEF FinallyDone, BackToLoop
<1>9. CASE FinallyRaises
  BY <1>9 DEF FinallyRaises, BackToLoop
<1>10. CASE ErrorTornDown \/ ColdTornDown \/ ForcedCold \/ ErrorTeardownRaises \/ ColdTeardownRaises \/ ForceColdRaises
  BY <1>10 DEF ErrorTornDown, ColdTornDown, ForcedCold, ParkAnchor, ErrorTeardownRaises, ColdTeardownRaises, ForceColdRaises
<1>11. CASE CancelProcess \/ CancelMatch \/ MatchCancelled \/ CancelFinally \/ CancelLoop
  BY <1>11 DEF CancelProcess, CancelMatch, MatchCancelled, CancelFinally, CancelLoop, Unwind, BackToLoop, ProcessPcs, AuditPcs, TeardownPcs, LoopPcs
<1> QED
  BY <1>1, <1>2, <1>3, <1>4, <1>5, <1>6, <1>7, <1>8, <1>9, <1>10, <1>11 DEF WorkerStep, Worker

------------------------------------------------------------------------------
\* The table of sidecars: same processes, same models, other statuses.
SameShape(new, old) ==
  /\ new \in Seq(Sidecar)
  /\ Len(new) = Len(old)
  /\ \A g \in 1 .. Len(old) : new[g].model = old[g].model

LEMMA EntryTyped ==
  ASSUME NEW entry \in Sidecar, NEW state
  PROVE  [entry EXCEPT !.status = state] = [model |-> entry.model, status |-> state]
BY DEF Sidecar

LEMMA TableTyped ==
  ASSUME NEW old \in Seq(Sidecar), NEW new, DOMAIN new = 1 .. Len(old),
         new = [g \in 1 .. Len(old) |-> new[g]],
         \A g \in 1 .. Len(old) : new[g] \in Sidecar /\ new[g].model = old[g].model
  PROVE  SameShape(new, old)
<1>1. Len(old) \in Nat
  OBVIOUS
<1>2. new \in [1 .. Len(old) -> Sidecar]
  OBVIOUS
<1>3. new \in Seq(Sidecar) /\ Len(new) = Len(old)
  BY <1>1, <1>2, SeqDef, LenProperties
<1> QED
  BY <1>3 DEF SameShape

\* The table in which sidecar h has got a new status.
Stamped(table, h, state) == [table EXCEPT ![h].status = state]

LEMMA StampedTable ==
  ASSUME NEW table \in Seq(Sidecar), NEW h \in 1 .. Len(table),
         NEW state \in {"up", "terminating", "stuck", "dead"}
  PROVE  /\ SameShape(Stamped(table, h, state), table)
         /\ Stamped(table, h, state)[h].status = state
         /\ \A g \in 1 .. Len(table) : g # h => Stamped(table, h, state)[g] = table[g]
<1> DEFINE new == Stamped(table, h, state)
<1>1. DOMAIN table = 1 .. Len(table) /\ \A g \in 1 .. Len(table) : table[g] \in Sidecar
  BY LenProperties, ElementOfSeq
<1>2. /\ DOMAIN new = 1 .. Len(table)
      /\ new = [g \in 1 .. Len(table) |-> new[g]]
      /\ new[h] = [table[h] EXCEPT !.status = state]
      /\ \A g \in 1 .. Len(table) : g # h => new[g] = table[g]
  BY <1>1 DEF Stamped
<1> HIDE DEF new
<1>3. new[h] = [model |-> table[h].model, status |-> state]
  <2>1. table[h] \in Sidecar
    BY <1>1
  <2>2. [table[h] EXCEPT !.status = state] = [model |-> table[h].model, status |-> state]
    BY <2>1, EntryTyped
  <2> QED
    BY <1>2, <2>2
<1>4. new[h] \in Sidecar /\ new[h].model = table[h].model /\ new[h].status = state
  BY <1>1, <1>3 DEF Sidecar
<1>5. SameShape(new, table)
  BY <1>1, <1>2, <1>4, TableTyped
<1> QED
  BY <1>2, <1>4, <1>5 DEF new

LEMMA SigtermedTable ==
  ASSUME NEW table \in Seq(Sidecar), NEW h \in 0 .. Len(table)
  PROVE  /\ SameShape(Sigtermed(table, h), table)
         /\ \A g \in 1 .. Len(table) :
              Sigtermed(table, h)[g].status =
                IF g = h /\ table[g].status = "up" THEN "terminating" ELSE table[g].status
<1>1. CASE h # NoHandle /\ table[h].status = "up"
  <2>1. h \in 1 .. Len(table)
    BY <1>1 DEF NoHandle
  <2>2. Sigtermed(table, h) = Stamped(table, h, "terminating")
    BY <1>1 DEF Sigtermed, Stamped
  <2> DEFINE new == Sigtermed(table, h)
  <2> HIDE DEF new
  <2>3. /\ SameShape(new, table)
        /\ new[h].status = "terminating"
        /\ \A g \in 1 .. Len(table) : g # h => new[g] = table[g]
    BY <2>1, <2>2, StampedTable DEF new
  <2>4. \A g \in 1 .. Len(table) :
          new[g].status = IF g = h /\ table[g].status = "up" THEN "terminating" ELSE table[g].status
    BY <1>1, <2>3
  <2> QED
    BY <2>3, <2>4 DEF new
<1>2. CASE ~(h # NoHandle /\ table[h].status = "up")
  BY <1>2 DEF Sigtermed, NoHandle, SameShape
<1> QED
  BY <1>1, <1>2

LEMMA ReapedTable ==
  ASSUME NEW table \in Seq(Sidecar), NEW live
  PROVE  /\ SameShape(Reaped(table, live), table)
         /\ \A g \in 1 .. Len(table) :
              Reaped(table, live)[g].status =
                IF ManagerIsInit /\ table[g].status # "stuck" THEN "dead"
                ELSE IF table[g].status = "up" /\ g \notin live THEN "terminating"
                ELSE table[g].status
<1> DEFINE new == Reaped(table, live)
           state(g) == IF ManagerIsInit /\ table[g].status # "stuck" THEN "dead"
                       ELSE IF table[g].status = "up" /\ g \notin live THEN "terminating"
                       ELSE table[g].status
<1>1. DOMAIN table = 1 .. Len(table) /\ \A g \in 1 .. Len(table) : table[g] \in Sidecar
  BY LenProperties, ElementOfSeq
<1>2. /\ DOMAIN new = 1 .. Len(table)
      /\ new = [g \in 1 .. Len(table) |-> new[g]]
      /\ \A g \in 1 .. Len(table) : new[g] = [table[g] EXCEPT !.status = state(g)]
  BY <1>1 DEF Reaped
<1> HIDE DEF new
<1>3. \A g \in 1 .. Len(table) : state(g) \in {"up", "terminating", "stuck", "dead"}
  BY <1>1 DEF Sidecar
<1>4. ASSUME NEW g \in 1 .. Len(table)
      PROVE  new[g] \in Sidecar /\ new[g].model = table[g].model /\ new[g].status = state(g)
  <2>1. table[g] \in Sidecar /\ state(g) \in {"up", "terminating", "stuck", "dead"}
    BY <1>1, <1>3
  <2> HIDE DEF state
  <2>2. [table[g] EXCEPT !.status = state(g)] = [model |-> table[g].model, status |-> state(g)]
    BY <2>1, EntryTyped
  <2>3. new[g] = [model |-> table[g].model, status |-> state(g)]
    BY <1>2, <2>2
  <2> QED
    BY <2>1, <2>3 DEF Sidecar
<1>5. SameShape(new, table)
  BY <1>2, <1>4, TableTyped
<1> QED
  BY <1>4, <1>5 DEF new

LEMMA SpawnedTable ==
  ASSUME NEW table \in Seq(Sidecar), NEW entry \in Sidecar
  PROVE  /\ Append(table, entry) \in Seq(Sidecar)
         /\ Len(Append(table, entry)) = Len(table) + 1
         /\ Append(table, entry)[Len(table) + 1] = entry
         /\ \A g \in 1 .. Len(table) : Append(table, entry)[g] = table[g]
BY AppendProperties

------------------------------------------------------------------------------
(***************************************************************************)
(* The queue: exactly the requests that wait for an answer and that the    *)
(* worker has not taken are in it, and none once it is closed.             *)
(***************************************************************************)
Queued ==
  /\ \A s \in Waiting : phase[s] = "QUEUED" /\ future[s] # "none"
  /\ \A s \in Slots : future[s] = "none" => phase[s] = "QUEUED" /\ tier[s] = "RECEIVED"
  /\ \A s \in Slots : future[s] = "pending" /\ phase[s] = "QUEUED" => s \in Waiting
  /\ closed => Waiting = {}

QueueStep ==
  \/ \E s \in Slots : \/ SubmitAtHead(s) \/ SubmitAtTail(s) \/ ClientLeaves(s)
                       \/ PopEvicted(s) \/ PopStart(s) \/ Promote(s)
  \/ ShutdownCloses

LEMMA QueueFrame == [Next]_vars => QueueStep \/ UNCHANGED queueVars
<1>1. Client \/ ExpiryTask \/ Clock \/ Exits => QueueStep \/ UNCHANGED queueVars
  BY DEF QueueStep, Client, Submit, SubmitRefused, ClientTimesOut, ExpiryTask, ExpiryTaskStarts,
         ExpiryTaskEnds, Clock, GraceTimerElapses, DeadlineElapses, IdleElapses, Exits, SidecarExits, StuckExits,
         taskUnchanged, clockUnchanged
<1>2. Faults => UNCHANGED queueVars
  BY DEF Faults, SidecarCrashes, SidecarSticks, AwaitRaises, Raise, FinallyRaises, ErrorTeardownRaises, ColdTeardownRaises,
         ForceColdRaises, parkUnchanged
<1>3. Shutdown => QueueStep \/ UNCHANGED queueVars
  BY DEF Shutdown, QueueStep, ShutdownStarts, ShutdownEnds, CancelProcess, CancelMatch,
         MatchCancelled, CancelFinally, CancelLoop, cancelUnchanged
<1>4. Worker => QueueStep \/ UNCHANGED queueVars
  <2>1. CASE \/ FindNothing \/ LoopExits \/ Wake \/ EvictionAudited \/ RefuseNoManifest \/ NoManifestFailed
             \/ Inherit \/ Inherited \/ StartSwap \/ Swapped \/ GatesRefuse \/ GatesRefused \/ Spawn
    BY <2>1 DEF FindNothing, LoopExits, Wake, EvictionAudited, RefuseNoManifest, NoManifestFailed, Inherit,
           Inherited, StartSwap, Swapped, GatesRefuse, GatesRefused, Spawn, pathUnchanged
  <2>2. CASE \/ ManifestRaises \/ SpawnFails \/ HealthOk \/ HealthTimesOut \/ HealthRaises \/ LoadFailAudited
             \/ LoadFailTornDown \/ Activated \/ CompleteOk \/ CompleteFails \/ GraceEntered
    BY <2>2 DEF ManifestRaises, SpawnFails, HealthOk, HealthTimesOut, HealthRaises, LoadFailAudited, LoadFailTornDown,
           Activated, CompleteOk, CompleteFails, GraceEntered, Raise, pathUnchanged
  <2>3. CASE \/ PromotionAudited \/ MatchCompletes \/ MatchExtends \/ MatchFailed \/ MatchEnded
             \/ GraceOver \/ IdleEntered \/ GraceTornDown \/ FinallyDone
             \/ ErrorTornDown \/ ColdTornDown \/ ForcedCold
    BY <2>3 DEF PromotionAudited, MatchCompletes, MatchExtends, MatchFailed, MatchEnded, GraceOver,
           IdleEntered, GraceTornDown, FinallyDone, ErrorTornDown, ColdTornDown, ForcedCold, ParkAnchor,
           pathUnchanged, parkUnchanged
  <2> QED
    BY <2>1, <2>2, <2>3 DEF Worker, QueueStep
<1>5. UNCHANGED vars => UNCHANGED queueVars
  BY DEF vars
<1> QED
  BY <1>1, <1>2, <1>3, <1>4, <1>5 DEF Next, ServeNext

LEMMA QueueKept ==
  ASSUME Typed, Queued, [Next]_vars
  PROVE  TiersSound' /\ evicted' \subseteq disconnected'
<1> TiersSound /\ evicted \subseteq disconnected
  BY DEF Typed
<1>1. ASSUME NEW s \in Slots, SubmitAtHead(s) \/ SubmitAtTail(s)
      PROVE  TiersSound' /\ evicted' \subseteq disconnected'
  <2>1. s \notin Waiting
    BY <1>1 DEF Queued, SubmitAtHead, SubmitAtTail, MayCall
  <2> QED
    BY <1>1, <2>1, EnqueueSound DEF SubmitAtHead, SubmitAtTail
<1>2. ASSUME NEW s \in Slots, PopEvicted(s) \/ PopStart(s) \/ Promote(s)
      PROVE  TiersSound' /\ evicted' \subseteq disconnected'
  BY <1>2, PopNextSound, PopMatchedSound DEF PopEvicted, PopStart, Promote
<1>3. ASSUME NEW s \in Slots, ClientLeaves(s)
      PROVE  TiersSound' /\ evicted' \subseteq disconnected'
  BY <1>3, OthersSound DEF ClientLeaves, Disconnect
<1>4. ShutdownCloses => TiersSound' /\ evicted' \subseteq disconnected'
  BY CloseSound DEF ShutdownCloses
<1>5. UNCHANGED queueVars => TiersSound' /\ evicted' \subseteq disconnected'
  BY OthersSound DEF queueVars
<1> QED
  BY <1>1, <1>2, <1>3, <1>4, <1>5, QueueFrame DEF QueueStep

------------------------------------------------------------------------------
\* The types.
Outcomes == {"ok", "failed", "evicted", "timeout", "refused", "cancelled"}

LEMMA SettleTyped ==
  ASSUME Typed, NEW S, NEW outcome \in Outcomes, Settle(S, outcome)
  PROVE  future' \in [Slots -> Outcomes \cup {"none", "pending"}]
BY DEF Typed, Settle, Outcomes

LEMMA SetPhaseTyped ==
  ASSUME Typed, NEW s, NEW state \in SlotStates, SetPhase(s, state)
  PROVE  phase' \in [Slots -> SlotStates \cup {"QUEUED"}]
BY DEF Typed, SetPhase

LEMMA ForceColdTyped ==
  ASSUME Typed, anchor \in Slots
  PROVE  ForceCold(StateOf(anchor)) = "COLD"
<1>1. StateOf(anchor) \in SlotStates
  BY DEF Typed, TiersSound, TiersTypeOK, StateOf, SlotStates
<1> QED
  BY <1>1, ForceColdParks

\* The except clause of worker_loop, and an exception on its way there.
LEMMA ErrorSettlesTo ==
  ASSUME Typed, anchor \in Slots, NEW e, NEW h, ErrorSettles(e, h)
  PROVE  /\ Settle(IF e = "error" THEN {anchor} ELSE {}, "failed")
         /\ IF e = "error" /\ h = NoHandle THEN SetPhase(anchor, "COLD") ELSE UNCHANGED phase
BY ForceColdTyped DEF ErrorSettles

LEMMA RaiseGoes ==
  ASSUME Typed, anchor \in Slots, Raise
  PROVE  \/ /\ NeedsSigterm(activeHandle, idleHandle)
            /\ wpc' = "finally_error"
            /\ sidecars' = Sigtermed(sidecars, activeHandle)
            /\ held' = NoHandle
            /\ UNCHANGED <<anchor, matched, activeHandle, phase, future>>
         \/ /\ ~NeedsSigterm(activeHandle, idleHandle)
            /\ wpc' = "force_cold"
            /\ anchor' = anchor /\ matched' = NoSlot
            /\ activeHandle' = NoHandle /\ held' = NoHandle
            /\ sidecars' = sidecars
            /\ Settle({anchor}, "failed")
            /\ SetPhase(anchor, "COLD")
BY FinallyFacts, ForceColdTyped DEF Raise, Unwind, BackToLoop, ErrorSettles, Goto, requestVars

\* The steps at which an exception escapes an await of _process_slot.
Raises == SpawnFails \/ HealthRaises \/ CompleteFails \/ AwaitRaises \/ ManifestRaises

LEMMA RaisesWhere ==
  ASSUME Typed, Hands, Raises
  PROVE  /\ Raise
         /\ wpc # "unreadable" => ~cancelling /\ ~taskCreated
         /\ anchor \in Slots
         /\ wpc \in AuditPcs \cup TeardownPcs \cup
                    {"gates", "health", "complete", "match_cancelled", "unreadable"}
         /\ faults' # faults => faults' = faults + 1 /\ faults < MaxFaults
BY DEF Hands, NoAnchorPcs, Raises, SpawnFails, HealthRaises, CompleteFails, AwaitRaises, ManifestRaises, ReadyToSpawn,
       Resume, AuditPcs, TeardownPcs, Fault

LEMMA RequestsTyped ==
  ASSUME Typed, Hands, [Next]_vars
  PROVE  /\ phase' \in [Slots -> SlotStates \cup {"QUEUED"}]
         /\ future' \in [Slots -> Outcomes \cup {"none", "pending"}]
<1> DEFINE Goal == /\ phase' \in [Slots -> SlotStates \cup {"QUEUED"}]
                   /\ future' \in [Slots -> Outcomes \cup {"none", "pending"}]
<1> /\ phase \in [Slots -> SlotStates \cup {"QUEUED"}]
    /\ future \in [Slots -> Outcomes \cup {"none", "pending"}]
    /\ {"STAGED", "LOADING", "LOADING_FAIL", "ACTIVE", "GRACE", "ACTIVE_MATCH", "POPPED", "COLD"} \subseteq SlotStates
    /\ {"failed", "ok", "evicted", "timeout", "cancelled", "refused"} \subseteq Outcomes
  BY DEF Typed, Outcomes, SlotStates
<1>1. Client => Goal
  BY SettleTyped DEF Client, Submit, SubmitAtHead, SubmitAtTail, SubmitRefused, ClientLeaves,
     ClientTimesOut, requestVars
<1>2. ExpiryTask \/ Clock \/ Exits \/ (\E h \in DOMAIN sidecars : SidecarCrashes(h) \/ SidecarSticks(h)) => Goal
  BY DEF ExpiryTask, ExpiryTaskStarts, ExpiryTaskEnds, Clock, GraceTimerElapses, DeadlineElapses,
         IdleElapses, Exits, SidecarExits, StuckExits, taskUnchanged, clockUnchanged, SidecarCrashes, SidecarSticks, requestVars
<1>3. CASE Raises
  BY <1>3, RaisesWhere, RaiseGoes, SettleTyped, SetPhaseTyped
<1>4. CASE ErrorTeardownRaises \/ ForceColdRaises \/ ForcedCold
  BY <1>4 DEF ErrorTeardownRaises, ForceColdRaises, ForcedCold, parkUnchanged
<1>5. CASE FinallyDone \/ FinallyRaises
  <2>1. PICK e, h : ErrorSettles(e, h) /\ anchor \in Slots
    BY <1>5, FinallyFacts DEF FinallyDone, FinallyRaises, Resume, Hands, NoAnchorPcs
  <2> QED
    BY <2>1, ErrorSettlesTo, SettleTyped, SetPhaseTyped
<1>6. CASE Shutdown
  BY <1>6, SettleTyped, SetPhaseTyped DEF Shutdown, ShutdownStarts, ShutdownCloses, ShutdownEnds,
     CancelProcess, CancelMatch, MatchCancelled, CancelFinally, CancelLoop, requestVars
<1>7. CASE \/ FindNothing \/ LoopExits \/ Wake \/ EvictionAudited \/ RefuseNoManifest \/ NoManifestFailed
           \/ \E s \in Slots : PopEvicted(s) \/ PopStart(s) \/ Promote(s)
  BY <1>7, SettleTyped, SetPhaseTyped DEF FindNothing, LoopExits, Wake, EvictionAudited, RefuseNoManifest,
     NoManifestFailed, PopEvicted, PopStart, Promote, requestVars
<1>8. CASE \/ Inherit \/ Inherited \/ StartSwap \/ Swapped \/ GatesRefuse \/ GatesRefused \/ Spawn
           \/ HealthOk \/ HealthTimesOut \/ LoadFailAudited \/ LoadFailTornDown \/ Activated
  BY <1>8, SettleTyped, SetPhaseTyped DEF Inherit, Inherited, StartSwap, Swapped, GatesRefuse,
     GatesRefused, Spawn, HealthOk, HealthTimesOut, LoadFailAudited, LoadFailTornDown, Activated, requestVars
<1>9. CASE \/ CompleteOk \/ GraceEntered \/ PromotionAudited \/ MatchCompletes \/ MatchExtends
           \/ MatchFailed \/ MatchEnded \/ GraceOver \/ IdleEntered \/ GraceTornDown
  BY <1>9, SettleTyped, SetPhaseTyped DEF CompleteOk, GraceEntered, PromotionAudited, MatchCompletes,
     MatchExtends, MatchFailed, MatchEnded, GraceOver, IdleEntered, GraceTornDown, requestVars
<1>10. CASE ErrorTornDown \/ ColdTornDown \/ ColdTeardownRaises
  <2>1. anchor \in Slots
    BY <1>10 DEF ErrorTornDown, ColdTornDown, ColdTeardownRaises, Resume, Hands, NoAnchorPcs
  <2> QED
    BY <1>10, <2>1, ForceColdTyped, SetPhaseTyped DEF ErrorTornDown, ColdTornDown, ColdTeardownRaises,
       ParkAnchor, parkUnchanged
<1>11. CASE UNCHANGED vars
  BY <1>11 DEF vars, requestVars
<1> QED
  BY <1>1, <1>2, <1>3, <1>4, <1>5, <1>6, <1>7, <1>8, <1>9, <1>10, <1>11
  DEF Next, ServeNext, Worker, Faults, Raises

\* A sidecar exits, told to or not, and one that was told to cannot be killed.
Dies(h) ==
  /\ sidecars' = Stamped(sidecars, h, "dead")
  /\ sidecars[h].status \in {"terminating", "stuck"} \/ faults' # 0

Sticks(h) ==
  /\ sidecars' = Stamped(sidecars, h, "stuck")
  /\ sidecars[h].status = "terminating"

\* What a step does to the table of sidecars: at most one of these.
LEMMA TableStep ==
  ASSUME Typed, Hands, [Next]_vars
  PROVE  \/ sidecars' \in {sidecars, Sigtermed(sidecars, activeHandle),
                           Sigtermed(sidecars, idleHandle), Reaped(sidecars, LiveHandles)}
         \/ \E h \in 1 .. Len(sidecars) : Dies(h) \/ Sticks(h)
         \/ Spawn
<1> DEFINE Goal == \/ sidecars' \in {sidecars, Sigtermed(sidecars, activeHandle),
                                     Sigtermed(sidecars, idleHandle), Reaped(sidecars, LiveHandles)}
                   \/ \E h \in 1 .. Len(sidecars) : Dies(h) \/ Sticks(h)
<1>1. Client => Goal
  BY DEF Client, Submit, SubmitAtHead, SubmitAtTail, SubmitRefused, ClientLeaves, ClientTimesOut,
     handleVars
<1>2. ExpiryTask \/ Clock => Goal
  BY DEF ExpiryTask, ExpiryTaskStarts, ExpiryTaskEnds, Clock, GraceTimerElapses, DeadlineElapses,
         IdleElapses
<1>3. Exits \/ (\E h \in DOMAIN sidecars : SidecarCrashes(h) \/ SidecarSticks(h)) => Goal
  <2>1. DOMAIN sidecars = 1 .. Len(sidecars)
    BY DEF Typed
  <2>2. ASSUME NEW h \in DOMAIN sidecars, SidecarExits(h) \/ StuckExits(h) \/ SidecarCrashes(h)
        PROVE  Dies(h)
    BY <2>2, ManagerAssumption DEF SidecarExits, StuckExits, SidecarCrashes, Stamped, Dies, Fault, Typed
  <2>3. \A h \in DOMAIN sidecars : SidecarSticks(h) => Sticks(h)
    BY DEF SidecarSticks, Sticks, Stamped
  <2> QED
    BY <2>1, <2>2, <2>3 DEF Exits
<1>4. CASE Raises
  BY <1>4, RaisesWhere, RaiseGoes
<1>5. ErrorTeardownRaises \/ ColdTeardownRaises \/ ForceColdRaises \/ ForcedCold \/ ErrorTornDown \/ ColdTornDown => Goal
  BY DEF ErrorTeardownRaises, ColdTeardownRaises, ForceColdRaises, ForcedCold, ErrorTornDown, ColdTornDown, ParkAnchor
<1>6. FinallyDone \/ FinallyRaises => Goal
  BY DEF FinallyDone, FinallyRaises, BackToLoop, NoHandle
<1>7. Shutdown => Goal
  BY DEF Shutdown, ShutdownStarts, ShutdownCloses, ShutdownEnds, CancelProcess, CancelMatch,
         MatchCancelled, CancelFinally, CancelLoop, Unwind, BackToLoop, NoHandle, handleVars
<1>8. \/ FindNothing \/ LoopExits \/ Wake \/ EvictionAudited \/ RefuseNoManifest \/ NoManifestFailed
      \/ \E s \in Slots : PopEvicted(s) \/ PopStart(s) \/ Promote(s)
      => Goal
  BY DEF FindNothing, LoopExits, Wake, EvictionAudited, RefuseNoManifest, NoManifestFailed, PopEvicted, PopStart,
         Promote, Unwind, BackToLoop, NoHandle, loopUnchanged, handleVars, graceUnchanged
<1>9. \/ Inherit \/ Inherited \/ StartSwap \/ Swapped \/ GatesRefuse \/ GatesRefused
      \/ HealthOk \/ HealthTimesOut \/ LoadFailAudited \/ LoadFailTornDown \/ Activated
      => Goal
  BY DEF Inherit, Inherited, StartSwap, Swapped, GatesRefuse, GatesRefused, HealthOk, HealthTimesOut,
         LoadFailAudited, LoadFailTornDown, Activated, Unwind, BackToLoop, NoHandle
<1>10. \/ CompleteOk \/ GraceEntered \/ PromotionAudited \/ MatchCompletes \/ MatchExtends
       \/ MatchFailed \/ MatchEnded \/ GraceOver \/ IdleEntered \/ GraceTornDown
       => Goal
  BY DEF CompleteOk, GraceEntered, PromotionAudited, MatchCompletes, MatchExtends, MatchFailed,
         MatchEnded, GraceOver, IdleEntered, GraceTornDown, Unwind, BackToLoop, NoHandle, handleVars,
         graceUnchanged
<1>11. UNCHANGED vars => Goal
  BY DEF vars, handleVars
<1> QED
  BY <1>1, <1>2, <1>3, <1>4, <1>5, <1>6, <1>7, <1>8, <1>9, <1>10, <1>11
  DEF Next, ServeNext, Worker, Faults, Raises

\* The statuses in each of those tables.
LEMMA Tables ==
  ASSUME Typed
  PROVE  /\ \A g \in 1 .. Len(sidecars) :
              /\ sidecars[g].model \in {Model[s] : s \in Slots}
              /\ sidecars[g].status \in {"up", "terminating", "stuck", "dead"}
         /\ SameShape(sidecars, sidecars)
         /\ SameShape(Sigtermed(sidecars, activeHandle), sidecars)
         /\ SameShape(Sigtermed(sidecars, idleHandle), sidecars)
         /\ SameShape(Reaped(sidecars, LiveHandles), sidecars)
         /\ \A g \in 1 .. Len(sidecars) :
              /\ Sigtermed(sidecars, activeHandle)[g].status =
                   IF g = activeHandle /\ sidecars[g].status = "up" THEN "terminating"
                   ELSE sidecars[g].status
              /\ Sigtermed(sidecars, idleHandle)[g].status =
                   IF g = idleHandle /\ sidecars[g].status = "up" THEN "terminating"
                   ELSE sidecars[g].status
              /\ Reaped(sidecars, LiveHandles)[g].status =
                   IF ManagerIsInit /\ sidecars[g].status # "stuck" THEN "dead"
                   ELSE IF sidecars[g].status = "up" /\ g \notin {activeHandle, idleHandle}
                        THEN "terminating" ELSE sidecars[g].status
<1>1. /\ sidecars \in Seq(Sidecar) /\ activeHandle \in 0 .. Len(sidecars)
      /\ idleHandle \in 0 .. Len(sidecars)
  BY DEF Typed
<1>2. \A g \in 1 .. Len(sidecars) :
        /\ sidecars[g].model \in {Model[s] : s \in Slots}
        /\ sidecars[g].status \in {"up", "terminating", "stuck", "dead"}
  <2>1. \A g \in 1 .. Len(sidecars) : sidecars[g] \in Sidecar
    BY <1>1, ElementOfSeq
  <2> QED
    BY <2>1 DEF Sidecar
<1>3. \A g \in 1 .. Len(sidecars) :
        sidecars[g].status = "up" => (g \in LiveHandles <=> g \in {activeHandle, idleHandle})
  BY <1>1 DEF LiveHandles, Alive, NoHandle
<1>4. /\ SameShape(Sigtermed(sidecars, activeHandle), sidecars)
      /\ \A g \in 1 .. Len(sidecars) :
           Sigtermed(sidecars, activeHandle)[g].status =
             IF g = activeHandle /\ sidecars[g].status = "up" THEN "terminating"
             ELSE sidecars[g].status
  BY <1>1, SigtermedTable
<1>5. /\ SameShape(Sigtermed(sidecars, idleHandle), sidecars)
      /\ \A g \in 1 .. Len(sidecars) :
           Sigtermed(sidecars, idleHandle)[g].status =
             IF g = idleHandle /\ sidecars[g].status = "up" THEN "terminating"
             ELSE sidecars[g].status
  BY <1>1, SigtermedTable
<1>6. /\ SameShape(Reaped(sidecars, LiveHandles), sidecars)
      /\ \A g \in 1 .. Len(sidecars) :
           Reaped(sidecars, LiveHandles)[g].status =
             IF ManagerIsInit /\ sidecars[g].status # "stuck" THEN "dead"
             ELSE IF sidecars[g].status = "up" /\ g \notin LiveHandles THEN "terminating"
             ELSE sidecars[g].status
  BY <1>1, ReapedTable
<1>7. \A g \in 1 .. Len(sidecars) :
        Reaped(sidecars, LiveHandles)[g].status =
          IF ManagerIsInit /\ sidecars[g].status # "stuck" THEN "dead"
          ELSE IF sidecars[g].status = "up" /\ g \notin {activeHandle, idleHandle}
               THEN "terminating" ELSE sidecars[g].status
  BY <1>3, <1>6
<1>8. SameShape(sidecars, sidecars)
  BY <1>1 DEF SameShape
<1> QED
  BY <1>2, <1>4, <1>5, <1>6, <1>7, <1>8

LEMMA SpawnFacts ==
  ASSUME Typed, Hands, Spawn
  PROVE  /\ sidecars' \in Seq(Sidecar)
         /\ Len(sidecars') = Len(sidecars) + 1
         /\ activeHandle' = Len(sidecars) + 1
         /\ sidecars'[Len(sidecars) + 1].model = Model[anchor]
         /\ sidecars'[Len(sidecars) + 1].status = "up"
         /\ \A g \in 1 .. Len(sidecars) : sidecars'[g] = sidecars[g]
<1> DEFINE entry == [model |-> Model[anchor], status |-> "up"]
<1>1. anchor \in Slots
  BY DEF Spawn, ReadyToSpawn, Resume, Hands, NoAnchorPcs
<1>2. entry \in Sidecar
  BY <1>1 DEF Sidecar
<1>3. entry.model = Model[anchor] /\ entry.status = "up"
  OBVIOUS
<1>4. sidecars' = Append(sidecars, entry) /\ activeHandle' = Len(sidecars')
  BY DEF Spawn
<1> HIDE DEF entry
<1> QED
  BY <1>2, <1>3, <1>4, SpawnedTable DEF Typed

\* No step forgets a sidecar or changes its model.
LEMMA TableGrows ==
  ASSUME Typed, Hands, [Next]_vars
  PROVE  /\ sidecars' \in Seq(Sidecar)
         /\ Len(sidecars') \in {Len(sidecars), Len(sidecars) + 1}
         /\ Len(sidecars') # Len(sidecars) => Spawn
         /\ \A g \in 1 .. Len(sidecars) : sidecars'[g].model = sidecars[g].model
<1>1. CASE sidecars' \in {sidecars, Sigtermed(sidecars, activeHandle),
                          Sigtermed(sidecars, idleHandle), Reaped(sidecars, LiveHandles)}
  BY <1>1, Tables DEF SameShape
<1>2. CASE \E h \in 1 .. Len(sidecars) : Dies(h) \/ Sticks(h)
  <2>1. PICK h \in 1 .. Len(sidecars), state \in {"stuck", "dead"} : sidecars' = Stamped(sidecars, h, state)
    BY <1>2 DEF Dies, Sticks
  <2> QED
    BY <2>1, StampedTable DEF SameShape, Typed
<1>3. CASE Spawn
  BY <1>3, SpawnFacts DEF Typed
<1> QED
  BY <1>1, <1>2, <1>3, TableStep

\* The awaits, one by one.
LEMMA PcsAre ==
  WorkerPcs = {"no_manifest", "no_manifest_fail", "staged", "inherit", "gates", "gates_refused",
               "load_fail", "active", "grace_enter", "promoted", "match_grace", "match_failed",
               "match_popped", "idle_enter", "swap", "load_fail_teardown", "grace_teardown",
               "health", "complete", "grace", "nap", "evict", "error_teardown", "cold_teardown",
               "force_cold", "finally", "finally_error", "finally_cancel", "idle",
               "match_complete", "match_cancelled", "done", "crashed", "unreadable"}
BY FinallyFacts DEF WorkerPcs, ProcessPcs, AuditPcs, TeardownPcs, LoopPcs

\* Where each variable that is not a table may go in a step.
LEMMA Moves ==
  ASSUME Typed, Hands, [Next]_vars
  PROVE  /\ wpc' \in WorkerPcs
         /\ anchor' \in Slots \cup {NoSlot} /\ matched' \in Slots \cup {NoSlot}
         /\ activeHandle' \in {activeHandle, idleHandle, NoHandle} \/ Spawn
         /\ idleHandle' \in {activeHandle, idleHandle, NoHandle}
         /\ held' \in {held, idleHandle, NoHandle}
         /\ detached' \subseteq detached \cup ({idleHandle} \ {NoHandle})
<1> DEFINE Goal == /\ wpc' \in WorkerPcs
                   /\ anchor' \in Slots \cup {NoSlot} /\ matched' \in Slots \cup {NoSlot}
                   /\ activeHandle' \in {activeHandle, idleHandle, NoHandle} \/ Spawn
                   /\ idleHandle' \in {activeHandle, idleHandle, NoHandle}
                   /\ held' \in {held, idleHandle, NoHandle}
                   /\ detached' \subseteq detached \cup ({idleHandle} \ {NoHandle})
<1> /\ wpc \in WorkerPcs
    /\ anchor \in Slots \cup {NoSlot} /\ matched \in Slots \cup {NoSlot}
  BY DEF Typed
<1> USE PcsAre, FinallyFacts DEF Goto, requestVars, workerVars, idleVars, handleVars, pathUnchanged,
        loopUnchanged, graceUnchanged, parkUnchanged
<1>1. Client => Goal
  BY DEF Client, Submit, SubmitAtHead, SubmitAtTail, SubmitRefused, ClientLeaves, ClientTimesOut
<1>2. ExpiryTask \/ Clock \/ Exits \/ (\E h \in DOMAIN sidecars : SidecarCrashes(h) \/ SidecarSticks(h)) => Goal
  BY DEF ExpiryTask, ExpiryTaskStarts, ExpiryTaskEnds, Clock, GraceTimerElapses, DeadlineElapses,
         IdleElapses, Exits, SidecarExits, StuckExits, taskUnchanged, clockUnchanged, SidecarCrashes, SidecarSticks, ClearIdle
<1>3. Raises => Goal
  <2>1. Raise => Goal
    BY DEF Raise, Unwind, BackToLoop
  <2> QED
    BY <2>1, RaisesWhere
<1>4. ErrorTeardownRaises \/ ColdTeardownRaises \/ ForceColdRaises \/ ForcedCold \/ ErrorTornDown \/ ColdTornDown => Goal
  BY DEF ErrorTeardownRaises, ColdTeardownRaises, ForceColdRaises, ForcedCold, ErrorTornDown, ColdTornDown, ParkAnchor
<1>5. FinallyDone \/ FinallyRaises => Goal
  BY DEF FinallyDone, FinallyRaises, BackToLoop
<1>6. Shutdown => Goal
  BY DEF Shutdown, ShutdownStarts, ShutdownCloses, ShutdownEnds, CancelProcess, CancelMatch,
     MatchCancelled, CancelFinally, CancelLoop, cancelUnchanged, Unwind, BackToLoop, ClearIdle
<1>7. \/ FindNothing \/ LoopExits \/ Wake \/ EvictionAudited \/ RefuseNoManifest \/ NoManifestFailed
      \/ \E s \in Slots : PopEvicted(s) \/ PopStart(s) \/ Promote(s)
      => Goal
  BY DEF FindNothing, LoopExits, Wake, EvictionAudited, RefuseNoManifest, NoManifestFailed, PopEvicted,
     PopStart, Promote, Unwind, BackToLoop
<1>8. \/ Inherit \/ Inherited \/ StartSwap \/ Swapped \/ GatesRefuse \/ GatesRefused \/ Spawn
      \/ HealthOk \/ HealthTimesOut \/ LoadFailAudited \/ LoadFailTornDown \/ Activated
      => Goal
  BY DEF Inherit, Inherited, StartSwap, Swapped, GatesRefuse, GatesRefused, Spawn, HealthOk,
     HealthTimesOut, LoadFailAudited, LoadFailTornDown, Activated, Unwind, BackToLoop, ClearIdle
<1>9. \/ CompleteOk \/ GraceEntered \/ PromotionAudited \/ MatchCompletes \/ MatchExtends
      \/ MatchFailed \/ MatchEnded \/ GraceOver \/ IdleEntered \/ GraceTornDown
      => Goal
  BY DEF CompleteOk, GraceEntered, PromotionAudited, MatchCompletes, MatchExtends, MatchFailed,
     MatchEnded, GraceOver, IdleEntered, GraceTornDown, Unwind, BackToLoop
<1>10. UNCHANGED vars => Goal
  BY DEF vars
<1> QED
  BY <1>1, <1>2, <1>3, <1>4, <1>5, <1>6, <1>7, <1>8, <1>9, <1>10
  DEF Next, ServeNext, Worker, Faults, Raises

\* And where each flag, clock and counter may go.
LEMMA FlagsTyped ==
  ASSUME Typed, Hands, [Next]_vars
  PROVE  /\ graceCount' \in 0 .. MaxExtensions
         /\ idleExpires' \in {"unset", "running", "past"}
         /\ faults' \in 0 .. MaxFaults
         /\ taskCreated' \in BOOLEAN /\ stop' \in BOOLEAN /\ cancelling' \in BOOLEAN
         /\ shut' \in {"running", "stopping", "closing", "stopped"}
<1> DEFINE Goal == /\ graceCount' \in 0 .. MaxExtensions
                   /\ idleExpires' \in {"unset", "running", "past"}
                   /\ faults' \in 0 .. MaxFaults
                   /\ taskCreated' \in BOOLEAN /\ stop' \in BOOLEAN /\ cancelling' \in BOOLEAN
                   /\ shut' \in {"running", "stopping", "closing", "stopped"}
<1> /\ graceCount \in 0 .. MaxExtensions
    /\ idleExpires \in {"unset", "running", "past"}
    /\ faults \in 0 .. MaxFaults
    /\ taskCreated \in BOOLEAN /\ stop \in BOOLEAN /\ cancelling \in BOOLEAN
    /\ shut \in {"running", "stopping", "closing", "stopped"}
    /\ MaxExtensions \in Nat /\ MaxFaults \in Nat
  BY GraceAssumption, ManagerAssumption DEF Typed
<1>0. GraceRestart \/ (\E k : GraceStart(k)) \/ GraceElapses \/ UNCHANGED graceVars
        => graceCount' \in 0 .. MaxExtensions
  BY DEF GraceRestart, GraceMayExtend, GraceStart, GraceElapses, graceVars
<1> USE <1>0 DEF idleVars, handleVars, stopVars, pathUnchanged, loopUnchanged, graceUnchanged,
        parkUnchanged, cancelUnchanged, taskUnchanged, clockUnchanged, Fault
<1>1. Client => Goal
  BY DEF Client, Submit, SubmitAtHead, SubmitAtTail, SubmitRefused, ClientLeaves, ClientTimesOut
<1>2. ExpiryTask \/ Clock => Goal
  BY DEF ExpiryTask, ExpiryTaskStarts, ExpiryTaskEnds, Clock, GraceTimerElapses, DeadlineElapses,
         IdleElapses, ClearIdle
<1>11. Exits \/ (\E h \in DOMAIN sidecars : SidecarCrashes(h) \/ SidecarSticks(h)) => Goal
  BY DEF Exits, SidecarExits, StuckExits, SidecarCrashes, SidecarSticks
<1>3. Raises => Goal
  BY DEF Raises, SpawnFails, HealthRaises, CompleteFails, AwaitRaises, ManifestRaises, Raise
<1>4. ErrorTeardownRaises \/ ColdTeardownRaises \/ ForceColdRaises \/ ForcedCold \/ ErrorTornDown \/ ColdTornDown => Goal
  BY DEF ErrorTeardownRaises, ColdTeardownRaises, ForceColdRaises, ForcedCold, ErrorTornDown, ColdTornDown, ParkAnchor
<1>5. FinallyDone \/ FinallyRaises => Goal
  BY DEF FinallyDone, FinallyRaises
<1>6. Shutdown => Goal
  BY DEF Shutdown, ShutdownStarts, ShutdownCloses, ShutdownEnds, CancelProcess, CancelMatch,
     MatchCancelled, CancelFinally, CancelLoop, Cancelled, WorkerEnded, ClearIdle
<1>7. \/ FindNothing \/ LoopExits \/ Wake \/ EvictionAudited \/ RefuseNoManifest \/ NoManifestFailed
      \/ \E s \in Slots : PopEvicted(s) \/ PopStart(s) \/ Promote(s)
      => Goal
  BY DEF FindNothing, LoopExits, Wake, EvictionAudited, RefuseNoManifest, NoManifestFailed, PopEvicted,
     PopStart, Promote, ExpireIdleHolder
<1>8. \/ Inherit \/ Inherited \/ StartSwap \/ Swapped \/ GatesRefuse \/ GatesRefused \/ Spawn
      \/ HealthOk \/ HealthTimesOut \/ LoadFailAudited \/ LoadFailTornDown \/ Activated
      => Goal
  BY DEF Inherit, Inherited, StartSwap, Swapped, GatesRefuse, GatesRefused, Spawn, HealthOk,
     HealthTimesOut, LoadFailAudited, LoadFailTornDown, Activated, ClearIdle
<1>9. \/ CompleteOk \/ GraceEntered \/ PromotionAudited \/ MatchCompletes \/ MatchExtends
      \/ MatchFailed \/ MatchEnded \/ GraceOver \/ IdleEntered \/ GraceTornDown
      => Goal
  BY DEF CompleteOk, GraceEntered, PromotionAudited, MatchCompletes, MatchExtends, MatchFailed,
     MatchEnded, GraceOver, IdleEntered, GraceTornDown
<1>10. UNCHANGED vars => Goal
  BY DEF vars
<1> QED
  BY <1>1, <1>2, <1>3, <1>4, <1>5, <1>6, <1>7, <1>8, <1>9, <1>10, <1>11
  DEF Next, ServeNext, Worker, Faults, Raises

LEMMA TypedKept ==
  ASSUME Typed, Hands, Queued, [Next]_vars
  PROVE  Typed'
<1>1. /\ sidecars' \in Seq(Sidecar)
      /\ Len(sidecars') \in {Len(sidecars), Len(sidecars) + 1}
      /\ Len(sidecars) \in Nat
  BY TableGrows DEF Typed
<1>2. /\ activeHandle' \in 0 .. Len(sidecars') /\ idleHandle' \in 0 .. Len(sidecars')
      /\ held' \in 0 .. Len(sidecars') /\ detached' \subseteq 1 .. Len(sidecars')
  <2>1. /\ activeHandle \in 0 .. Len(sidecars) /\ idleHandle \in 0 .. Len(sidecars)
        /\ held \in 0 .. Len(sidecars) /\ detached \subseteq 1 .. Len(sidecars)
    BY DEF Typed
  <2>2. Spawn => activeHandle' = Len(sidecars) + 1 /\ Len(sidecars') = Len(sidecars) + 1
    BY SpawnFacts
  <2>3. \A h \in 0 .. Len(sidecars) : h \in 0 .. Len(sidecars') /\ (h # 0 => h \in 1 .. Len(sidecars'))
    BY <1>1
  <2>4. activeHandle' \in 0 .. Len(sidecars')
    BY <1>1, <2>1, <2>2, <2>3, Moves DEF NoHandle
  <2>5. idleHandle' \in 0 .. Len(sidecars') /\ held' \in 0 .. Len(sidecars')
    BY <1>1, <2>1, <2>3, Moves DEF NoHandle
  <2>6. detached' \subseteq 1 .. Len(sidecars')
    <3>1. detached' \subseteq detached \cup ({idleHandle} \ {0})
      BY Moves DEF NoHandle
    <3>2. \A h \in 1 .. Len(sidecars) : h \in 1 .. Len(sidecars')
      BY <1>1
    <3>3. idleHandle = 0 \/ idleHandle \in 1 .. Len(sidecars)
      BY <1>1, <2>1
    <3> QED
      BY <2>1, <3>1, <3>2, <3>3
  <2> QED
    BY <2>4, <2>5, <2>6
<1>3. /\ phase' \in [Slots -> SlotStates \cup {"QUEUED"}]
      /\ future' \in [Slots -> Outcomes \cup {"none", "pending"}]
  BY RequestsTyped
<1>4. Outcomes \cup {"none", "pending"} = {"none", "pending", "ok", "failed", "evicted", "timeout",
                                           "refused", "cancelled"}
  BY DEF Outcomes
<1> QED
  BY <1>1, <1>2, <1>3, <1>4, Moves, FlagsTyped, QueueKept DEF Typed

------------------------------------------------------------------------------
GracePcs == {"grace_enter", "grace"} \cup MatchPcs

\* What the worker has written of the requests in its hands, by its await.
PhaseAt ==
  /\ wpc = "unreadable" => phase[anchor] = "STAGED"
  /\ wpc \in {"no_manifest", "staged", "swap", "gates", "inherit", "health"} => phase[anchor] = "LOADING"
  /\ wpc \in {"no_manifest_fail", "gates_refused", "load_fail"} => phase[anchor] = "LOADING_FAIL"
  /\ wpc \in {"active", "complete"} => phase[anchor] = "ACTIVE"
  /\ wpc \in GracePcs => phase[anchor] = "GRACE"
  /\ wpc \in {"load_fail_teardown", "grace_teardown", "idle_enter"} => phase[anchor] = "POPPED"
  /\ wpc = "force_cold" => phase[anchor] = "COLD"
  /\ wpc = "promoted" => phase[matched] = "ACTIVE_MATCH"
  /\ wpc = "match_complete" => phase[matched] = "ACTIVE"
  /\ wpc \in {"match_grace", "match_failed"} => phase[matched] = "GRACE"
  /\ wpc = "match_popped" => phase[matched] = "POPPED"
  /\ anchor \in Slots => phase[anchor] # "QUEUED"
  /\ matched \in Slots => phase[matched] # "QUEUED" /\ matched # anchor

LEMMA PhaseAtKept ==
  ASSUME Typed, Hands, Queued, PhaseAt, [Next]_vars
  PROVE  PhaseAt'
<1> DOMAIN phase = Slots
  BY DEF Typed
<1> USE FinallyFacts, ManagerAssumption DEF PhaseAt, GracePcs, MatchPcs, NoAnchorPcs, Resume, Goto, SetPhase
<1>1. CASE Bystander
  BY <1>1, BystanderKeeps
<1>2. CASE Raises
  <2>1. anchor \in Slots /\ Raise
    BY <1>2, RaisesWhere
  <2> QED
    BY <2>1, RaiseGoes
<1>3. CASE \E s \in Slots : PopStart(s)
  BY <1>3 DEF PopStart, Hands
<1>4. CASE \E s \in Slots : Promote(s)
  <2>1. PICK s \in Slots : Promote(s)
    BY <1>4
  <2>2. phase[s] = "QUEUED"
    BY <2>1, PopMatchedSound DEF Typed, Queued, Promote
  <2> QED
    BY <2>1, <2>2 DEF Promote, Hands
<1>5. CASE FindNothing \/ LoopExits \/ Wake \/ EvictionAudited \/ (\E s \in Slots : PopEvicted(s))
  BY <1>5 DEF FindNothing, LoopExits, Wake, EvictionAudited, PopEvicted, loopUnchanged, Hands
<1>6. CASE RefuseNoManifest \/ Inherit \/ Inherited \/ StartSwap \/ Swapped \/ GatesRefuse
           \/ Spawn \/ HealthOk \/ HealthTimesOut \/ LoadFailAudited \/ Activated \/ CompleteOk
           \/ GraceEntered
  BY <1>6 DEF RefuseNoManifest, Inherit, Inherited, StartSwap, Swapped, GatesRefuse, ReadyToSpawn,
     Spawn, HealthOk, HealthTimesOut, LoadFailAudited, Activated, CompleteOk, GraceEntered,
     requestVars, Hands
<1>7. CASE PromotionAudited \/ MatchCompletes \/ MatchExtends \/ MatchFailed \/ MatchEnded \/ GraceOver
  BY <1>7 DEF PromotionAudited, MatchCompletes, MatchExtends, MatchFailed, MatchEnded, GraceOver,
     requestVars, Hands
<1>8. CASE NoManifestFailed \/ GatesRefused \/ IdleEntered \/ LoadFailTornDown \/ GraceTornDown
  BY <1>8 DEF NoManifestFailed, GatesRefused, IdleEntered, LoadFailTornDown, GraceTornDown, Unwind,
     BackToLoop, requestVars, Hands
<1>9. CASE FinallyDone \/ FinallyRaises
  <2>1. anchor \in Slots
    BY <1>9 DEF FinallyDone, FinallyRaises, Hands
  <2>2. PICK e \in DOMAIN FinallyPc, h \in {activeHandle, NoHandle} :
          /\ BackToLoop(e, h, sidecars)
          /\ ErrorSettles(e, h)
    BY <1>9 DEF FinallyDone, FinallyRaises
  <2>3. IF e = "error" /\ h = NoHandle THEN SetPhase(anchor, "COLD") ELSE UNCHANGED phase
    BY <2>1, <2>2, ErrorSettlesTo
  <2> QED
    BY <2>1, <2>2, <2>3 DEF BackToLoop, Hands
<1>10. CASE ErrorTornDown \/ ColdTornDown \/ ForcedCold \/ ErrorTeardownRaises \/ ColdTeardownRaises \/ ForceColdRaises
  BY <1>10, ForceColdTyped DEF ErrorTornDown, ColdTornDown, ForcedCold, ParkAnchor,
     ErrorTeardownRaises, ColdTeardownRaises, ForceColdRaises, Hands
<1>11. CASE CancelProcess \/ CancelMatch \/ MatchCancelled \/ CancelFinally \/ CancelLoop
  BY <1>11 DEF CancelProcess, CancelMatch, MatchCancelled, CancelFinally, CancelLoop, Unwind,
     BackToLoop, ProcessPcs, AuditPcs, TeardownPcs, LoopPcs, requestVars, Hands
<1> QED
  BY <1>1, <1>2, <1>3, <1>4, <1>5, <1>6, <1>7, <1>8, <1>9, <1>10, <1>11, StepKinds
  DEF WorkerStep, Worker, Raises

------------------------------------------------------------------------------
\* What a step does to the futures: nothing, or one of these.
Accepted(s) == future[s] = "none" /\ future' = [future EXCEPT ![s] = "pending"]
Refused(s)  == future[s] = "none" /\ future' = [future EXCEPT ![s] = "refused"]

\* The request whose sidecar call has just come back.
Served == IF wpc = "complete" THEN anchor ELSE matched

LEMMA FutureMoves ==
  ASSUME Typed, Hands, PhaseAt, [Next]_vars
  PROVE  \/ UNCHANGED future
         \/ \E s \in Slots : (SubmitAtHead(s) \/ SubmitAtTail(s)) /\ Accepted(s)
         \/ \E s \in Slots : SubmitRefused(s) /\ Refused(s)
         \/ \E outcome \in Outcomes \ {"ok"} : \E S \in SUBSET Slots : Settle(S, outcome)
         \/ /\ wpc \in {"complete", "match_complete"}
            /\ Served \in Slots
            /\ phase[Served] = "ACTIVE"
            /\ Settle({Served}, "ok")
<1> DEFINE Goal == \/ UNCHANGED future
                   \/ \E s \in Slots : (SubmitAtHead(s) \/ SubmitAtTail(s)) /\ Accepted(s)
                   \/ \E s \in Slots : SubmitRefused(s) /\ Refused(s)
                   \/ \E outcome \in Outcomes \ {"ok"} : \E S \in SUBSET Slots : Settle(S, outcome)
                   \/ /\ wpc \in {"complete", "match_complete"}
                      /\ Served \in Slots
                      /\ phase[Served] = "ACTIVE"
                      /\ Settle({Served}, "ok")
<1> {"failed", "evicted", "timeout", "cancelled"} \subseteq Outcomes \ {"ok"}
  BY DEF Outcomes
<1>1. ASSUME NEW s \in Slots, Submit(s) \/ ClientLeaves(s) \/ ClientTimesOut(s) PROVE Goal
  BY <1>1 DEF Submit, SubmitAtHead, SubmitAtTail, SubmitRefused, MayCall, Accepted, Refused,
     ClientLeaves, ClientTimesOut, requestVars
<1>2. ExpiryTask \/ Clock \/ Exits \/ (\E h \in DOMAIN sidecars : SidecarCrashes(h) \/ SidecarSticks(h)) => Goal
  BY DEF ExpiryTask, ExpiryTaskStarts, ExpiryTaskEnds, Clock, GraceTimerElapses, DeadlineElapses,
         IdleElapses, Exits, SidecarExits, StuckExits, taskUnchanged, clockUnchanged, SidecarCrashes, SidecarSticks, requestVars
<1>3. CASE Raises
  BY <1>3, RaisesWhere, RaiseGoes
<1>4. ErrorTeardownRaises \/ ColdTeardownRaises \/ ForceColdRaises \/ ForcedCold \/ ErrorTornDown \/ ColdTornDown => Goal
  BY DEF ErrorTeardownRaises, ColdTeardownRaises, ForceColdRaises, ForcedCold, ErrorTornDown, ColdTornDown, ParkAnchor,
         parkUnchanged
<1>5. CASE FinallyDone \/ FinallyRaises
  <2>1. PICK e, h : ErrorSettles(e, h) /\ anchor \in Slots
    BY <1>5, FinallyFacts DEF FinallyDone, FinallyRaises, Resume, Hands, NoAnchorPcs
  <2>2. (IF e = "error" THEN {anchor} ELSE {}) \in SUBSET Slots
    BY <2>1
  <2> QED
    BY <2>1, <2>2, ErrorSettlesTo
<1>6. CASE Shutdown
  <2>1. Staged \cup Buffered \subseteq Slots
    BY LineParts, LineTyped DEF Typed, TiersSound, LineOK, Waiting, ToSet
  <2> HIDE DEF Goal
  <2>2. ShutdownCloses => Goal
    BY <2>1 DEF ShutdownCloses, Goal
  <2>3. CancelMatch => Goal
    BY DEF CancelMatch, Hands, MatchPcs, Goal
  <2>4. Shutdown => UNCHANGED future \/ ShutdownCloses \/ CancelMatch
    BY DEF Shutdown, ShutdownStarts, ShutdownEnds, CancelProcess, MatchCancelled, CancelFinally,
       CancelLoop, requestVars
  <2> QED
    BY <1>6, <2>2, <2>3, <2>4 DEF Goal
<1>7. \/ FindNothing \/ LoopExits \/ Wake \/ EvictionAudited \/ RefuseNoManifest
      \/ \E s \in Slots : PopEvicted(s) \/ PopStart(s) \/ Promote(s)
      => Goal
  BY DEF FindNothing, LoopExits, Wake, EvictionAudited, RefuseNoManifest, PopEvicted, PopStart, Promote,
     requestVars
<1>8. \/ NoManifestFailed \/ Inherit \/ Inherited \/ StartSwap \/ Swapped \/ GatesRefuse
      \/ GatesRefused \/ Spawn \/ HealthOk \/ HealthTimesOut \/ LoadFailAudited
      \/ LoadFailTornDown \/ Activated
      => Goal
  BY DEF NoManifestFailed, Inherit, Inherited, StartSwap, Swapped, GatesRefuse, GatesRefused, Spawn,
     HealthOk, HealthTimesOut, LoadFailAudited, LoadFailTornDown, Activated, requestVars, Resume,
     Hands, NoAnchorPcs
<1>9. CompleteOk \/ MatchCompletes => Goal
  BY DEF CompleteOk, MatchCompletes, Served, Resume, Hands, NoAnchorPcs, MatchPcs, PhaseAt
<1>10. \/ GraceEntered \/ PromotionAudited \/ MatchExtends
       \/ MatchFailed \/ MatchEnded \/ GraceOver \/ IdleEntered \/ GraceTornDown
       => Goal
  BY DEF GraceEntered, PromotionAudited, MatchExtends, MatchFailed, MatchEnded, GraceOver,
     IdleEntered, GraceTornDown, requestVars
<1>11. UNCHANGED vars => Goal
  BY DEF vars, requestVars
<1> QED
  BY <1>1, <1>2, <1>3, <1>4, <1>5, <1>6, <1>7, <1>8, <1>9, <1>10, <1>11
  DEF Next, ServeNext, Client, Worker, Faults, Raises

\* No step makes a request pend again, or takes an answer back.
LEMMA FuturesGrow ==
  ASSUME Typed, Hands, PhaseAt, [Next]_vars, NEW s \in Slots
  PROVE  /\ future[s] \notin {"none", "pending"} => future'[s] = future[s]
         /\ future[s] # "none" => future'[s] # "none"
<1>1. future \in [Slots -> Outcomes \cup {"none", "pending"}]
  BY DEF Typed, Outcomes
<1> QED
  BY <1>1, FutureMoves DEF Settle, Accepted, Refused, Outcomes

\* Requests the worker has settled, by its await.
SettledAt ==
  /\ wpc \in GracePcs \cup {"grace_teardown", "idle_enter", "finally", "error_teardown",
                            "cold_teardown", "force_cold"} => future[anchor] # "pending"
  /\ wpc \in {"match_grace", "match_failed", "match_popped", "match_cancelled"}
       => future[matched] # "pending"

LEMMA SettledAtKept ==
  ASSUME Typed, Hands, Queued, PhaseAt, SettledAt, [Next]_vars
  PROVE  SettledAt'
<1>1. /\ DOMAIN future = Slots
      /\ anchor \in Slots => future[anchor] # "none"
      /\ matched \in Slots => future[matched] # "none"
      /\ \A s \in Slots : future[s] # "none" /\ future[s] # "pending" => future'[s] # "pending"
  BY FuturesGrow DEF Typed, Queued, PhaseAt
<1>2. /\ anchor \in Slots /\ future[anchor] # "pending" => future'[anchor] # "pending"
      /\ matched \in Slots /\ future[matched] # "pending" => future'[matched] # "pending"
      /\ \A S, outcome : Settle(S, outcome) /\ outcome # "pending" =>
           \A s \in S \cap Slots : future'[s] # "pending"
  BY <1>1 DEF Settle
<1> USE <1>2, FinallyFacts, ManagerAssumption DEF SettledAt, GracePcs, MatchPcs, NoAnchorPcs, Resume, Goto, Hands
<1>3. CASE Bystander
  BY <1>3, BystanderKeeps
<1>4. CASE Raises
  <2>1. anchor \in Slots /\ Raise
    BY <1>4, RaisesWhere
  <2> QED
    BY <2>1, RaiseGoes
<1>5. CASE FindNothing \/ LoopExits \/ Wake \/ EvictionAudited \/ (\E s \in Slots : PopEvicted(s) \/ PopStart(s))
  BY <1>5 DEF FindNothing, LoopExits, Wake, EvictionAudited, PopEvicted, PopStart
<1>6. CASE RefuseNoManifest \/ Inherit \/ Inherited \/ StartSwap \/ Swapped \/ GatesRefuse
           \/ Spawn \/ HealthOk \/ HealthTimesOut \/ LoadFailAudited \/ Activated \/ CompleteOk
           \/ GraceEntered
  BY <1>6 DEF RefuseNoManifest, Inherit, Inherited, StartSwap, Swapped, GatesRefuse, ReadyToSpawn,
     Spawn, HealthOk, HealthTimesOut, LoadFailAudited, Activated, CompleteOk, GraceEntered
<1>7. CASE PromotionAudited \/ MatchCompletes \/ MatchExtends \/ MatchFailed \/ MatchEnded
           \/ GraceOver \/ (\E s \in Slots : Promote(s))
  BY <1>7 DEF PromotionAudited, MatchCompletes, MatchExtends, MatchFailed, MatchEnded, GraceOver, Promote
<1>8. CASE NoManifestFailed \/ GatesRefused \/ IdleEntered \/ LoadFailTornDown \/ GraceTornDown
  BY <1>8 DEF NoManifestFailed, GatesRefused, IdleEntered, LoadFailTornDown, GraceTornDown, Unwind,
     BackToLoop
<1>9. CASE FinallyDone \/ FinallyRaises
  <2>1. anchor \in Slots
    BY <1>9 DEF FinallyDone, FinallyRaises
  <2>2. PICK e \in DOMAIN FinallyPc, h \in {activeHandle, NoHandle} :
          /\ BackToLoop(e, h, sidecars)
          /\ ErrorSettles(e, h)
    BY <1>9 DEF FinallyDone, FinallyRaises
  <2>3. Settle(IF e = "error" THEN {anchor} ELSE {}, "failed")
    BY <2>2 DEF ErrorSettles
  <2>4. e = "error" => future'[anchor] # "pending"
    BY <2>1, <2>3
  <2> QED
    BY <2>1, <2>2, <2>4 DEF BackToLoop
<1>10. CASE ErrorTornDown \/ ColdTornDown \/ ForcedCold \/ ErrorTeardownRaises \/ ColdTeardownRaises \/ ForceColdRaises
  BY <1>10 DEF ErrorTornDown, ColdTornDown, ForcedCold, ParkAnchor, ErrorTeardownRaises, ColdTeardownRaises, ForceColdRaises
<1>11. CASE CancelProcess \/ CancelMatch \/ MatchCancelled \/ CancelFinally \/ CancelLoop
  BY <1>11 DEF CancelProcess, CancelMatch, MatchCancelled, CancelFinally, CancelLoop, Unwind,
     BackToLoop, ProcessPcs, AuditPcs, TeardownPcs, LoopPcs
<1> QED
  BY <1>3, <1>4, <1>5, <1>6, <1>7, <1>8, <1>9, <1>10, <1>11, StepKinds
  DEF WorkerStep, Worker, Raises

------------------------------------------------------------------------------
\* How far shutdown has come, and the worker with it.
Stopping ==
  /\ cancelling => shut = "stopping" /\ ~WorkerEnded /\ wpc \notin {"idle", "unreadable"}
  /\ wpc \in {"done", "finally_cancel", "match_cancelled"} => stop
  /\ wpc = "crashed" => faults > 0
  /\ stop <=> shut # "running"
  /\ closed <=> shut \in {"closing", "stopped"}
  /\ shut \in {"closing", "stopped"} => WorkerEnded

LEMMA StoppingKept ==
  ASSUME Typed, Hands, Stopping, [Next]_vars
  PROVE  Stopping'
<1> /\ wpc \in WorkerPcs /\ faults \in Nat
    /\ shut \in {"running", "stopping", "closing", "stopped"}
    /\ stop \in BOOLEAN /\ cancelling \in BOOLEAN /\ closed \in BOOLEAN
  BY ManagerAssumption DEF Typed, TiersSound, TiersTypeOK
<1>1. closed' = closed \/ ShutdownCloses
  <2>1. \A s : EnqueueHead(s) \/ Enqueue(s) \/ PopNext(s) \/ Disconnect(s) \/ (\E k : PopMatched(s, k))
          => closed' = closed
    BY DEF EnqueueHead, Enqueue, PopNext, Disconnect, PopMatched
  <2> QED
    BY <2>1, QueueFrame DEF QueueStep, SubmitAtHead, SubmitAtTail, ClientLeaves, PopEvicted, PopStart,
       Promote, queueVars
<1> USE <1>1, FinallyFacts DEF Stopping, WorkerEnded, Yielded, Resume, Goto, stopVars, Fault
<1>2. CASE ShutdownStarts \/ ShutdownCloses \/ ShutdownEnds
  BY <1>2 DEF ShutdownStarts, ShutdownCloses, ShutdownEnds, workerVars, Close
<1>3. CASE CancelProcess \/ CancelMatch \/ MatchCancelled \/ CancelFinally \/ CancelLoop
  BY <1>3 DEF CancelProcess, CancelMatch, MatchCancelled, CancelFinally, CancelLoop, Cancelled,
     cancelUnchanged, ShutdownCloses, Unwind, BackToLoop, ProcessPcs, AuditPcs, TeardownPcs, LoopPcs
<1>4. CASE Bystander /\ ~ShutdownStarts /\ ~ShutdownCloses /\ ~ShutdownEnds
  <2>1. UNCHANGED <<wpc, stop, cancelling, shut>> /\ faults' \in {faults, faults + 1}
    <3>1. Client => UNCHANGED <<stopVars, faults>>
      BY DEF Client, Submit, SubmitAtHead, SubmitAtTail, SubmitRefused, ClientLeaves, ClientTimesOut
    <3>2. ExpiryTask \/ Clock \/ Exits => UNCHANGED <<stopVars, faults>>
      BY DEF ExpiryTask, ExpiryTaskStarts, ExpiryTaskEnds, Clock, GraceTimerElapses, DeadlineElapses,
             IdleElapses, Exits, SidecarExits, StuckExits, taskUnchanged, clockUnchanged
    <3>3. (\E h \in DOMAIN sidecars : SidecarCrashes(h) \/ SidecarSticks(h)) => UNCHANGED stopVars /\ faults' = faults + 1
      BY DEF SidecarCrashes, SidecarSticks
    <3>4. UNCHANGED vars => UNCHANGED <<stopVars, faults>>
      BY DEF vars
    <3> QED
      BY <1>4, <3>1, <3>2, <3>3, <3>4, BystanderKeeps DEF Bystander
  <2> QED
    BY <1>4, <2>1
<1>5. CASE Raises
  BY <1>5, RaisesWhere DEF Raise, Unwind, BackToLoop, ShutdownCloses, AuditPcs, TeardownPcs
<1>6. CASE \/ FinallyDone \/ FinallyRaises \/ ErrorTornDown \/ ColdTornDown \/ ForcedCold
           \/ ErrorTeardownRaises \/ ColdTeardownRaises \/ ForceColdRaises
  BY <1>6 DEF FinallyDone, FinallyRaises, BackToLoop, ErrorTornDown, ColdTornDown, ForcedCold,
     ParkAnchor, ErrorTeardownRaises, ColdTeardownRaises, ForceColdRaises, parkUnchanged, ShutdownCloses
<1>7. CASE FindNothing \/ LoopExits \/ Wake \/ EvictionAudited \/ RefuseNoManifest \/ NoManifestFailed
  BY <1>7 DEF FindNothing, LoopExits, Wake, EvictionAudited, RefuseNoManifest, NoManifestFailed, Unwind,
     BackToLoop, loopUnchanged, pathUnchanged, ShutdownCloses
<1>10. CASE \E s \in Slots : PopEvicted(s) \/ PopStart(s) \/ Promote(s)
  BY <1>10 DEF PopEvicted, PopStart, Promote, loopUnchanged, graceUnchanged, ShutdownCloses
<1>8. CASE \/ Inherit \/ Inherited \/ StartSwap \/ Swapped \/ GatesRefuse \/ GatesRefused \/ Spawn
           \/ HealthOk \/ HealthTimesOut \/ LoadFailAudited \/ LoadFailTornDown \/ Activated
  BY <1>8 DEF Inherit, Inherited, StartSwap, Swapped, GatesRefuse, GatesRefused, Spawn, HealthOk,
     HealthTimesOut, LoadFailAudited, LoadFailTornDown, Activated, ReadyToSpawn, Unwind, BackToLoop,
     pathUnchanged, ShutdownCloses
<1>9. CASE \/ CompleteOk \/ GraceEntered \/ PromotionAudited \/ MatchCompletes \/ MatchExtends
           \/ MatchFailed \/ MatchEnded \/ GraceOver \/ IdleEntered \/ GraceTornDown
  BY <1>9 DEF CompleteOk, GraceEntered, PromotionAudited, MatchCompletes, MatchExtends, MatchFailed,
     MatchEnded, GraceOver, IdleEntered, GraceTornDown, Unwind, BackToLoop, pathUnchanged,
     graceUnchanged, ShutdownCloses
<1> QED
  BY <1>2, <1>3, <1>4, <1>5, <1>6, <1>7, <1>8, <1>9, <1>10, StepKinds DEF WorkerStep, Worker, Raises

------------------------------------------------------------------------------
\* What a step does to the phases: nothing, or one of these.
Legally(s, state) == SetPhase(s, state) /\ CanTransition(phase[s], state)

\* The hop to ACTIVE, at a health check, an inheritance or a promotion.
Activates(s) ==
  /\ Legally(s, "ACTIVE")
  /\ phase[s] # "ACTIVE"
  /\ UNCHANGED <<future, anchor, matched>>
  /\ \/ wpc \in {"health", "inherit"} /\ wpc' = "active" /\ s = anchor
     \/ wpc = "promoted" /\ wpc' = "match_complete" /\ s = matched

\* Another hop of the table; the one that leaves ACTIVE comes with an answer.
MovesOn(s) ==
  /\ \E state \in SlotStates \ {"ACTIVE"} : Legally(s, state)
  /\ phase[s] = "ACTIVE" => future'[s] # "pending"

\* _force_cold, once the request has been answered.
ParksCold(s) ==
  /\ wpc' = "force_cold"
  /\ SetPhase(s, "COLD")
  /\ future'[s] # "pending"

LEMMA HopsAreLegal ==
  /\ CanTransition("LOADING", "ACTIVE") /\ CanTransition("LOADING", "LOADING_FAIL")
  /\ CanTransition("LOADING_FAIL", "POPPED") /\ CanTransition("ACTIVE", "GRACE")
  /\ CanTransition("GRACE", "POPPED") /\ CanTransition("ACTIVE_MATCH", "ACTIVE")
  /\ CanTransition("STAGED", "LOADING") /\ CanTransition("STAGED", "ACTIVE_MATCH")
  /\ CanTransition("RECEIVED", "STAGED") /\ CanTransition("RECEIVED", "ACCEPT_BUFFER")
  /\ CanTransition("ACCEPT_BUFFER", "STAGED")
  /\ ~CanTransition("ACTIVE", "POPPED")
BY DEF CanTransition, LegalTargets

LEMMA PhaseMoves ==
  ASSUME Typed, Hands, Queued, PhaseAt, SettledAt, [Next]_vars
  PROVE  \/ UNCHANGED phase
         \/ \E s \in Slots : PopStart(s) \/ Promote(s)
         \/ \E s \in {anchor, matched} \cap Slots : Activates(s) \/ MovesOn(s)
         \/ anchor \in Slots /\ ParksCold(anchor)
<1> DEFINE Goal == \/ UNCHANGED phase
                   \/ \E s \in Slots : PopStart(s) \/ Promote(s)
                   \/ \E s \in {anchor, matched} \cap Slots : Activates(s) \/ MovesOn(s)
                   \/ anchor \in Slots /\ ParksCold(anchor)
<1>1. /\ DOMAIN phase = Slots /\ DOMAIN future = Slots
      /\ {"LOADING_FAIL", "GRACE", "POPPED", "LOADING"} \subseteq SlotStates \ {"ACTIVE"}
      /\ anchor \in Slots => future[anchor] # "none"
      /\ \A s \in Slots : future[s] \notin {"none", "pending"} => future'[s] # "pending"
      /\ \A s \in Slots, outcome \in {"ok", "failed"} :
           Settle({s}, outcome) => future'[s] # "pending"
  BY FuturesGrow DEF Typed, SlotStates, Queued, PhaseAt, Settle
<1> USE <1>1, HopsAreLegal DEF Hands, NoAnchorPcs, MatchPcs, GracePcs, PhaseAt, Resume, Goto
<1>2. Bystander => Goal
  BY BystanderKeeps
<1>3. CASE Raises
  BY <1>3, RaisesWhere, RaiseGoes DEF ParksCold
<1>4. CASE \/ FindNothing \/ LoopExits \/ Wake \/ EvictionAudited \/ (\E s \in Slots : PopEvicted(s))
           \/ Inherit \/ StartSwap \/ Swapped \/ Spawn \/ LoadFailTornDown \/ Activated
           \/ GraceEntered \/ MatchEnded \/ IdleEntered \/ GraceTornDown
           \/ ErrorTeardownRaises \/ ForceColdRaises \/ ForcedCold
  BY <1>4 DEF FindNothing, LoopExits, Wake, EvictionAudited, PopEvicted, Inherit, StartSwap, Swapped, Spawn,
     LoadFailTornDown, Activated, GraceEntered, MatchEnded, IdleEntered, GraceTornDown,
     ErrorTeardownRaises, ForceColdRaises, ForcedCold, requestVars
<1>5. CASE HealthOk \/ Inherited \/ PromotionAudited
  <2>1. (HealthOk \/ Inherited) => Activates(anchor) /\ anchor \in Slots
    BY DEF HealthOk, Inherited, Activates, Legally
  <2>2. PromotionAudited => Activates(matched) /\ matched \in Slots
    BY DEF PromotionAudited, Activates, Legally
  <2> QED
    BY <1>5, <2>1, <2>2
<1>6. CASE \/ RefuseNoManifest \/ NoManifestFailed \/ GatesRefuse \/ GatesRefused
           \/ HealthTimesOut \/ LoadFailAudited \/ GraceOver \/ CompleteOk
  <2>1. anchor \in Slots
    BY <1>6 DEF RefuseNoManifest, NoManifestFailed, GatesRefuse, GatesRefused, HealthTimesOut,
       LoadFailAudited, GraceOver, CompleteOk, ReadyToSpawn
  <2>2. MovesOn(anchor)
    BY <1>6, <2>1 DEF RefuseNoManifest, NoManifestFailed, GatesRefuse, GatesRefused, HealthTimesOut,
       LoadFailAudited, GraceOver, CompleteOk, ReadyToSpawn, MovesOn, Legally
  <2> QED
    BY <2>1, <2>2
<1>7. CASE MatchCompletes \/ MatchExtends \/ MatchFailed
  <2>1. matched \in Slots
    BY <1>7 DEF MatchCompletes, MatchExtends, MatchFailed
  <2>2. MovesOn(matched)
    BY <1>7, <2>1 DEF MatchCompletes, MatchExtends, MatchFailed, MovesOn, Legally
  <2> QED
    BY <2>1, <2>2
<1>8. CASE FinallyDone \/ FinallyRaises
  <2>1. anchor \in Slots
    BY <1>8, FinallyFacts DEF FinallyDone, FinallyRaises
  <2>2. PICK e \in DOMAIN FinallyPc, h \in {activeHandle, NoHandle} :
          /\ BackToLoop(e, h, sidecars)
          /\ ErrorSettles(e, h)
    BY <1>8 DEF FinallyDone, FinallyRaises
  <2>3. /\ IF e = "error" /\ h = NoHandle THEN SetPhase(anchor, "COLD") ELSE UNCHANGED phase
        /\ Settle(IF e = "error" THEN {anchor} ELSE {}, "failed")
    BY <2>1, <2>2, ErrorSettlesTo
  <2> QED
    BY <2>1, <2>2, <2>3 DEF BackToLoop, ParksCold
<1>9. CASE ErrorTornDown \/ ColdTornDown \/ ColdTeardownRaises
  <2>1. ParksCold(anchor) /\ anchor \in Slots
    BY <1>9, ForceColdTyped DEF ErrorTornDown, ColdTornDown, ColdTeardownRaises, ParkAnchor, parkUnchanged,
       ParksCold, SettledAt
  <2> QED
    BY <2>1
<1>10. CASE CancelProcess \/ CancelMatch \/ MatchCancelled \/ CancelFinally \/ CancelLoop
  BY <1>10 DEF CancelProcess, CancelMatch, MatchCancelled, CancelFinally, CancelLoop, requestVars
<1> QED
  BY <1>2, <1>3, <1>4, <1>5, <1>6, <1>7, <1>8, <1>9, <1>10, StepKinds DEF WorkerStep, Worker, Raises

LEMMA QueuedKept ==
  ASSUME Typed, Hands, Queued, PhaseAt, SettledAt, [Next]_vars
  PROVE  Queued'
<1>1. /\ TiersSound
      /\ DOMAIN phase = Slots /\ DOMAIN future = Slots /\ DOMAIN tier = Slots
      /\ Waiting \subseteq Slots
  BY LineParts, LineTyped DEF Typed, TiersSound, TiersTypeOK, LineOK, ToSet
<1>2. ASSUME NEW s \in Slots, SubmitAtHead(s) \/ SubmitAtTail(s)
      PROVE  Queued'
  <2>1. s \notin Waiting /\ future[s] = "none" /\ UNCHANGED phase
        /\ future' = [future EXCEPT ![s] = "pending"]
    BY <1>2 DEF Queued, SubmitAtHead, SubmitAtTail, MayCall
  <2>2. /\ Waiting' = Waiting \cup {s} /\ ~closed'
        /\ \E label \in {"STAGED", "ACCEPT_BUFFER"} : tier' = [tier EXCEPT ![s] = label]
    BY <1>1, <1>2, <2>1, EnqueueSound DEF SubmitAtHead, SubmitAtTail, Enqueue, EnqueueHead
  <2> QED
    BY <1>1, <2>1, <2>2 DEF Queued
<1>3. ASSUME NEW s \in Slots, PopStart(s) \/ Promote(s) \/ PopEvicted(s)
      PROVE  Queued'
  <2>1. /\ s \in Waiting /\ Waiting' = Waiting \ {s} /\ closed' = closed
        /\ \A x \in Slots : tier'[x] = tier[x] \/ (tier[x] = "ACCEPT_BUFFER" /\ tier'[x] = "STAGED")
    BY <1>1, <1>3, PopNextSound, PopMatchedSound DEF PopStart, Promote, PopEvicted
  <2>2. CASE PopStart(s) \/ Promote(s)
    <3>1. UNCHANGED future /\ \E state \in {"STAGED", "LOADING", "ACTIVE_MATCH"} : phase' = [phase EXCEPT ![s] = state]
      BY <2>2 DEF PopStart, Promote, SetPhase
    <3> QED
      BY <1>1, <2>1, <3>1 DEF Queued
  <2>3. CASE PopEvicted(s)
    BY <1>1, <2>1, <2>3 DEF PopEvicted, Settle, Queued
  <2> QED
    BY <1>3, <2>2, <2>3
<1>4. CASE ShutdownCloses
  <2>1. Waiting' = {} /\ tier' = tier
    BY <1>1, <1>4, CloseSound DEF ShutdownCloses
  <2>2. phase' = phase /\ Settle(Waiting, "cancelled")
    BY <1>4 DEF ShutdownCloses, Waiting
  <2> QED
    BY <1>1, <2>1, <2>2 DEF Queued, Settle
<1>5. ASSUME (\E s \in Slots : ClientLeaves(s)) \/ UNCHANGED queueVars,
             \A s \in Slots : ~SubmitAtHead(s) /\ ~SubmitAtTail(s) /\ ~PopStart(s) /\ ~Promote(s)
      PROVE  Queued'
  <2>1. Waiting' = Waiting /\ tier' = tier /\ closed' = closed
    BY <1>1, <1>5, OthersSound DEF ClientLeaves
  <2>2. \A s \in Slots : future'[s] = "none" => future[s] = "none"
    BY FuturesGrow
  <2>5. \A s \in Slots : future[s] # "none" => future'[s] # "none"
    BY FuturesGrow
  <2>3. \A s \in Slots : future'[s] = "pending" => future[s] = "pending"
    BY <1>1, <1>5, FutureMoves, FuturesGrow DEF Settle, Refused, Outcomes
  <2>4. \A s \in Slots : phase'[s] = "QUEUED" <=> phase[s] = "QUEUED"
    BY <1>1, <1>5, PhaseMoves DEF PhaseAt, Activates, MovesOn, ParksCold, Legally, SetPhase, SlotStates
  <2> QED
    BY <1>1, <2>1, <2>2, <2>3, <2>4, <2>5 DEF Queued
<1> QED
  BY <1>2, <1>3, <1>4, <1>5, QueueFrame DEF QueueStep

\* At most one request runs, and it is the one in the worker's hands.
Running(s) == future[s] = "pending" /\ phase[s] = "ACTIVE"

\* Where a running request is in hand; a cancelled worker may leave one behind.
RunsAt(s) ==
  \/ wpc \in {"active", "complete", "finally_error"} /\ s = anchor
  \/ wpc = "match_complete" /\ s = matched
  \/ wpc \in {"finally_cancel", "done"}

OneRuns ==
  /\ \A s \in Slots : Running(s) => RunsAt(s)
  /\ \A s, t \in Slots : Running(s) /\ Running(t) => s = t

LEMMA RunningStep ==
  ASSUME Typed, Hands, Queued, PhaseAt, SettledAt, [Next]_vars, NEW s \in Slots, Running(s)'
  PROVE  Running(s) \/ Activates(s)
<1>1. DOMAIN future = Slots /\ DOMAIN phase = Slots
  BY DEF Typed
<1>2. future'[s] = "pending" /\ phase'[s] = "ACTIVE"
  BY DEF Running
<1>3. CASE SubmitAtHead(s) \/ SubmitAtTail(s)
  BY <1>2, <1>3 DEF SubmitAtHead, SubmitAtTail, MayCall, Queued
<1>4. CASE ~(SubmitAtHead(s) \/ SubmitAtTail(s))
  <2>1. future[s] = "pending"
    BY <1>1, <1>2, <1>4, FutureMoves DEF Settle, Accepted, Refused, Outcomes
  <2>2. phase[s] = "ACTIVE" \/ Activates(s)
    BY <1>1, <1>2, PhaseMoves DEF Activates, Legally, SetPhase, MovesOn, ParksCold, PopStart, Promote
  <2> QED
    BY <2>1, <2>2 DEF Running
<1> QED
  BY <1>3, <1>4

LEMMA RunsOn ==
  ASSUME Typed, Hands, PhaseAt, [Next]_vars, NEW s \in Slots, Running(s), Running(s)', RunsAt(s)
  PROVE  RunsAt(s)'
<1>1. DOMAIN future = Slots /\ future[s] = "pending" /\ future'[s] = "pending"
  BY DEF Typed, Running
<1>2. \A S : (Settle(S, "ok") \/ Settle(S, "failed")) => s \notin S
  BY <1>1 DEF Settle
<1> USE <1>2, FinallyFacts, ManagerAssumption DEF RunsAt, Resume, Goto, Hands, NoAnchorPcs, MatchPcs
<1>3. CASE Bystander
  BY <1>3, BystanderKeeps
<1>4. CASE Raises
  <2>1. anchor \in Slots /\ Raise
    BY <1>4, RaisesWhere
  <2> QED
    BY <1>4, <2>1, RaiseGoes, RaisesWhere DEF AuditPcs, TeardownPcs
<1>5. CASE FindNothing \/ LoopExits \/ Wake \/ EvictionAudited \/ (\E x \in Slots : PopEvicted(x) \/ PopStart(x))
  BY <1>5 DEF FindNothing, LoopExits, Wake, EvictionAudited, PopEvicted, PopStart
<1>6. CASE RefuseNoManifest \/ Inherit \/ Inherited \/ StartSwap \/ Swapped \/ GatesRefuse
           \/ Spawn \/ HealthOk \/ HealthTimesOut \/ LoadFailAudited \/ Activated \/ CompleteOk
           \/ GraceEntered
  BY <1>6 DEF RefuseNoManifest, Inherit, Inherited, StartSwap, Swapped, GatesRefuse, ReadyToSpawn,
     Spawn, HealthOk, HealthTimesOut, LoadFailAudited, Activated, CompleteOk, GraceEntered
<1>7. CASE PromotionAudited \/ MatchCompletes \/ MatchExtends \/ MatchFailed \/ MatchEnded
           \/ GraceOver \/ (\E x \in Slots : Promote(x))
  BY <1>7 DEF PromotionAudited, MatchCompletes, MatchExtends, MatchFailed, MatchEnded, GraceOver, Promote
<1>8. CASE NoManifestFailed \/ GatesRefused \/ IdleEntered \/ LoadFailTornDown \/ GraceTornDown
  BY <1>8 DEF NoManifestFailed, GatesRefused, IdleEntered, LoadFailTornDown, GraceTornDown
<1>9. CASE FinallyDone \/ FinallyRaises
  <2>1. PICK e \in DOMAIN FinallyPc, h \in {activeHandle, NoHandle} :
          /\ wpc = FinallyPc[e]
          /\ BackToLoop(e, h, sidecars)
          /\ Settle(IF e = "error" THEN {anchor} ELSE {}, "failed")
    BY <1>9 DEF FinallyDone, FinallyRaises, ErrorSettles
  <2> QED
    BY <2>1 DEF BackToLoop
<1>10. CASE ErrorTornDown \/ ColdTornDown \/ ForcedCold \/ ErrorTeardownRaises \/ ColdTeardownRaises \/ ForceColdRaises
  BY <1>10 DEF ErrorTornDown, ColdTornDown, ForcedCold, ErrorTeardownRaises, ColdTeardownRaises, ForceColdRaises
<1>11. CASE CancelProcess \/ CancelMatch \/ MatchCancelled \/ CancelFinally \/ CancelLoop
  BY <1>11 DEF CancelProcess, CancelMatch, MatchCancelled, CancelFinally, CancelLoop, Unwind,
     BackToLoop, ProcessPcs, AuditPcs, TeardownPcs, LoopPcs
<1> QED
  BY <1>3, <1>4, <1>5, <1>6, <1>7, <1>8, <1>9, <1>10, <1>11, StepKinds
  DEF WorkerStep, Worker, Raises

LEMMA OneRunsKept ==
  ASSUME Typed, Hands, Queued, PhaseAt, SettledAt, OneRuns, [Next]_vars
  PROVE  OneRuns'
<1>1. ASSUME NEW s \in Slots, Activates(s)
      PROVE  /\ RunsAt(s)'
             /\ \A t \in Slots : Activates(t) => t = s
             /\ \A t \in Slots : ~Running(t)
  BY <1>1 DEF Activates, RunsAt, OneRuns
<1>2. ASSUME NEW s \in Slots, Running(s)'
      PROVE  RunsAt(s)'
  <2>1. CASE Activates(s)
    BY <1>1, <2>1
  <2>2. CASE Running(s)
    BY <1>2, <2>2, RunsOn DEF OneRuns, RunsAt
  <2> QED
    BY <1>2, <2>1, <2>2, RunningStep
<1>3. ASSUME NEW s \in Slots, NEW t \in Slots, Running(s)', Running(t)'
      PROVE  s = t
  <2>1. /\ Running(s) \/ Activates(s)
        /\ Running(t) \/ Activates(t)
    BY <1>3, RunningStep
  <2> QED
    BY <1>1, <2>1 DEF OneRuns
<1> QED
  BY <1>2, <1>3 DEF OneRuns, RunsAt

------------------------------------------------------------------------------
\* Where there is no warm holder, and where there is an active handle.
BusyPcs == {"swap", "gates", "gates_refused", "inherit", "health", "load_fail",
            "load_fail_teardown", "active", "complete", "grace_teardown"} \cup GracePcs

ArmedPcs == FinallyPcs \cup ServingPcs \cup
            {"load_fail", "load_fail_teardown", "grace_teardown", "error_teardown", "cold_teardown"}

\* Which handles there are at each await.  An expiry task has started before
\* the worker can take the holder from it.
Places ==
  /\ wpc \in ArmedPcs => activeHandle # NoHandle
  /\ activeHandle = idleHandle /\ idleHandle # NoHandle => wpc = "idle_enter"
  /\ wpc \in BusyPcs => idleHandle = NoHandle
  /\ taskCreated => wpc \in NoAnchorPcs \cup FinallyPcs \cup
                           {"unreadable", "staged", "no_manifest", "force_cold", "done"}
  /\ shut \in {"closing", "stopped"} => idleHandle = NoHandle

LEMMA PlacesKept ==
  ASSUME Typed, Hands, Stopping, Places, [Next]_vars
  PROVE  Places'
<1> USE FinallyFacts DEF Places, BusyPcs, ArmedPcs, ServingPcs, GracePcs, MatchPcs, NoAnchorPcs,
        Resume, Goto, NoHandle, stopVars, idleVars, handleVars
<1>1. CASE Bystander
  <2>1. CASE Client \/ Clock \/ Exits \/ (\E h \in DOMAIN sidecars : SidecarCrashes(h) \/ SidecarSticks(h)) \/ UNCHANGED vars
    <3>1. UNCHANGED <<idleHandle, taskCreated, shut>>
      BY <2>1 DEF Client, Submit, SubmitAtHead, SubmitAtTail, SubmitRefused, ClientLeaves, ClientTimesOut,
         Clock, GraceTimerElapses, DeadlineElapses, IdleElapses, Exits, SidecarExits, StuckExits, clockUnchanged,
         SidecarCrashes, SidecarSticks, vars
    <3> QED
      BY <1>1, <3>1, BystanderKeeps
  <2>2. CASE ExpiryTask \/ ShutdownStarts \/ ShutdownCloses \/ ShutdownEnds
    BY <1>1, <2>2, BystanderKeeps DEF ExpiryTask, ExpiryTaskStarts, ExpiryTaskEnds, taskUnchanged,
       ShutdownStarts, ShutdownCloses, ShutdownEnds, ClearIdle, Stopping, WorkerEnded
  <2> QED
    BY <1>1, <2>1, <2>2 DEF Bystander
<1>2. CASE Raises
  <2>1. /\ anchor \in Slots /\ Raise
        /\ NeedsSigterm(activeHandle, idleHandle) => activeHandle # NoHandle /\ activeHandle # idleHandle
        /\ UNCHANGED <<idleHandle, taskCreated, shut>>
        /\ wpc # "unreadable" => ~taskCreated
    BY <1>2, RaisesWhere DEF Raise, NeedsSigterm, Alive, AuditPcs, TeardownPcs
  <2> QED
    BY <2>1, RaiseGoes
<1>3. CASE FindNothing \/ LoopExits \/ Wake \/ EvictionAudited \/ (\E s \in Slots : PopEvicted(s) \/ PopStart(s))
  BY <1>3 DEF FindNothing, LoopExits, Wake, EvictionAudited, PopEvicted, PopStart, ExpireIdleHolder, loopUnchanged
<1>4. CASE RefuseNoManifest \/ Inherit \/ Inherited \/ StartSwap \/ Swapped \/ GatesRefuse
  BY <1>4 DEF RefuseNoManifest, Inherit, WarmInherit, Inherited, StartSwap, Swapped, GatesRefuse,
     ReadyToSpawn, ClearIdle, pathUnchanged
<1>5. CASE HealthOk \/ HealthTimesOut \/ LoadFailAudited \/ Activated \/ CompleteOk
           \/ GraceEntered
  BY <1>5 DEF HealthOk, HealthTimesOut, LoadFailAudited, Activated, CompleteOk, GraceEntered,
     pathUnchanged, graceUnchanged
<1>6. CASE Spawn
  <2>1. activeHandle' # 0
    BY <1>6, SpawnFacts DEF Typed
  <2> QED
    BY <1>6, <2>1 DEF Spawn, ReadyToSpawn, pathUnchanged
<1>7. CASE PromotionAudited \/ MatchCompletes \/ MatchExtends \/ MatchFailed \/ MatchEnded
           \/ GraceOver \/ (\E s \in Slots : Promote(s))
  BY <1>7 DEF PromotionAudited, MatchCompletes, MatchExtends, MatchFailed, MatchEnded, GraceOver,
     Promote, pathUnchanged, graceUnchanged, Stopping, WorkerEnded
<1>8. CASE NoManifestFailed \/ GatesRefused \/ IdleEntered \/ LoadFailTornDown \/ GraceTornDown
  BY <1>8 DEF NoManifestFailed, GatesRefused, IdleEntered, LoadFailTornDown, GraceTornDown, Unwind,
     NeedsSigterm, Alive, BackToLoop, pathUnchanged
<1>9. CASE FinallyDone \/ FinallyRaises
  BY <1>9 DEF FinallyDone, FinallyRaises, BackToLoop
<1>10. CASE ErrorTornDown \/ ColdTornDown \/ ForcedCold \/ ErrorTeardownRaises \/ ColdTeardownRaises \/ ForceColdRaises
  BY <1>10 DEF ErrorTornDown, ColdTornDown, ForcedCold, ParkAnchor, ErrorTeardownRaises, ColdTeardownRaises, ForceColdRaises,
     parkUnchanged
<1>11. CASE CancelProcess \/ CancelMatch \/ MatchCancelled \/ CancelFinally \/ CancelLoop
  BY <1>11 DEF CancelProcess, CancelMatch, MatchCancelled, CancelFinally, CancelLoop, Unwind,
     NeedsSigterm, Alive, BackToLoop, ProcessPcs, AuditPcs, TeardownPcs, LoopPcs, cancelUnchanged, WorkerEnded
<1> QED
  BY <1>1, <1>2, <1>3, <1>4, <1>5, <1>6, <1>7, <1>8, <1>9, <1>10, <1>11, StepKinds
  DEF WorkerStep, Worker, Raises

------------------------------------------------------------------------------
(***************************************************************************)
(* What the manager knows of the sidecars behind its handles.  A sidecar   *)
(* leaves its hands only after a SIGTERM to it, and the one it serves or   *)
(* keeps warm has not been sent one.                                       *)
(***************************************************************************)
Up(h) == h # NoHandle /\ sidecars[h].status = "up"

\* Where the active handle, if there is one, has been sent its SIGTERM.
ToldPcs == NoAnchorPcs \cup FinallyPcs \cup
           {"no_manifest", "no_manifest_fail", "staged", "swap", "gates", "gates_refused",
            "load_fail_teardown", "grace_teardown", "error_teardown", "cold_teardown", "force_cold",
            "unreadable", "done", "crashed"}

Statuses ==
  /\ wpc \in ToldPcs => ~Up(activeHandle)
  /\ wpc \in ServingPcs => sidecars[activeHandle].status \notin {"terminating", "stuck"}
  /\ idleHandle # NoHandle => sidecars[idleHandle].status \notin {"terminating", "stuck"}
  /\ NoLeak

\* The new statuses, in a step that starts no sidecar.
LEMMA StatusStep ==
  ASSUME Typed, Hands, [Next]_vars
  PROVE  /\ DOMAIN sidecars = 1 .. Len(sidecars) /\ DOMAIN sidecars' = 1 .. Len(sidecars')
         /\ activeHandle \in 0 .. Len(sidecars) /\ idleHandle \in 0 .. Len(sidecars)
         /\ \A h \in 0 .. Len(sidecars) : h # NoHandle => h \in 1 .. Len(sidecars)
         /\ ~Spawn => Len(sidecars') = Len(sidecars)
         /\ sidecars' = Sigtermed(sidecars, activeHandle) =>
              \A g \in 1 .. Len(sidecars) :
                sidecars'[g].status =
                  IF g = activeHandle /\ sidecars[g].status = "up" THEN "terminating"
                  ELSE sidecars[g].status
         /\ sidecars' = Sigtermed(sidecars, idleHandle) =>
              \A g \in 1 .. Len(sidecars) :
                sidecars'[g].status =
                  IF g = idleHandle /\ sidecars[g].status = "up" THEN "terminating"
                  ELSE sidecars[g].status
         /\ sidecars' = Reaped(sidecars, LiveHandles) =>
              \A g \in 1 .. Len(sidecars) :
                sidecars'[g].status =
                  IF ManagerIsInit /\ sidecars[g].status # "stuck" THEN "dead"
                  ELSE IF sidecars[g].status = "up" /\ g \notin {activeHandle, idleHandle}
                       THEN "terminating" ELSE sidecars[g].status
<1>1. DOMAIN sidecars = 1 .. Len(sidecars) /\ DOMAIN sidecars' = 1 .. Len(sidecars')
  BY TableGrows DEF Typed
<1>2. ~Spawn => Len(sidecars') = Len(sidecars)
  BY TableGrows
<1>3. activeHandle \in 0 .. Len(sidecars) /\ idleHandle \in 0 .. Len(sidecars)
  BY DEF Typed
<1>4. \A h \in 0 .. Len(sidecars) : h # NoHandle => h \in 1 .. Len(sidecars)
  BY DEF Typed, NoHandle
<1> QED
  BY <1>1, <1>2, <1>3, <1>4, Tables

LEMMA StatusesBystander ==
  ASSUME Typed, Hands, Places, Statuses, Bystander, [Next]_vars
  PROVE  Statuses'
<1>1. wpc' = wpc /\ activeHandle' = activeHandle
  BY BystanderKeeps
<1>2. ~Spawn
  BY <1>1 DEF Spawn, ReadyToSpawn, Resume, Goto
<1>3. /\ DOMAIN sidecars = 1 .. Len(sidecars) /\ DOMAIN sidecars' = 1 .. Len(sidecars)
      /\ activeHandle # 0 => activeHandle \in 1 .. Len(sidecars)
      /\ idleHandle # 0 => idleHandle \in 1 .. Len(sidecars)
  BY <1>2, StatusStep DEF NoHandle
<1>4. /\ wpc \in ServingPcs => activeHandle # 0 /\ activeHandle \in 1 .. Len(sidecars)
      /\ activeHandle = idleHandle /\ idleHandle # 0 => wpc = "idle_enter"
      /\ wpc \in BusyPcs => idleHandle = 0
      /\ taskCreated => wpc \notin ServingPcs
  BY <1>3, FinallyFacts DEF Places, ArmedPcs, NoHandle, ServingPcs, NoAnchorPcs
<1>5. CASE Client \/ Clock \/ ShutdownStarts \/ UNCHANGED vars
  <2>1. UNCHANGED <<sidecars, idleHandle>>
    BY <1>5 DEF Client, Submit, SubmitAtHead, SubmitAtTail, SubmitRefused, ClientLeaves, ClientTimesOut,
         Clock, GraceTimerElapses, DeadlineElapses, IdleElapses, clockUnchanged, ShutdownStarts, vars,
         handleVars, idleVars
  <2> QED
    BY <1>1, <2>1 DEF Statuses, NoLeak, Up, NoHandle

\* A sidecar that exits, and one whose sigterm comes: statuses only go down.
<1>6. ASSUME \A g \in 1 .. Len(sidecars) :
               \/ sidecars'[g].status \in {"dead", sidecars[g].status}
               \/ sidecars[g].status = "terminating" /\ sidecars'[g].status = "stuck",
             UNCHANGED idleHandle
      PROVE  Statuses'
  BY <1>1, <1>3, <1>4, <1>6 DEF Statuses, NoLeak, Up, NoHandle
<1>7. CASE Exits \/ (\E h \in DOMAIN sidecars : SidecarCrashes(h) \/ SidecarSticks(h))
  <2>1. PICK h \in DOMAIN sidecars :
          SidecarExits(h) \/ StuckExits(h) \/ SidecarCrashes(h) \/ SidecarSticks(h)
    BY <1>7 DEF Exits
  <2>2. /\ UNCHANGED idleHandle /\ h \in 1 .. Len(sidecars)
        /\ \/ sidecars' = Stamped(sidecars, h, "dead")
           \/ sidecars' = Stamped(sidecars, h, "stuck") /\ sidecars[h].status = "terminating"
    BY <1>3, <2>1 DEF SidecarExits, StuckExits, SidecarCrashes, SidecarSticks, Stamped, clockUnchanged,
       idleVars
  <2>3. /\ \/ sidecars'[h].status = "dead"
           \/ sidecars'[h].status = "stuck" /\ sidecars[h].status = "terminating"
        /\ \A g \in 1 .. Len(sidecars) : g # h => sidecars'[g] = sidecars[g]
    BY <2>2, StampedTable DEF Typed
  <2>4. \A g \in 1 .. Len(sidecars) :
          \/ sidecars'[g].status \in {"dead", sidecars[g].status}
          \/ sidecars[g].status = "terminating" /\ sidecars'[g].status = "stuck"
    BY <2>3
  <2> QED
    BY <1>6, <2>2, <2>4
<1>8. CASE ExpiryTaskStarts \/ ShutdownCloses
  <2>1. UNCHANGED <<sidecars, idleHandle>>
        \/ (idleHandle' = 0 /\ sidecars' = Sigtermed(sidecars, idleHandle) /\ wpc \notin ServingPcs)
    BY <1>4, <1>8 DEF ExpiryTaskStarts, ShutdownCloses, ClearIdle, idleVars, NoHandle, WorkerEnded, ServingPcs
  <2>2. CASE UNCHANGED <<sidecars, idleHandle>>
    BY <1>6, <2>2
  <2>3. CASE idleHandle' = 0 /\ sidecars' = Sigtermed(sidecars, idleHandle) /\ wpc \notin ServingPcs
    <3>1. \A g \in 1 .. Len(sidecars) :
            sidecars'[g].status = IF g = idleHandle /\ sidecars[g].status = "up" THEN "terminating"
                                  ELSE sidecars[g].status
      BY <2>3, StatusStep
    <3> QED
      BY <1>1, <1>3, <1>4, <2>3, <3>1 DEF Statuses, NoLeak, Up, NoHandle
  <2> QED
    BY <2>1, <2>2, <2>3
<1>9. CASE ExpiryTaskEnds \/ ShutdownEnds
  <2>1. UNCHANGED idleHandle /\ sidecars' \in {sidecars, Reaped(sidecars, LiveHandles)}
    BY <1>9 DEF ExpiryTaskEnds, ShutdownEnds, idleVars
  <2>2. sidecars' = Reaped(sidecars, LiveHandles) =>
          \A g \in 1 .. Len(sidecars) :
            sidecars'[g].status =
              IF ManagerIsInit /\ sidecars[g].status # "stuck" THEN "dead"
              ELSE IF sidecars[g].status = "up" /\ g \notin {activeHandle, idleHandle}
                   THEN "terminating" ELSE sidecars[g].status
    BY StatusStep
  <2>3. \A g \in 1 .. Len(sidecars) : sidecars'[g].status \in {"dead", sidecars[g].status}
    BY <1>3, <2>1, <2>2 DEF Statuses, NoLeak
  <2> QED
    BY <1>6, <2>1, <2>3
<1> QED
  BY <1>5, <1>7, <1>8, <1>9 DEF Bystander, ExpiryTask

\* The ways a step of the worker treats its sidecars: nothing but exits; the
\* handle of a sidecar that was told to terminate is dropped; it is told so.
Decays == \A g \in 1 .. Len(sidecars) : sidecars'[g].status \in {"dead", sidecars[g].status}

KeepsHandles ==
  /\ Decays
  /\ UNCHANGED <<activeHandle, idleHandle>>
  /\ wpc' \in ToldPcs => wpc \in ToldPcs \/ activeHandle = NoHandle
  /\ wpc' \in ServingPcs => wpc \in ServingPcs

DropsActive ==
  /\ Decays
  /\ activeHandle' = NoHandle /\ UNCHANGED idleHandle
  /\ ~Up(activeHandle) \/ activeHandle = idleHandle
  /\ wpc' \notin ServingPcs

TellsActive ==
  /\ sidecars' = Sigtermed(sidecars, activeHandle)
  /\ UNCHANGED <<activeHandle, idleHandle>>
  /\ activeHandle # idleHandle
  /\ wpc' \notin ServingPcs

LEMMA SameDecays == UNCHANGED sidecars => Decays
BY DEF Decays

LEMMA ReapedDecays ==
  ASSUME Typed, Hands, Statuses, [Next]_vars, sidecars' = Reaped(sidecars, LiveHandles)
  PROVE  Decays
<1>1. /\ DOMAIN sidecars = 1 .. Len(sidecars)
      /\ \A g \in 1 .. Len(sidecars) :
           sidecars'[g].status =
             IF ManagerIsInit /\ sidecars[g].status # "stuck" THEN "dead"
             ELSE IF sidecars[g].status = "up" /\ g \notin {activeHandle, idleHandle}
                  THEN "terminating" ELSE sidecars[g].status
  BY StatusStep
<1> QED
  BY <1>1 DEF Decays, Statuses, NoLeak

LEMMA UnwindKinds ==
  ASSUME Places, NEW e \in {"none", "error", "cancel"}, Unwind(e, activeHandle, idleHandle), UNCHANGED idleHandle
  PROVE  DropsActive \/ TellsActive
<1>1. CASE NeedsSigterm(activeHandle, idleHandle)
  <2>1. TellsActive
    BY <1>1, FinallyFacts DEF Unwind, NeedsSigterm, TellsActive, Goto, ServingPcs
  <2> QED
    BY <2>1
<1>2. CASE ~NeedsSigterm(activeHandle, idleHandle)
  <2>1. ~Up(activeHandle) \/ activeHandle = idleHandle
    BY <1>2 DEF NeedsSigterm, Alive, Up
  <2>2. BackToLoop(e, NoHandle, sidecars)
    BY <1>2 DEF Unwind
  <2>3. DropsActive
    BY <2>1, <2>2, SameDecays DEF BackToLoop, DropsActive, Goto, ServingPcs
  <2> QED
    BY <2>3
<1> QED
  BY <1>1, <1>2

LEMMA WorkerHandles ==
  ASSUME Typed, Hands, Places, Statuses, WorkerStep, [Next]_vars
  PROVE  KeepsHandles \/ DropsActive \/ TellsActive \/ Inherit \/ StartSwap \/ Spawn \/ GraceOver
<1>1. /\ wpc \in ArmedPcs => activeHandle # 0
      /\ wpc \in BusyPcs => idleHandle = 0
      /\ Gone(activeHandle) => ~Up(activeHandle)
      /\ UNCHANGED sidecars => Decays
      /\ sidecars' = Reaped(sidecars, LiveHandles) => Decays
  BY SameDecays, ReapedDecays DEF Places, Gone, Alive, Up, NoHandle
<1> USE <1>1, FinallyFacts DEF Goto, Resume, ToldPcs, ServingPcs, NoAnchorPcs, NoHandle, idleVars, handleVars
<1>2. CASE \/ FindNothing \/ LoopExits \/ Wake \/ EvictionAudited \/ RefuseNoManifest
           \/ \E s \in Slots : PopEvicted(s) \/ PopStart(s) \/ Promote(s)
  BY <1>2 DEF FindNothing, LoopExits, Wake, EvictionAudited, RefuseNoManifest, PopEvicted, PopStart, Promote,
     loopUnchanged, graceUnchanged, KeepsHandles
<1>3. CASE Inherited \/ Swapped \/ GatesRefuse \/ HealthOk \/ HealthTimesOut \/ Activated \/ CompleteOk
  BY <1>3 DEF Inherited, Swapped, GatesRefuse, ReadyToSpawn, HealthOk, HealthTimesOut, Activated,
     CompleteOk, KeepsHandles
<1>4. CASE \/ GraceEntered \/ PromotionAudited \/ MatchCompletes \/ MatchExtends \/ MatchFailed
           \/ MatchEnded
  BY <1>4 DEF GraceEntered, PromotionAudited, MatchCompletes, MatchExtends, MatchFailed, MatchEnded,
     graceUnchanged, KeepsHandles
<1>5. CASE \/ CancelMatch \/ CancelFinally \/ CancelLoop \/ ForcedCold \/ ErrorTeardownRaises
           \/ ColdTeardownRaises \/ ForceColdRaises
  BY <1>5 DEF CancelMatch, CancelFinally, CancelLoop, LoopPcs, ForcedCold, ErrorTeardownRaises, ColdTeardownRaises,
     ForceColdRaises, cancelUnchanged, parkUnchanged, KeepsHandles
<1>6. CASE \/ NoManifestFailed \/ GatesRefused \/ IdleEntered \/ CancelProcess \/ MatchCancelled
  <2>1. UNCHANGED idleHandle /\ \E e \in {"none", "cancel"} : Unwind(e, activeHandle, idleHandle)
    BY <1>6 DEF NoManifestFailed, GatesRefused, IdleEntered, CancelProcess, MatchCancelled, cancelUnchanged
  <2> QED
    BY <2>1, UnwindKinds
<1>7. CASE Raises
  <2>1. UNCHANGED idleHandle /\ Unwind("error", activeHandle, idleHandle)
    BY <1>7, RaisesWhere DEF Raise
  <2> QED
    BY <2>1, UnwindKinds
<1>8. CASE LoadFailTornDown \/ GraceTornDown \/ ErrorTornDown \/ ColdTornDown \/ FinallyDone
  BY <1>8 DEF LoadFailTornDown, GraceTornDown, ErrorTornDown, ColdTornDown, ParkAnchor, FinallyDone,
     BackToLoop, parkUnchanged, DropsActive
<1>9. CASE LoadFailAudited
  BY <1>9 DEF LoadFailAudited, TellsActive, ArmedPcs, BusyPcs
<1>10. CASE FinallyRaises
  BY <1>10 DEF FinallyRaises, BackToLoop, KeepsHandles, TellsActive, ArmedPcs, Places
<1> QED
  BY <1>2, <1>3, <1>4, <1>5, <1>6, <1>7, <1>8, <1>9, <1>10 DEF WorkerStep, Worker, Raises

LEMMA StatusesWorker ==
  ASSUME Typed, Hands, Places, Statuses, WorkerStep, [Next]_vars
  PROVE  Statuses'
<1>1. /\ DOMAIN sidecars = 1 .. Len(sidecars) /\ DOMAIN sidecars' = 1 .. Len(sidecars')
      /\ ~Spawn => Len(sidecars') = Len(sidecars)
      /\ activeHandle # 0 => activeHandle \in 1 .. Len(sidecars)
      /\ idleHandle # 0 => idleHandle \in 1 .. Len(sidecars)
  BY StatusStep DEF NoHandle
<1>2. /\ wpc \in ArmedPcs => activeHandle # 0
      /\ wpc \in BusyPcs => idleHandle = 0
      /\ wpc \in ServingPcs => activeHandle # 0
  BY DEF Places, ArmedPcs, NoHandle
<1> USE DEF Statuses, NoLeak, Up, NoHandle
<1>3. CASE Spawn
  <2>1. /\ activeHandle' = Len(sidecars) + 1 /\ Len(sidecars') = Len(sidecars) + 1
        /\ sidecars'[Len(sidecars) + 1].status = "up"
        /\ \A g \in 1 .. Len(sidecars) : sidecars'[g] = sidecars[g]
        /\ Len(sidecars) \in Nat
    BY <1>3, SpawnFacts DEF Typed
  <2>2. idleHandle = 0 /\ idleHandle' = 0 /\ wpc \in ToldPcs /\ wpc' = "health"
    BY <1>2, <1>3 DEF Spawn, ReadyToSpawn, Resume, Goto, BusyPcs, ToldPcs, idleVars
  <2>3. wpc' \notin ToldPcs
    BY <2>2, FinallyFacts DEF ToldPcs, NoAnchorPcs
  <2>4. ASSUME NEW g \in 1 .. Len(sidecars) PROVE sidecars[g].status # "up"
    <3>1. g \in DOMAIN sidecars
      BY <1>1
    <3>2. Len(sidecars) \in Nat
      BY <2>1
    <3>3. g # 0
      BY <3>2
    <3> QED
      BY <2>2, <3>1, <3>3
  <2>5. \A h \in 1 .. Len(sidecars) + 1 : h \in 1 .. Len(sidecars) \/ h = Len(sidecars) + 1
    BY <2>1
  <2>6. \A h \in 1 .. Len(sidecars) + 1 : sidecars'[h].status = "up" => h = activeHandle'
    BY <2>1, <2>4, <2>5
  <2>7. sidecars'[activeHandle'].status \notin {"terminating", "stuck"}
    BY <2>1
  <2> QED
    BY <1>1, <2>1, <2>2, <2>3, <2>6, <2>7
<1>4. CASE KeepsHandles /\ ~Spawn
  BY <1>1, <1>2, <1>4 DEF KeepsHandles, Decays
<1>5. CASE DropsActive /\ ~Spawn
  BY <1>1, <1>5 DEF DropsActive, Decays
<1>6. ASSUME sidecars' = Sigtermed(sidecars, activeHandle)
      PROVE  \A g \in 1 .. Len(sidecars) :
               sidecars'[g].status = IF g = activeHandle /\ sidecars[g].status = "up"
                                     THEN "terminating" ELSE sidecars[g].status
  BY <1>6, StatusStep
<1>7. CASE TellsActive /\ ~Spawn
  BY <1>1, <1>6, <1>7 DEF TellsActive
<1>8. CASE Inherit
  BY <1>1, <1>8, FinallyFacts DEF Inherit, WarmInherit, ClearIdle, Resume, Goto, ToldPcs, NoAnchorPcs
<1>9. CASE StartSwap
  <2>1. \A g \in 1 .. Len(sidecars) :
          sidecars'[g].status = IF g = idleHandle /\ sidecars[g].status = "up"
                                THEN "terminating" ELSE sidecars[g].status
    BY <1>9, StatusStep DEF StartSwap
  <2>2. activeHandle' = activeHandle /\ idleHandle' = 0 /\ wpc \in ToldPcs /\ wpc' \notin ServingPcs
    BY <1>9 DEF StartSwap, ClearIdle, Resume, Goto, ToldPcs, ServingPcs
  <2>3. ~Spawn
    BY <1>9 DEF StartSwap, Spawn, Goto
  <2> QED
    BY <1>1, <2>1, <2>2, <2>3
<1>10. CASE GraceOver
  <2>1. /\ activeHandle # 0 /\ idleHandle = 0 /\ activeHandle' = activeHandle
        /\ wpc \in ServingPcs
        /\ ~Spawn
    BY <1>2, <1>10 DEF GraceOver, Resume, Goto, ServingPcs, BusyPcs, GracePcs, Spawn
  <2>2. CASE sidecars' = Sigtermed(sidecars, activeHandle) /\ wpc' = "grace_teardown" /\ idleHandle' = idleHandle
    BY <1>1, <1>6, <2>1, <2>2 DEF ServingPcs
  <2>3. CASE sidecars' = sidecars /\ wpc' = "idle_enter" /\ idleHandle' = activeHandle
    BY <1>1, <2>1, <2>3, FinallyFacts DEF ToldPcs, NoAnchorPcs
  <2> QED
    BY <1>10, <2>2, <2>3 DEF GraceOver, Goto, idleVars
<1>11. Inherit \/ StartSwap \/ GraceOver => ~Spawn
  BY DEF Inherit, StartSwap, GraceOver, Spawn, Goto
<1> QED
  BY <1>3, <1>4, <1>5, <1>7, <1>8, <1>9, <1>10, WorkerHandles

LEMMA StatusesKept ==
  ASSUME Typed, Hands, Places, Statuses, [Next]_vars
  PROVE  Statuses'
BY StatusesBystander, StatusesWorker, StepKinds

------------------------------------------------------------------------------
\* Without faults, and unless the manager is init, a sidecar it counts on lives.
Alone ==
  faults = 0 /\ ~ManagerIsInit =>
    /\ idleHandle # NoHandle => sidecars[idleHandle].status # "dead"
    /\ wpc \in ServingPcs => sidecars[activeHandle].status # "dead"

LEMMA FaultsGrow ==
  ASSUME Typed, Hands, [Next]_vars
  PROVE  /\ faults' = 0 => faults = 0
         /\ ~stop' => ~stop
<1>0. faults \in Nat /\ stop \in BOOLEAN
  BY ManagerAssumption DEF Typed
<1> USE <1>0 DEF stopVars, Fault, pathUnchanged, loopUnchanged, graceUnchanged, parkUnchanged,
        cancelUnchanged, taskUnchanged, clockUnchanged
<1> DEFINE Goal == (faults' = 0 => faults = 0) /\ (~stop' => ~stop)
<1>1. Client => Goal
  BY DEF Client, Submit, SubmitAtHead, SubmitAtTail, SubmitRefused, ClientLeaves, ClientTimesOut
<1>2. ExpiryTask \/ Clock \/ Exits => Goal
  BY DEF ExpiryTask, ExpiryTaskStarts, ExpiryTaskEnds, Clock, GraceTimerElapses, DeadlineElapses,
         IdleElapses, Exits, SidecarExits, StuckExits
<1>3. (\E h \in DOMAIN sidecars : SidecarCrashes(h) \/ SidecarSticks(h)) => Goal
  BY DEF SidecarCrashes, SidecarSticks
<1>4. Raises => Goal
  BY DEF Raises, SpawnFails, HealthRaises, CompleteFails, AwaitRaises, ManifestRaises, Raise
<1>5. ErrorTeardownRaises \/ ColdTeardownRaises \/ ForceColdRaises \/ ForcedCold \/ ErrorTornDown \/ ColdTornDown => Goal
  BY DEF ErrorTeardownRaises, ColdTeardownRaises, ForceColdRaises, ForcedCold, ErrorTornDown, ColdTornDown, ParkAnchor
<1>6. FinallyDone \/ FinallyRaises => Goal
  BY DEF FinallyDone, FinallyRaises
<1>7. Shutdown => Goal
  BY DEF Shutdown, ShutdownStarts, ShutdownCloses, ShutdownEnds, CancelProcess, CancelMatch,
     MatchCancelled, CancelFinally, CancelLoop
<1>8. FindNothing \/ LoopExits \/ Wake \/ EvictionAudited \/ RefuseNoManifest \/ NoManifestFailed => Goal
  BY DEF FindNothing, LoopExits, Wake, EvictionAudited, RefuseNoManifest, NoManifestFailed
<1>12. (\E s \in Slots : PopEvicted(s) \/ PopStart(s) \/ Promote(s)) => Goal
  BY DEF PopEvicted, PopStart, Promote
<1>9. \/ Inherit \/ Inherited \/ StartSwap \/ Swapped \/ GatesRefuse \/ GatesRefused \/ Spawn
      \/ HealthOk \/ HealthTimesOut \/ LoadFailAudited \/ LoadFailTornDown \/ Activated
      => Goal
  BY DEF Inherit, Inherited, StartSwap, Swapped, GatesRefuse, GatesRefused, Spawn, HealthOk,
     HealthTimesOut, LoadFailAudited, LoadFailTornDown, Activated
<1>10. \/ CompleteOk \/ GraceEntered \/ PromotionAudited \/ MatchCompletes \/ MatchExtends
       \/ MatchFailed \/ MatchEnded \/ GraceOver \/ IdleEntered \/ GraceTornDown
       => Goal
  BY DEF CompleteOk, GraceEntered, PromotionAudited, MatchCompletes, MatchExtends, MatchFailed,
     MatchEnded, GraceOver, IdleEntered, GraceTornDown
<1>11. UNCHANGED vars => Goal
  BY DEF vars
<1> QED
  BY <1>1, <1>2, <1>3, <1>4, <1>5, <1>6, <1>7, <1>8, <1>9, <1>10, <1>11, <1>12
  DEF Next, ServeNext, Worker, Faults, Raises

LEMMA NobodyDies ==
  ASSUME Typed, Hands, [Next]_vars, faults' = 0, ~ManagerIsInit,
         NEW g \in 1 .. Len(sidecars), sidecars[g].status \notin {"terminating", "stuck", "dead"}
  PROVE  sidecars'[g].status # "dead"
<1>1. CASE sidecars' \in {sidecars, Sigtermed(sidecars, activeHandle), Sigtermed(sidecars, idleHandle),
                          Reaped(sidecars, LiveHandles)}
  BY <1>1, Tables
<1>2. CASE \E h \in 1 .. Len(sidecars) : Dies(h) \/ Sticks(h)
  <2>1. PICK h \in 1 .. Len(sidecars), state \in {"stuck", "dead"} :
          sidecars' = Stamped(sidecars, h, state) /\ sidecars[h].status \in {"terminating", "stuck"}
    BY <1>2 DEF Dies, Sticks
  <2>2. sidecars'[g] = sidecars[g]
    BY <2>1, StampedTable DEF Typed
  <2> QED
    BY <2>2
<1>3. CASE Spawn
  BY <1>3, SpawnFacts
<1> QED
  BY <1>1, <1>2, <1>3, TableStep

\* Who the warm holder is.
LEMMA HolderStep ==
  ASSUME [Next]_vars, idleHandle' # NoHandle
  PROVE  \/ UNCHANGED <<idleHandle, idleTag>>
         \/ GraceOver /\ idleHandle' = activeHandle /\ idleTag' = Model[anchor]
<1> DEFINE Goal == \/ UNCHANGED <<idleHandle, idleTag>>
                   \/ GraceOver /\ idleHandle' = activeHandle /\ idleTag' = Model[anchor]
<1> USE DEF idleVars, handleVars, ClearIdle, pathUnchanged, loopUnchanged, graceUnchanged,
        parkUnchanged, cancelUnchanged, taskUnchanged, clockUnchanged
<1>1. Client => Goal
  BY DEF Client, Submit, SubmitAtHead, SubmitAtTail, SubmitRefused, ClientLeaves, ClientTimesOut
<1>2. ExpiryTask \/ Clock \/ Exits \/ (\E h \in DOMAIN sidecars : SidecarCrashes(h) \/ SidecarSticks(h)) => Goal
  BY DEF ExpiryTask, ExpiryTaskStarts, ExpiryTaskEnds, Clock, GraceTimerElapses, DeadlineElapses,
         IdleElapses, Exits, SidecarExits, StuckExits, SidecarCrashes, SidecarSticks
<1>3. Raises => Goal
  BY DEF Raises, SpawnFails, HealthRaises, CompleteFails, AwaitRaises, ManifestRaises, Raise
<1>4. ErrorTeardownRaises \/ ColdTeardownRaises \/ ForceColdRaises \/ ForcedCold \/ ErrorTornDown \/ ColdTornDown => Goal
  BY DEF ErrorTeardownRaises, ColdTeardownRaises, ForceColdRaises, ForcedCold, ErrorTornDown, ColdTornDown, ParkAnchor
<1>5. FinallyDone \/ FinallyRaises => Goal
  BY DEF FinallyDone, FinallyRaises
<1>6. Shutdown => Goal
  BY DEF Shutdown, ShutdownStarts, ShutdownCloses, ShutdownEnds, CancelProcess, CancelMatch,
     MatchCancelled, CancelFinally, CancelLoop
<1>7. \/ FindNothing \/ LoopExits \/ Wake \/ EvictionAudited \/ RefuseNoManifest \/ NoManifestFailed
      \/ \E s \in Slots : PopEvicted(s) \/ PopStart(s) \/ Promote(s)
      => Goal
  BY DEF FindNothing, LoopExits, Wake, EvictionAudited, RefuseNoManifest, NoManifestFailed, PopEvicted,
     PopStart, Promote
<1>8. \/ Inherit \/ Inherited \/ StartSwap \/ Swapped \/ GatesRefuse \/ GatesRefused \/ Spawn
      \/ HealthOk \/ HealthTimesOut \/ LoadFailAudited \/ LoadFailTornDown \/ Activated
      => Goal
  BY DEF Inherit, Inherited, StartSwap, Swapped, GatesRefuse, GatesRefused, Spawn, HealthOk,
     HealthTimesOut, LoadFailAudited, LoadFailTornDown, Activated
<1>9. \/ CompleteOk \/ GraceEntered \/ PromotionAudited \/ MatchCompletes \/ MatchExtends
      \/ MatchFailed \/ MatchEnded \/ GraceOver \/ IdleEntered \/ GraceTornDown
      => Goal
  BY DEF CompleteOk, GraceEntered, PromotionAudited, MatchCompletes, MatchExtends, MatchFailed,
     MatchEnded, GraceOver, IdleEntered, GraceTornDown
<1>10. UNCHANGED vars => Goal
  BY DEF vars
<1> QED
  BY <1>1, <1>2, <1>3, <1>4, <1>5, <1>6, <1>7, <1>8, <1>9, <1>10
  DEF Next, ServeNext, Worker, Faults, Raises

\* Whose sidecar serves: the same as before, the holder's, or a new one.
LEMMA ServingStep ==
  ASSUME Typed, Hands, Places, Statuses, [Next]_vars, wpc' \in ServingPcs
  PROVE  /\ anchor' = anchor
         /\ (wpc \in ServingPcs /\ activeHandle' = activeHandle) \/ Inherit \/ Spawn
<1>1. CASE Bystander
  BY <1>1, BystanderKeeps
<1>2. CASE WorkerStep
  <2>1. (wpc \in ServingPcs /\ activeHandle' = activeHandle) \/ Inherit \/ Spawn
    <3>1. ~StartSwap
      BY DEF StartSwap, Goto, ServingPcs
    <3>2. GraceOver => wpc \in ServingPcs /\ activeHandle' = activeHandle
      BY DEF GraceOver, Resume, ServingPcs
    <3>3. ~DropsActive /\ ~TellsActive
      BY DEF DropsActive, TellsActive
    <3>4. KeepsHandles => wpc \in ServingPcs /\ activeHandle' = activeHandle
      BY DEF KeepsHandles
    <3> QED
      BY <1>2, <3>1, <3>2, <3>3, <3>4, WorkerHandles
  <2>2. anchor' = anchor
    <3> USE FinallyFacts DEF ServingPcs, Goto, Resume, BackToLoop, Unwind
    <3>1. CASE Raises
      BY <3>1, RaisesWhere DEF Raise
    <3>2. CASE FindNothing \/ LoopExits \/ Wake \/ EvictionAudited \/ (\E s \in Slots : PopEvicted(s) \/ PopStart(s))
      BY <3>2 DEF FindNothing, LoopExits, Wake, EvictionAudited, PopEvicted, PopStart
    <3>3. CASE RefuseNoManifest \/ Inherit \/ Inherited \/ StartSwap \/ Swapped \/ GatesRefuse
               \/ Spawn \/ HealthOk \/ HealthTimesOut \/ LoadFailAudited \/ Activated \/ CompleteOk
               \/ GraceEntered
      BY <3>3 DEF RefuseNoManifest, Inherit, Inherited, StartSwap, Swapped, GatesRefuse, ReadyToSpawn,
         Spawn, HealthOk, HealthTimesOut, LoadFailAudited, Activated, CompleteOk, GraceEntered
    <3>4. CASE PromotionAudited \/ MatchCompletes \/ MatchExtends \/ MatchFailed \/ MatchEnded
               \/ GraceOver \/ (\E s \in Slots : Promote(s))
      BY <3>4 DEF PromotionAudited, MatchCompletes, MatchExtends, MatchFailed, MatchEnded, GraceOver, Promote
    <3>5. CASE NoManifestFailed \/ GatesRefused \/ IdleEntered \/ LoadFailTornDown \/ GraceTornDown
      BY <3>5 DEF NoManifestFailed, GatesRefused, IdleEntered, LoadFailTornDown, GraceTornDown
    <3>6. CASE FinallyDone \/ FinallyRaises
      BY <3>6 DEF FinallyDone, FinallyRaises
    <3>7. CASE ErrorTornDown \/ ColdTornDown \/ ForcedCold \/ ErrorTeardownRaises \/ ColdTeardownRaises \/ ForceColdRaises
      BY <3>7 DEF ErrorTornDown, ColdTornDown, ForcedCold, ParkAnchor, ErrorTeardownRaises, ColdTeardownRaises, ForceColdRaises
    <3>8. CASE CancelProcess \/ CancelMatch \/ MatchCancelled \/ CancelFinally \/ CancelLoop
      BY <3>8 DEF CancelProcess, CancelMatch, MatchCancelled, CancelFinally, CancelLoop
    <3> QED
      BY <1>2, <3>1, <3>2, <3>3, <3>4, <3>5, <3>6, <3>7, <3>8 DEF WorkerStep, Worker, Raises
  <2> QED
    BY <2>1, <2>2
<1> QED
  BY <1>1, <1>2, StepKinds

LEMMA HandlesInTable ==
  ASSUME Typed, Places
  PROVE  /\ idleHandle # 0 => idleHandle \in 1 .. Len(sidecars)
         /\ wpc \in ServingPcs => activeHandle \in 1 .. Len(sidecars)
         /\ wpc \in BusyPcs => idleHandle = 0
BY DEF Typed, Places, ArmedPcs, NoHandle

LEMMA AloneKept ==
  ASSUME Typed, Hands, Places, Statuses, Alone, [Next]_vars
  PROVE  Alone'
<1> SUFFICES ASSUME faults' = 0, ~ManagerIsInit
             PROVE  /\ idleHandle' # 0 => sidecars'[idleHandle'].status # "dead"
                    /\ wpc' \in ServingPcs => sidecars'[activeHandle'].status # "dead"
  BY DEF Alone, NoHandle
<1>1. /\ idleHandle # 0 => sidecars[idleHandle].status \notin {"terminating", "stuck", "dead"}
      /\ wpc \in ServingPcs => sidecars[activeHandle].status \notin {"terminating", "stuck", "dead"}
  BY FaultsGrow DEF Alone, Statuses, NoHandle
<1>2. /\ idleHandle # 0 => sidecars'[idleHandle].status # "dead"
      /\ wpc \in ServingPcs => sidecars'[activeHandle].status # "dead"
  BY <1>1, HandlesInTable, NobodyDies
<1>3. idleHandle' # 0 => sidecars'[idleHandle'].status # "dead"
  BY <1>2, HolderStep DEF GraceOver, Resume, ServingPcs, NoHandle
<1>4. wpc' \in ServingPcs => sidecars'[activeHandle'].status # "dead"
  <2>1. Inherit => activeHandle' = idleHandle /\ idleHandle # 0
    BY DEF Inherit, WarmInherit, NoHandle
  <2>2. Spawn => sidecars'[activeHandle'].status = "up"
    BY SpawnFacts
  <2> QED
    BY <1>2, <2>1, <2>2, ServingStep
<1> QED
  BY <1>3, <1>4

------------------------------------------------------------------------------
\* The models of the sidecars behind the handles.
Models ==
  /\ wpc \in ServingPcs => sidecars[activeHandle].model = Model[anchor]
  /\ idleHandle # NoHandle => sidecars[idleHandle].model = idleTag
  /\ wpc = "staged" => ~HolderAtRisk(anchor)

LEMMA ModelsKept ==
  ASSUME Typed, Hands, Places, Statuses, Models, [Next]_vars
  PROVE  Models'
<1>1. \A g \in 1 .. Len(sidecars) : sidecars'[g].model = sidecars[g].model
  BY TableGrows
<1>2. ASSUME wpc' \in ServingPcs
      PROVE  sidecars'[activeHandle'].model = Model[anchor']
  <2>1. CASE wpc \in ServingPcs /\ activeHandle' = activeHandle
    BY <1>1, <1>2, <2>1, ServingStep, HandlesInTable DEF Models
  <2>2. CASE Inherit
    BY <1>1, <2>2, HandlesInTable DEF Inherit, WarmInherit, Models, NoHandle
  <2>3. CASE Spawn
    BY <1>2, <2>3, SpawnFacts, ServingStep
  <2> QED
    BY <1>2, <2>1, <2>2, <2>3, ServingStep
<1>3. ASSUME idleHandle' # 0
      PROVE  sidecars'[idleHandle'].model = idleTag'
  <2>1. CASE UNCHANGED <<idleHandle, idleTag>>
    BY <1>1, <1>3, <2>1, HandlesInTable DEF Models, NoHandle
  <2>2. CASE GraceOver /\ idleHandle' = activeHandle /\ idleTag' = Model[anchor]
    BY <1>1, <2>2, HandlesInTable DEF Models, GraceOver, Resume, ServingPcs
  <2> QED
    BY <1>3, <2>1, <2>2, HolderStep DEF NoHandle
<1>4. ASSUME wpc' = "staged"
      PROVE  ~HolderAtRisk(anchor)'
  <2>1. idleHandle' # 0 => UNCHANGED <<idleHandle, idleTag>>
    BY <1>4, HolderStep DEF GraceOver, Goto, NoHandle
  <2>2. CASE Bystander
    BY <1>4, <2>1, <2>2, BystanderKeeps DEF Models, HolderAtRisk, NoHandle
  <2>3. CASE \E s \in Slots : PopStart(s)
    BY <1>4, <2>1, <2>3 DEF PopStart, Goto, HolderAtRisk, NoHandle
  <2>4. WorkerStep => \E s \in Slots : PopStart(s)
    <3> USE <1>4, FinallyFacts DEF Goto, BackToLoop, Unwind
    <3>1. ~Raises
      BY RaisesWhere DEF Raise
    <3>2. ~(FindNothing \/ LoopExits \/ Wake \/ EvictionAudited \/ (\E s \in Slots : PopEvicted(s)))
      BY DEF FindNothing, LoopExits, Wake, EvictionAudited, PopEvicted
    <3>3. ~(RefuseNoManifest \/ Inherit \/ Inherited \/ StartSwap \/ Swapped \/ GatesRefuse
            \/ Spawn \/ HealthOk \/ HealthTimesOut \/ LoadFailAudited \/ Activated \/ CompleteOk
            \/ GraceEntered)
      BY DEF RefuseNoManifest, Inherit, Inherited, StartSwap, Swapped, GatesRefuse, ReadyToSpawn,
         Spawn, HealthOk, HealthTimesOut, LoadFailAudited, Activated, CompleteOk, GraceEntered
    <3>4. ~(PromotionAudited \/ MatchCompletes \/ MatchExtends \/ MatchFailed \/ MatchEnded
            \/ GraceOver \/ (\E s \in Slots : Promote(s)))
      BY DEF PromotionAudited, MatchCompletes, MatchExtends, MatchFailed, MatchEnded, GraceOver, Promote
    <3>5. ~(NoManifestFailed \/ GatesRefused \/ IdleEntered \/ LoadFailTornDown \/ GraceTornDown)
      BY DEF NoManifestFailed, GatesRefused, IdleEntered, LoadFailTornDown, GraceTornDown
    <3>6. ~(FinallyDone \/ FinallyRaises)
      BY DEF FinallyDone, FinallyRaises
    <3>7. ~(ErrorTornDown \/ ColdTornDown \/ ForcedCold \/ ErrorTeardownRaises \/ ColdTeardownRaises \/ ForceColdRaises)
      BY DEF ErrorTornDown, ColdTornDown, ForcedCold, ParkAnchor, ErrorTeardownRaises, ColdTeardownRaises, ForceColdRaises
    <3>8. ~(CancelProcess \/ CancelMatch \/ MatchCancelled \/ CancelFinally \/ CancelLoop)
      BY DEF CancelProcess, CancelMatch, MatchCancelled, CancelFinally, CancelLoop
    <3> QED
      BY <3>1, <3>2, <3>3, <3>4, <3>5, <3>6, <3>7, <3>8 DEF WorkerStep, Worker, Raises
  <2> QED
    BY <2>2, <2>3, <2>4, StepKinds
<1> QED
  BY <1>2, <1>3, <1>4 DEF Models, NoHandle

------------------------------------------------------------------------------
(***************************************************************************)
(* A request starts at most one sidecar: there are no more of them than    *)
(* requests the worker has taken, and one fewer while a request that has   *)
(* been taken may still start one.                                         *)
(***************************************************************************)
Used == {s \in Slots : phase[s] # "QUEUED"}

MaySpawnPcs == {"staged", "swap", "gates"}

Counted ==
  /\ Len(sidecars) <= Cardinality(Used)
  /\ wpc \in MaySpawnPcs => Len(sidecars) < Cardinality(Used)

LEMMA MaySpawnStep ==
  ASSUME [Next]_vars, wpc' \in MaySpawnPcs
  PROVE  wpc \in MaySpawnPcs \/ \E s \in Slots : PopStart(s)
<1> USE FinallyFacts DEF MaySpawnPcs, Goto, Resume, BackToLoop, Unwind
<1>1. CASE Bystander
  BY <1>1, BystanderKeeps
<1>2. ~Raise
  BY DEF Raise
<1>3. CASE WorkerStep
  <2>1. ~(SpawnFails \/ HealthRaises \/ CompleteFails \/ AwaitRaises \/ ManifestRaises)
    BY <1>2 DEF SpawnFails, HealthRaises, CompleteFails, AwaitRaises, ManifestRaises
  <2>2. CASE FindNothing \/ LoopExits \/ Wake \/ EvictionAudited \/ (\E s \in Slots : PopEvicted(s) \/ PopStart(s))
    BY <2>2 DEF FindNothing, LoopExits, Wake, EvictionAudited, PopEvicted
  <2>3. CASE RefuseNoManifest \/ Inherit \/ Inherited \/ StartSwap \/ Swapped \/ GatesRefuse
             \/ Spawn \/ HealthOk \/ HealthTimesOut \/ LoadFailAudited \/ Activated \/ CompleteOk
             \/ GraceEntered
    BY <2>3 DEF RefuseNoManifest, Inherit, Inherited, StartSwap, Swapped, GatesRefuse, ReadyToSpawn,
       Spawn, HealthOk, HealthTimesOut, LoadFailAudited, Activated, CompleteOk, GraceEntered
  <2>4. ~(PromotionAudited \/ MatchCompletes \/ MatchExtends \/ MatchFailed \/ MatchEnded
          \/ GraceOver \/ (\E s \in Slots : Promote(s)))
    BY DEF PromotionAudited, MatchCompletes, MatchExtends, MatchFailed, MatchEnded, GraceOver, Promote
  <2>5. ~(NoManifestFailed \/ GatesRefused \/ IdleEntered \/ LoadFailTornDown \/ GraceTornDown)
    BY DEF NoManifestFailed, GatesRefused, IdleEntered, LoadFailTornDown, GraceTornDown
  <2>6. ~(FinallyDone \/ FinallyRaises)
    BY DEF FinallyDone, FinallyRaises
  <2>7. ~(ErrorTornDown \/ ColdTornDown \/ ForcedCold \/ ErrorTeardownRaises \/ ColdTeardownRaises \/ ForceColdRaises)
    BY DEF ErrorTornDown, ColdTornDown, ForcedCold, ParkAnchor, ErrorTeardownRaises, ColdTeardownRaises, ForceColdRaises
  <2>8. ~(CancelProcess \/ CancelMatch \/ MatchCancelled \/ CancelFinally \/ CancelLoop)
    BY DEF CancelProcess, CancelMatch, MatchCancelled, CancelFinally, CancelLoop
  <2> QED
    BY <1>3, <2>1, <2>2, <2>3, <2>4, <2>5, <2>6, <2>7, <2>8 DEF WorkerStep, Worker
<1> QED
  BY <1>1, <1>3, StepKinds

LEMMA CountedKept ==
  ASSUME Typed, Hands, Queued, PhaseAt, SettledAt, Counted, [Next]_vars
  PROVE  Counted'
<1> DEFINE N == Len(sidecars)
<1>1. /\ IsFiniteSet(Slots) /\ DOMAIN phase = Slots
      /\ N \in Nat /\ Len(sidecars') \in {N, N + 1}
      /\ Len(sidecars') # N => Spawn
  BY ManagerAssumption, TableGrows DEF Typed
<1>2. /\ Used \subseteq Slots /\ Used' \subseteq Slots
      /\ IsFiniteSet(Used) /\ IsFiniteSet(Used')
      /\ Cardinality(Used) \in Nat /\ Cardinality(Used') \in Nat
  BY <1>1, FS_Subset, FS_CardinalityType DEF Used
<1>3. Used \subseteq Used'
  BY <1>1, PhaseMoves DEF Used, PopStart, Promote, Activates, MovesOn, Legally, ParksCold, SetPhase, SlotStates
<1>4. Cardinality(Used) <= Cardinality(Used')
  BY <1>2, <1>3, FS_Subset
<1>5. CASE Spawn
  <2>1. wpc \in MaySpawnPcs /\ wpc' \notin MaySpawnPcs
    BY <1>5 DEF Spawn, ReadyToSpawn, Resume, Goto, MaySpawnPcs
  <2>2. N < Cardinality(Used) /\ Len(sidecars') <= N + 1
    BY <1>1, <2>1 DEF Counted
  <2>3. Len(sidecars') <= Cardinality(Used')
    BY <1>1, <1>2, <1>4, <2>2
  <2> QED
    BY <2>1, <2>3 DEF Counted
<1>6. CASE ~Spawn
  <2>1. Len(sidecars') = N /\ N <= Cardinality(Used)
    BY <1>1, <1>6 DEF Counted
  <2>2. Len(sidecars') <= Cardinality(Used')
    BY <1>1, <1>2, <1>4, <2>1
  <2>3. ASSUME NEW s \in Slots, PopStart(s)
        PROVE  Len(sidecars') < Cardinality(Used')
    <3>1. s \notin Used /\ s \in Used'
      <4>1. s \in Waiting
        BY <2>3, PopNextSound DEF PopStart, Typed
      <4> QED
        BY <1>1, <2>3, <4>1 DEF Used, Queued, PopStart, SetPhase
    <3>2. /\ IsFiniteSet(Used \cup {s})
          /\ Cardinality(Used \cup {s}) = Cardinality(Used) + 1
      BY <1>2, <3>1, FS_AddElement
    <3>3. Cardinality(Used \cup {s}) <= Cardinality(Used')
      BY <1>2, <1>3, <3>1, <3>2, FS_Subset
    <3> QED
      BY <1>1, <1>2, <2>1, <3>2, <3>3
  <2>4. wpc \in MaySpawnPcs => Len(sidecars') < Cardinality(Used')
    BY <1>1, <1>2, <1>4, <2>1 DEF Counted
  <2> QED
    BY <2>2, <2>3, <2>4, MaySpawnStep DEF Counted
<1> QED
  BY <1>5, <1>6

------------------------------------------------------------------------------
\* Without faults and shutdown a pending request is in the line or in hand.  A
\* fault during a promotion fails the anchor and forgets the follow-up, and a
\* cancelled worker forgets its anchor.
NotAbandoned ==
  faults = 0 /\ ~stop =>
    /\ NoAbandonedRequest
    /\ wpc \in FinallyPcs => matched = NoSlot

\* The worker lets go of a request only when it has settled it.
LEMMA LetsGo ==
  ASSUME Typed, Hands, Queued, PhaseAt, SettledAt, Stopping, NotAbandoned, [Next]_vars,
         faults' = 0, ~stop'
  PROVE  /\ anchor \in Slots /\ anchor' # anchor => future'[anchor] # "pending"
         /\ matched \in Slots /\ matched' # matched => future'[matched] # "pending"
         /\ wpc' \in FinallyPcs => matched' = NoSlot
<1> DEFINE Goal == /\ anchor \in Slots /\ anchor' # anchor => future'[anchor] # "pending"
                   /\ matched \in Slots /\ matched' # matched => future'[matched] # "pending"
                   /\ wpc' \in FinallyPcs => matched' = NoSlot
<1>1. /\ faults = 0 /\ ~stop /\ ~cancelling
      /\ wpc \notin {"done", "finally_cancel", "match_cancelled", "crashed"}
      /\ wpc \in FinallyPcs => matched = NoSlot
  BY FaultsGrow DEF Stopping, NotAbandoned
<1>2. /\ \A s \in Slots : future[s] \notin {"none", "pending"} => future'[s] # "pending"
      /\ anchor \in Slots => future[anchor] # "none"
      /\ matched \in Slots => future[matched] # "none"
      /\ \A s \in Slots, outcome \in {"ok", "failed"} : Settle({s}, outcome) => future'[s] # "pending"
  BY FuturesGrow DEF Queued, PhaseAt, Settle
<1> USE <1>1, <1>2, FinallyFacts, ManagerAssumption
    DEF Hands, NoAnchorPcs, MatchPcs, GracePcs, SettledAt, Resume, Goto, BackToLoop, Unwind
<1>3. CASE Bystander
  BY <1>3, BystanderKeeps
<1>4. CASE Raises
  <2>1. anchor \in Slots /\ Raise /\ ~AwaitRaises /\ matched = NoSlot
    BY <1>4, RaisesWhere DEF Raises, SpawnFails, HealthRaises, CompleteFails, AwaitRaises, ManifestRaises, ReadyToSpawn, Fault
  <2> QED
    BY <2>1, RaiseGoes
<1>5. CASE FindNothing \/ LoopExits \/ Wake \/ EvictionAudited \/ (\E s \in Slots : PopEvicted(s) \/ PopStart(s))
  BY <1>5 DEF FindNothing, LoopExits, Wake, EvictionAudited, PopEvicted, PopStart, loopUnchanged
<1>6. CASE RefuseNoManifest \/ Inherit \/ Inherited \/ StartSwap \/ Swapped \/ GatesRefuse
           \/ Spawn \/ HealthOk \/ HealthTimesOut \/ LoadFailAudited \/ Activated \/ CompleteOk
           \/ GraceEntered
  BY <1>6 DEF RefuseNoManifest, Inherit, Inherited, StartSwap, Swapped, GatesRefuse, ReadyToSpawn,
     Spawn, HealthOk, HealthTimesOut, LoadFailAudited, Activated, CompleteOk, GraceEntered
<1>7. CASE PromotionAudited \/ MatchCompletes \/ MatchExtends \/ MatchFailed \/ MatchEnded
           \/ GraceOver \/ (\E s \in Slots : Promote(s))
  BY <1>7 DEF PromotionAudited, MatchCompletes, MatchExtends, MatchFailed, MatchEnded, GraceOver, Promote
<1>8. CASE NoManifestFailed \/ GatesRefused \/ IdleEntered \/ LoadFailTornDown \/ GraceTornDown
  BY <1>8 DEF NoManifestFailed, GatesRefused, IdleEntered, LoadFailTornDown, GraceTornDown
<1>9. CASE FinallyDone \/ FinallyRaises
  BY <1>9 DEF FinallyDone, FinallyRaises
<1>10. CASE ErrorTornDown \/ ColdTornDown \/ ForcedCold \/ ErrorTeardownRaises \/ ColdTeardownRaises \/ ForceColdRaises
  BY <1>10 DEF ErrorTornDown, ColdTornDown, ForcedCold, ParkAnchor, ErrorTeardownRaises, ColdTeardownRaises, ForceColdRaises,
     parkUnchanged
<1>11. ~(CancelProcess \/ CancelMatch \/ MatchCancelled \/ CancelFinally \/ CancelLoop)
  BY DEF CancelProcess, CancelMatch, MatchCancelled, CancelFinally, CancelLoop, Cancelled
<1> QED
  BY <1>3, <1>4, <1>5, <1>6, <1>7, <1>8, <1>9, <1>10, <1>11, StepKinds
  DEF WorkerStep, Worker, Raises

LEMMA NotAbandonedKept ==
  ASSUME Typed, Hands, Queued, PhaseAt, SettledAt, Stopping, NotAbandoned, [Next]_vars
  PROVE  NotAbandoned'
<1> SUFFICES ASSUME faults' = 0, ~stop'
             PROVE  /\ NoAbandonedRequest'
                    /\ wpc' \in FinallyPcs => matched' = NoSlot
  BY DEF NotAbandoned
<1>1. ASSUME NEW s \in Slots, future'[s] = "pending"
      PROVE  s \in Waiting' \cup {anchor', matched'}
  <2>1. Queued'
    BY QueuedKept
  <2>2. CASE phase'[s] = "QUEUED"
    BY <1>1, <2>1, <2>2 DEF Queued
  <2>3. CASE phase'[s] # "QUEUED" /\ phase[s] = "QUEUED"
    <3>1. DOMAIN phase = Slots
      BY DEF Typed
    <3>2. PICK x \in Slots : PopStart(x) \/ Promote(x)
      BY <2>3, <3>1, PhaseMoves DEF PhaseAt, Activates, MovesOn, ParksCold, Legally, SetPhase
    <3>3. x = s
      BY <2>3, <3>1, <3>2 DEF PopStart, Promote, SetPhase
    <3> QED
      BY <3>2, <3>3 DEF PopStart, Promote
  <2>4. CASE phase[s] # "QUEUED"
    <3>1. s \notin Waiting
      BY <2>4 DEF Queued
    <3>2. future[s] = "pending"
      <4>1. DOMAIN future = Slots
        BY DEF Typed
      <4>2. future[s] # "none"
        BY <2>4 DEF Queued
      <4> QED
        BY <1>1, <4>1, <4>2, FuturesGrow
    <3>3. s \in {anchor, matched}
      <4>1. NoAbandonedRequest
        BY FaultsGrow DEF NotAbandoned
      <4> QED
        BY <3>1, <3>2, <4>1 DEF NoAbandonedRequest, Waiting
    <3> QED
      BY <1>1, <3>3, LetsGo
  <2> QED
    BY <2>2, <2>3, <2>4
<1>2. wpc' \in FinallyPcs => matched' = NoSlot
  BY LetsGo
<1> QED
  BY <1>1, <1>2 DEF NoAbandonedRequest, Waiting

------------------------------------------------------------------------------
(***************************************************************************)
(* The inductive invariant: the types; what is in hand, queued, written    *)
(* and answered; that one request runs and none is abandoned; how far      *)
(* shutdown is; and the handles, with what is known of their sidecars.     *)
(***************************************************************************)
Inv ==
  /\ Typed /\ Counted
  /\ Hands /\ Queued /\ PhaseAt /\ SettledAt
  /\ OneRuns /\ NotAbandoned
  /\ Stopping /\ Places /\ Statuses /\ Alone /\ Models

LEMMA InvInit == ManagerInit => Inv
<1> SUFFICES ASSUME ManagerInit PROVE Inv
  OBVIOUS
<1> USE ManagerAssumption, GraceAssumption, FinallyFacts, PcsAre
    DEF ManagerInit, NoHandle
<1>1. TiersSound /\ Waiting = {} /\ tier = [s \in Slots |-> "RECEIVED"] /\ closed = FALSE
      /\ evicted \subseteq disconnected
  BY QueueInitSound DEF QueueInit
<1>2. sidecars \in Seq(Sidecar) /\ Len(sidecars) = 0 /\ DOMAIN sidecars = {}
  BY EmptySeq
<1>3. Typed
  <2>1. /\ phase \in [Slots -> SlotStates \cup {"QUEUED"}]
        /\ future \in [Slots -> {"none", "pending", "ok", "failed", "evicted", "timeout",
                                 "refused", "cancelled"}]
        /\ wpc \in WorkerPcs
    OBVIOUS
  <2>2. /\ graceCount \in 0 .. MaxExtensions /\ faults \in 0 .. MaxFaults
        /\ 0 \in 0 .. Len(sidecars)
    BY <1>2 DEF GraceInit
  <2> QED
    BY <1>1, <1>2, <2>1, <2>2 DEF Typed
<1>4. Counted
  <2>1. Used = {}
    BY DEF Used
  <2>2. Cardinality(Used) = 0
    BY <2>1, FS_EmptySet
  <2> QED
    BY <1>2, <2>2 DEF Counted, MaySpawnPcs
<1>5. Hands /\ PhaseAt /\ SettledAt
  BY DEF Hands, NoAnchorPcs, MatchPcs, GracePcs, PhaseAt, SettledAt
<1>6. Queued
  BY <1>1 DEF Queued
<1>7. OneRuns /\ NotAbandoned
  BY DEF OneRuns, Running, NotAbandoned, NoAbandonedRequest
<1>8. Stopping /\ Places
  BY <1>1 DEF Stopping, WorkerEnded, Places, BusyPcs, ArmedPcs, ServingPcs, NoAnchorPcs, GracePcs, MatchPcs
<1>9. Statuses /\ Alone /\ Models
  BY <1>2 DEF Statuses, NoLeak, Up, Alone, Models, ServingPcs
<1> QED
  BY <1>3, <1>4, <1>5, <1>6, <1>7, <1>8, <1>9 DEF Inv

LEMMA InvKept == Inv /\ [Next]_vars => Inv'
<1> SUFFICES ASSUME Inv, [Next]_vars PROVE Inv'
  OBVIOUS
<1> USE DEF Inv
<1>1. Typed' /\ Counted'
  BY TypedKept, CountedKept
<1>2. Hands'
  BY HandsBystander, HandsWorker, StepKinds
<1>3. Queued' /\ PhaseAt' /\ SettledAt'
  BY QueuedKept, PhaseAtKept, SettledAtKept
<1>4. OneRuns' /\ NotAbandoned'
  BY OneRunsKept, NotAbandonedKept
<1>5. Stopping' /\ Places'
  BY StoppingKept, PlacesKept
<1>6. Statuses' /\ Alone' /\ Models'
  BY StatusesKept, AloneKept, ModelsKept
<1> QED
  BY <1>1, <1>2, <1>3, <1>4, <1>5, <1>6

\* The inductive invariant holds of every run, with faults and a shutdown at
\* whichever await.
THEOREM InvHolds == Spec => []Inv
<1> QED
  BY InvInit, InvKept, PTL DEF Spec

------------------------------------------------------------------------------
(***************************************************************************)
(* What follows.                                                           *)
(***************************************************************************)
LEMMA TakenFewerThanSlots == Inv => Len(sidecars) <= Cardinality(Slots)
<1> SUFFICES ASSUME Inv PROVE Len(sidecars) <= Cardinality(Slots)
  OBVIOUS
<1>1. Used \subseteq Slots /\ IsFiniteSet(Slots)
  BY ManagerAssumption DEF Used
<1>2. /\ Cardinality(Used) \in Nat /\ Cardinality(Slots) \in Nat
      /\ Cardinality(Used) <= Cardinality(Slots)
  BY <1>1, FS_Subset, FS_CardinalityType
<1>3. Len(sidecars) <= Cardinality(Used) /\ Len(sidecars) \in Nat
  BY DEF Inv, Counted, Typed
<1> QED
  BY <1>2, <1>3

\* Type correctness of the manager: every handle it keeps, also a stale one,
\* is that of a sidecar it spawned, and it spawns at most one per request.
THEOREM ManagerTyped == Spec => []ManagerTypeOK
<1>1. Inv => ManagerTypeOK
  <2> SUFFICES ASSUME Inv PROVE ManagerTypeOK
    OBVIOUS
  <2>1. DOMAIN sidecars = 1 .. Len(sidecars)
    BY DEF Inv, Typed
  <2>2. \A h \in 0 .. Len(sidecars) : h \in DOMAIN sidecars \cup {NoHandle}
    BY <2>1 DEF Inv, Typed, NoHandle
  <2>3. sidecars \in Seq([model : {Model[s] : s \in Slots}, status : {"up", "terminating", "stuck", "dead"}])
    BY DEF Inv, Typed, Sidecar
  <2>4. {activeHandle, idleHandle, held} \subseteq DOMAIN sidecars \cup {NoHandle}
    BY <2>2 DEF Inv, Typed
  <2>5. detached \subseteq DOMAIN sidecars
    BY <2>1 DEF Inv, Typed
  <2> QED
    BY <2>3, <2>4, <2>5, TakenFewerThanSlots DEF ManagerTypeOK, Inv, Typed, TiersSound, TiersTypeOK
<1> QED
  BY <1>1, InvHolds, PTL

\* No sidecar leaks: whatever raised, was cancelled or shut down, and in
\* whichever order, one nobody has told to terminate is behind a handle.
THEOREM NoSidecarLeaks == Spec => []NoLeak
<1>1. Inv => NoLeak
  BY DEF Inv, Statuses
<1> QED
  BY <1>1, InvHolds, PTL

\* Handle bookkeeping: the handle the worker serves with is of the model of the
\* request in hand, the anchor or a follow-up, and the idle handle of the model
\* under which it is inherited.  (Which process answers on their port is not said.)
THEOREM HandlesAreOfModel == Spec => []HandleOfModel
<1>1. Inv => HandleOfModel
  <2> SUFFICES ASSUME Inv PROVE HandleOfModel
    OBVIOUS
  <2>1. matched \in Slots => Model[matched] = Model[anchor]
    BY ManagerAssumption DEF Inv, Hands
  <2>2. Model[Current] = Model[anchor] \/ matched \notin Slots
    BY <2>1 DEF Current
  <2>3. matched \in Slots \cup {NoSlot}
    BY DEF Inv, Typed
  <2>4. Model[Current] = Model[anchor]
    BY <2>2, <2>3 DEF Current
  <2> QED
    BY <2>4 DEF Inv, Models, Places, ArmedPcs, HandleOfModel
<1> QED
  BY <1>1, InvHolds, PTL

\* The worker never goes on to its next request with a failed one not in COLD:
\* the four hops of _force_cold reach it from every state of the table.
THEOREM FailedAreParked == Spec => []ParkedIsCold
<1>1. Inv => ParkedIsCold
  BY DEF Inv, PhaseAt, ParkedIsCold
<1> QED
  BY <1>1, InvHolds, PTL

\* Once the queue is closed no request waits in it for an answer, however its
\* submit interleaved with the stop signal, the cancel and the close.
THEOREM ShutdownAnswersQueued == Spec => []NoneLeftInQueue
<1>1. Inv => NoneLeftInQueue
  BY DEF Inv, Queued, NoneLeftInQueue
<1> QED
  BY <1>1, InvHolds, PTL

\* When shutdown is over every sidecar has been told to terminate, also one
\* the worker was about to tell at the await it was cancelled at.
THEOREM ShutdownLeavesNoneUp == Spec => []StoppedIsTerminating
<1>1. Inv => StoppedIsTerminating
  <2> SUFFICES ASSUME Inv, shut = "stopped", NEW h \in DOMAIN sidecars, sidecars[h].status = "up"
               PROVE  FALSE
    BY DEF StoppedIsTerminating
  <2>1. wpc \in {"done", "crashed"} /\ idleHandle = NoHandle
    BY DEF Inv, Stopping, WorkerEnded, Places
  <2>2. h \in {activeHandle, idleHandle}
    BY DEF Inv, Statuses, NoLeak
  <2>3. h # NoHandle
    BY DEF Inv, Typed, NoHandle
  <2>4. h = activeHandle /\ Up(activeHandle)
    BY <2>1, <2>2, <2>3 DEF Up
  <2> QED
    BY <2>1, <2>3, <2>4 DEF Inv, Statuses, Places, ToldPcs
<1> QED
  BY <1>1, InvHolds, PTL

\* Unless the manager is pid 1, nothing it does terminates the warm holder or
\* the sidecar of a request being served: no expiry task that starts late, no
\* swap, and no orphan scan of another teardown.
THEOREM HolderSafe ==
  ASSUME ~ManagerIsInit
  PROVE  Spec => []HolderNotDoomed
<1>1. Inv => HolderNotDoomed
  BY DEF Inv, Statuses, Alone, HolderNotDoomed, Doomed
<1> QED
  BY <1>1, InvHolds, PTL

\* The same of the sidecar that serves the request in the worker's hands.
THEOREM ServingSafe ==
  ASSUME ~ManagerIsInit
  PROVE  Spec => []ServingNotDoomed
<1>1. Inv => ServingNotDoomed
  BY DEF Inv, Statuses, Alone, ServingNotDoomed, Doomed
<1> QED
  BY <1>1, InvHolds, PTL

\* While nothing has failed and nobody has called shutdown, a request whose
\* client waits is in the queue or in the worker's hands.
THEOREM NoneAbandoned == Spec => [](faults = 0 /\ ~stop => NoAbandonedRequest)
<1>1. Inv => (faults = 0 /\ ~stop => NoAbandonedRequest)
  BY DEF Inv, NotAbandoned
<1> QED
  BY <1>1, InvHolds, PTL

\* Nobody calls shutdown in a service that is never shut down.
LEMMA OnlyShutdownStops == ServeNext => UNCHANGED stop
<1>1. Client \/ ExpiryTask \/ Clock \/ Exits => UNCHANGED stop
  BY DEF Client, Submit, SubmitAtHead, SubmitAtTail, SubmitRefused, ClientLeaves, ClientTimesOut,
     ExpiryTask, ExpiryTaskStarts, ExpiryTaskEnds, Clock, GraceTimerElapses, DeadlineElapses,
     IdleElapses, Exits, SidecarExits, StuckExits, taskUnchanged, clockUnchanged, stopVars
<1>2. Faults => UNCHANGED stop
  BY DEF Faults, SidecarCrashes, SidecarSticks, AwaitRaises, Raise, FinallyRaises, ErrorTeardownRaises, ColdTeardownRaises,
     ForceColdRaises, parkUnchanged, stopVars
<1>3. CASE \/ FindNothing \/ LoopExits \/ Wake \/ EvictionAudited \/ RefuseNoManifest \/ NoManifestFailed
           \/ (\E s \in Slots : PopEvicted(s) \/ PopStart(s))
           \/ Inherit \/ Inherited \/ StartSwap \/ Swapped \/ GatesRefuse \/ GatesRefused \/ Spawn
  BY <1>3 DEF FindNothing, LoopExits, Wake, EvictionAudited, RefuseNoManifest, NoManifestFailed, PopEvicted,
     PopStart, Inherit, Inherited, StartSwap, Swapped, GatesRefuse, GatesRefused, Spawn,
     loopUnchanged, pathUnchanged, stopVars
<1>4. CASE \/ ManifestRaises \/ SpawnFails \/ HealthOk \/ HealthTimesOut \/ HealthRaises \/ LoadFailAudited
           \/ LoadFailTornDown \/ Activated \/ CompleteOk \/ CompleteFails \/ GraceEntered
  BY <1>4 DEF ManifestRaises, SpawnFails, HealthOk, HealthTimesOut, HealthRaises, LoadFailAudited, LoadFailTornDown,
     Activated, CompleteOk, CompleteFails, GraceEntered, Raise, pathUnchanged, graceUnchanged, stopVars
<1>5. CASE \/ PromotionAudited \/ MatchCompletes \/ MatchExtends \/ MatchFailed \/ MatchEnded
           \/ (\E s \in Slots : Promote(s))
           \/ GraceOver \/ IdleEntered \/ GraceTornDown \/ FinallyDone
           \/ ErrorTornDown \/ ColdTornDown \/ ForcedCold
  BY <1>5 DEF PromotionAudited, MatchCompletes, MatchExtends, MatchFailed, MatchEnded, Promote,
     GraceOver, IdleEntered, GraceTornDown, FinallyDone, ErrorTornDown, ColdTornDown, ForcedCold,
     ParkAnchor, pathUnchanged, parkUnchanged, graceUnchanged, stopVars
<1> QED
  BY <1>1, <1>2, <1>3, <1>4, <1>5 DEF ServeNext, Worker

\* In a service without faults that is never shut down, no path through the
\* worker drops a request before it is answered: it is queued or in hand.
THEOREM ServiceAbandonsNone ==
  ASSUME MaxFaults = 0
  PROVE  ServeSpec => []NoAbandonedRequest
<1>1. ManagerInit => Inv /\ ~stop
  BY InvInit DEF ManagerInit
<1>2. Inv /\ ~stop /\ [ServeNext]_vars => (Inv /\ ~stop)'
  <2>1. [ServeNext]_vars => [Next]_vars
    BY DEF Next
  <2>2. [ServeNext]_vars => UNCHANGED stop
    BY OnlyShutdownStops DEF vars, stopVars
  <2> QED
    BY <2>1, <2>2, InvKept
<1>3. Inv /\ ~stop => NoAbandonedRequest
  BY DEF Inv, Typed, NotAbandoned
<1> QED
  BY <1>1, <1>2, <1>3, PTL DEF ServeSpec

\* The model swap that a request without manifest would cause is prevented by
\* a check made at its pop, an await before: what it found is still true.
THEOREM UnknownModelSparesHolder == Spec => UnknownModelKeepsHolder
<1> DEFINE Safe == wpc # "swap" /\ wpc' = "swap" =>
                     \/ Model[anchor] \in Manifested
                     \/ sidecars[held'].model = Model[anchor]
<1>1. Inv /\ [Next]_vars => [Safe]_vars
  <2> SUFFICES ASSUME Inv, [Next]_vars, wpc # "swap", wpc' = "swap"
               PROVE  \/ Model[anchor] \in Manifested
                      \/ sidecars[held'].model = Model[anchor]
    OBVIOUS
  <2>1. StartSwap
    <3> USE FinallyFacts DEF Goto, BackToLoop, Unwind
    <3>1. ~Bystander
      BY BystanderKeeps
    <3>2. ~Raises
      BY RaisesWhere DEF Raise, Inv
    <3>3. ~(FindNothing \/ LoopExits \/ Wake \/ EvictionAudited \/ (\E s \in Slots : PopEvicted(s) \/ PopStart(s)))
      BY DEF FindNothing, LoopExits, Wake, EvictionAudited, PopEvicted, PopStart
    <3>4. ~(RefuseNoManifest \/ Inherit \/ Inherited \/ Swapped \/ GatesRefuse
            \/ Spawn \/ HealthOk \/ HealthTimesOut \/ LoadFailAudited \/ Activated \/ CompleteOk
            \/ GraceEntered)
      BY DEF RefuseNoManifest, Inherit, Inherited, Swapped, GatesRefuse, ReadyToSpawn,
         Spawn, HealthOk, HealthTimesOut, LoadFailAudited, Activated, CompleteOk, GraceEntered
    <3>5. ~(PromotionAudited \/ MatchCompletes \/ MatchExtends \/ MatchFailed \/ MatchEnded
            \/ GraceOver \/ (\E s \in Slots : Promote(s)))
      BY DEF PromotionAudited, MatchCompletes, MatchExtends, MatchFailed, MatchEnded, GraceOver, Promote
    <3>6. ~(NoManifestFailed \/ GatesRefused \/ IdleEntered \/ LoadFailTornDown \/ GraceTornDown)
      BY DEF NoManifestFailed, GatesRefused, IdleEntered, LoadFailTornDown, GraceTornDown
    <3>7. ~(FinallyDone \/ FinallyRaises)
      BY DEF FinallyDone, FinallyRaises
    <3>8. ~(ErrorTornDown \/ ColdTornDown \/ ForcedCold \/ ErrorTeardownRaises \/ ColdTeardownRaises \/ ForceColdRaises)
      BY DEF ErrorTornDown, ColdTornDown, ForcedCold, ParkAnchor, ErrorTeardownRaises, ColdTeardownRaises, ForceColdRaises
    <3>9. ~(CancelProcess \/ CancelMatch \/ MatchCancelled \/ CancelFinally \/ CancelLoop)
      BY DEF CancelProcess, CancelMatch, MatchCancelled, CancelFinally, CancelLoop
    <3> QED
      BY <3>1, <3>2, <3>3, <3>4, <3>5, <3>6, <3>7, <3>8, <3>9, StepKinds DEF WorkerStep, Worker, Raises
  <2>2. ~HolderAtRisk(anchor) /\ idleHandle # NoHandle /\ held' = idleHandle
    BY <2>1 DEF StartSwap, Resume, Inv, Models
  <2> QED
    BY <2>2 DEF Inv, Models, HolderAtRisk
<1> QED
  BY <1>1, InvHolds, PTL DEF Spec, UnknownModelKeepsHolder

\* Every move of a request is in fsm.LEGAL_TRANSITIONS, except the hop by
\* which _force_cold parks it: no transition() of the worker raises.
THEOREM MovesAreLegal == Spec => LegalMoves
<1> DEFINE Legal ==
      \A s \in Slots :
        /\ tier'[s] # tier[s] => CanTransition(tier[s], tier'[s])
        /\ LET before == IF phase[s] = "QUEUED" THEN tier'[s] ELSE phase[s]
           IN  phase'[s] \notin {"QUEUED", before} =>
                 CanTransition(before, phase'[s]) \/ wpc' = "force_cold"
<1>1. Inv /\ [Next]_vars => Legal
  <2> SUFFICES ASSUME Inv, [Next]_vars PROVE Legal
    OBVIOUS
  <2> SUFFICES ASSUME NEW s \in Slots
               PROVE  /\ tier'[s] # tier[s] => CanTransition(tier[s], tier'[s])
                      /\ phase'[s] \notin {"QUEUED", IF phase[s] = "QUEUED" THEN tier'[s] ELSE phase[s]} =>
                           \/ CanTransition(IF phase[s] = "QUEUED" THEN tier'[s] ELSE phase[s], phase'[s])
                           \/ wpc' = "force_cold"
    OBVIOUS
  <2>1. TiersSound /\ DOMAIN phase = Slots /\ DOMAIN tier = Slots
    BY DEF Inv, Typed, TiersSound, TiersTypeOK
  <2>2. tier'[s] # tier[s] => CanTransition(tier[s], tier'[s])
    <3>1. ASSUME NEW x \in Slots, SubmitAtHead(x) \/ SubmitAtTail(x)
          PROVE  tier'[s] # tier[s] => CanTransition(tier[s], tier'[s])
      <4>1. x \notin Waiting /\ tier[x] = "RECEIVED"
        BY <3>1 DEF Inv, Queued, SubmitAtHead, SubmitAtTail, MayCall
      <4>2. \E label \in {"STAGED", "ACCEPT_BUFFER"} : tier' = [tier EXCEPT ![x] = label]
        BY <2>1, <3>1, <4>1, EnqueueSound DEF SubmitAtHead, SubmitAtTail
      <4> QED
        BY <2>1, <4>1, <4>2, HopsAreLegal
    <3>2. ASSUME NEW x \in Slots, PopEvicted(x) \/ PopStart(x) \/ Promote(x)
          PROVE  tier'[s] # tier[s] => CanTransition(tier[s], tier'[s])
      BY <2>1, <3>2, PopNextSound, PopMatchedSound, HopsAreLegal DEF PopEvicted, PopStart, Promote
    <3>3. CASE ShutdownCloses \/ (\E x \in Slots : ClientLeaves(x)) \/ UNCHANGED queueVars
      BY <2>1, <3>3, CloseSound, OthersSound DEF ShutdownCloses, ClientLeaves
    <3> QED
      BY <3>1, <3>2, <3>3, QueueFrame DEF QueueStep
  <2>3. ASSUME phase'[s] \notin {"QUEUED", IF phase[s] = "QUEUED" THEN tier'[s] ELSE phase[s]}
        PROVE  \/ CanTransition(IF phase[s] = "QUEUED" THEN tier'[s] ELSE phase[s], phase'[s])
               \/ wpc' = "force_cold"
    <3>0. phase'[s] # phase[s]
      BY <2>3
    <3>1. ASSUME NEW x \in Slots, PopStart(x) \/ Promote(x)
          PROVE  CanTransition(IF phase[s] = "QUEUED" THEN tier'[s] ELSE phase[s], phase'[s])
      <4>1. x \in Waiting /\ tier'[x] = "STAGED"
        BY <2>1, <3>1, PopNextSound, PopMatchedSound DEF PopStart, Promote
      <4>2. phase[x] = "QUEUED"
        BY <4>1 DEF Inv, Queued
      <4>3. x = s /\ phase'[s] \in {"STAGED", "LOADING", "ACTIVE_MATCH"}
        BY <2>1, <3>0, <3>1 DEF PopStart, Promote, SetPhase
      <4> QED
        BY <2>3, <4>1, <4>2, <4>3, HopsAreLegal
    <3>2. ASSUME NEW x \in {anchor, matched} \cap Slots, Activates(x) \/ MovesOn(x)
          PROVE  CanTransition(IF phase[s] = "QUEUED" THEN tier'[s] ELSE phase[s], phase'[s])
      BY <2>1, <3>0, <3>2 DEF Activates, MovesOn, Legally, SetPhase, Inv, PhaseAt
    <3> QED
      BY <3>0, <3>1, <3>2, PhaseMoves DEF ParksCold, Inv
  <2> QED
    BY <2>2, <2>3
<1> QED
  BY <1>1, InvHolds, PTL DEF Spec, LegalMoves

------------------------------------------------------------------------------
(***************************************************************************)
(* The manager implements SerialService: every step of it is one of the    *)
(* service's, or changes no stage and no answer.                           *)
(***************************************************************************)
Stage(s) ==
  IF future[s] = "none" THEN "new"
  ELSE IF future[s] # "pending" THEN "answered"
  ELSE IF phase[s] = "ACTIVE" THEN "running" ELSE "waiting"

LEMMA MapsTo ==
  /\ ServiceStage = [s \in Slots |-> Stage(s)]
  /\ \A s \in Slots : ServiceStage[s] = Stage(s)
  /\ \A s \in Slots : ServiceStage'[s] = Stage(s)'
  /\ \A s \in Slots :
       ServiceAnswer[s] = IF future[s] \in {"none", "pending"} THEN "none" ELSE future[s]
  /\ \A s \in Slots :
       ServiceAnswer'[s] = IF future'[s] \in {"none", "pending"} THEN "none" ELSE future'[s]
BY DEF ServiceStage, ServiceAnswer, Stage

\* A request that goes on waiting for its answer runs as before, unless this
\* is the step that activates it; that one does nothing else to the futures.
LEMMA ActiveKept ==
  ASSUME Typed, Hands, Queued, PhaseAt, SettledAt, [Next]_vars,
         NEW s \in Slots, future'[s] = "pending", ~Activates(s)
  PROVE  phase'[s] = "ACTIVE" <=> phase[s] = "ACTIVE"
<1>1. DOMAIN phase = Slots
  BY DEF Typed
<1>2. ASSUME NEW t \in Slots, PopStart(t) \/ Promote(t)
      PROVE  phase'[s] = "ACTIVE" <=> phase[s] = "ACTIVE"
  <2>1. phase[t] = "QUEUED"
    BY <1>2, PopNextSound, PopMatchedSound DEF Typed, Queued, PopStart, Promote
  <2> QED
    BY <1>1, <1>2, <2>1 DEF PopStart, Promote, SetPhase
<1>3. ASSUME NEW t \in Slots, Activates(t) \/ MovesOn(t)
      PROVE  phase'[s] = "ACTIVE" <=> phase[s] = "ACTIVE"
  BY <1>1, <1>3 DEF Activates, MovesOn, Legally, SetPhase
<1>4. anchor \in Slots /\ ParksCold(anchor) => (phase'[s] = "ACTIVE" <=> phase[s] = "ACTIVE")
  BY <1>1 DEF ParksCold, SetPhase
<1> QED
  BY <1>2, <1>3, <1>4, PhaseMoves

LEMMA AcceptMaps ==
  ASSUME Typed, Queued, NEW s \in Slots, SubmitAtHead(s) \/ SubmitAtTail(s), Accepted(s)
  PROVE  Service!Accept(s)
<1>1. UNCHANGED phase /\ phase[s] = "QUEUED" /\ future[s] = "none" /\ DOMAIN future = Slots
  BY DEF Typed, Queued, Accepted, SubmitAtHead, SubmitAtTail
<1>2. future' = [future EXCEPT ![s] = "pending"]
  BY DEF Accepted
<1>3. ServiceStage[s] = "new"
  BY <1>1, MapsTo DEF Stage
<1>4. ServiceStage' = [ServiceStage EXCEPT ![s] = "waiting"]
  BY <1>1, <1>2 DEF ServiceStage
<1>5. UNCHANGED ServiceAnswer
  BY <1>1, <1>2 DEF ServiceAnswer
<1> QED
  BY <1>3, <1>4, <1>5 DEF Service!Accept

\* Several requests that wait are answered alike, and no other changes.
LEMMA ReplyMaps ==
  ASSUME Typed, NEW P \in (SUBSET Slots) \ {{}}, NEW a \in Outcomes,
         \A s \in P : future[s] \in {"none", "pending"},
         a = "ok" => \A s \in P : Running(s),
         future' = [s \in Slots |-> IF s \in P THEN a ELSE future[s]],
         \A s \in Slots \ P : future[s] = "pending" =>
                                 (phase'[s] = "ACTIVE" <=> phase[s] = "ACTIVE")
  PROVE  Service!Reply(P)
<1>1. a \in Service!Answers /\ a \notin {"none", "pending"}
  BY DEF Service!Answers, Outcomes
<1>2. \A s \in P : ServiceAnswer[s] = "none"
  BY MapsTo
<1>3. a = "ok" => \A s \in P : ServiceStage[s] = "running"
  BY MapsTo DEF Running, Stage
<1>4. ServiceAnswer' = [s \in Slots |-> IF s \in P THEN a ELSE ServiceAnswer[s]]
  BY <1>1 DEF ServiceAnswer
<1>5. ServiceStage' = [s \in Slots |-> IF s \in P THEN "answered" ELSE ServiceStage[s]]
  BY <1>1 DEF ServiceStage
<1> QED
  BY <1>1, <1>2, <1>3, <1>4, <1>5 DEF Service!Reply

LEMMA StepMaps ==
  ASSUME Inv, [Next]_vars
  PROVE  [Service!Next]_<<ServiceStage, ServiceAnswer>>
<1> USE DEF Inv
<1> DEFINE Goal == Service!Next \/ UNCHANGED <<ServiceStage, ServiceAnswer>>
<1>1. future \in [Slots -> Outcomes \cup {"none", "pending"}]
  BY DEF Typed, Outcomes
<1>2. ASSUME NEW P \in (SUBSET Slots) \ {{}}, Service!Reply(P) PROVE Goal
  BY <1>2 DEF Service!Next
<1>3. ASSUME NEW s \in Slots, SubmitAtHead(s) \/ SubmitAtTail(s), Accepted(s) PROVE Goal
  BY <1>3, AcceptMaps DEF Service!Next
<1>4. ASSUME NEW s \in Slots, SubmitRefused(s), Refused(s) PROVE Goal
  <2>1. /\ UNCHANGED phase /\ future[s] = "none"
        /\ future' = [t \in Slots |-> IF t \in {s} THEN "refused" ELSE future[t]]
    BY <1>1, <1>4 DEF SubmitRefused, Refused
  <2>2. Service!Reply({s})
    <3>1. {s} \in (SUBSET Slots) \ {{}} /\ "refused" \in Outcomes \ {"ok"}
      BY DEF Outcomes
    <3> QED
      BY <2>1, <3>1, ReplyMaps
  <2>3. {s} \in (SUBSET Slots) \ {{}}
    OBVIOUS
  <2> QED
    BY <1>2, <2>2, <2>3
<1>5. ASSUME UNCHANGED future PROVE Goal
  <2>1. CASE \E x \in Slots : Activates(x) /\ future[x] = "pending"
    <3>1. PICK x \in Slots : Activates(x) /\ future[x] = "pending"
      BY <2>1
    <3>2. DOMAIN phase = Slots /\ phase' = [phase EXCEPT ![x] = "ACTIVE"] /\ phase[x] # "ACTIVE"
      BY <3>1 DEF Typed, Activates, Legally, SetPhase
    <3>3. \A t \in Slots : ~Running(t)
      BY <3>1 DEF Activates, OneRuns, RunsAt
    <3>4. ServiceStage[x] = "waiting" /\ \A t \in Slots : ServiceStage[t] # "running"
      BY <3>1, <3>2, <3>3, MapsTo DEF Stage, Running
    <3>5. ServiceStage' = [ServiceStage EXCEPT ![x] = "running"]
      BY <1>5, <3>1, <3>2 DEF ServiceStage
    <3>6. UNCHANGED ServiceAnswer
      BY <1>5 DEF ServiceAnswer
    <3> QED
      BY <3>4, <3>5, <3>6 DEF Service!Next, Service!Start
  <2>2. CASE ~\E x \in Slots : Activates(x) /\ future[x] = "pending"
    <3>1. \A s \in Slots : future[s] = "pending" => (phase'[s] = "ACTIVE" <=> phase[s] = "ACTIVE")
      BY <1>5, <2>2, ActiveKept
    <3>2. UNCHANGED ServiceStage
      BY <1>5, <3>1 DEF ServiceStage
    <3>3. UNCHANGED ServiceAnswer
      BY <1>5 DEF ServiceAnswer
    <3> QED
      BY <3>2, <3>3
  <2> QED
    BY <2>1, <2>2
<1>6. ASSUME NEW S \in SUBSET Slots, NEW a \in Outcomes, Settle(S, a),
             a = "ok" => \A s \in S : phase[s] = "ACTIVE"
      PROVE  Goal
  <2> DEFINE P == {s \in S : future[s] = "pending"}
  <2>1. future' = [s \in Slots |-> IF s \in P THEN a ELSE future[s]]
    BY <1>6 DEF Settle
  <2>2. CASE P = {}
    <3>1. UNCHANGED future
      BY <1>1, <2>1, <2>2
    <3> QED
      BY <1>5, <3>1
  <2>3. CASE P # {}
    <3>1. P \in (SUBSET Slots) \ {{}} /\ \A s \in P : future[s] \in {"none", "pending"}
      BY <2>3
    <3>2. a = "ok" => \A s \in P : Running(s)
      BY <1>6 DEF Running
    <3>3. \A x \in Slots : ~Activates(x)
      BY <1>1, <2>1, <2>3 DEF Activates, Outcomes
    <3>4. \A s \in Slots \ P : future[s] = "pending" =>
                                  (phase'[s] = "ACTIVE" <=> phase[s] = "ACTIVE")
      BY <2>1, <3>3, ActiveKept
    <3>5. Service!Reply(P)
      <4> HIDE DEF P
      <4> QED
        BY <2>1, <3>1, <3>2, <3>4, ReplyMaps
    <3> QED
      BY <1>2, <3>1, <3>5
  <2> QED
    BY <2>2, <2>3
<1> HIDE DEF Goal
<1>7. ASSUME Served \in Slots, phase[Served] = "ACTIVE", Settle({Served}, "ok") PROVE Goal
  BY <1>6, <1>7 DEF Outcomes
<1>8. ASSUME NEW S \in SUBSET Slots, NEW a \in Outcomes \ {"ok"}, Settle(S, a) PROVE Goal
  BY <1>6, <1>8
<1>9. Goal
  BY <1>3, <1>4, <1>5, <1>7, <1>8, FutureMoves
<1> QED
  BY <1>9 DEF Goal

\* The manager is the serial service it promises to be: requests run one at a
\* time, an "ok" comes only from running, and no answer is taken back, through
\* follow-ups, faults, client timeouts and shutdown alike.
THEOREM ManagerImplementsService == Spec => ImplementsSerialService
<1>1. ManagerInit => Service!Init
  BY DEF ManagerInit, Service!Init, ServiceStage, ServiceAnswer
<1>2. Inv /\ [Next]_vars => [Service!Next]_<<ServiceStage, ServiceAnswer>>
  BY StepMaps
<1> QED
  BY <1>1, <1>2, InvHolds, PTL DEF Spec, ImplementsSerialService, Service!SerialSpec, Service!serviceVars

\* A service that is never shut down is one that might be: what is proved of
\* Spec, the refinement too, holds of ServeSpec.
THEOREM ServiceIsManager == ServeSpec => Spec
<1>1. [ServeNext]_vars => [Next]_vars
  BY DEF Next
<1> QED
  BY <1>1, PTL DEF ServeSpec, Spec
==============================================================================
