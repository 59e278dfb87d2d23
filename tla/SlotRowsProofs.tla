---------------------------- MODULE SlotRowsProofs ----------------------------
(***************************************************************************)
(* Theorems about SlotRows, for any set of requests, any number of lives   *)
(* and any size of the sweeper's batch.  They rest on RowsAssumption only. *)
(***************************************************************************)
EXTENDS SlotRows, TLAPS

------------------------------------------------------------------------------
(* The inductive invariant *)

MatchPcs  == {"promoted", "serving", "served", "popped", "cancelled"}
AnchorPcs == MatchPcs \cup {"loading", "refused", "loaded", "unhealthy", "active",
                            "grace", "teardown", "holding"}

\* States an audit job may write.
Written == {"LOADING", "LOADING_FAIL", "ACTIVE", "ACTIVE_MATCH", "GRACE", "POPPED"}

RowShape ==
  /\ row \in [Slot -> [state : SlotStates \cup {None}, pid : Slot \cup {None},
                       open : BOOLEAN]]
  /\ mem = [s \in Slot |-> mem[s]]
  /\ pid \in [Slot -> Slot \cup {None}]
  /\ old \subseteq Slot /\ queued \subseteq Slot /\ jobs \subseteq Slot
  /\ holder \in Slot \cup {None}
  /\ pc \in AnchorPcs \cup {"idle", "stopped"}
  /\ anchor \in IF pc \in AnchorPcs THEN Slot ELSE {None}
  /\ matched \in IF pc \in MatchPcs THEN Slot ELSE {None}
  /\ phase \in {"up", "down"}
  /\ phase = "down" => pc = "stopped" /\ jobs = {} /\ queued = {}

\* A slot is in one hand at a time.
OneHand ==
  /\ anchor \notin queued /\ matched \notin queued
  /\ matched # None => matched # anchor
  /\ queued \cap jobs = {}

\* What the worker last made of the slots in its hands.
MemAt ==
  /\ pc \in {"loading", "loaded"} => mem[anchor] = "LOADING"
  /\ pc \in {"refused", "unhealthy"} => mem[anchor] = "LOADING_FAIL"
  /\ pc = "active" => mem[anchor] = "ACTIVE"
  /\ pc \in {"grace"} \cup MatchPcs => mem[anchor] = "GRACE"
  /\ pc \in {"teardown", "holding"} \cup MatchPcs => anchor \notin jobs
  /\ pc \in MatchPcs => mem[matched] \in {"ACTIVE_MATCH", "ACTIVE", "GRACE", "POPPED"}
  /\ pc = "serving" => matched \notin jobs
  /\ \A s \in jobs : mem[s] \in Written

\* A row is open under the label of submit or of an audit job.
OpenLabels ==
  \A s \in Slot : row[s].open => row[s].state \in Written \cup {"STAGED", "ACCEPT_BUFFER"}

\* Only the sweeper closes the row of a slot that is still to be served.
OldHaveRows == \A s \in old : row[s] # NoRow

QueuedRows ==
  \A s \in queued : row[s].pid = None /\ (row[s].open \/ s \in old)

JobRows ==
  \A s \in jobs :
    \/ row[s].open /\ row[s].state # "STAGED"
    \/ /\ mem[s] \in {"LOADING", "ACTIVE_MATCH"} /\ row[s].pid = None
       /\ row[s].open \/ s \in old

\* A row that was audited is out of the sweeper's sight until its slot ends.
HeldRow(s) == s \in jobs \/ (row[s].open /\ row[s].state # "STAGED")

HeldRows ==
  /\ pc \in AnchorPcs => HeldRow(anchor)
  /\ pc \in {"active", "grace"} \cup MatchPcs =>
       anchor \in jobs \/ row[anchor].pid = pid[anchor]
  /\ pc \in MatchPcs => HeldRow(matched)

RowsInv ==
  /\ RowShape /\ OneHand /\ MemAt /\ OpenLabels
  /\ OldHaveRows /\ QueuedRows /\ JobRows /\ HeldRows

------------------------------------------------------------------------------
(* Rows *)

\* mark_slot_ended and its bulk forms: pids stay, and rows that are not meant.
LEMMA MarkFacts ==
  ASSUME RowShape, NEW S \in SUBSET Slot, MarkEnded(S)
  PROVE  /\ row' \in [Slot -> [state : SlotStates \cup {None}, pid : Slot \cup {None},
                               open : BOOLEAN]]
         /\ \A s \in Slot : row'[s].pid = row[s].pid
         /\ \A s \in Slot : s \notin S => row'[s] = row[s]
         /\ \A s \in S : ~row'[s].open
         /\ \A s \in Slot : row[s] # NoRow => row'[s] # NoRow
         /\ \A s \in Slot : row'[s].open => row'[s] = row[s]
<1>1. \A s \in Slot : Ended(row[s]) \in [state : SlotStates \cup {None},
                                        pid : Slot \cup {None}, open : BOOLEAN]
  <2> SUFFICES ASSUME NEW s \in Slot
               PROVE  Ended(row[s]) \in [state : SlotStates \cup {None},
                                        pid : Slot \cup {None}, open : BOOLEAN]
    OBVIOUS
  <2>1. row[s] \in [state : SlotStates \cup {None}, pid : Slot \cup {None},
                    open : BOOLEAN]
    BY DEF RowShape
  <2>2. "COLD" \in SlotStates
    BY DEF SlotStates
  <2>3. QED  BY <2>1, <2>2 DEF Ended
<1>2. \A s \in Slot : /\ Ended(row[s]).pid = row[s].pid
                      /\ ~Ended(row[s]).open
                      /\ row[s] # NoRow => Ended(row[s]) # NoRow
  <2> SUFFICES ASSUME NEW s \in Slot
               PROVE  /\ Ended(row[s]).pid = row[s].pid
                      /\ ~Ended(row[s]).open
                      /\ row[s] # NoRow => Ended(row[s]) # NoRow
    OBVIOUS
  <2>1. CASE row[s] = NoRow
    BY <2>1 DEF Ended, NoRow
  <2>2. CASE row[s] # NoRow
    <3>1. row[s] \in [state : SlotStates \cup {None}, pid : Slot \cup {None},
                      open : BOOLEAN]
      BY DEF RowShape
    <3>2. /\ Ended(row[s]).state = "COLD" /\ ~Ended(row[s]).open
          /\ Ended(row[s]).pid = row[s].pid
      BY <2>2, <3>1 DEF Ended
    <3>3. QED  BY <3>2, RowsAssumption DEF NoRow, SlotStates
  <2>3. QED  BY <2>1, <2>2
<1>3. \A s \in Slot : row'[s] = IF s \in S THEN Ended(row[s]) ELSE row[s]
  BY DEF MarkEnded
<1>4. row' = [s \in Slot |-> IF s \in S THEN Ended(row[s]) ELSE row[s]]
  BY DEF MarkEnded
<1>5. row' \in [Slot -> [state : SlotStates \cup {None}, pid : Slot \cup {None},
                        open : BOOLEAN]]
  BY <1>1, <1>4 DEF RowShape
<1>6. QED  BY <1>2, <1>3, <1>5

\* An open row is a row.
LEMMA OpenIsRow == \A s \in Slot : row[s].open => row[s] # NoRow
BY DEF NoRow

\* The program starts with an empty table.
LEMMA InitRows == RowsInit => RowsInv
<1> SUFFICES ASSUME RowsInit PROVE RowsInv
  OBVIOUS
<1>1. /\ \A s \in Slot : row[s] = NoRow /\ ~row[s].open
      /\ jobs = {} /\ queued = {} /\ old = {} /\ pc = "idle"
      /\ anchor = None /\ matched = None
  BY DEF RowsInit, NoRow
<1>2. RowShape
  BY <1>1 DEF RowsInit, RowShape, NoRow, AnchorPcs, MatchPcs
<1>3. QED
  BY <1>1, <1>2 DEF RowsInv, OneHand, MemAt, OpenLabels, OldHaveRows, QueuedRows,
     JobRows, HeldRows, AnchorPcs, MatchPcs

\* A slot the worker has in its hands, or an audit job, has a row.
LEMMA InHandHasRow ==
  ASSUME RowsInv
  PROVE  /\ \A s \in jobs \cup queued : row[s] # NoRow
         /\ anchor # None => row[anchor] # NoRow
         /\ matched # None => row[matched] # NoRow
<1> USE RowsAssumption DEF RowsInv, RowShape
<1>1. \A s \in jobs : row[s] # NoRow
  BY OpenIsRow DEF JobRows, OldHaveRows
<1>2. \A s \in queued : row[s] # NoRow
  BY OpenIsRow DEF QueuedRows, OldHaveRows
<1>3. anchor # None => row[anchor] # NoRow
  BY <1>1, OpenIsRow DEF HeldRows, HeldRow
<1>4. matched # None => row[matched] # NoRow
  BY <1>1, OpenIsRow DEF HeldRows, HeldRow
<1>5. QED  BY <1>1, <1>2, <1>3, <1>4

------------------------------------------------------------------------------
(* The steps *)

\* A row of its own for a new slot.
LEMMA SubmitStep ==
  ASSUME RowsInv, NEW s \in Slot, Submit(s)
  PROVE  RowsInv'
<1> USE RowsAssumption DEF Submit, Up, table, objects, worker, machine, RowsInv, RowShape, AnchorPcs, MatchPcs
<1>0. PICK tier \in {"STAGED", "ACCEPT_BUFFER"} :
        /\ row' = [row EXCEPT ![s] = [state |-> tier, pid |-> None, open |-> TRUE]]
        /\ mem' = [mem EXCEPT ![s] = tier]
        /\ [state |-> tier, pid |-> None, open |-> TRUE] # NoRow
        /\ tier \in SlotStates /\ tier # None
  BY DEF NoRow, SlotStates
<1>a. row' \in [Slot -> [state : SlotStates \cup {None}, pid : Slot \cup {None},
                        open : BOOLEAN]]
  BY <1>0
<1>b. \A t \in Slot : t # s => row'[t] = row[t] /\ mem'[t] = mem[t]
  BY <1>0
<1>c. /\ row'[s] = [state |-> tier, pid |-> None, open |-> TRUE]
      /\ row'[s].open /\ row'[s].pid = None
  BY <1>0
<1>d. mem' = [t \in Slot |-> mem'[t]]
  BY <1>0
<1>1. RowShape'
  BY <1>a, <1>d
<1>2. OneHand'
  BY InHandHasRow, OpenIsRow, <1>0 DEF OneHand
<1>3. MemAt'
  BY InHandHasRow, OpenIsRow, <1>0 DEF MemAt, OneHand, Written
<1>4. OpenLabels'
  BY InHandHasRow, OpenIsRow, <1>0 DEF OpenLabels, MemAt, Written
<1>5. OldHaveRows'
  BY InHandHasRow, OpenIsRow, <1>0 DEF OldHaveRows
<1>6. QueuedRows'
  BY InHandHasRow, OpenIsRow, <1>0 DEF QueuedRows, OneHand
<1>7. JobRows'
  <2>1. \A t \in jobs : t \in Slot /\ t # s
    BY InHandHasRow
  <2>2. jobs' = jobs /\ old' = old
    OBVIOUS
  <2>3. \A t \in jobs : row'[t] = row[t] /\ mem'[t] = mem[t]
    BY <1>b, <2>1
  <2> HIDE DEF Submit, RowShape
  <2>4. QED  BY <2>2, <2>3 DEF JobRows
<1>8. HeldRows'
  <2>1. /\ pc \in AnchorPcs => anchor \in Slot /\ anchor # s
        /\ pc \in MatchPcs => matched \in Slot /\ matched # s
    BY InHandHasRow
  <2>2. \A t \in Slot : t # s /\ HeldRow(t) => HeldRow(t)'
    BY <1>b DEF HeldRow
  <2>3. UNCHANGED <<pc, anchor, matched, jobs, pid>>
    OBVIOUS
  <2> HIDE DEF Submit, RowShape
  <2>4. /\ pc \in AnchorPcs => HeldRow(anchor)'
        /\ pc \in MatchPcs => HeldRow(matched)'
    BY <2>1, <2>2, <2>3 DEF HeldRows
  <2>5. pc \in {"active", "grace"} \cup MatchPcs =>
          anchor \in jobs \/ row'[anchor].pid = pid[anchor]
    BY <2>1, <1>b DEF HeldRows
  <2>6. QED  BY <2>3, <2>4, <2>5 DEF HeldRows
<1>9. QED  BY <1>1, <1>2, <1>3, <1>4, <1>5, <1>6, <1>7, <1>8

\* The queue relabels a slot; the row is not told.
LEMMA MoveUpStep ==
  ASSUME RowsInv, NEW s \in Slot, MoveUp(s)
  PROVE  RowsInv'
<1> USE RowsAssumption DEF MoveUp, table, objects, worker, machine, RowsInv, RowShape, AnchorPcs, MatchPcs
<1>1. RowShape'
  OBVIOUS
<1>2. OneHand'
  BY DEF OneHand
<1>3. MemAt'
  BY DEF MemAt, OneHand, Written
<1>4. OpenLabels'
  BY DEF OpenLabels, MemAt, Written
<1>5. OldHaveRows'
  BY DEF OldHaveRows
<1>6. QueuedRows'
  BY DEF QueuedRows, OneHand
<1>7. JobRows'
  BY DEF JobRows, QueuedRows, HeldRows, HeldRow, MemAt, OneHand
<1>8. HeldRows'
  BY DEF HeldRows, HeldRow, MemAt, OneHand, Written
<1>9. QED  BY <1>1, <1>2, <1>3, <1>4, <1>5, <1>6, <1>7, <1>8

\* A row grows old.
LEMMA AgeStep ==
  ASSUME RowsInv, NEW s \in Slot, AgeDay(s)
  PROVE  RowsInv'
<1> USE RowsAssumption DEF AgeDay, objects, worker, machine, RowsInv, RowShape, AnchorPcs, MatchPcs
<1>1. RowShape'
  OBVIOUS
<1>2. OneHand'
  BY DEF OneHand
<1>3. MemAt'
  BY DEF MemAt, OneHand, Written
<1>4. OpenLabels'
  BY DEF OpenLabels, MemAt, Written
<1>5. OldHaveRows'
  BY DEF OldHaveRows
<1>6. QueuedRows'
  BY DEF QueuedRows, OneHand
<1>7. JobRows'
  BY DEF JobRows, QueuedRows, HeldRows, HeldRow, MemAt, OneHand
<1>8. HeldRows'
  BY DEF HeldRows, HeldRow, MemAt, OneHand, Written
<1>9. QED  BY <1>1, <1>2, <1>3, <1>4, <1>5, <1>6, <1>7, <1>8

\* An audit job writes its row.
LEMMA JobStep ==
  ASSUME RowsInv, NEW s \in Slot, AuditJobRuns(s)
  PROVE  RowsInv'
<1> USE RowsAssumption DEF AuditJobRuns, Up, objects, worker, machine, RowsInv, RowShape, AnchorPcs, MatchPcs
<1>0. /\ row' = [row EXCEPT ![s] = Upserted(s)] /\ mem[s] \in Written
      /\ Upserted(s) \in [state : SlotStates, pid : Slot \cup {None}, open : BOOLEAN]
      /\ Upserted(s) # NoRow /\ Upserted(s).open
      /\ Upserted(s).state \in Written /\ Upserted(s).state # "STAGED"
      /\ Upserted(s).pid = pid[s]
  BY DEF Upserted, NoRow, MemAt, Written, SlotStates
<1>1. RowShape'
  BY <1>0 
<1>2. OneHand'
  BY <1>0 DEF OneHand
<1>3. MemAt'
  BY <1>0 DEF MemAt, OneHand, Written
<1>4. OpenLabels'
  BY <1>0 DEF OpenLabels, MemAt, Written
<1>5. OldHaveRows'
  BY <1>0 DEF OldHaveRows
<1>6. QueuedRows'
  BY <1>0 DEF QueuedRows, OneHand
<1>7. JobRows'
  <2>1. \A t \in jobs' : t \in jobs /\ t \in Slot /\ t # s
    OBVIOUS
  <2>2. \A t \in Slot : t # s => row'[t] = row[t]
    BY <1>0
  <2>3. old' = old /\ mem' = mem
    OBVIOUS
  <2>4. QED  BY <2>1, <2>2, <2>3 DEF JobRows
<1>8. HeldRows'
  BY <1>0 DEF HeldRows, HeldRow, MemAt, OneHand, Written
<1>9. QED  BY <1>1, <1>2, <1>3, <1>4, <1>5, <1>6, <1>7, <1>8

\* The worker takes, drops or promotes a queued slot.
LEMMA TakeStep ==
  ASSUME RowsInv, NEW s \in Slot, EvictsQueued(s) \/ Takes(s) \/ Promotes(s)
  PROVE  RowsInv'
<1> USE RowsAssumption DEF EvictsQueued, Takes, Promotes, At, Up, Audit, Audited, table, objects, worker, machine, RowsInv, RowShape, AnchorPcs, MatchPcs
<1>1. RowShape'
  BY InHandHasRow 
<1>2. OneHand'
  BY InHandHasRow DEF OneHand
<1>3. MemAt'
  BY InHandHasRow DEF MemAt, OneHand, Written
<1>4. OpenLabels'
  BY InHandHasRow DEF OpenLabels, MemAt, Written
<1>5. OldHaveRows'
  BY InHandHasRow DEF OldHaveRows
<1>6. QueuedRows'
  BY InHandHasRow DEF QueuedRows, OneHand
<1>7. JobRows'
  <2>1. row' = row /\ old' = old
    OBVIOUS
  <2>2. \A t \in jobs' : t \in jobs \/ t = s
    OBVIOUS
  <2>3. s \in queued /\ row[s].pid = None /\ (row[s].open \/ s \in old)
    BY DEF QueuedRows
  <2>4. s \in jobs' => mem'[s] \in {"LOADING", "ACTIVE_MATCH"}
    BY <2>3 DEF OneHand
  <2>5. \A t \in jobs : t # s /\ mem'[t] = mem[t]
    BY <2>3 DEF OneHand
  <2>6. QED  BY <2>1, <2>2, <2>3, <2>4, <2>5 DEF JobRows
<1>8. HeldRows'
  BY InHandHasRow DEF HeldRows, HeldRow, MemAt, OneHand, Written
<1>9. QED  BY <1>1, <1>2, <1>3, <1>4, <1>5, <1>6, <1>7, <1>8

\* The worker goes on with its anchor, no row is closed.
LEMMA AnchorStep ==
  ASSUME RowsInv, Refuses \/ Inherits \/ Spawns \/ HealthTimesOut \/ Activates \/ EntersGrace
                  \/ StartsTeardown \/ HoldsIdle \/ HolderExpires
  PROVE  RowsInv'
<1> USE RowsAssumption DEF Refuses, Inherits, Spawns, HealthTimesOut, Activates, EntersGrace, StartsTeardown, HoldsIdle, HolderExpires, At, Up, Audit, Audited, table, objects, worker, machine, RowsInv, RowShape, AnchorPcs, MatchPcs
<1>1. RowShape'
  OBVIOUS
<1>2. OneHand'
  BY DEF OneHand
<1>3. MemAt'
  BY DEF MemAt, OneHand, Written
<1>4. OpenLabels'
  BY DEF OpenLabels, MemAt, Written
<1>5. OldHaveRows'
  BY DEF OldHaveRows
<1>6. QueuedRows'
  BY DEF QueuedRows, OneHand
<1>7. JobRows'
  <2>1. row' = row /\ old' = old
    OBVIOUS
  <2>2. CASE HolderExpires
    BY <2>1, <2>2 DEF JobRows
  <2>3. CASE ~HolderExpires
    <3>1. anchor \in Slot /\ anchor \notin jobs
      BY <2>3
    <3>2. row[anchor].open /\ row[anchor].state # "STAGED"
      BY <2>3, <3>1 DEF HeldRows, HeldRow
    <3>3. \A t \in jobs' : t \in jobs \/ t = anchor
      BY <2>3
    <3>4. \A t \in jobs : mem'[t] = mem[t]
      BY <2>3, <3>1
    <3>5. QED  BY <2>1, <3>1, <3>2, <3>3, <3>4 DEF JobRows
  <2>4. QED  BY <2>2, <2>3
<1>8. HeldRows'
  BY DEF HeldRows, HeldRow, MemAt, OneHand, Written
<1>9. QED  BY <1>1, <1>2, <1>3, <1>4, <1>5, <1>6, <1>7, <1>8

\* The worker goes on with a follow-up.
LEMMA MatchStep ==
  ASSUME RowsInv, ServesMatched \/ MatchedServed \/ MatchedPopped \/ CancelledServing
  PROVE  RowsInv'
<1> USE RowsAssumption DEF ServesMatched, MatchedServed, MatchedPopped, CancelledServing, At, Up, Audit, Audited, table, objects, worker, machine, RowsInv, RowShape, AnchorPcs, MatchPcs
<1>1. RowShape'
  OBVIOUS
<1>2. OneHand'
  BY DEF OneHand
<1>3. MemAt'
  BY DEF MemAt, OneHand, Written
<1>4. OpenLabels'
  BY DEF OpenLabels, MemAt, Written
<1>5. OldHaveRows'
  BY DEF OldHaveRows
<1>6. QueuedRows'
  BY DEF QueuedRows, OneHand
<1>7. JobRows'
  <2>1. row' = row /\ old' = old
    OBVIOUS
  <2>2. matched \in Slot /\ matched \notin jobs
    BY DEF MemAt
  <2>3. row[matched].open /\ row[matched].state # "STAGED"
    BY <2>2 DEF HeldRows, HeldRow
  <2>4. \A t \in jobs' : t \in jobs \/ t = matched
    OBVIOUS
  <2>5. \A t \in jobs : mem'[t] = mem[t]
    BY <2>2
  <2>6. QED  BY <2>1, <2>2, <2>3, <2>4, <2>5 DEF JobRows
<1>8. HeldRows'
  BY DEF HeldRows, HeldRow, MemAt, OneHand, Written
<1>9. QED  BY <1>1, <1>2, <1>3, <1>4, <1>5, <1>6, <1>7, <1>8


\* The request in the worker's hands ends, or its audit raises, and its row is
\* closed.
LEMMA AnchorEndsStep ==
  ASSUME RowsInv, \/ RefusalEnds \/ TeardownEnds \/ HoldEnds \/ ProcessingRaises
                  \/ MatchedRaises
  PROVE  RowsInv'
<1> USE RowsAssumption DEF RowsInv, RowShape, AnchorPcs, MatchPcs
<1>1. anchor \in Slot /\ anchor \notin queued
  BY DEF RefusalEnds, TeardownEnds, HoldEnds, ProcessingRaises, MatchedRaises, At, Up,
     OneHand
<1>2. /\ MarkEnded({anchor}) /\ pc' = "idle" /\ anchor' = None /\ matched' = None
      /\ UNCHANGED <<old, queued, pid, holder, phase>>
      /\ jobs' \subseteq jobs /\ anchor \notin jobs'
      /\ mem' = mem \/ \E to : mem' = [mem EXCEPT ![anchor] = to]
  <2>1. CASE RefusalEnds \/ TeardownEnds \/ HoldEnds
    BY <1>1, <2>1 DEF RefusalEnds, TeardownEnds, HoldEnds, At, Audited, MemAt, Finish
  <2>2. CASE ProcessingRaises
    BY <1>1, <2>2 DEF ProcessingRaises, Finish
  <2>3. CASE MatchedRaises
    BY <1>1, <2>3 DEF MatchedRaises, MemAt
  <2>4. QED  BY <2>1, <2>2, <2>3
<1>3. /\ \A s \in Slot : s # anchor => row'[s] = row[s]
      /\ \A s \in Slot : row[s] # NoRow => row'[s] # NoRow
      /\ \A s \in Slot : row'[s].open => row'[s] = row[s]
      /\ row' \in [Slot -> [state : SlotStates \cup {None}, pid : Slot \cup {None},
                            open : BOOLEAN]]
  BY <1>1, <1>2, MarkFacts
<1>4. phase = "up"
  BY DEF RefusalEnds, TeardownEnds, HoldEnds, ProcessingRaises, MatchedRaises, At, Up
<1>5. /\ \A s \in jobs' \cup queued : s \in Slot /\ s # anchor
      /\ \A s \in jobs' : mem'[s] = mem[s]
  BY <1>1, <1>2
<1>6. RowShape'
  BY <1>2, <1>3, <1>4
<1>7. OneHand' /\ MemAt'
  BY <1>2, <1>5 DEF OneHand, MemAt
<1>8. OpenLabels' /\ OldHaveRows'
  BY <1>2, <1>3 DEF OpenLabels, OldHaveRows
<1>9. QueuedRows' /\ JobRows' /\ HeldRows'
  <2>1. QueuedRows'
    BY <1>2, <1>3, <1>5 DEF QueuedRows
  <2>2. JobRows'
    <3>1. \A s \in jobs' : row'[s] = row[s] /\ mem'[s] = mem[s]
      BY <1>3, <1>5
    <3>2. jobs' \subseteq jobs /\ old' = old
      BY <1>2
    <3>3. QED  BY <3>1, <3>2 DEF JobRows
  <2>3. HeldRows'
    BY <1>2 DEF HeldRows
  <2>4. QED  BY <2>1, <2>2, <2>3
<1>10. QED  BY <1>6, <1>7, <1>8, <1>9

\* The follow-up ends; the anchor's row is another one.
LEMMA MatchedEndsStep ==
  ASSUME RowsInv, MatchedEnds
  PROVE  RowsInv'
<1> USE RowsAssumption DEF RowsInv, RowShape, AnchorPcs, MatchPcs
<1>1. /\ matched \in Slot /\ matched \notin jobs /\ matched \notin queued
      /\ anchor \in Slot /\ anchor # matched /\ pc = "popped"
  BY DEF MatchedEnds, At, Up, Audited, OneHand
<1>2. /\ MarkEnded({matched}) /\ pc' = "grace" /\ matched' = None
      /\ UNCHANGED <<old, mem, pid, queued, jobs, anchor, holder, phase>>
      /\ phase = "up"
  BY DEF MatchedEnds, At, Up, objects, machine
<1>3. /\ \A s \in Slot : s # matched => row'[s] = row[s]
      /\ \A s \in Slot : row[s] # NoRow => row'[s] # NoRow
      /\ \A s \in Slot : row'[s].open => row'[s] = row[s]
      /\ row' \in [Slot -> [state : SlotStates \cup {None}, pid : Slot \cup {None},
                            open : BOOLEAN]]
  BY <1>1, <1>2, MarkFacts
<1>4. \A s \in jobs \cup queued : s \in Slot /\ s # matched
  BY <1>1
<1>5. RowShape'
  BY <1>1, <1>2, <1>3
<1>6. OneHand' /\ MemAt'
  BY <1>1, <1>2 DEF OneHand, MemAt
<1>7. OpenLabels' /\ OldHaveRows'
  BY <1>2, <1>3 DEF OpenLabels, OldHaveRows
<1>8. QueuedRows' /\ JobRows'
  <2>1. \A s \in jobs \cup queued : row'[s] = row[s]
    BY <1>3, <1>4
  <2>2. QueuedRows'
    BY <1>2, <2>1 DEF QueuedRows
  <2>3. JobRows'
    BY <1>2, <2>1 DEF JobRows
  <2>4. QED  BY <2>2, <2>3
<1>9. HeldRows'
  <2>1. row'[anchor] = row[anchor]
    BY <1>1, <1>3
  <2>2. /\ HeldRow(anchor)
        /\ anchor \in jobs \/ row[anchor].pid = pid[anchor]
    BY <1>1 DEF HeldRows
  <2>3. QED  BY <1>2, <2>1, <2>2 DEF HeldRows, HeldRow
<1>10. QED  BY <1>5, <1>6, <1>7, <1>8, <1>9

\* The sweeper closes rows that were never audited, nor taken since.
LEMMA SweepStep ==
  ASSUME RowsInv, Sweeps
  PROVE  RowsInv'
<1> USE RowsAssumption DEF RowsInv, RowShape, AnchorPcs, MatchPcs
<1>1. PICK S \in SUBSET {s \in Slot : Stale(s)} : MarkEnded(S)
  BY DEF Sweeps
<1>2. UNCHANGED <<old, mem, pid, queued, jobs, pc, anchor, matched, holder, phase>>
  BY DEF Sweeps, objects, worker, machine
<1>3. \A s \in S : s \in old /\ row[s].state = "STAGED"
  BY DEF Stale
<1>4. /\ \A s \in Slot : row'[s].pid = row[s].pid
      /\ \A s \in Slot : s \notin S => row'[s] = row[s]
      /\ \A s \in Slot : row[s] # NoRow => row'[s] # NoRow
      /\ \A s \in Slot : row'[s].open => row'[s] = row[s]
      /\ row' \in [Slot -> [state : SlotStates \cup {None}, pid : Slot \cup {None},
                            open : BOOLEAN]]
  BY <1>1, MarkFacts
<1>5. RowShape'
  BY <1>2, <1>4
<1>6. OneHand' /\ MemAt'
  BY <1>2 DEF OneHand, MemAt
<1>7. OpenLabels' /\ OldHaveRows'
  BY <1>2, <1>4 DEF OpenLabels, OldHaveRows
<1>8. QueuedRows' /\ JobRows'
  BY <1>2, <1>3, <1>4 DEF QueuedRows, JobRows
<1>9. HeldRows'
  BY <1>2, <1>3, <1>4 DEF HeldRows, HeldRow
<1>10. QED  BY <1>5, <1>6, <1>7, <1>8, <1>9

------------------------------------------------------------------------------
(* Shutdown, crash and boot *)

\* shutdown takes everything from the worker; audit jobs go on.
LEMMA StopStep ==
  ASSUME RowsInv, CancelledEnds \/ CancelledRaises \/ Cancelled
  PROVE  RowsInv'
<1> USE RowsAssumption DEF RowsInv, RowShape, AnchorPcs, MatchPcs
<1>1. /\ pc' = "stopped" /\ anchor' = None /\ matched' = None /\ holder' = None
      /\ queued' = {} /\ UNCHANGED <<old, mem, pid, jobs, phase>> /\ phase = "up"
  BY DEF CancelledEnds, CancelledRaises, Cancelled, Stop, At, Up
<1>2. /\ row' \in [Slot -> [state : SlotStates \cup {None}, pid : Slot \cup {None},
                            open : BOOLEAN]]
      /\ \A s \in jobs : row'[s] = row[s]
      /\ \A s \in Slot : row[s] # NoRow => row'[s] # NoRow
      /\ \A s \in Slot : row'[s].open => row'[s] = row[s]
  <2>1. CASE Cancelled
    BY <2>1 DEF Cancelled
  <2>2. CASE CancelledEnds
    <3>1. matched \in Slot /\ matched \notin jobs /\ MarkEnded({matched})
      BY <2>2 DEF CancelledEnds, At, Audited
    <3>2. QED  BY <3>1, MarkFacts
  <2>3. CASE CancelledRaises
    <3>1. anchor \in Slot /\ anchor \notin jobs /\ MarkEnded({anchor})
      BY <2>3 DEF CancelledRaises, At, MemAt
    <3>2. QED  BY <3>1, MarkFacts
  <2>4. QED  BY <2>1, <2>2, <2>3
<1>3. RowShape'
  BY <1>1, <1>2
<1>4. OneHand' /\ MemAt'
  BY <1>1 DEF OneHand, MemAt
<1>5. OpenLabels' /\ OldHaveRows'
  BY <1>1, <1>2 DEF OpenLabels, OldHaveRows
<1>6. QueuedRows' /\ JobRows' /\ HeldRows'
  BY <1>1, <1>2 DEF QueuedRows, JobRows, HeldRows
<1>7. QED  BY <1>3, <1>4, <1>5, <1>6

\* The process ends: only the table is left.
LEMMA DownStep ==
  ASSUME RowsInv, Exits \/ Crashes
  PROVE  RowsInv'
<1> USE RowsAssumption DEF RowsInv, RowShape, AnchorPcs, MatchPcs
<1>1. /\ UNCHANGED <<row, old>> /\ jobs' = {} /\ queued' = {}
      /\ pc' = "stopped" /\ anchor' = None /\ matched' = None /\ holder' = None
      /\ mem' = [s \in Slot |-> None] /\ pid' = [s \in Slot |-> None]
      /\ phase' = "down"
  BY DEF Exits, Crashes, Down, table
<1>2. RowShape'
  BY <1>1
<1>3. OneHand' /\ MemAt' /\ OpenLabels' /\ OldHaveRows'
  BY <1>1 DEF OneHand, MemAt, OpenLabels, OldHaveRows
<1>4. QueuedRows' /\ JobRows' /\ HeldRows'
  BY <1>1 DEF QueuedRows, JobRows, HeldRows
<1>5. QED  BY <1>2, <1>3, <1>4

\* boot_reconcile closes rows; nobody has a slot in hand yet.
LEMMA BootStep ==
  ASSUME RowsInv, Boots
  PROVE  RowsInv'
<1> USE RowsAssumption DEF RowsInv, RowShape, AnchorPcs, MatchPcs
<1>1. /\ jobs = {} /\ queued = {} /\ anchor = None /\ matched = None
      /\ UNCHANGED <<old, mem, pid, queued, jobs, anchor, matched, holder>>
      /\ pc' = "idle" /\ phase' = "up"
  BY DEF Boots, objects
<1>2. \E S \in SUBSET Slot : MarkEnded(S)
  <2>1. PICK live \in SUBSET Slot :
          MarkEnded({s \in Slot : Orphaned(s, KnownActivePids \cap live)})
    BY DEF Boots
  <2>2. QED  BY <2>1
<1>3. /\ row' \in [Slot -> [state : SlotStates \cup {None}, pid : Slot \cup {None},
                            open : BOOLEAN]]
      /\ \A s \in Slot : row[s] # NoRow => row'[s] # NoRow
      /\ \A s \in Slot : row'[s].open => row'[s] = row[s]
  BY <1>2, MarkFacts
<1>4. RowShape'
  BY <1>1, <1>3
<1>5. OneHand' /\ MemAt' /\ OpenLabels' /\ OldHaveRows'
  BY <1>1, <1>3 DEF OneHand, MemAt, OpenLabels, OldHaveRows
<1>6. QueuedRows' /\ JobRows' /\ HeldRows'
  BY <1>1 DEF QueuedRows, JobRows, HeldRows
<1>7. QED  BY <1>4, <1>5, <1>6

\* Nothing happens.
LEMMA StutterStep == RowsInv /\ UNCHANGED vars => RowsInv'
<1> SUFFICES ASSUME RowsInv, UNCHANGED vars PROVE RowsInv'
  OBVIOUS
<1>1. UNCHANGED <<row, old, mem, pid, queued, jobs, pc, anchor, matched, holder, phase>>
  BY DEF vars, table, objects, worker, machine
<1>2. RowShape' /\ OneHand'
  BY <1>1 DEF RowsInv, RowShape, OneHand
<1>3. MemAt' /\ OpenLabels' /\ OldHaveRows'
  BY <1>1 DEF RowsInv, MemAt, OpenLabels, OldHaveRows
<1>4. QueuedRows' /\ JobRows' /\ HeldRows'
  BY <1>1 DEF RowsInv, QueuedRows, JobRows, HeldRows, HeldRow
<1>5. QED  BY <1>2, <1>3, <1>4 DEF RowsInv

\* RowsInv is inductive.
LEMMA StepRows == RowsInv /\ [RowsNext]_vars => RowsInv'
<1> SUFFICES ASSUME RowsInv, [RowsNext]_vars PROVE RowsInv'
  OBVIOUS
<1>1. ASSUME NEW s \in Slot, Submit(s) \/ MoveUp(s) \/ AgeDay(s) \/ AuditJobRuns(s)
                             \/ EvictsQueued(s) \/ Takes(s) \/ Promotes(s)
      PROVE  RowsInv'
  BY <1>1, SubmitStep, MoveUpStep, AgeStep, JobStep, TakeStep
<1>2. ASSUME \/ Refuses \/ RefusalEnds \/ Inherits \/ Spawns \/ HealthTimesOut
             \/ Activates \/ EntersGrace \/ ProcessingRaises \/ StartsTeardown
             \/ TeardownEnds \/ HoldsIdle \/ HoldEnds \/ HolderExpires
             \/ MatchedRaises
      PROVE  RowsInv'
  BY <1>2, AnchorStep, AnchorEndsStep
<1>3. ASSUME \/ ServesMatched \/ MatchedServed \/ MatchedPopped \/ MatchedEnds
             \/ CancelledServing \/ CancelledEnds \/ CancelledRaises \/ Cancelled
             \/ Sweeps
      PROVE  RowsInv'
  BY <1>3, MatchStep, MatchedEndsStep, StopStep, SweepStep
<1>4. ASSUME Exits \/ Crashes \/ Boots PROVE RowsInv'
  BY <1>4, DownStep, BootStep
<1>5. ASSUME UNCHANGED vars PROVE RowsInv'
  BY <1>5, StutterStep
<1>6. QED  BY <1>1, <1>2, <1>3, <1>4, <1>5 DEF RowsNext, WorkerStep

------------------------------------------------------------------------------
(* Theorems *)

\* The invariant holds of every state of the table, the worker and its jobs.
THEOREM AlwaysRows == RowsSpec => []RowsInv
BY InitRows, StepRows, PTL DEF RowsSpec

\* The row of a request that is being served is open, and carries the pid of
\* its llama-server: the audits of _process_slot against the sweeper, the ends
\* of other requests and boot_reconcile.
THEOREM ServedRowsAreOpen == RowsSpec => []ServedRowIsOpen
<1>1. RowsInv => ServedRowIsOpen
  BY RowsAssumption DEF RowsInv, RowShape, HeldRows, HeldRow, MatchPcs, AnchorPcs,
     ServedRowIsOpen, Serving, Audited
<1>2. QED  BY <1>1, AlwaysRows, PTL

\* Only submit and the audit jobs open rows.
LEMMA OpeningSteps ==
  ASSUME RowsInv, [RowsNext]_vars, NEW s \in Slot, ~row[s].open, row'[s].open
  PROVE  row[s] = NoRow \/ AuditJobRuns(s)
<1> USE DEF table
<1>1. ASSUME NEW S \in SUBSET Slot, MarkEnded(S) PROVE FALSE
  BY <1>1, MarkFacts DEF RowsInv
<1>2. ASSUME UNCHANGED row PROVE FALSE
  BY <1>2
<1>3. ASSUME NEW t \in Slot, Submit(t) PROVE row[s] = NoRow
  <2>1. row[t] = NoRow /\ \A u \in Slot : u # t => row'[u] = row[u]
    BY <1>3 DEF Submit, RowsInv, RowShape
  <2>2. QED  BY <2>1
<1>4. ASSUME NEW t \in Slot, AuditJobRuns(t) PROVE AuditJobRuns(s)
  <2>1. \A u \in Slot : u # t => row'[u] = row[u]
    BY <1>4 DEF AuditJobRuns, RowsInv, RowShape
  <2>2. QED  BY <1>4, <2>1
<1>5. ASSUME NEW t \in Slot, MoveUp(t) \/ AgeDay(t) \/ EvictsQueued(t) \/ Takes(t)
                             \/ Promotes(t)
      PROVE  FALSE
  BY <1>2, <1>5 DEF MoveUp, AgeDay, EvictsQueued, Takes, Promotes
<1>6. ASSUME \/ Refuses \/ Inherits \/ Spawns \/ HealthTimesOut \/ Activates
             \/ EntersGrace \/ StartsTeardown \/ HoldsIdle \/ HolderExpires
             \/ ServesMatched \/ MatchedServed \/ MatchedPopped \/ CancelledServing
             \/ Cancelled \/ Exits \/ Crashes
      PROVE  FALSE
  BY <1>2, <1>6 DEF Refuses, Inherits, Spawns, HealthTimesOut, Activates,
     EntersGrace, StartsTeardown, HoldsIdle, HolderExpires, ServesMatched,
     MatchedServed, MatchedPopped, CancelledServing, Cancelled, Exits, Crashes, Down
<1>7. ASSUME \/ RefusalEnds \/ TeardownEnds \/ HoldEnds \/ ProcessingRaises
             \/ MatchedRaises \/ CancelledRaises
      PROVE  FALSE
  <2>1. anchor \in Slot /\ MarkEnded({anchor})
    BY <1>7 DEF RefusalEnds, TeardownEnds, HoldEnds, ProcessingRaises, MatchedRaises,
       CancelledRaises, Finish, At, RowsInv, RowShape, AnchorPcs, MatchPcs
  <2>2. QED  BY <1>1, <2>1
<1>8. ASSUME MatchedEnds \/ CancelledEnds PROVE FALSE
  <2>1. matched \in Slot /\ MarkEnded({matched})
    BY <1>8 DEF MatchedEnds, CancelledEnds, At, RowsInv, RowShape, MatchPcs
  <2>2. QED  BY <1>1, <2>1
<1>9. ASSUME Sweeps \/ Boots PROVE FALSE
  <2>1. \E S \in SUBSET Slot : MarkEnded(S)
    BY <1>9 DEF Sweeps, Boots
  <2>2. QED  BY <1>1, <2>1
<1>10. QED
  BY <1>2, <1>3, <1>4, <1>5, <1>6, <1>7, <1>8, <1>9 DEF RowsNext, WorkerStep, vars

\* A closed row is opened again for a request only the sweeper had given up:
\* late audit jobs, whose task was cancelled, find a row that is still open.
THEOREM ClosedRowsStayClosed == RowsSpec => ClosedStaysClosed
<1>1. RowsInv /\ [RowsNext]_vars =>
        [\A s \in Slot : row[s] # NoRow /\ ~row[s].open /\ row'[s].open
                           => /\ s \in old /\ row[s].pid = None
                              /\ row'[s].state \in {"LOADING", "ACTIVE_MATCH"}]_vars
  <2> SUFFICES ASSUME RowsInv, [RowsNext]_vars, NEW s \in Slot,
                      row[s] # NoRow, ~row[s].open, row'[s].open
               PROVE  /\ s \in old /\ row[s].pid = None
                      /\ row'[s].state \in {"LOADING", "ACTIVE_MATCH"}
    OBVIOUS
  <2>1. AuditJobRuns(s)
    BY OpeningSteps
  <2>2. s \in jobs /\ row'[s].state = mem[s]
    BY <2>1 DEF AuditJobRuns, Upserted, RowsInv, RowShape
  <2>3. QED  BY <2>2 DEF RowsInv, JobRows
<1>2. QED  BY <1>1, AlwaysRows, PTL DEF RowsSpec, ClosedStaysClosed

\* Which rows boot_reconcile leaves open: reconcile_orphaned_slots looks at the
\* label and the pid of every row that an earlier life has left open.
THEOREM BootClosesTheRest == RowsSpec => BootClosesRows
<1>1. RowsInv /\ [RowsNext]_vars =>
        [phase = "down" /\ phase' = "up" =>
           \A s \in Slot : row'[s].open => \/ row[s].state = "POPPED"
                                           \/ row[s].pid \in spared']_vars
  <2> SUFFICES ASSUME RowsInv, [RowsNext]_vars, phase = "down", phase' = "up",
                      NEW s \in Slot, row'[s].open
               PROVE  row[s].state = "POPPED" \/ row[s].pid \in spared'
    OBVIOUS
  <2>1. Boots
    BY DEF RowsNext, WorkerStep, Submit, MoveUp, AgeDay, AuditJobRuns, EvictsQueued,
       Takes, Promotes, Refuses, RefusalEnds, Inherits, Spawns, HealthTimesOut,
       Activates, EntersGrace, ProcessingRaises, StartsTeardown, TeardownEnds,
       HoldsIdle, HoldEnds, ServesMatched, MatchedServed, MatchedPopped,
       MatchedEnds, MatchedRaises, CancelledEnds, CancelledRaises, HolderExpires,
       Sweeps, CancelledServing,
       Cancelled, Exits, Crashes, Down, At, Up, vars, machine
  <2>2. PICK live \in SUBSET Slot :
          /\ spared' = KnownActivePids \cap live
          /\ MarkEnded({t \in Slot : Orphaned(t, KnownActivePids \cap live)})
    BY <2>1 DEF Boots
  <2>3. row[s].open /\ ~Orphaned(s, KnownActivePids \cap live)
    <3> DEFINE S == {t \in Slot : Orphaned(t, KnownActivePids \cap live)}
    <3>1. S \in SUBSET Slot /\ MarkEnded(S)
      BY <2>2
    <3>2. s \notin S /\ row'[s] = row[s]
      BY <3>1, MarkFacts DEF RowsInv
    <3>3. QED  BY <3>2
  <2>4. row[s].state \in Written \cup {"STAGED", "ACCEPT_BUFFER"}
    BY <2>3 DEF RowsInv, OpenLabels
  <2>5. QED  BY <2>2, <2>3, <2>4 DEF Orphaned, Written
<1>2. QED  BY <1>1, AlwaysRows, PTL DEF RowsSpec, BootClosesRows
==============================================================================
