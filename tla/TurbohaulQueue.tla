--------------------------- MODULE TurbohaulQueue ----------------------------
(***************************************************************************)
(* TurbohaulQueue of queue.py: the two tiers through which every request   *)
(* (Slot) passes on its way to the worker.  Its asyncio lock is never held *)
(* across a suspension, so every operation is one atomic action.           *)
(***************************************************************************)
EXTENDS Integers, Sequences, SequencesExt

CONSTANTS
  Slots,          \* the requests, each enqueued at most once
  Key,            \* Key[s]: the (thread_id, model_tag) pair of s
  Watched,        \* the requests submitted with a disconnect_event
  StagingMax,     \* staging_max, config.py requires at least 1
  AcceptanceMax   \* acceptance_max, config.py requires at least 1

ASSUME QueueAssumption ==
  /\ Watched \subseteq Slots
  /\ StagingMax \in Nat \ {0}
  /\ AcceptanceMax \in Nat \ {0}

VARIABLES
  staging,        \* _staging: the slots the worker may take
  acceptBuf,      \* _accept_buf: the overflow behind it
  closed,         \* _closed
  tier,           \* tier[s]: slot.state as the queue last wrote it
  disconnected,   \* slots whose disconnect_event is set
  evicted         \* slots whose is_evicted flag is set

queueVars == <<staging, acceptBuf, closed, tier, disconnected, evicted>>

Staged   == ToSet(staging)
Buffered == ToSet(acceptBuf)
Waiting  == Staged \cup Buffered
Line     == staging \o acceptBuf
Keys     == {Key[s] : s \in Slots}

QueueInit ==
  /\ staging = <<>>
  /\ acceptBuf = <<>>
  /\ closed = FALSE
  /\ tier = [s \in Slots |-> "RECEIVED"]
  /\ disconnected = {}
  /\ evicted = {}

------------------------------------------------------------------------------
\* A mutant of Enqueue: the _closed check is missing.
EnqueueAfterClose(s) ==
  /\ Len(staging) < StagingMax
  /\ staging' = Append(staging, s)
  /\ tier' = [tier EXCEPT ![s] = "STAGED"]
  /\ UNCHANGED <<acceptBuf, closed, disconnected, evicted>>

\* A mutant of Enqueue: one slot too many in staging.
EnqueueOneTooMany(s) ==
  /\ ~closed
  /\ Len(staging) <= StagingMax
  /\ staging' = Append(staging, s)
  /\ tier' = [tier EXCEPT ![s] = "STAGED"]
  /\ UNCHANGED <<acceptBuf, closed, disconnected, evicted>>

\* enqueue: to staging if there is room, otherwise to the acceptance buffer.
Enqueue(s) ==
  /\ ~closed
  /\ \/ /\ Len(staging) < StagingMax
        /\ staging' = Append(staging, s)
        /\ tier' = [tier EXCEPT ![s] = "STAGED"]
        /\ UNCHANGED acceptBuf
     \/ /\ Len(staging) >= StagingMax
        /\ Len(acceptBuf) < AcceptanceMax
        /\ acceptBuf' = Append(acceptBuf, s)
        /\ tier' = [tier EXCEPT ![s] = "ACCEPT_BUFFER"]
        /\ UNCHANGED staging
  /\ UNCHANGED <<closed, disconnected, evicted>>

\* enqueue raises QueueClosed or QueueFull.
EnqueueRefused ==
  \/ closed
  \/ Len(staging) >= StagingMax /\ Len(acceptBuf) >= AcceptanceMax

\* A mutant of EnqueueHead: the state a matched arrival has in the FSM.
EnqueueHeadAsMatch(s) ==
  /\ ~closed
  /\ staging' = <<s>> \o staging
  /\ tier' = [tier EXCEPT ![s] = "ACTIVE_MATCH"]
  /\ UNCHANGED <<acceptBuf, closed, disconnected, evicted>>

\* enqueue_head: appendleft, whatever the length of staging.
EnqueueHead(s) ==
  /\ ~closed
  /\ staging' = <<s>> \o staging
  /\ tier' = [tier EXCEPT ![s] = "STAGED"]
  /\ UNCHANGED <<acceptBuf, closed, disconnected, evicted>>

\* A popped slot whose client is gone is flagged for the worker.
FlagIfGone(s) == evicted' = IF s \in disconnected THEN evicted \cup {s} ELSE evicted

\* Mutants of PopHead: the refill keeps the slot's old state; the refill goes
\* to the head; there is no refill.
PopHeadKeepsState(s) ==
  /\ staging # <<>>
  /\ s = Head(staging)
  /\ IF acceptBuf # <<>> /\ Len(staging) - 1 < StagingMax
     THEN /\ staging' = Append(Tail(staging), Head(acceptBuf))
          /\ acceptBuf' = Tail(acceptBuf)
     ELSE staging' = Tail(staging) /\ UNCHANGED acceptBuf
  /\ UNCHANGED tier

PopHeadRefillsHead(s) ==
  /\ staging # <<>>
  /\ s = Head(staging)
  /\ IF acceptBuf # <<>> /\ Len(staging) - 1 < StagingMax
     THEN /\ staging' = <<Head(acceptBuf)>> \o Tail(staging)
          /\ acceptBuf' = Tail(acceptBuf)
          /\ tier' = [tier EXCEPT ![Head(acceptBuf)] = "STAGED"]
     ELSE staging' = Tail(staging) /\ UNCHANGED <<acceptBuf, tier>>

PopHeadWithoutRefill(s) ==
  /\ staging # <<>>
  /\ s = Head(staging)
  /\ staging' = Tail(staging)
  /\ UNCHANGED <<acceptBuf, tier>>

(***************************************************************************)
(* pop_next returns s, the head of staging, and moves one buffered slot    *)
(* into the room it leaves.  With staging empty it first drains as much of *)
(* the buffer as staging holds.                                            *)
(***************************************************************************)
PopHead(s) ==
  /\ staging # <<>>
  /\ s = Head(staging)
  /\ IF acceptBuf # <<>> /\ Len(staging) - 1 < StagingMax
     THEN /\ staging' = Append(Tail(staging), Head(acceptBuf))
          /\ acceptBuf' = Tail(acceptBuf)
          /\ tier' = [tier EXCEPT ![Head(acceptBuf)] = "STAGED"]
     ELSE /\ staging' = Tail(staging)
          /\ UNCHANGED <<acceptBuf, tier>>

\* A mutant of PopDrained: the slot taken is also left in the buffer.
PopDrainedLeavesHead(s) ==
  /\ staging = <<>>
  /\ acceptBuf # <<>>
  /\ s = Head(acceptBuf)
  /\ tier' = [tier EXCEPT ![s] = "STAGED"]
  /\ UNCHANGED <<staging, acceptBuf>>

PopDrained(s) ==
  /\ staging = <<>>
  /\ acceptBuf # <<>>
  /\ s = Head(acceptBuf)
  /\ LET room  == IF Len(acceptBuf) < StagingMax THEN Len(acceptBuf) ELSE StagingMax
         moved == SubSeq(acceptBuf, 1, room)
     IN  /\ staging' = Tail(moved)
         /\ acceptBuf' = SubSeq(acceptBuf, room + 1, Len(acceptBuf))
         /\ tier' = [x \in Slots |-> IF x \in ToSet(moved) THEN "STAGED" ELSE tier[x]]

\* A mutant of PopNext: an empty staging queue is not refilled.
PopNextWithoutDrain(s) ==
  /\ PopHead(s)
  /\ FlagIfGone(s)
  /\ UNCHANGED <<closed, disconnected>>

PopNext(s) ==
  /\ PopHead(s) \/ PopDrained(s)
  /\ FlagIfGone(s)
  /\ UNCHANGED <<closed, disconnected>>

\* pop_next returns None.
NothingToPop == staging = <<>> /\ acceptBuf = <<>>

\* pop_matched_thread returns s: the first staged slot of key k, removed
\* from the middle of staging, which is not refilled.
IsFirstMatch(i, k) ==
  /\ i \in DOMAIN staging
  /\ Key[staging[i]] = k
  /\ \A j \in 1 .. i - 1 : Key[staging[j]] # k

PopMatched(s, k) ==
  \E i \in 1 .. Len(staging) :
    /\ IsFirstMatch(i, k)
    /\ s = staging[i]
    /\ staging' = RemoveAt(staging, i)
    /\ FlagIfGone(s)
    /\ UNCHANGED <<acceptBuf, closed, tier, disconnected>>

\* pop_matched_thread returns None.
NoMatch(k) == \A x \in Staged : Key[x] # k

\* remove: by slot id, from whichever tier holds it.
RemoveSlot(s) ==
  /\ \/ \E i \in 1 .. Len(staging) :
          /\ staging[i] = s
          /\ staging' = RemoveAt(staging, i)
          /\ UNCHANGED acceptBuf
     \/ \E i \in 1 .. Len(acceptBuf) :
          /\ acceptBuf[i] = s
          /\ acceptBuf' = RemoveAt(acceptBuf, i)
          /\ UNCHANGED staging
  /\ UNCHANGED <<closed, tier, disconnected, evicted>>

\* close: both tiers are emptied; the slots that were in them are returned.
Close ==
  /\ closed' = TRUE
  /\ staging' = <<>>
  /\ acceptBuf' = <<>>
  /\ UNCHANGED <<tier, disconnected, evicted>>

\* A route's watch_disconnect task sets the slot's disconnect_event; callers
\* other than the HTTP routes pass none.
Disconnect(s) ==
  /\ s \in Watched
  /\ tier[s] # "RECEIVED"
  /\ s \notin disconnected
  /\ disconnected' = disconnected \cup {s}
  /\ UNCHANGED <<staging, acceptBuf, closed, tier, evicted>>

------------------------------------------------------------------------------
TiersTypeOK ==
  /\ staging \in Seq(Slots)
  /\ acceptBuf \in Seq(Slots)
  /\ closed \in BOOLEAN
  /\ tier \in [Slots -> {"RECEIVED", "STAGED", "ACCEPT_BUFFER"}]
  /\ disconnected \subseteq Slots
  /\ evicted \subseteq Slots

\* slot.state as the queue writes it tells the tier the slot is in, through
\* every promotion: /queue and the state database show it to operators.
TierHonest ==
  /\ \A s \in Staged : tier[s] = "STAGED"
  /\ \A s \in Buffered : tier[s] = "ACCEPT_BUFFER"
==============================================================================
