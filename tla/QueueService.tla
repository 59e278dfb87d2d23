----------------------------- MODULE QueueService ----------------------------
(***************************************************************************)
(* TurbohaulQueue on its own: any caller may use any operation at any      *)
(* time.  History variables record what the properties compare the two     *)
(* tiers with; they guard nothing.                                         *)
(***************************************************************************)
EXTENDS TurbohaulQueue, FiniteSets

VARIABLES
  arrived,   \* the slots ever queued, in the order of their calls
  jumped,    \* those of them that enqueue_head put in front
  taken,     \* those that an operation has returned
  skipped    \* a slot was taken by key or by id, past the ones before it

historyVars == <<arrived, jumped, taken, skipped>>
serviceVars == <<queueVars, historyVars>>

Arrived == ToSet(arrived)

ServiceInit ==
  /\ QueueInit
  /\ arrived = <<>>
  /\ jumped = {}
  /\ taken = {}
  /\ skipped = FALSE

------------------------------------------------------------------------------
Arrive(s) ==
  /\ s \notin Arrived
  /\ arrived' = Append(arrived, s)
  /\ UNCHANGED <<taken, skipped>>
  /\ \/ Enqueue(s) /\ UNCHANGED jumped
     \/ EnqueueHead(s) /\ jumped' = jumped \cup {s}

TakeNext(s) ==
  /\ PopNext(s)
  /\ taken' = taken \cup {s}
  /\ UNCHANGED <<arrived, jumped, skipped>>

TakeOther(s) ==
  /\ (\E k \in Keys : PopMatched(s, k)) \/ RemoveSlot(s)
  /\ taken' = taken \cup {s}
  /\ skipped' = TRUE
  /\ UNCHANGED <<arrived, jumped>>

TakeAll ==
  /\ Close
  /\ taken' = taken \cup Waiting
  /\ UNCHANGED <<arrived, jumped, skipped>>

ClientGone(s) == Disconnect(s) /\ UNCHANGED historyVars

ServiceNext ==
  \/ \E s \in Slots : Arrive(s) \/ TakeNext(s) \/ TakeOther(s) \/ ClientGone(s)
  \/ TakeAll

ServiceSpec == ServiceInit /\ [][ServiceNext]_serviceVars

\* The worker loop polls pop_next for as long as the process lives.
FairServiceSpec == ServiceSpec /\ WF_serviceVars(\E s \in Slots : TakeNext(s))

------------------------------------------------------------------------------
QueueTypeOK ==
  /\ TiersTypeOK
  /\ arrived \in Seq(Slots)
  /\ jumped \subseteq Slots
  /\ taken \subseteq Slots
  /\ skipped \in BOOLEAN

\* Whatever sequence of operations ran, a queued slot is in exactly one place
\* of one tier or has been handed to exactly one caller: the moves between
\* the tiers in pop_next, and the deletions, neither lose nor copy a slot.
OnePlace ==
  /\ IsInjective(Line)
  /\ Waiting \cap taken = {}
  /\ Waiting \cup taken = Arrived

\* What enqueue and the refills admit stays inside staging_max and
\* acceptance_max, also when head insertions have overfilled staging.
Capacity ==
  /\ Cardinality(Staged \ jumped) <= StagingMax
  /\ Len(acceptBuf) <= AcceptanceMax

\* After close no slot waits, and none is let in any more: nobody would ever
\* answer its client.
ClosedIsEmpty == closed => Line = <<>>

\* s arrived before t; s stands before t in the line.
Earlier(s, t) == \E i, j \in DOMAIN arrived : i < j /\ arrived[i] = s /\ arrived[j] = t
Ahead(s, t)   == \E i, j \in DOMAIN Line : i < j /\ Line[i] = s /\ Line[j] = t

\* Until a slot is taken from the middle, slots queued by enqueue leave in the
\* order they came, across the overflow and back ("Staging queue: FIFO").
FifoUnlessSkipped ==
  ~skipped => \A s, t \in Waiting \ jumped : Earlier(s, t) => Ahead(s, t)

\* No operation ever reorders two slots that are both waiting before and after.
KeepsOrder == \A s, t \in Waiting \cap Waiting' : Ahead(s, t) => Ahead(s, t)'

OrderKept == [][KeepsOrder]_serviceVars

\* Every queued slot is taken in the end, also one that waits in the buffer
\* while staging has run empty: time and again there is nobody who has arrived
\* and has not been taken.
EveryoneTaken == []<>(Arrived = taken)
==============================================================================
