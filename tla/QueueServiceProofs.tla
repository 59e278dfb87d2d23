-------------------------- MODULE QueueServiceProofs -------------------------
(***************************************************************************)
(* The queue on its own, for every number of requests and every size of    *)
(* its tiers: its properties follow from what QueueLemmas says an          *)
(* insertion into the line and a deletion from it do.                      *)
(***************************************************************************)
EXTENDS QueueService, QueueLemmas

\* The type invariant.
LEMMA InitTypeOK == ServiceInit => QueueTypeOK
<1> <<>> \in Seq(Slots)
  BY EmptySeq
<1> QED
  BY QueueInitTyped DEF ServiceInit, QueueTypeOK

LEMMA StepTypeOK ==
  ASSUME QueueTypeOK, [ServiceNext]_serviceVars
  PROVE  QueueTypeOK'
<1>1. TiersTypeOK'
  BY EnqueueTyped, PopNextTyped, PopMatchedTyped, RemoveSlotTyped, CloseTyped
  DEF QueueTypeOK, TiersTypeOK, ServiceNext, Arrive, TakeNext, TakeOther, TakeAll, ClientGone, serviceVars
<1>2. arrived' \in Seq(Slots)
  BY DEF QueueTypeOK, TiersTypeOK, ServiceNext, Arrive, TakeNext, TakeOther, TakeAll, ClientGone,
         serviceVars, historyVars
<1>3. jumped' \subseteq Slots /\ taken' \subseteq Slots /\ skipped' \in BOOLEAN
  <2>1. Waiting \subseteq Slots
    BY ElementOfSeq DEF QueueTypeOK, TiersTypeOK, Waiting, Staged, Buffered, ToSet
  <2> QED
    BY <2>1 DEF QueueTypeOK, TiersTypeOK, ServiceNext, Arrive, TakeNext, TakeOther, TakeAll, ClientGone,
                serviceVars, historyVars
<1> QED
  BY <1>1, <1>2, <1>3 DEF QueueTypeOK, TiersTypeOK

\* Every variable of the queue and of its history keeps its type: in particular
\* both tiers hold nothing but slots, whatever the drains and deletions moved.
THEOREM TypeCorrect == ServiceSpec => []QueueTypeOK
BY InitTypeOK, StepTypeOK, PTL DEF ServiceSpec

\* What the operations do to the line, in terms of the service's steps.
LEMMA LineTypedHere ==
  QueueTypeOK => TiersTypeOK /\ Line \in Seq(Slots) /\ ToSet(Line) = Waiting
BY LineTyped DEF QueueTypeOK, TiersTypeOK, LineOK

LEMMA LineTypedThen == QueueTypeOK' => Line' \in Seq(Slots) /\ ToSet(Line') = Waiting'
<1>1. TiersTypeOK' => LineOK'
  BY LineTyped, PTL
<1> QED
  BY <1>1 DEF QueueTypeOK, TiersTypeOK, LineOK, ToSet

LEMMA ArriveInserts ==
  ASSUME QueueTypeOK, NEW s \in Slots, Arrive(s)
  PROVE  \E k : Inserts(Line, Line', k, s)
BY EnqueueInserts DEF Arrive, QueueTypeOK

LEMMA TakeNextDeletes ==
  ASSUME QueueTypeOK, NEW s \in Slots, TakeNext(s)
  PROVE  Inserts(Line', Line, 1, s)
BY PopNextDeletes DEF TakeNext, QueueTypeOK

LEMMA TakeOtherDeletes ==
  ASSUME QueueTypeOK, NEW s \in Slots, TakeOther(s)
  PROVE  \E k : Inserts(Line', Line, k, s)
BY RemovalDeletes DEF TakeOther, QueueTypeOK

------------------------------------------------------------------------------
\* OnePlace is inductive on its own once the types are known.
LEMMA ArriveOnePlace ==
  ASSUME QueueTypeOK, OnePlace, NEW s \in Slots, Arrive(s)
  PROVE  OnePlace'
<1>1. QueueTypeOK'
  BY StepTypeOK DEF ServiceNext
<1>2. Line \in Seq(Slots) /\ ToSet(Line) = Waiting
  BY LineTypedHere
<1>3. Line' \in Seq(Slots) /\ ToSet(Line') = Waiting'
  BY <1>1, LineTypedThen
<1>4. s \notin Arrived /\ taken' = taken
  BY DEF Arrive
<1>5. PICK k : Inserts(Line, Line', k, s)
  BY ArriveInserts
<1>6. Waiting' = Waiting \cup {s} /\ IsInjective(Line')
  <2>1. s \notin ToSet(Line) /\ IsInjective(Line)
    BY <1>2, <1>4 DEF OnePlace
  <2> QED
    BY <1>2, <1>3, <1>5, <2>1, InsertsSets
<1>7. Arrived' = Arrived \cup {s}
  <2>1. arrived' = Append(arrived, s) /\ arrived \in Seq(Slots)
    BY DEF Arrive, QueueTypeOK
  <2>2. Inserts(arrived, arrived', Len(arrived) + 1, s) /\ arrived' \in Seq(Slots)
    BY <2>1, AppendInserts
  <2> QED
    BY <2>1, <2>2, InsertsSets DEF Arrived
<1> QED
  BY <1>4, <1>6, <1>7 DEF OnePlace

LEMMA TakeOnePlace ==
  ASSUME QueueTypeOK, OnePlace, NEW s \in Slots, TakeNext(s) \/ TakeOther(s)
  PROVE  OnePlace'
<1>1. QueueTypeOK'
  BY StepTypeOK DEF ServiceNext
<1>2. Line \in Seq(Slots) /\ ToSet(Line) = Waiting
  BY LineTypedHere
<1>3. Line' \in Seq(Slots) /\ ToSet(Line') = Waiting'
  BY <1>1, LineTypedThen
<1>4. Arrived' = Arrived /\ taken' = taken \cup {s}
  BY DEF TakeNext, TakeOther, Arrived
<1>5. PICK k : Inserts(Line', Line, k, s)
  BY TakeNextDeletes, TakeOtherDeletes
<1>6. Waiting = Waiting' \cup {s} /\ s \notin Waiting' /\ IsInjective(Line')
  BY <1>2, <1>3, <1>5, InsertsSets DEF OnePlace
<1> QED
  BY <1>4, <1>6 DEF OnePlace

LEMMA OthersOnePlace ==
  ASSUME QueueTypeOK, OnePlace,
         TakeAll \/ (\E s \in Slots : ClientGone(s)) \/ UNCHANGED serviceVars
  PROVE  OnePlace'
<1>1. CASE TakeAll
  <2>1. staging' = <<>> /\ acceptBuf' = <<>> /\ taken' = taken \cup Waiting /\ arrived' = arrived
    BY <1>1 DEF TakeAll, Close
  <2>2. Line' = <<>>
    BY <2>1 DEF Line
  <2>3. IsInjective(Line') /\ Waiting' = {}
    BY <2>1, <2>2 DEF IsInjective, Waiting, Staged, Buffered, ToSet
  <2> QED
    BY <2>1, <2>3 DEF OnePlace, Arrived
<1>2. CASE (\E s \in Slots : ClientGone(s)) \/ UNCHANGED serviceVars
  <2>1. UNCHANGED <<staging, acceptBuf, arrived, taken>>
    BY <1>2 DEF ClientGone, Disconnect, historyVars, serviceVars, queueVars
  <2> QED
    BY <2>1 DEF OnePlace, Line, Waiting, Staged, Buffered, Arrived
<1> QED
  BY <1>1, <1>2

LEMMA InitOnePlace == ServiceInit => OnePlace
<1> SUFFICES ASSUME ServiceInit PROVE OnePlace
  OBVIOUS
<1>1. staging = <<>> /\ acceptBuf = <<>> /\ arrived = <<>> /\ taken = {}
  BY DEF ServiceInit, QueueInit
<1>2. Line = <<>>
  BY <1>1 DEF Line
<1>3. IsInjective(Line) /\ Waiting = {} /\ Arrived = {}
  BY <1>1, <1>2 DEF IsInjective, Waiting, Staged, Buffered, Arrived, ToSet
<1> QED
  BY <1>1, <1>3 DEF OnePlace

\* No slot is ever lost, duplicated or handed out twice by the queue, for any
\* number of requests and any size of the tiers.
THEOREM EverySlotInOnePlace == ServiceSpec => []OnePlace
<1>1. QueueTypeOK /\ OnePlace /\ [ServiceNext]_serviceVars => OnePlace'
  BY ArriveOnePlace, TakeOnePlace, OthersOnePlace DEF ServiceNext
<1> QED
  BY <1>1, InitOnePlace, TypeCorrect, PTL DEF ServiceSpec

\* A closed queue is empty and stays so: what shutdown was handed by close is
\* all there was, and no later submit hides behind it.
THEOREM ClosedStaysEmpty == ServiceSpec => []ClosedIsEmpty
<1>1. ServiceInit => ClosedIsEmpty
  BY DEF ServiceInit, QueueInit, ClosedIsEmpty
<1>2. QueueTypeOK /\ ClosedIsEmpty /\ [ServiceNext]_serviceVars => ClosedIsEmpty'
  <2> SUFFICES ASSUME QueueTypeOK, ClosedIsEmpty, [ServiceNext]_serviceVars, closed'
               PROVE  Line' = <<>>
    BY DEF ClosedIsEmpty
  <2>1. CASE \E s \in Slots : Arrive(s)
    BY <2>1 DEF Arrive, Enqueue, EnqueueHead
  <2>2. CASE \E s \in Slots : TakeNext(s) \/ TakeOther(s)
    <3>1. PICK s \in Slots : TakeNext(s) \/ TakeOther(s)
      BY <2>2
    <3>2. PICK k : Inserts(Line', Line, k, s)
      BY <3>1, TakeNextDeletes, TakeOtherDeletes
    <3>3. Line = <<>>
      <4>1. closed' = closed
        BY <3>1 DEF TakeNext, PopNext, TakeOther, PopMatched, RemoveSlot
      <4> QED
        BY <4>1 DEF ClosedIsEmpty
    <3>4. Len(Line) = 0 /\ Len(Line') \in Nat
      <4>1. QueueTypeOK'
        BY <3>1, StepTypeOK DEF ServiceNext
      <4>2. Line' \in Seq(Slots)
        BY <4>1, LineTypedThen
      <4> QED
        BY <3>3, <4>2
    <3> QED
      BY <3>2, <3>4 DEF Inserts
  <2>3. CASE TakeAll
    BY <2>3 DEF TakeAll, Close, Line
  <2>4. CASE (\E s \in Slots : ClientGone(s)) \/ UNCHANGED serviceVars
    BY <2>4 DEF ClientGone, Disconnect, historyVars, serviceVars, queueVars, ClosedIsEmpty, Line
  <2> QED
    BY <2>1, <2>2, <2>3, <2>4 DEF ServiceNext
<1> QED
  BY <1>1, <1>2, TypeCorrect, PTL DEF ServiceSpec

------------------------------------------------------------------------------
LEMMA AheadIsBefore ==
  ASSUME Line \in Seq(Slots), Line' \in Seq(Slots), NEW s, NEW t
  PROVE  /\ Ahead(s, t) <=> Before(Line, s, t)
         /\ Ahead(s, t)' <=> Before(Line', s, t)
<1>1. DOMAIN Line = 1 .. Len(Line) /\ DOMAIN Line' = 1 .. Len(Line')
  OBVIOUS
<1> QED
  BY <1>1 DEF Ahead, Before

\* Two requests that wait on keep their order through every operation: the
\* transfers between the tiers included, only newcomers and leavers count.
THEOREM OrderIsKept == ServiceSpec => OrderKept
<1>1. QueueTypeOK /\ OnePlace /\ OnePlace' /\ QueueTypeOK' /\ [ServiceNext]_serviceVars
        => [KeepsOrder]_serviceVars
  <2> SUFFICES ASSUME QueueTypeOK, OnePlace, OnePlace', QueueTypeOK', ServiceNext
               PROVE  KeepsOrder
    OBVIOUS
  <2>1. /\ Line \in Seq(Slots) /\ Line' \in Seq(Slots)
    BY LineTypedHere, LineTypedThen
  <2>2. ASSUME NEW e \in Slots, Arrive(e)
        PROVE  KeepsOrder
    <3>1. PICK k : Inserts(Line, Line', k, e)
      BY <2>2, ArriveInserts
    <3>2. e \notin Waiting
      BY <2>2 DEF Arrive, OnePlace
    <3> QED
      BY <2>1, <3>1, <3>2, InsertsKeepOrder, AheadIsBefore DEF KeepsOrder
  <2>3. ASSUME NEW e \in Slots, TakeNext(e) \/ TakeOther(e)
        PROVE  KeepsOrder
    <3>1. PICK k : Inserts(Line', Line, k, e)
      BY <2>3, TakeNextDeletes, TakeOtherDeletes
    <3>2. e \notin Waiting'
      BY <2>3 DEF TakeNext, TakeOther, OnePlace
    <3> QED
      BY <2>1, <3>1, <3>2, InsertsKeepOrder, AheadIsBefore DEF KeepsOrder
  <2>4. CASE TakeAll
    <3>1. Waiting' = {}
      BY <2>4 DEF TakeAll, Close, Waiting, Staged, Buffered, ToSet
    <3> QED
      BY <3>1 DEF KeepsOrder
  <2>5. CASE \E s \in Slots : ClientGone(s)
    <3>1. Line' = Line
      BY <2>5 DEF ClientGone, Disconnect, Line
    <3> QED
      BY <2>1, <3>1, AheadIsBefore DEF KeepsOrder
  <2> QED
    BY <2>2, <2>3, <2>4, <2>5 DEF ServiceNext
<1> QED
  BY <1>1, TypeCorrect, EverySlotInOnePlace, PTL DEF ServiceSpec, OrderKept
------------------------------------------------------------------------------
\* slot.state, as the queue last wrote it, names the tier that holds the slot,
\* through every refill and drain: OnePlace is what keeps the relabelling of a
\* promoted slot from touching one that stays.
THEOREM TierIsHonest == ServiceSpec => []TierHonest
<1>1. ServiceInit => TierHonest
  BY DEF ServiceInit, QueueInit, TierHonest, Staged, Buffered, ToSet
<1>2. QueueTypeOK /\ OnePlace /\ TierHonest /\ [ServiceNext]_serviceVars => TierHonest'
  <2> SUFFICES ASSUME QueueTypeOK, OnePlace, TierHonest, [ServiceNext]_serviceVars
               PROVE  TierHonest'
    OBVIOUS
  <2> TiersTypeOK /\ IsInjective(Line)
    BY DEF QueueTypeOK, TiersTypeOK, OnePlace
  <2>1. ASSUME NEW s \in Slots, Arrive(s) PROVE TierHonest'
    BY <2>1, EnqueueTierHonest DEF Arrive, OnePlace
  <2>2. ASSUME NEW s \in Slots, TakeNext(s) PROVE TierHonest'
    BY <2>2, PopHeadTierHonest, PopDrainedTierHonest DEF TakeNext, PopNext
  <2>3. ASSUME NEW s \in Slots, TakeOther(s) PROVE TierHonest'
    BY <2>3, RemovalTierHonest DEF TakeOther
  <2>4. CASE TakeAll
    BY <2>4 DEF TakeAll, Close, TierHonest, Staged, Buffered, ToSet
  <2>5. CASE (\E s \in Slots : ClientGone(s)) \/ UNCHANGED serviceVars
    BY <2>5 DEF ClientGone, Disconnect, historyVars, serviceVars, queueVars,
                TierHonest, Staged, Buffered
  <2> QED
    BY <2>1, <2>2, <2>3, <2>4, <2>5 DEF ServiceNext
<1> QED
  BY <1>1, <1>2, TypeCorrect, EverySlotInOnePlace, PTL DEF ServiceSpec
------------------------------------------------------------------------------
\* The capacities.
\* A staging queue that got shorter, or that is short enough, is in bounds.
LEMMA FewerStaged ==
  ASSUME NEW old, NEW new, IsFiniteSet(old), new \subseteq old, Cardinality(old) <= StagingMax
  PROVE  Cardinality(new) <= StagingMax
<1>1. Cardinality(new) <= Cardinality(old) /\ IsFiniteSet(new)
  BY FS_Subset
<1>2. Cardinality(new) \in Nat /\ Cardinality(old) \in Nat /\ StagingMax \in Nat
  BY <1>1, FS_CardinalityType, QueueAssumption
<1> QED
  BY <1>1, <1>2

LEMMA ShortStaging ==
  ASSUME NEW seq \in Seq(Slots), Len(seq) <= StagingMax, NEW J
  PROVE  Cardinality(ToSet(seq) \ J) <= StagingMax
<1>1. IsFiniteSet(ToSet(seq)) /\ Cardinality(ToSet(seq)) <= StagingMax
  <2>1. StagingMax \in Nat /\ Len(seq) \in Nat
    BY QueueAssumption, LenProperties
  <2> QED
    BY <2>1, SetOfSequence
<1> QED
  BY <1>1, FewerStaged

\* What is to be shown of each step: staging in bounds, or no newcomer in it.
StagingStep ==
  \/ staging' \in Seq(Slots) /\ Len(staging') <= StagingMax
  \/ Staged' \ jumped' \subseteq Staged \ jumped

LEMMA StagingStepKeeps ==
  ASSUME QueueTypeOK, Capacity, StagingStep
  PROVE  Cardinality(Staged' \ jumped') <= StagingMax
<1>1. CASE staging' \in Seq(Slots) /\ Len(staging') <= StagingMax
  <2>1. ASSUME NEW seq \in Seq(Slots), Len(seq) <= StagingMax, NEW J
        PROVE  Cardinality(ToSet(seq) \ J) <= StagingMax
    BY <2>1, ShortStaging
  <2> QED
    BY <1>1, <2>1 DEF Staged
<1>2. CASE Staged' \ jumped' \subseteq Staged \ jumped
  <2>1. IsFiniteSet(Staged)
    BY SetOfSequence DEF QueueTypeOK, TiersTypeOK, Staged
  <2>2. IsFiniteSet(Staged \ jumped)
    BY <2>1, FS_Difference
  <2> QED
    BY <1>2, <2>2, FewerStaged DEF Capacity
<1> QED
  BY <1>1, <1>2 DEF StagingStep

LEMMA ArriveCapacity ==
  ASSUME QueueTypeOK, Capacity, NEW s \in Slots, Arrive(s)
  PROVE  StagingStep /\ Len(acceptBuf') <= AcceptanceMax
<1>1. /\ staging \in Seq(Slots) /\ acceptBuf \in Seq(Slots)
      /\ Len(staging) \in Nat /\ Len(acceptBuf) \in Nat
      /\ StagingMax \in Nat /\ AcceptanceMax \in Nat
  BY LenProperties, QueueAssumption DEF QueueTypeOK, TiersTypeOK
<1>2. /\ Append(staging, s) \in Seq(Slots)
      /\ Len(Append(staging, s)) = Len(staging) + 1
      /\ Len(Append(acceptBuf, s)) = Len(acceptBuf) + 1
  BY <1>1
<1>3. CASE Enqueue(s) /\ UNCHANGED jumped
  <2>1. CASE Len(staging) < StagingMax /\ staging' = Append(staging, s) /\ UNCHANGED acceptBuf
    BY <1>1, <1>2, <2>1 DEF StagingStep, Capacity
  <2>2. CASE /\ Len(acceptBuf) < AcceptanceMax
             /\ acceptBuf' = Append(acceptBuf, s) /\ UNCHANGED staging
    BY <1>1, <1>2, <1>3, <2>2 DEF StagingStep, Staged
  <2> QED
    BY <1>3, <2>1, <2>2 DEF Enqueue
<1>4. CASE EnqueueHead(s) /\ jumped' = jumped \cup {s}
  <2>1. Staged' = Staged \cup {s}
    BY <1>1, <1>4, PrependSet DEF EnqueueHead, Staged
  <2> QED
    BY <1>4, <2>1 DEF EnqueueHead, StagingStep, Capacity
<1> QED
  BY <1>3, <1>4 DEF Arrive

LEMMA TakeNextCapacity ==
  ASSUME QueueTypeOK, QueueTypeOK', Capacity, NEW s \in Slots, TakeNext(s)
  PROVE  StagingStep /\ Len(acceptBuf') <= AcceptanceMax
<1>1. /\ staging \in Seq(Slots) /\ acceptBuf \in Seq(Slots)
      /\ staging' \in Seq(Slots) /\ acceptBuf' \in Seq(Slots)
      /\ Len(staging) \in Nat /\ Len(acceptBuf) \in Nat
      /\ StagingMax \in Nat \ {0} /\ AcceptanceMax \in Nat
      /\ Len(acceptBuf) <= AcceptanceMax /\ jumped' = jumped
  BY LenProperties, QueueAssumption DEF QueueTypeOK, TiersTypeOK, Capacity, TakeNext
<1>2. \A seq \in Seq(Slots) : seq # <<>> => Tail(seq) \in Seq(Slots) /\ Len(Tail(seq)) = Len(seq) - 1
  BY HeadTailProperties
<1>3. CASE PopHead(s)
  <2>1. staging # <<>>
    BY <1>3 DEF PopHead
  <2>2. CASE acceptBuf # <<>> /\ Len(staging) - 1 < StagingMax
    <3>1. staging' = Append(Tail(staging), Head(acceptBuf)) /\ acceptBuf' = Tail(acceptBuf)
      BY <1>3, <2>2 DEF PopHead
    <3>2. Head(acceptBuf) \in Slots
      BY <1>1, <2>2, HeadTailProperties
    <3>3. Len(staging') = Len(staging) /\ Len(acceptBuf') = Len(acceptBuf) - 1
      BY <1>1, <1>2, <2>1, <2>2, <3>1, <3>2
    <3> QED
      BY <1>1, <2>2, <3>3 DEF StagingStep
  <2>3. CASE ~(acceptBuf # <<>> /\ Len(staging) - 1 < StagingMax)
    <3>1. staging' = Tail(staging) /\ acceptBuf' = acceptBuf
      BY <1>3, <2>3 DEF PopHead
    <3>2. Staged' \subseteq Staged
      BY <1>1, <2>1, <3>1, TailSet DEF Staged
    <3> QED
      BY <1>1, <3>1, <3>2 DEF StagingStep
  <2> QED
    BY <2>2, <2>3
<1>4. CASE PopDrained(s)
  <2>1. /\ acceptBuf # <<>> /\ staging' = Tail(Drained) /\ acceptBuf' = Undrained
    BY <1>4, PopDrainedParts
  <2>2. /\ DrainRoom \in 1 .. Len(acceptBuf) /\ Drained \in Seq(Slots)
        /\ Len(Drained) = DrainRoom /\ Len(Undrained) = Len(acceptBuf) - DrainRoom
    BY <2>1, DrainedParts DEF QueueTypeOK
  <2>3. DrainRoom <= StagingMax
    BY <1>1 DEF DrainRoom
  <2>4. Len(staging') = DrainRoom - 1
    BY <1>1, <1>2, <2>1, <2>2
  <2> QED
    BY <1>1, <2>1, <2>2, <2>3, <2>4 DEF StagingStep
<1> QED
  BY <1>3, <1>4 DEF TakeNext, PopNext

LEMMA TakeOtherCapacity ==
  ASSUME QueueTypeOK, Capacity, NEW s \in Slots, TakeOther(s)
  PROVE  StagingStep /\ Len(acceptBuf') <= AcceptanceMax
<1>1. Staged' \subseteq Staged /\ jumped' = jumped
  BY RemoveAtSet DEF TakeOther, PopMatched, RemoveSlot, QueueTypeOK, TiersTypeOK, Staged
<1>2. acceptBuf' = acceptBuf \/ \E i \in 1 .. Len(acceptBuf) : acceptBuf' = RemoveAt(acceptBuf, i)
  BY DEF TakeOther, PopMatched, RemoveSlot
<1>3. ASSUME NEW i \in 1 .. Len(acceptBuf), acceptBuf' = RemoveAt(acceptBuf, i)
      PROVE  Len(acceptBuf') <= AcceptanceMax
  <2>1. Len(acceptBuf) = Len(acceptBuf') + 1 /\ acceptBuf' \in Seq(Slots)
    BY <1>3, RemoveAtDeletes DEF QueueTypeOK, TiersTypeOK, Inserts
  <2>2. Len(acceptBuf) <= AcceptanceMax /\ AcceptanceMax \in Nat /\ Len(acceptBuf') \in Nat
    BY <2>1, QueueAssumption, LenProperties DEF Capacity
  <2> QED
    BY <2>1, <2>2
<1> QED
  BY <1>1, <1>2, <1>3 DEF StagingStep, Capacity

\* Head insertions aside, neither tier ever holds more than its capacity: the
\* refill of pop_next does not fill an overfilled staging queue further, and
\* the drain moves no more than staging may hold.
THEOREM CapacityIsKept == ServiceSpec => []Capacity
<1>1. ServiceInit => Capacity
  <2> SUFFICES ASSUME ServiceInit PROVE Capacity
    OBVIOUS
  <2>1. staging = <<>> /\ acceptBuf = <<>>
    BY DEF ServiceInit, QueueInit
  <2>2. Staged \ jumped = {} /\ Len(acceptBuf) = 0
    BY <2>1 DEF Staged, ToSet
  <2>3. Cardinality(Staged \ jumped) = 0
    BY <2>2, FS_EmptySet
  <2> QED
    BY <2>2, <2>3, QueueAssumption DEF Capacity
<1>2. QueueTypeOK /\ QueueTypeOK' /\ Capacity /\ [ServiceNext]_serviceVars => Capacity'
  <2> SUFFICES ASSUME QueueTypeOK, QueueTypeOK', Capacity, [ServiceNext]_serviceVars
               PROVE  StagingStep /\ Len(acceptBuf') <= AcceptanceMax
    BY StagingStepKeeps DEF Capacity
  <2>1. CASE TakeAll
    <3>1. staging' = <<>> /\ acceptBuf' = <<>>
      BY <2>1 DEF TakeAll, Close
    <3> QED
      BY <3>1, QueueAssumption DEF StagingStep, Staged, ToSet
  <2>2. CASE (\E s \in Slots : ClientGone(s)) \/ UNCHANGED serviceVars
    BY <2>2 DEF ClientGone, Disconnect, historyVars, serviceVars, queueVars,
                StagingStep, Staged, Capacity
  <2> QED
    BY <2>1, <2>2, ArriveCapacity, TakeNextCapacity, TakeOtherCapacity DEF ServiceNext
<1> QED
  BY <1>1, <1>2, TypeCorrect, PTL DEF ServiceSpec
------------------------------------------------------------------------------
\* First come, first served.  As long as nobody took a slot from the middle,
\* the buffer is in use only behind a full staging queue: so enqueue always
\* puts a newcomer at the end of the line, and the drain is never needed.
BufferBehindFull == ~skipped /\ acceptBuf # <<>> => Len(staging) >= StagingMax

LEMMA BufferBehindFullKept ==
  ASSUME QueueTypeOK, BufferBehindFull, [ServiceNext]_serviceVars
  PROVE  BufferBehindFull'
<1>1. /\ staging \in Seq(Slots) /\ acceptBuf \in Seq(Slots)
      /\ Len(staging) \in Nat /\ Len(acceptBuf) \in Nat /\ StagingMax \in Nat \ {0}
  BY LenProperties, QueueAssumption DEF QueueTypeOK, TiersTypeOK
<1>2. ASSUME NEW s \in Slots, Arrive(s)
      PROVE  BufferBehindFull'
  <2>1. Len(Append(staging, s)) = Len(staging) + 1 /\ Len(<<s>> \o staging) = Len(staging) + 1
    BY <1>1
  <2>2. CASE acceptBuf' = acceptBuf /\ Len(staging') = Len(staging) + 1
    BY <1>1, <1>2, <2>2 DEF BufferBehindFull, Arrive
  <2>3. CASE staging' = staging /\ Len(staging) >= StagingMax
    BY <2>3 DEF BufferBehindFull
  <2> QED
    BY <1>2, <2>1, <2>2, <2>3 DEF Arrive, Enqueue, EnqueueHead
<1>3. ASSUME NEW s \in Slots, TakeNext(s), ~skipped
      PROVE  BufferBehindFull'
  <2>1. CASE PopHead(s)
    <3>1. staging # <<>>
      BY <2>1 DEF PopHead
    <3>2. Tail(staging) \in Seq(Slots) /\ Len(Tail(staging)) = Len(staging) - 1
      BY <1>1, <3>1, HeadTailProperties
    <3>3. CASE acceptBuf # <<>> /\ Len(staging) - 1 < StagingMax
      <4>1. Len(staging') = Len(staging)
        <5>1. staging' = Append(Tail(staging), Head(acceptBuf)) /\ Head(acceptBuf) \in Slots
          BY <1>1, <2>1, <3>3, HeadTailProperties DEF PopHead
        <5> QED
          BY <1>1, <3>2, <5>1
      <4> QED
        BY <1>3, <3>3, <4>1 DEF BufferBehindFull
    <3>4. CASE ~(acceptBuf # <<>> /\ Len(staging) - 1 < StagingMax)
      <4>1. staging' = Tail(staging) /\ acceptBuf' = acceptBuf
        BY <2>1, <3>4 DEF PopHead
      <4> QED
        BY <1>1, <3>2, <3>4, <4>1 DEF BufferBehindFull
    <3> QED
      BY <3>3, <3>4
  <2>2. CASE PopDrained(s)
    <3>1. staging = <<>> /\ acceptBuf # <<>>
      BY <2>2 DEF PopDrained
    <3> QED
      BY <1>1, <1>3, <3>1 DEF BufferBehindFull
  <2> QED
    BY <1>3, <2>1, <2>2 DEF TakeNext, PopNext
<1>4. ASSUME NEW s \in Slots, (TakeNext(s) /\ skipped) \/ TakeOther(s)
      PROVE  BufferBehindFull'
  BY <1>4 DEF TakeNext, TakeOther, BufferBehindFull
<1>5. CASE TakeAll
  BY <1>5 DEF TakeAll, Close, BufferBehindFull
<1>6. CASE (\E s \in Slots : ClientGone(s)) \/ UNCHANGED serviceVars
  BY <1>6 DEF ClientGone, Disconnect, historyVars, serviceVars, queueVars, BufferBehindFull
<1> QED
  BY <1>2, <1>3, <1>4, <1>5, <1>6 DEF ServiceNext

LEMMA EarlierIsBefore ==
  ASSUME arrived \in Seq(Slots), arrived' \in Seq(Slots), NEW s, NEW t
  PROVE  /\ Earlier(s, t) <=> Before(arrived, s, t)
         /\ Earlier(s, t)' <=> Before(arrived', s, t)
<1>1. DOMAIN arrived = 1 .. Len(arrived) /\ DOMAIN arrived' = 1 .. Len(arrived')
  OBVIOUS
<1> QED
  BY <1>1 DEF Earlier, Before

\* enqueue puts a newcomer at the end of the line.
LEMMA EnqueueAtEnd ==
  ASSUME QueueTypeOK, BufferBehindFull, ~skipped, NEW e \in Slots, Enqueue(e)
  PROVE  Inserts(Line, Line', Len(Line) + 1, e)
<1>1. /\ staging \in Seq(Slots) /\ acceptBuf \in Seq(Slots)
      /\ Len(staging) \in Nat /\ Len(acceptBuf) \in Nat /\ StagingMax \in Nat
      /\ Len(Line) = Len(staging) + Len(acceptBuf)
  BY LineParts, QueueAssumption DEF QueueTypeOK, TiersTypeOK
<1>2. CASE Len(staging) < StagingMax /\ staging' = Append(staging, e) /\ acceptBuf' = acceptBuf
  <2>1. acceptBuf = <<>>
    BY <1>1, <1>2 DEF BufferBehindFull
  <2>2. Append(staging, e) \in Seq(Slots) /\ Inserts(staging, Append(staging, e), Len(staging) + 1, e)
    BY <1>1, AppendInserts
  <2>3. Inserts(staging \o acceptBuf, Append(staging, e) \o acceptBuf, Len(staging) + 1, e)
    BY <1>1, <2>2, InsertsLeft
  <2>4. Len(Line) + 1 = Len(staging) + 1
    BY <1>1, <2>1
  <2> QED
    BY <1>2, <2>3, <2>4 DEF Line
<1>3. CASE staging' = staging /\ acceptBuf' = Append(acceptBuf, e)
  <2>1. /\ Append(acceptBuf, e) \in Seq(Slots)
        /\ Inserts(acceptBuf, Append(acceptBuf, e), Len(acceptBuf) + 1, e)
    BY <1>1, AppendInserts
  <2>2. Inserts(staging \o acceptBuf, staging \o Append(acceptBuf, e),
                Len(staging) + (Len(acceptBuf) + 1), e)
    BY <1>1, <2>1, InsertsRight
  <2>3. Len(staging) + (Len(acceptBuf) + 1) = Len(Line) + 1
    BY <1>1
  <2> QED
    BY <1>3, <2>2, <2>3 DEF Line
<1> QED
  BY <1>2, <1>3 DEF Enqueue

LEMMA ArriveFifo ==
  ASSUME QueueTypeOK, QueueTypeOK', OnePlace, OnePlace', BufferBehindFull, FifoUnlessSkipped,
         NEW e \in Slots, Arrive(e)
  PROVE  FifoUnlessSkipped'
<1> SUFFICES ASSUME ~skipped', NEW s \in Waiting' \ jumped', NEW t \in Waiting' \ jumped',
                    Earlier(s, t)'
             PROVE  Ahead(s, t)'
  BY DEF FifoUnlessSkipped
<1>1. /\ Line \in Seq(Slots) /\ ToSet(Line) = Waiting
      /\ Line' \in Seq(Slots) /\ ToSet(Line') = Waiting'
  BY LineTypedHere, LineTypedThen
<1>2. /\ arrived \in Seq(Slots) /\ arrived' \in Seq(Slots)
      /\ Inserts(arrived, arrived', Len(arrived) + 1, e)
      /\ e \notin ToSet(arrived) /\ ~skipped /\ e \notin Waiting
  <2>1. arrived \in Seq(Slots) /\ arrived' = Append(arrived, e)
    BY DEF QueueTypeOK, TiersTypeOK, Arrive
  <2>2. e \notin Arrived /\ skipped' = skipped
    BY DEF Arrive
  <2> QED
    BY <2>1, <2>2, AppendInserts DEF Arrived, OnePlace
<1>3. Before(arrived', s, t)
  BY <1>2, EarlierIsBefore
<1>4. PICK k : Inserts(Line, Line', k, e)
  BY ArriveInserts
<1>5. Waiting' = Waiting \cup {e}
  BY <1>1, <1>4, InsertsSets
<1>6. s # e
  BY <1>2, <1>3, LastComesLast
<1>7. CASE t = e
  <2>1. Enqueue(e)
    BY <1>7 DEF Arrive
  <2>2. Inserts(Line, Line', Len(Line) + 1, e)
    BY <1>2, <2>1, EnqueueAtEnd
  <2>3. s \in ToSet(Line) /\ e \notin ToSet(Line)
    BY <1>1, <1>2, <1>5, <1>6
  <2>4. Before(Line', s, e)
    BY <1>1, <2>2, <2>3, LastComesLast
  <2> QED
    BY <1>1, <1>7, <2>4, AheadIsBefore
<1>8. CASE t # e
  <2>1. Before(arrived, s, t)
    BY <1>2, <1>3, <1>6, <1>8, InsertsKeepOrder
  <2>2. s \in Waiting \ jumped /\ t \in Waiting \ jumped
    BY <1>5, <1>6, <1>8 DEF Arrive
  <2>3. Ahead(s, t)
    BY <1>2, <2>1, <2>2, EarlierIsBefore DEF FifoUnlessSkipped
  <2>4. Before(Line', s, t)
    BY <1>1, <1>4, <1>6, <1>8, <2>3, AheadIsBefore, InsertsKeepOrder
  <2> QED
    BY <1>1, <2>4, AheadIsBefore
<1> QED
  BY <1>7, <1>8

LEMMA TakeNextFifo ==
  ASSUME QueueTypeOK, QueueTypeOK', OnePlace, OnePlace', FifoUnlessSkipped,
         NEW e \in Slots, TakeNext(e)
  PROVE  FifoUnlessSkipped'
<1> SUFFICES ASSUME ~skipped', NEW s \in Waiting' \ jumped', NEW t \in Waiting' \ jumped',
                    Earlier(s, t)'
             PROVE  Ahead(s, t)'
  BY DEF FifoUnlessSkipped
<1>1. /\ Line \in Seq(Slots) /\ ToSet(Line) = Waiting
      /\ Line' \in Seq(Slots) /\ ToSet(Line') = Waiting'
  BY LineTypedHere, LineTypedThen
<1>2. Inserts(Line', Line, 1, e)
  BY TakeNextDeletes
<1>3. Waiting = Waiting' \cup {e}
  BY <1>1, <1>2, InsertsSets
<1>4. e \notin Waiting' /\ skipped' = skipped /\ jumped' = jumped /\ Earlier(s, t)
  BY DEF TakeNext, OnePlace, Earlier
<1>5. Ahead(s, t)
  BY <1>3, <1>4 DEF FifoUnlessSkipped
<1>6. Before(Line', s, t)
  BY <1>1, <1>2, <1>4, <1>5, AheadIsBefore, InsertsKeepOrder
<1> QED
  BY <1>1, <1>6, AheadIsBefore

\* The promise "Staging queue: FIFO" for all that enqueue let in, across the
\* overflow into the buffer and back, until a slot is taken by key or by id.
THEOREM FirstComeFirstServed == ServiceSpec => []FifoUnlessSkipped
<1>1. ServiceInit => BufferBehindFull /\ FifoUnlessSkipped
  BY DEF ServiceInit, QueueInit, BufferBehindFull, FifoUnlessSkipped, Waiting, Staged, Buffered, ToSet
<1>2. /\ QueueTypeOK /\ QueueTypeOK' /\ OnePlace /\ OnePlace'
      /\ BufferBehindFull /\ FifoUnlessSkipped /\ [ServiceNext]_serviceVars
      => BufferBehindFull' /\ FifoUnlessSkipped'
  <2> SUFFICES ASSUME QueueTypeOK, QueueTypeOK', OnePlace, OnePlace',
                      BufferBehindFull, FifoUnlessSkipped, [ServiceNext]_serviceVars
               PROVE  BufferBehindFull' /\ FifoUnlessSkipped'
    OBVIOUS
  <2>1. BufferBehindFull'
    BY BufferBehindFullKept
  <2>2. ASSUME NEW s \in Slots, TakeOther(s) PROVE FifoUnlessSkipped'
    BY <2>2 DEF TakeOther, FifoUnlessSkipped
  <2>3. ASSUME TakeAll PROVE FifoUnlessSkipped'
    <3>1. Waiting' = {}
      BY <2>3 DEF TakeAll, Close, Waiting, Staged, Buffered, ToSet
    <3> QED
      BY <3>1 DEF FifoUnlessSkipped
  <2>4. ASSUME (\E s \in Slots : ClientGone(s)) \/ UNCHANGED serviceVars
        PROVE  FifoUnlessSkipped'
    <3>1. UNCHANGED <<staging, acceptBuf, arrived, jumped, skipped>>
      BY <2>4 DEF ClientGone, Disconnect, historyVars, serviceVars, queueVars
    <3>2. /\ UNCHANGED <<Waiting, jumped, skipped>>
          /\ \A x, y : (Earlier(x, y)' <=> Earlier(x, y)) /\ (Ahead(x, y)' <=> Ahead(x, y))
      BY <3>1 DEF Earlier, Ahead, Line, Waiting, Staged, Buffered
    <3> QED
      BY <3>2 DEF FifoUnlessSkipped
  <2> QED
    BY <2>1, <2>2, <2>3, <2>4, ArriveFifo, TakeNextFifo DEF ServiceNext
<1> QED
  BY <1>1, <1>2, TypeCorrect, EverySlotInOnePlace, PTL DEF ServiceSpec
==============================================================================
