----------------------------- MODULE QueueLemmas -----------------------------
(***************************************************************************)
(* What the operations of TurbohaulQueue do, for every number of requests  *)
(* and every size of the tiers.                                            *)
(*                                                                         *)
(* Both tiers together are one line, staging before the buffer.  Every     *)
(* operation inserts one slot into the line, deletes one, or empties it;   *)
(* the refills of pop_next do not show in it at all.                       *)
(***************************************************************************)
EXTENDS TurbohaulQueue, SequenceTheorems, FiniteSetTheorems, TLAPS

\* long is the sequence short with e put in at position k; short is long
\* without its position k.
Inserts(short, long, k, e) ==
  /\ k \in 1 .. Len(short) + 1
  /\ Len(long) = Len(short) + 1
  /\ \A j \in 1 .. Len(long) :
       long[j] = IF j < k THEN short[j] ELSE IF j = k THEN e ELSE short[j - 1]

\* RemoveAt, by which pop_matched_thread and remove take a slot, undoes an
\* insertion of that slot.
LEMMA RemoveAtDeletes ==
  ASSUME NEW S, NEW seq \in Seq(S), NEW i \in 1 .. Len(seq)
  PROVE  /\ RemoveAt(seq, i) \in Seq(S)
         /\ Inserts(RemoveAt(seq, i), seq, i, seq[i])
<1> DEFINE front == SubSeq(seq, 1, i - 1)
           back  == SubSeq(seq, i + 1, Len(seq))
<1>1. \A j \in 1 .. Len(seq) : seq[j] \in S
  BY ElementOfSeq
<1>2. /\ front \in Seq(S)
      /\ Len(front) = i - 1
      /\ \A j \in 1 .. i - 1 : front[j] = seq[j]
  BY <1>1, SubSeqProperties, SMT
<1>3. /\ back \in Seq(S)
      /\ Len(back) = Len(seq) - i
      /\ \A j \in 1 .. Len(seq) - i : back[j] = seq[i + j]
  <2>1. i + 1 \in Int /\ Len(seq) \in Int /\ \A j \in i + 1 .. Len(seq) : seq[j] \in S
    BY <1>1
  <2>2. /\ back \in Seq(S)
        /\ Len(back) = IF i + 1 <= Len(seq) THEN Len(seq) - (i + 1) + 1 ELSE 0
        /\ \A j \in 1 .. Len(seq) - (i + 1) + 1 : back[j] = seq[(i + 1) + j - 1]
    BY <2>1, SubSeqProperties
  <2> QED
    BY <2>2
<1>4. RemoveAt(seq, i) = front \o back
  BY DEF RemoveAt
<1> HIDE DEF front, back
<1>5. /\ front \o back \in Seq(S)
      /\ Len(front \o back) = Len(seq) - 1
      /\ \A j \in 1 .. Len(seq) - 1 :
           (front \o back)[j] = IF j <= i - 1 THEN front[j] ELSE back[j - (i - 1)]
  <2>1. /\ front \o back \in Seq(S)
        /\ Len(front \o back) = Len(front) + Len(back)
        /\ \A j \in 1 .. Len(front) + Len(back) :
             (front \o back)[j] = IF j <= Len(front) THEN front[j] ELSE back[j - Len(front)]
    BY <1>2, <1>3, ConcatProperties
  <2>2. Len(front) + Len(back) = Len(seq) - 1
    BY <1>2, <1>3
  <2> QED
    BY <2>1, <2>2, <1>2
<1> DEFINE rest == front \o back
<1>6. /\ rest \in Seq(S) /\ Len(rest) = Len(seq) - 1
      /\ \A j \in 1 .. Len(seq) - 1 : rest[j] = IF j <= i - 1 THEN front[j] ELSE back[j - (i - 1)]
  BY <1>5
<1> HIDE DEF rest
<1>7. \A j \in 1 .. Len(seq) - 1 : rest[j] = IF j < i THEN seq[j] ELSE seq[j + 1]
  <2> TAKE j \in 1 .. Len(seq) - 1
  <2>1. CASE j < i
    <3>1. j \in 1 .. i - 1 /\ j <= i - 1
      BY <2>1
    <3>2. rest[j] = front[j]
      BY <1>6, <3>1
    <3> QED
      BY <1>2, <2>1, <3>1, <3>2
  <2>2. CASE j >= i
    <3>1. /\ j - (i - 1) \in 1 .. Len(seq) - i /\ i + (j - (i - 1)) = j + 1
          /\ ~(j <= i - 1) /\ ~(j < i)
      BY <2>2
    <3>2. rest[j] = back[j - (i - 1)]
      BY <1>6, <3>1
    <3>3. back[j - (i - 1)] = seq[i + (j - (i - 1))]
      BY <1>3, <3>1
    <3> QED
      BY <3>1, <3>2, <3>3
  <2> QED
    BY <2>1, <2>2
<1>8. \A j \in 1 .. Len(seq) :
        seq[j] = IF j < i THEN rest[j] ELSE IF j = i THEN seq[i] ELSE rest[j - 1]
  <2> TAKE j \in 1 .. Len(seq)
  <2>1. CASE j < i
    BY <1>7, <2>1
  <2>2. CASE j > i
    <3>1. j - 1 \in 1 .. Len(seq) - 1 /\ ~(j - 1 < i) /\ (j - 1) + 1 = j
      BY <2>2
    <3>2. rest[j - 1] = seq[(j - 1) + 1]
      BY <1>7, <3>1
    <3> QED
      BY <2>2, <3>1, <3>2
  <2> QED
    BY <2>1, <2>2
<1>9. i \in 1 .. Len(rest) + 1 /\ Len(seq) = Len(rest) + 1
  BY <1>6
<1>10. RemoveAt(seq, i) = rest
  BY <1>4 DEF rest
<1> QED
  BY <1>6, <1>8, <1>9, <1>10 DEF Inserts

\* What append, appendleft and popleft do to a deque.
LEMMA AppendInserts ==
  ASSUME NEW S, NEW seq \in Seq(S), NEW e \in S
  PROVE  Append(seq, e) \in Seq(S) /\ Inserts(seq, Append(seq, e), Len(seq) + 1, e)
BY DEF Inserts

LEMMA PrependInserts ==
  ASSUME NEW S, NEW seq \in Seq(S), NEW e \in S
  PROVE  <<e>> \o seq \in Seq(S) /\ Inserts(seq, <<e>> \o seq, 1, e)
BY DEF Inserts

LEMMA TailDeletes ==
  ASSUME NEW S, NEW seq \in Seq(S), seq # <<>>
  PROVE  Tail(seq) \in Seq(S) /\ Inserts(Tail(seq), seq, 1, Head(seq))
<1>1. /\ Tail(seq) \in Seq(S) /\ Len(Tail(seq)) = Len(seq) - 1 /\ Len(seq) \in Nat \ {0}
      /\ \A j \in 1 .. Len(seq) - 1 : Tail(seq)[j] = seq[j + 1]
  BY HeadTailProperties, EmptySeq
<1>2. \A j \in 2 .. Len(seq) : Tail(seq)[j - 1] = seq[j]
  BY <1>1
<1>3. Head(seq) = seq[1]
  OBVIOUS
<1> QED
  BY <1>1, <1>2, <1>3 DEF Inserts

\* An insertion into either half of a concatenation is one into the whole.
LEMMA InsertsLeft ==
  ASSUME NEW S, NEW a \in Seq(S), NEW new \in Seq(S), NEW b \in Seq(S), NEW k, NEW e,
         Inserts(a, new, k, e)
  PROVE  Inserts(a \o b, new \o b, k, e)
<1>1. /\ Len(a) \in Nat /\ Len(b) \in Nat /\ k \in 1 .. Len(a) + 1
      /\ Len(new) = Len(a) + 1
      /\ Len(a \o b) = Len(a) + Len(b)
      /\ Len(new \o b) = Len(new) + Len(b)
  <2>1. k \in 1 .. Len(a) + 1 /\ Len(new) = Len(a) + 1
    BY DEF Inserts
  <2>2. Len(a \o b) = Len(a) + Len(b) /\ Len(new \o b) = Len(new) + Len(b)
    BY ConcatProperties
  <2> QED
    BY <2>1, <2>2, LenProperties
<1>2. \A j \in 1 .. Len(new) :
        new[j] = IF j < k THEN a[j] ELSE IF j = k THEN e ELSE a[j - 1]
  BY DEF Inserts
<1>3. \A j \in 1 .. Len(a) + Len(b) :
        (a \o b)[j] = IF j <= Len(a) THEN a[j] ELSE b[j - Len(a)]
  BY ConcatProperties
<1>4. \A j \in 1 .. Len(new) + Len(b) :
        (new \o b)[j] = IF j <= Len(new) THEN new[j] ELSE b[j - Len(new)]
  BY ConcatProperties
<1>5. ASSUME NEW j \in 1 .. Len(new \o b)
      PROVE  (new \o b)[j] = IF j < k THEN (a \o b)[j] ELSE IF j = k THEN e ELSE (a \o b)[j - 1]
  <2>1. CASE j <= Len(new)
    <3>1. (new \o b)[j] = IF j < k THEN a[j] ELSE IF j = k THEN e ELSE a[j - 1]
      BY <1>1, <1>2, <1>4, <2>1
    <3>2. j < k => (a \o b)[j] = a[j]
      BY <1>1, <1>3
    <3>3. j > k => (a \o b)[j - 1] = a[j - 1]
      BY <1>1, <1>3, <2>1
    <3> QED
      BY <1>1, <3>1, <3>2, <3>3
  <2>2. CASE j > Len(new)
    <3>1. (new \o b)[j] = b[j - Len(new)]
      BY <1>1, <1>4, <2>2
    <3>2. j - 1 \in 1 .. Len(a) + Len(b) /\ ~(j - 1 <= Len(a)) /\ j - 1 - Len(a) = j - Len(new)
      BY <1>1, <2>2
    <3>3. (a \o b)[j - 1] = b[j - Len(new)]
      BY <1>3, <3>2
    <3> QED
      BY <1>1, <2>2, <3>1, <3>3
  <2> QED
    BY <1>1, <2>1, <2>2
<1>6. k \in 1 .. Len(a \o b) + 1 /\ Len(new \o b) = Len(a \o b) + 1
  BY <1>1
<1> QED
  BY <1>5, <1>6 DEF Inserts

LEMMA InsertsRight ==
  ASSUME NEW S, NEW a \in Seq(S), NEW b \in Seq(S), NEW new \in Seq(S), NEW k, NEW e,
         Inserts(b, new, k, e)
  PROVE  Inserts(a \o b, a \o new, Len(a) + k, e)
<1>1. /\ Len(a) \in Nat /\ Len(b) \in Nat /\ k \in 1 .. Len(b) + 1
      /\ Len(new) = Len(b) + 1
      /\ Len(a \o b) = Len(a) + Len(b)
      /\ Len(a \o new) = Len(a) + Len(new)
  <2>1. k \in 1 .. Len(b) + 1 /\ Len(new) = Len(b) + 1
    BY DEF Inserts
  <2>2. Len(a \o b) = Len(a) + Len(b) /\ Len(a \o new) = Len(a) + Len(new)
    BY ConcatProperties
  <2> QED
    BY <2>1, <2>2, LenProperties
<1>2. \A j \in 1 .. Len(new) :
        new[j] = IF j < k THEN b[j] ELSE IF j = k THEN e ELSE b[j - 1]
  BY DEF Inserts
<1>3. \A j \in 1 .. Len(a) + Len(b) :
        (a \o b)[j] = IF j <= Len(a) THEN a[j] ELSE b[j - Len(a)]
  BY ConcatProperties
<1>4. \A j \in 1 .. Len(a) + Len(new) :
        (a \o new)[j] = IF j <= Len(a) THEN a[j] ELSE new[j - Len(a)]
  BY ConcatProperties
<1>5. ASSUME NEW j \in 1 .. Len(a \o new)
      PROVE  (a \o new)[j] = IF j < Len(a) + k THEN (a \o b)[j]
                             ELSE IF j = Len(a) + k THEN e ELSE (a \o b)[j - 1]
  <2>1. CASE j <= Len(a)
    <3>1. j \in 1 .. Len(a) + Len(b) /\ j < Len(a) + k
      BY <1>1, <2>1
    <3>2. (a \o new)[j] = a[j] /\ (a \o b)[j] = a[j]
      BY <1>1, <1>3, <1>4, <2>1, <3>1
    <3> QED
      BY <3>1, <3>2
  <2>2. CASE j > Len(a)
    <3> DEFINE i == j - Len(a)
    <3>1. i \in 1 .. Len(new) /\ (a \o new)[j] = new[i]
      BY <1>1, <1>4, <2>2
    <3>2. new[i] = IF i < k THEN b[i] ELSE IF i = k THEN e ELSE b[i - 1]
      BY <1>2, <3>1
    <3>3. i < k => (a \o b)[j] = b[i]
      BY <1>1, <1>3, <2>2
    <3>4. i > k => (a \o b)[j - 1] = b[i - 1]
      <4>1. i > k => /\ j - 1 \in 1 .. Len(a) + Len(b)
                     /\ ~(j - 1 <= Len(a))
                     /\ j - 1 - Len(a) = i - 1
        BY <1>1, <2>2, <3>1
      <4> QED
        BY <1>3, <4>1
    <3> QED
      BY <1>1, <3>1, <3>2, <3>3, <3>4
  <2> QED
    BY <1>1, <2>1, <2>2
<1>6. Len(a) + k \in 1 .. Len(a \o b) + 1 /\ Len(a \o new) = Len(a \o b) + 1
  BY <1>1
<1> QED
  BY <1>5, <1>6 DEF Inserts

\* A sequence with e put in has no repetition iff the one without has none and
\* no e; its set is the other's and e.
LEMMA InsertsSets ==
  ASSUME NEW S, NEW short \in Seq(S), NEW long \in Seq(S), NEW k, NEW e \in S,
         Inserts(short, long, k, e)
  PROVE  /\ ToSet(long) = ToSet(short) \cup {e}
         /\ IsInjective(long) <=> IsInjective(short) /\ e \notin ToSet(short)
<1>1. DOMAIN short = 1 .. Len(short) /\ DOMAIN long = 1 .. Len(long) /\ Len(short) \in Nat
  OBVIOUS
<1>2. k \in 1 .. Len(short) + 1 /\ k \in 1 .. Len(long) /\ Len(long) = Len(short) + 1
  BY <1>1 DEF Inserts
<1>3. \A j \in 1 .. Len(long) :
        long[j] = IF j < k THEN short[j] ELSE IF j = k THEN e ELSE short[j - 1]
  BY DEF Inserts
\* The place of short's position i in long.
<1> DEFINE place(i) == IF i < k THEN i ELSE i + 1
<1>4. \A i \in 1 .. Len(short) :
        place(i) \in 1 .. Len(long) /\ place(i) # k /\ long[place(i)] = short[i]
  BY <1>1, <1>2, <1>3
<1>5. long[k] = e
  BY <1>2, <1>3
<1>6. \A j \in 1 .. Len(long) : j # k => \E i \in 1 .. Len(short) : j = place(i)
  <2> TAKE j \in 1 .. Len(long)
  <2> HAVE j # k
  <2>1. CASE j < k
    <3>1. j \in 1 .. Len(short) /\ j = place(j)
      BY <1>1, <1>2, <2>1
    <3> QED
      BY <3>1
  <2>2. CASE j > k
    <3>1. j - 1 \in 1 .. Len(short) /\ j = place(j - 1)
      BY <1>1, <1>2, <2>2
    <3> QED
      BY <3>1
  <2> QED
    BY <1>1, <1>2, <2>1, <2>2
<1>7. \A i, j \in 1 .. Len(short) : place(i) = place(j) => i = j
  BY <1>1, <1>2
<1> HIDE DEF place
<1>8. /\ ToSet(long) = {long[j] : j \in 1 .. Len(long)}
      /\ ToSet(short) = {short[i] : i \in 1 .. Len(short)}
  BY <1>1 DEF ToSet
<1>9. ToSet(long) \subseteq ToSet(short) \cup {e}
  <2> SUFFICES ASSUME NEW j \in 1 .. Len(long), j # k
               PROVE  long[j] \in ToSet(short)
    BY <1>5, <1>8
  <2>1. PICK i \in 1 .. Len(short) : j = place(i)
    BY <1>6
  <2> QED
    BY <1>4, <1>8, <2>1
<1>10. ToSet(short) \cup {e} \subseteq ToSet(long)
  <2>1. e \in ToSet(long)
    BY <1>2, <1>5, <1>8
  <2>2. ASSUME NEW i \in 1 .. Len(short) PROVE short[i] \in ToSet(long)
    BY <1>4, <1>8
  <2> QED
    BY <1>8, <2>1, <2>2
<1>11. ASSUME IsInjective(long)
       PROVE  IsInjective(short) /\ e \notin ToSet(short)
  <2>1. \A i, j \in 1 .. Len(long) : long[i] = long[j] => i = j
    BY <1>1, <1>11 DEF IsInjective
  <2>2. ASSUME NEW i \in 1 .. Len(short), NEW j \in 1 .. Len(short), short[i] = short[j]
        PROVE  i = j
    <3>1. place(i) = place(j)
      BY <1>4, <2>1, <2>2
    <3> QED
      BY <1>7, <3>1
  <2>3. ASSUME NEW i \in 1 .. Len(short) PROVE short[i] # e
    BY <1>2, <1>4, <1>5, <2>1
  <2> QED
    BY <1>1, <1>8, <2>2, <2>3 DEF IsInjective
<1>12. ASSUME IsInjective(short), e \notin ToSet(short)
       PROVE  IsInjective(long)
  <2>1. \A i, j \in 1 .. Len(short) : short[i] = short[j] => i = j
    BY <1>1, <1>12 DEF IsInjective
  <2>2. ASSUME NEW j \in 1 .. Len(long), j # k PROVE long[j] # e
    <3>1. PICK i \in 1 .. Len(short) : j = place(i)
      BY <1>6, <2>2
    <3> QED
      BY <1>4, <1>8, <1>12, <3>1
  <2>3. ASSUME NEW i \in 1 .. Len(long), NEW j \in 1 .. Len(long), long[i] = long[j]
        PROVE  i = j
    <3>1. CASE i = k \/ j = k
      BY <1>5, <2>2, <2>3, <3>1
    <3>2. CASE i # k /\ j # k
      <4>1. PICK p \in 1 .. Len(short) : i = place(p)
        BY <1>6, <3>2
      <4>2. PICK q \in 1 .. Len(short) : j = place(q)
        BY <1>6, <3>2
      <4>3. short[p] = short[q]
        BY <1>4, <2>3, <4>1, <4>2
      <4> QED
        BY <2>1, <4>1, <4>2, <4>3
    <3> QED
      BY <3>1, <3>2
  <2> QED
    BY <1>1, <2>3 DEF IsInjective
<1> QED
  BY <1>9, <1>10, <1>11, <1>12

\* The sets of slots that a deque holds after each of its operations.
LEMMA AppendSet ==
  ASSUME NEW S, NEW seq \in Seq(S), NEW e \in S
  PROVE  ToSet(Append(seq, e)) = ToSet(seq) \cup {e}
<1> DEFINE new == Append(seq, e)
<1>1. new \in Seq(S) /\ Inserts(seq, new, Len(seq) + 1, e)
  BY AppendInserts
<1> HIDE DEF new
<1>2. ToSet(new) = ToSet(seq) \cup {e}
  BY <1>1, InsertsSets
<1> QED
  BY <1>2 DEF new

LEMMA PrependSet ==
  ASSUME NEW S, NEW seq \in Seq(S), NEW e \in S
  PROVE  ToSet(<<e>> \o seq) = ToSet(seq) \cup {e}
<1> DEFINE new == <<e>> \o seq
<1>1. new \in Seq(S) /\ Inserts(seq, new, 1, e)
  BY PrependInserts
<1> HIDE DEF new
<1>2. ToSet(new) = ToSet(seq) \cup {e}
  BY <1>1, InsertsSets
<1> QED
  BY <1>2 DEF new

LEMMA TailSet ==
  ASSUME NEW S, NEW seq \in Seq(S), seq # <<>>
  PROVE  /\ Head(seq) \in S /\ Tail(seq) \in Seq(S)
         /\ ToSet(seq) = ToSet(Tail(seq)) \cup {Head(seq)}
         /\ IsInjective(seq) => Head(seq) \notin ToSet(Tail(seq))
<1> DEFINE rest == Tail(seq)
           e    == Head(seq)
<1>1. e \in S /\ rest \in Seq(S) /\ Inserts(rest, seq, 1, e)
  BY TailDeletes, HeadTailProperties
<1> HIDE DEF rest, e
<1>2. /\ ToSet(seq) = ToSet(rest) \cup {e}
      /\ IsInjective(seq) => e \notin ToSet(rest)
  BY <1>1, InsertsSets
<1> QED
  BY <1>1, <1>2 DEF rest, e

LEMMA RemoveAtSet ==
  ASSUME NEW S, NEW seq \in Seq(S), NEW i \in 1 .. Len(seq)
  PROVE  ToSet(RemoveAt(seq, i)) \subseteq ToSet(seq)
<1> DEFINE rest == RemoveAt(seq, i)
<1>1. rest \in Seq(S) /\ Inserts(rest, seq, i, seq[i]) /\ seq[i] \in S
  BY RemoveAtDeletes, ElementOfSeq
<1> HIDE DEF rest
<1>2. ToSet(rest) \subseteq ToSet(seq)
  BY <1>1, InsertsSets
<1> QED
  BY <1>2 DEF rest

LEMMA SetOfSequence ==
  ASSUME NEW S, NEW seq \in Seq(S)
  PROVE  /\ IsFiniteSet(ToSet(seq))
         /\ Cardinality(ToSet(seq)) \in Nat
         /\ Cardinality(ToSet(seq)) <= Len(seq)
<1>1. Len(seq) \in Nat /\ DOMAIN seq = 1 .. Len(seq)
  BY LenProperties
<1>2. IsFiniteSet(1 .. Len(seq)) /\ Cardinality(1 .. Len(seq)) = Len(seq)
  BY <1>1, FS_Interval
<1> DEFINE f == [i \in 1 .. Len(seq) |-> seq[i]]
<1>3. f \in Surjection(1 .. Len(seq), ToSet(seq))
  BY <1>1 DEF Surjection, ToSet
<1> HIDE DEF f
<1>4. IsFiniteSet(ToSet(seq)) /\ Cardinality(ToSet(seq)) <= Cardinality(1 .. Len(seq))
  BY <1>2, <1>3, FS_Surjection
<1> QED
  BY <1>2, <1>4, FS_CardinalityType

\* An insertion leaves the order of the other elements as it is.
Before(seq, s, t) == \E i, j \in 1 .. Len(seq) : i < j /\ seq[i] = s /\ seq[j] = t

LEMMA InsertsKeepOrder ==
  ASSUME NEW S, NEW short \in Seq(S), NEW long \in Seq(S), NEW k, NEW e,
         Inserts(short, long, k, e), NEW s, NEW t, s # e, t # e
  PROVE  Before(short, s, t) <=> Before(long, s, t)
<1>1. Len(short) \in Nat
  OBVIOUS
<1>2. k \in 1 .. Len(short) + 1 /\ Len(long) = Len(short) + 1
  BY DEF Inserts
<1>3. \A j \in 1 .. Len(long) :
        long[j] = IF j < k THEN short[j] ELSE IF j = k THEN e ELSE short[j - 1]
  BY DEF Inserts
<1>4. ASSUME Before(short, s, t)
      PROVE  Before(long, s, t)
  <2> DEFINE place(i) == IF i < k THEN i ELSE i + 1
  <2>1. PICK i, j \in 1 .. Len(short) : i < j /\ short[i] = s /\ short[j] = t
    BY <1>4 DEF Before
  <2>2. \A m \in 1 .. Len(short) : place(m) \in 1 .. Len(long) /\ long[place(m)] = short[m]
    BY <1>1, <1>2, <1>3
  <2>3. place(i) < place(j)
    BY <1>1, <1>2, <2>1
  <2> QED
    BY <2>1, <2>2, <2>3 DEF Before
<1>5. ASSUME Before(long, s, t)
      PROVE  Before(short, s, t)
  <2> DEFINE origin(i) == IF i < k THEN i ELSE i - 1
  <2>1. PICK i, j \in 1 .. Len(long) : i < j /\ long[i] = s /\ long[j] = t
    BY <1>5 DEF Before
  <2>2. i # k /\ j # k
    BY <1>2, <1>3, <2>1
  <2>3. \A m \in 1 .. Len(long) :
          m # k => origin(m) \in 1 .. Len(short) /\ short[origin(m)] = long[m]
    BY <1>1, <1>2, <1>3
  <2>4. origin(i) < origin(j)
    BY <1>1, <1>2, <2>1, <2>2
  <2> QED
    BY <2>1, <2>2, <2>3, <2>4 DEF Before
<1> QED
  BY <1>4, <1>5

\* An element put in at the end comes after all, and before none.
LEMMA LastComesLast ==
  ASSUME NEW S, NEW short \in Seq(S), NEW long \in Seq(S), NEW e,
         Inserts(short, long, Len(short) + 1, e), e \notin ToSet(short), NEW s
  PROVE  /\ s \in ToSet(short) => Before(long, s, e)
         /\ ~Before(long, e, s)
<1>1. Len(short) \in Nat /\ Len(long) = Len(short) + 1 /\ DOMAIN short = 1 .. Len(short)
  BY LenProperties DEF Inserts
<1>2. \A j \in 1 .. Len(short) : j \in 1 .. Len(long) /\ long[j] = short[j] /\ long[j] # e
  BY <1>1 DEF Inserts, ToSet
<1>3. Len(long) \in 1 .. Len(long) /\ long[Len(long)] = e
  BY <1>1 DEF Inserts
<1>4. ASSUME s \in ToSet(short)
      PROVE  Before(long, s, e)
  <2>1. PICK i \in 1 .. Len(short) : short[i] = s
    BY <1>1, <1>4 DEF ToSet
  <2>2. i < Len(long) /\ long[i] = s
    BY <1>1, <1>2, <2>1
  <2> QED
    BY <1>2, <1>3, <2>2 DEF Before
<1>5. ASSUME Before(long, e, s)
      PROVE  FALSE
  <2>1. PICK i, j \in 1 .. Len(long) : i < j /\ long[i] = e
    BY <1>5 DEF Before
  <2>2. i \in 1 .. Len(short)
    BY <1>1, <2>1
  <2> QED
    BY <1>2, <2>1, <2>2
<1> QED
  BY <1>4, <1>5

------------------------------------------------------------------------------
\* The types of the tiers, operation by operation.
LEMMA EnqueueTyped ==
  ASSUME TiersTypeOK, NEW s \in Slots, Enqueue(s) \/ EnqueueHead(s)
  PROVE  TiersTypeOK'
<1>1. CASE Enqueue(s)
  <2>1. staging' \in Seq(Slots) /\ acceptBuf' \in Seq(Slots)
    <3>1. /\ staging' \in {staging, Append(staging, s)}
          /\ acceptBuf' \in {acceptBuf, Append(acceptBuf, s)}
      BY <1>1 DEF Enqueue
    <3>2. Append(staging, s) \in Seq(Slots) /\ Append(acceptBuf, s) \in Seq(Slots)
      BY DEF TiersTypeOK
    <3> QED
      BY <3>1, <3>2 DEF TiersTypeOK
  <2>2. tier' \in [Slots -> {"RECEIVED", "STAGED", "ACCEPT_BUFFER"}]
    BY <1>1 DEF TiersTypeOK, Enqueue
  <2> QED
    BY <1>1, <2>1, <2>2 DEF TiersTypeOK, Enqueue
<1>2. CASE EnqueueHead(s)
  <2>1. staging' \in Seq(Slots)
    BY <1>2 DEF TiersTypeOK, EnqueueHead
  <2>2. tier' \in [Slots -> {"RECEIVED", "STAGED", "ACCEPT_BUFFER"}]
    BY <1>2 DEF TiersTypeOK, EnqueueHead
  <2> QED
    BY <1>2, <2>1, <2>2 DEF TiersTypeOK, EnqueueHead
<1> QED
  BY <1>1, <1>2

\* What PopDrained moves from the buffer, and what it leaves there.
DrainRoom == IF Len(acceptBuf) < StagingMax THEN Len(acceptBuf) ELSE StagingMax
Drained   == SubSeq(acceptBuf, 1, DrainRoom)
Undrained == SubSeq(acceptBuf, DrainRoom + 1, Len(acceptBuf))

LEMMA DrainedParts ==
  ASSUME TiersTypeOK, acceptBuf # <<>>
  PROVE  /\ DrainRoom \in 1 .. Len(acceptBuf)
         /\ Drained \in Seq(Slots) /\ Undrained \in Seq(Slots)
         /\ Len(Drained) = DrainRoom
         /\ Len(Undrained) = Len(acceptBuf) - DrainRoom
         /\ \A j \in 1 .. DrainRoom : Drained[j] = acceptBuf[j]
         /\ \A j \in 1 .. Len(acceptBuf) - DrainRoom : Undrained[j] = acceptBuf[DrainRoom + j]
<1>1. acceptBuf \in Seq(Slots) /\ Len(acceptBuf) \in Nat \ {0}
  BY EmptySeq DEF TiersTypeOK
<1>2. DrainRoom \in 1 .. Len(acceptBuf)
  BY <1>1, QueueAssumption DEF DrainRoom
<1>3. \A j \in 1 .. Len(acceptBuf) : acceptBuf[j] \in Slots
  BY <1>1, ElementOfSeq
<1>4. /\ Drained \in Seq(Slots)
      /\ Len(Drained) = IF 1 <= DrainRoom THEN DrainRoom - 1 + 1 ELSE 0
      /\ \A j \in 1 .. DrainRoom - 1 + 1 : Drained[j] = acceptBuf[1 + j - 1]
  <2>1. 1 \in Int /\ DrainRoom \in Int /\ \A j \in 1 .. DrainRoom : acceptBuf[j] \in Slots
    BY <1>1, <1>2, <1>3
  <2> QED
    BY <2>1, SubSeqProperties DEF Drained
<1>5. /\ Undrained \in Seq(Slots)
      /\ Len(Undrained) = IF DrainRoom + 1 <= Len(acceptBuf)
                          THEN Len(acceptBuf) - (DrainRoom + 1) + 1 ELSE 0
      /\ \A j \in 1 .. Len(acceptBuf) - (DrainRoom + 1) + 1 :
           Undrained[j] = acceptBuf[(DrainRoom + 1) + j - 1]
  <2>1. /\ DrainRoom + 1 \in Int
        /\ Len(acceptBuf) \in Int
        /\ \A j \in DrainRoom + 1 .. Len(acceptBuf) : acceptBuf[j] \in Slots
    BY <1>1, <1>2, <1>3
  <2> QED
    BY <2>1, SubSeqProperties DEF Undrained
<1> QED
  BY <1>1, <1>2, <1>4, <1>5

LEMMA PopDrainedParts ==
  ASSUME NEW s, PopDrained(s)
  PROVE  /\ staging = <<>> /\ acceptBuf # <<>> /\ s = Head(acceptBuf)
         /\ staging' = Tail(Drained)
         /\ acceptBuf' = Undrained
         /\ tier' = [x \in Slots |-> IF x \in ToSet(Drained) THEN "STAGED" ELSE tier[x]]
BY DEF PopDrained, Drained, Undrained, DrainRoom

LEMMA PopNextTyped ==
  ASSUME TiersTypeOK, NEW s, PopNext(s)
  PROVE  TiersTypeOK'
<1>1. closed' \in BOOLEAN /\ disconnected' \subseteq Slots /\ evicted' \subseteq Slots
  BY DEF TiersTypeOK, PopNext, FlagIfGone
<1>2. CASE PopHead(s)
  <2>1. Tail(staging) \in Seq(Slots)
    BY <1>2, HeadTailProperties DEF TiersTypeOK, PopHead
  <2>2. CASE acceptBuf # <<>> /\ Len(staging) - 1 < StagingMax
    <3>1. Head(acceptBuf) \in Slots /\ Tail(acceptBuf) \in Seq(Slots)
      BY <2>2, HeadTailProperties DEF TiersTypeOK
    <3>2. staging' \in Seq(Slots) /\ acceptBuf' \in Seq(Slots)
      <4>1. staging' = Append(Tail(staging), Head(acceptBuf)) /\ acceptBuf' = Tail(acceptBuf)
        BY <1>2, <2>2 DEF PopHead
      <4>2. Append(Tail(staging), Head(acceptBuf)) \in Seq(Slots)
        BY <2>1, <3>1
      <4> QED
        BY <3>1, <4>1, <4>2
    <3>3. tier' \in [Slots -> {"RECEIVED", "STAGED", "ACCEPT_BUFFER"}]
      <4>1. tier' = [tier EXCEPT ![Head(acceptBuf)] = "STAGED"]
        BY <1>2, <2>2 DEF PopHead
      <4> QED
        BY <4>1, <3>1 DEF TiersTypeOK
    <3> QED
      BY <1>1, <3>2, <3>3 DEF TiersTypeOK
  <2>3. CASE ~(acceptBuf # <<>> /\ Len(staging) - 1 < StagingMax)
    BY <1>1, <1>2, <2>1, <2>3 DEF TiersTypeOK, PopHead
  <2> QED
    BY <2>2, <2>3
<1>3. CASE PopDrained(s)
  <2>1. Drained \in Seq(Slots) /\ Undrained \in Seq(Slots) /\ Len(Drained) # 0
    BY <1>3, DrainedParts, PopDrainedParts
  <2>2. Tail(Drained) \in Seq(Slots)
    BY <2>1, EmptySeq, HeadTailProperties
  <2>3. tier' \in [Slots -> {"RECEIVED", "STAGED", "ACCEPT_BUFFER"}]
    BY <1>3, PopDrainedParts DEF TiersTypeOK
  <2> QED
    BY <1>1, <1>3, <2>1, <2>2, <2>3, PopDrainedParts DEF TiersTypeOK
<1> QED
  BY <1>2, <1>3 DEF PopNext

LEMMA PopMatchedTyped ==
  ASSUME TiersTypeOK, NEW s, NEW k, PopMatched(s, k)
  PROVE  TiersTypeOK'
<1>1. PICK i \in 1 .. Len(staging) :
        /\ staging' = RemoveAt(staging, i)
        /\ FlagIfGone(s)
        /\ UNCHANGED <<acceptBuf, closed, tier, disconnected>>
  BY DEF PopMatched
<1>2. staging' \in Seq(Slots)
  BY <1>1, RemoveAtDeletes DEF TiersTypeOK
<1> QED
  BY <1>1, <1>2 DEF TiersTypeOK, FlagIfGone

LEMMA RemoveSlotTyped ==
  ASSUME TiersTypeOK, NEW s, RemoveSlot(s)
  PROVE  TiersTypeOK'
<1>1. staging' \in Seq(Slots) /\ acceptBuf' \in Seq(Slots)
  BY RemoveAtDeletes DEF TiersTypeOK, RemoveSlot
<1> QED
  BY <1>1 DEF TiersTypeOK, RemoveSlot

LEMMA CloseTyped ==
  ASSUME TiersTypeOK, Close \/ (\E s \in Slots : Disconnect(s)) \/ UNCHANGED queueVars
  PROVE  TiersTypeOK'
<1> <<>> \in Seq(Slots)
  BY EmptySeq
<1> QED
  BY DEF TiersTypeOK, Close, Disconnect, queueVars

LEMMA QueueInitTyped == QueueInit => TiersTypeOK
<1> <<>> \in Seq(Slots)
  BY EmptySeq
<1> QED
  BY DEF QueueInit, TiersTypeOK

------------------------------------------------------------------------------
\* The line: what each operation does to it.
LEMMA LineParts ==
  ASSUME TiersTypeOK
  PROVE  /\ Line \in Seq(Slots)
         /\ Len(Line) = Len(staging) + Len(acceptBuf)
         /\ Len(staging) \in Nat /\ Len(acceptBuf) \in Nat
         /\ \A j \in 1 .. Len(staging) + Len(acceptBuf) :
              Line[j] = IF j <= Len(staging) THEN staging[j] ELSE acceptBuf[j - Len(staging)]
         /\ ToSet(Line) = Waiting
<1>1. staging \in Seq(Slots) /\ acceptBuf \in Seq(Slots)
  BY DEF TiersTypeOK
<1>2. /\ Line \in Seq(Slots)
      /\ Len(Line) = Len(staging) + Len(acceptBuf)
      /\ \A j \in 1 .. Len(staging) + Len(acceptBuf) :
           Line[j] = IF j <= Len(staging) THEN staging[j] ELSE acceptBuf[j - Len(staging)]
  BY <1>1, ConcatProperties DEF Line
<1>3. /\ DOMAIN Line = 1 .. Len(Line) /\ DOMAIN staging = 1 .. Len(staging)
      /\ DOMAIN acceptBuf = 1 .. Len(acceptBuf)
      /\ Len(staging) \in Nat /\ Len(acceptBuf) \in Nat
  BY <1>1, <1>2, LenProperties
<1>4. Waiting \subseteq ToSet(Line)
  <2>1. ASSUME NEW j \in 1 .. Len(staging) PROVE staging[j] \in ToSet(Line)
    <3>1. j \in DOMAIN Line /\ Line[j] = staging[j]
      BY <1>2, <1>3
    <3> QED
      BY <3>1 DEF ToSet
  <2>2. ASSUME NEW j \in 1 .. Len(acceptBuf) PROVE acceptBuf[j] \in ToSet(Line)
    <3>1. Len(staging) + j \in DOMAIN Line /\ Line[Len(staging) + j] = acceptBuf[j]
      BY <1>2, <1>3
    <3> QED
      BY <3>1 DEF ToSet
  <2> QED
    BY <1>3, <2>1, <2>2 DEF Waiting, Staged, Buffered, ToSet
<1>5. ToSet(Line) \subseteq Waiting
  <2> SUFFICES ASSUME NEW j \in 1 .. Len(Line) PROVE Line[j] \in Waiting
    BY <1>3 DEF ToSet
  <2>1. CASE j <= Len(staging)
    <3>1. j \in DOMAIN staging /\ Line[j] = staging[j]
      BY <1>2, <1>3, <2>1
    <3> QED
      BY <3>1 DEF Waiting, Staged, ToSet
  <2>2. CASE j > Len(staging)
    <3>1. j - Len(staging) \in DOMAIN acceptBuf /\ Line[j] = acceptBuf[j - Len(staging)]
      BY <1>2, <1>3, <2>2
    <3> QED
      BY <3>1 DEF Waiting, Buffered, ToSet
  <2> QED
    BY <1>2, <1>3, <2>1, <2>2
<1> QED
  BY <1>2, <1>3, <1>4, <1>5

\* What the properties need of the line, in this state and in the next.
LineOK == Line \in Seq(Slots) /\ ToSet(Line) = Waiting

LEMMA LineTyped == TiersTypeOK => LineOK
BY LineParts DEF LineOK

LEMMA LineTypedNext == TiersTypeOK' => LineOK'
BY LineTyped, PTL

\* enqueue and enqueue_head insert: at the end of a tier, or in front.
LEMMA EnqueueInserts ==
  ASSUME TiersTypeOK, NEW s \in Slots, Enqueue(s) \/ EnqueueHead(s)
  PROVE  \E k : Inserts(Line, Line', k, s)
<1>1. staging \in Seq(Slots) /\ acceptBuf \in Seq(Slots)
  BY DEF TiersTypeOK
<1>2. CASE staging' = Append(staging, s) /\ acceptBuf' = acceptBuf
  BY <1>1, <1>2, AppendInserts, InsertsLeft DEF Line
<1>3. CASE staging' = staging /\ acceptBuf' = Append(acceptBuf, s)
  BY <1>1, <1>3, AppendInserts, InsertsRight DEF Line
<1>4. CASE staging' = <<s>> \o staging /\ acceptBuf' = acceptBuf
  BY <1>1, <1>4, PrependInserts, InsertsLeft DEF Line
<1> QED
  BY <1>2, <1>3, <1>4 DEF Enqueue, EnqueueHead

\* pop_next takes the head of the line: its refill and its drain move slots
\* from one tier to the other and change nothing in the line.
LEMMA PopNextDeletes ==
  ASSUME TiersTypeOK, NEW s, PopNext(s)
  PROVE  Inserts(Line', Line, 1, s)
<1>1. staging \in Seq(Slots) /\ acceptBuf \in Seq(Slots)
  BY DEF TiersTypeOK
<1>2. CASE PopHead(s)
  <2>1. staging # <<>> /\ s = Head(staging)
    BY <1>2 DEF PopHead
  <2>2. Tail(staging) \in Seq(Slots) /\ Inserts(Tail(staging), staging, 1, s)
    BY <1>1, <2>1, TailDeletes
  <2>3. Inserts(Tail(staging) \o acceptBuf, Line, 1, s)
    BY <1>1, <2>2, InsertsLeft DEF Line
  <2>4. Line' = Tail(staging) \o acceptBuf
    <3>1. CASE acceptBuf # <<>> /\ Len(staging) - 1 < StagingMax
      <4>1. Line' = Append(Tail(staging), Head(acceptBuf)) \o Tail(acceptBuf)
        BY <1>2, <3>1 DEF PopHead, Line
      <4>2. /\ Head(acceptBuf) \in Slots /\ Tail(acceptBuf) \in Seq(Slots)
            /\ <<Head(acceptBuf)>> \o Tail(acceptBuf) = acceptBuf
        BY <1>1, <3>1, HeadTailProperties
      <4>3. Append(Tail(staging), Head(acceptBuf)) = Tail(staging) \o <<Head(acceptBuf)>>
        BY <2>2, <4>2
      <4> QED
        BY <2>2, <4>1, <4>2, <4>3, ConcatAssociative
    <3>2. CASE ~(acceptBuf # <<>> /\ Len(staging) - 1 < StagingMax)
      BY <1>2, <3>2 DEF PopHead, Line
    <3> QED
      BY <3>1, <3>2
  <2> QED
    BY <2>3, <2>4
<1>3. CASE PopDrained(s)
  <2>1. /\ staging = <<>> /\ acceptBuf # <<>> /\ s = Head(acceptBuf)
        /\ Line' = Tail(Drained) \o Undrained
    BY <1>3, PopDrainedParts DEF Line
  <2>2. /\ Drained \in Seq(Slots) /\ Undrained \in Seq(Slots)
        /\ DrainRoom \in 1 .. Len(acceptBuf)
        /\ Len(Drained) = DrainRoom /\ Len(Undrained) = Len(acceptBuf) - DrainRoom
        /\ \A j \in 1 .. DrainRoom : Drained[j] = acceptBuf[j]
        /\ \A j \in 1 .. Len(acceptBuf) - DrainRoom : Undrained[j] = acceptBuf[DrainRoom + j]
    BY <2>1, DrainedParts
  <2>3. Drained # <<>> /\ Head(Drained) = s
    BY <1>1, <2>1, <2>2
  <2>4. Tail(Drained) \in Seq(Slots) /\ Inserts(Tail(Drained), Drained, 1, s)
    BY <2>2, <2>3, TailDeletes
  <2>5. Inserts(Line', Drained \o Undrained, 1, s)
    BY <2>1, <2>2, <2>4, InsertsLeft
  <2>6. Drained \o Undrained = Line
    <3>1. Line = acceptBuf
      BY <1>1, <2>1, ConcatEmptySeq DEF Line
    <3>2. /\ Drained \o Undrained \in Seq(Slots)
          /\ Len(Drained \o Undrained) = Len(acceptBuf)
          /\ \A j \in 1 .. Len(acceptBuf) :
               (Drained \o Undrained)[j] =
                 IF j <= DrainRoom THEN Drained[j] ELSE Undrained[j - DrainRoom]
      <4>1. /\ Drained \o Undrained \in Seq(Slots)
            /\ Len(Drained \o Undrained) = Len(Drained) + Len(Undrained)
            /\ \A j \in 1 .. Len(Drained) + Len(Undrained) :
                 (Drained \o Undrained)[j] =
                   IF j <= Len(Drained) THEN Drained[j] ELSE Undrained[j - Len(Drained)]
        BY <2>2, ConcatProperties
      <4>2. Len(Drained) = DrainRoom /\ Len(Drained) + Len(Undrained) = Len(acceptBuf)
        BY <1>1, <2>2
      <4> QED
        BY <4>1, <4>2
    <3>3. \A j \in 1 .. Len(acceptBuf) : (Drained \o Undrained)[j] = acceptBuf[j]
      <4> TAKE j \in 1 .. Len(acceptBuf)
      <4>1. (Drained \o Undrained)[j] = IF j <= DrainRoom THEN Drained[j] ELSE Undrained[j - DrainRoom]
        BY <3>2
      <4>2. CASE j <= DrainRoom
        <5>1. j \in 1 .. DrainRoom
          BY <2>2, <4>2
        <5> QED
          BY <2>2, <4>1, <4>2, <5>1
      <4>3. CASE ~(j <= DrainRoom)
        <5>1. j - DrainRoom \in 1 .. Len(acceptBuf) - DrainRoom /\ DrainRoom + (j - DrainRoom) = j
          BY <1>1, <2>2, <4>3
        <5> QED
          BY <2>2, <4>1, <4>3, <5>1
      <4> QED
        BY <4>2, <4>3
    <3> QED
      BY <1>1, <3>1, <3>2, <3>3, SeqEqual
  <2> QED
    BY <2>5, <2>6
<1> QED
  BY <1>2, <1>3 DEF PopNext

\* pop_matched_thread and remove take one slot from wherever it stands.
LEMMA RemovalDeletes ==
  ASSUME TiersTypeOK, NEW s, RemoveSlot(s) \/ \E k : PopMatched(s, k)
  PROVE  \E k : Inserts(Line', Line, k, s)
<1>1. staging \in Seq(Slots) /\ acceptBuf \in Seq(Slots)
  BY DEF TiersTypeOK
<1>2. ASSUME NEW i \in 1 .. Len(staging), staging[i] = s,
             staging' = RemoveAt(staging, i), UNCHANGED acceptBuf
      PROVE  \E k : Inserts(Line', Line, k, s)
  <2>1. RemoveAt(staging, i) \in Seq(Slots) /\ Inserts(RemoveAt(staging, i), staging, i, s)
    BY <1>1, <1>2, RemoveAtDeletes
  <2>2. Inserts(RemoveAt(staging, i) \o acceptBuf, staging \o acceptBuf, i, s)
    BY <1>1, <2>1, InsertsLeft
  <2> QED
    BY <1>2, <2>2 DEF Line
<1>3. ASSUME NEW i \in 1 .. Len(acceptBuf), acceptBuf[i] = s,
             acceptBuf' = RemoveAt(acceptBuf, i), UNCHANGED staging
      PROVE  \E k : Inserts(Line', Line, k, s)
  <2>1. RemoveAt(acceptBuf, i) \in Seq(Slots) /\ Inserts(RemoveAt(acceptBuf, i), acceptBuf, i, s)
    BY <1>1, <1>3, RemoveAtDeletes
  <2>2. Inserts(staging \o RemoveAt(acceptBuf, i), staging \o acceptBuf, Len(staging) + i, s)
    BY <1>1, <2>1, InsertsRight
  <2> QED
    BY <1>3, <2>2 DEF Line
<1>4. ASSUME NEW k, PopMatched(s, k)
      PROVE  \E i \in 1 .. Len(staging) :
               staging[i] = s /\ staging' = RemoveAt(staging, i) /\ UNCHANGED acceptBuf
  BY <1>4 DEF PopMatched
<1> QED
  BY <1>2, <1>3, <1>4 DEF RemoveSlot

------------------------------------------------------------------------------
\* The tier labels.
LEMMA TiersApart ==
  ASSUME TiersTypeOK, IsInjective(Line)
  PROVE  /\ \A i, j \in 1 .. Len(acceptBuf) : acceptBuf[i] = acceptBuf[j] => i = j
         /\ Staged \cap Buffered = {}
<1>1. /\ Len(Line) = Len(staging) + Len(acceptBuf)
      /\ Len(staging) \in Nat /\ Len(acceptBuf) \in Nat
      /\ \A j \in 1 .. Len(staging) + Len(acceptBuf) :
           Line[j] = IF j <= Len(staging) THEN staging[j] ELSE acceptBuf[j - Len(staging)]
  BY LineParts
<1>2. \A i, j \in 1 .. Len(staging) + Len(acceptBuf) : Line[i] = Line[j] => i = j
  <2>1. DOMAIN Line = 1 .. Len(Line)
    BY LineParts, LenProperties
  <2> QED
    BY <1>1, <2>1 DEF IsInjective
<1>3. /\ Staged = {staging[i] : i \in 1 .. Len(staging)}
      /\ Buffered = {acceptBuf[j] : j \in 1 .. Len(acceptBuf)}
  BY LenProperties DEF TiersTypeOK, Staged, Buffered, ToSet
<1>4. \A j \in 1 .. Len(acceptBuf) :
        /\ Len(staging) + j \in 1 .. Len(staging) + Len(acceptBuf)
        /\ Line[Len(staging) + j] = acceptBuf[j]
  BY <1>1
<1>5. \A i \in 1 .. Len(staging) :
        i \in 1 .. Len(staging) + Len(acceptBuf) /\ Line[i] = staging[i]
  BY <1>1
<1>6. ASSUME NEW i \in 1 .. Len(acceptBuf), NEW j \in 1 .. Len(acceptBuf),
             acceptBuf[i] = acceptBuf[j]
      PROVE  i = j
  <2>1. Len(staging) + i = Len(staging) + j
    BY <1>2, <1>4, <1>6
  <2> QED
    BY <1>1, <2>1
<1>7. ASSUME NEW i \in 1 .. Len(staging), NEW j \in 1 .. Len(acceptBuf),
             staging[i] = acceptBuf[j]
      PROVE  FALSE
  <2>1. i = Len(staging) + j
    BY <1>2, <1>4, <1>5, <1>7
  <2> QED
    BY <1>1, <2>1
<1> QED
  BY <1>3, <1>6, <1>7

LEMMA EnqueueTierHonest ==
  ASSUME TiersTypeOK, TierHonest, NEW s \in Slots \ Waiting, Enqueue(s) \/ EnqueueHead(s)
  PROVE  TierHonest'
<1>1. staging \in Seq(Slots) /\ acceptBuf \in Seq(Slots) /\ DOMAIN tier = Slots
  BY DEF TiersTypeOK
<1>2. s \notin Staged /\ s \notin Buffered
  BY DEF Waiting
<1>3. Staged \subseteq Slots /\ Buffered \subseteq Slots
  BY <1>1, ElementOfSeq DEF Staged, Buffered, ToSet
<1>4. CASE /\ Staged' = Staged \cup {s} /\ Buffered' = Buffered
           /\ tier' = [tier EXCEPT ![s] = "STAGED"]
  BY <1>1, <1>2, <1>3, <1>4 DEF TierHonest
<1>5. CASE /\ Staged' = Staged /\ Buffered' = Buffered \cup {s}
           /\ tier' = [tier EXCEPT ![s] = "ACCEPT_BUFFER"]
  BY <1>1, <1>2, <1>3, <1>5 DEF TierHonest
<1>6. /\ ToSet(Append(staging, s)) = Staged \cup {s}
      /\ ToSet(Append(acceptBuf, s)) = Buffered \cup {s}
      /\ ToSet(<<s>> \o staging) = Staged \cup {s}
  BY <1>1, AppendSet, PrependSet DEF Staged, Buffered
<1> QED
  BY <1>4, <1>5, <1>6 DEF Enqueue, EnqueueHead, Staged, Buffered

LEMMA PopHeadTierHonest ==
  ASSUME TiersTypeOK, IsInjective(Line), TierHonest, NEW s, PopHead(s)
  PROVE  TierHonest'
<1>1. staging \in Seq(Slots) /\ acceptBuf \in Seq(Slots) /\ DOMAIN tier = Slots
  BY DEF TiersTypeOK
<1>2. Tail(staging) \in Seq(Slots) /\ ToSet(Tail(staging)) \subseteq Staged
  <2>1. staging # <<>>
    BY DEF PopHead
  <2> QED
    BY <1>1, <2>1, TailSet DEF Staged
<1>3. Staged \subseteq Slots /\ Buffered \subseteq Slots
  BY <1>1, ElementOfSeq DEF Staged, Buffered, ToSet
<1>4. CASE acceptBuf # <<>> /\ Len(staging) - 1 < StagingMax
  <2> DEFINE h == Head(acceptBuf)
  <2>1. /\ staging' = Append(Tail(staging), h) /\ acceptBuf' = Tail(acceptBuf)
        /\ tier' = [tier EXCEPT ![h] = "STAGED"]
    BY <1>4 DEF PopHead
  <2>2. h \in Slots
    BY <1>1, <1>4, TailSet
  <2>3. ToSet(Append(Tail(staging), h)) = ToSet(Tail(staging)) \cup {h}
    <3> DEFINE rest == Tail(staging)
    <3>1. rest \in Seq(Slots)
      BY <1>2
    <3> HIDE DEF h, rest
    <3>2. ToSet(Append(rest, h)) = ToSet(rest) \cup {h}
      BY <2>2, <3>1, AppendSet
    <3> QED
      BY <3>2 DEF rest
  <2>4. IsInjective(acceptBuf)
    BY <1>1, TiersApart, LenProperties DEF IsInjective
  <2>5. h \notin ToSet(Tail(acceptBuf)) /\ ToSet(Tail(acceptBuf)) \subseteq Buffered
    BY <1>1, <1>4, <2>4, TailSet DEF Buffered
  <2> HIDE DEF h
  <2>6. Staged' \subseteq Staged \cup {h} /\ Buffered' \subseteq Buffered \ {h}
    BY <1>2, <2>1, <2>3, <2>5 DEF Staged, Buffered
  <2> QED
    BY <1>1, <1>3, <2>1, <2>2, <2>6 DEF TierHonest
<1>5. CASE ~(acceptBuf # <<>> /\ Len(staging) - 1 < StagingMax)
  <2>1. Staged' \subseteq Staged /\ Buffered' = Buffered /\ tier' = tier
    BY <1>2, <1>5 DEF PopHead, Staged, Buffered
  <2> QED
    BY <2>1 DEF TierHonest
<1> QED
  BY <1>4, <1>5

LEMMA PopDrainedTierHonest ==
  ASSUME TiersTypeOK, IsInjective(Line), TierHonest, NEW s, PopDrained(s)
  PROVE  TierHonest'
<1>1. /\ acceptBuf # <<>> /\ staging' = Tail(Drained) /\ acceptBuf' = Undrained
      /\ tier' = [x \in Slots |-> IF x \in ToSet(Drained) THEN "STAGED" ELSE tier[x]]
  BY PopDrainedParts
<1>2. /\ DrainRoom \in 1 .. Len(acceptBuf)
      /\ Drained \in Seq(Slots) /\ Undrained \in Seq(Slots)
      /\ Len(Drained) = DrainRoom /\ Len(Undrained) = Len(acceptBuf) - DrainRoom
      /\ \A j \in 1 .. DrainRoom : Drained[j] = acceptBuf[j]
      /\ \A j \in 1 .. Len(acceptBuf) - DrainRoom : Undrained[j] = acceptBuf[DrainRoom + j]
  BY <1>1, DrainedParts
<1>3. Len(acceptBuf) \in Nat /\ \A i, j \in 1 .. Len(acceptBuf) : acceptBuf[i] = acceptBuf[j] => i = j
  BY TiersApart, LineParts
<1>4. /\ ToSet(Drained) = {Drained[i] : i \in 1 .. Len(Drained)}
      /\ ToSet(Undrained) = {Undrained[i] : i \in 1 .. Len(Undrained)}
      /\ Buffered = {acceptBuf[j] : j \in 1 .. Len(acceptBuf)}
  BY <1>2, LenProperties DEF TiersTypeOK, Buffered, ToSet
<1>5. ToSet(Drained) \subseteq Slots
  BY <1>2, ElementOfSeq, LenProperties DEF ToSet
<1>6. ToSet(Undrained) \subseteq Buffered \cap Slots
  <2>1. ToSet(Undrained) \subseteq Slots
    BY <1>2, ElementOfSeq, LenProperties DEF ToSet
  <2>2. ASSUME NEW j \in 1 .. Len(Undrained) PROVE Undrained[j] \in Buffered
    <3>1. DrainRoom + j \in 1 .. Len(acceptBuf) /\ Undrained[j] = acceptBuf[DrainRoom + j]
      BY <1>2, <1>3
    <3> QED
      BY <1>4, <3>1
  <2> QED
    BY <1>4, <2>1, <2>2
<1>7. ASSUME NEW i \in 1 .. Len(Drained), NEW j \in 1 .. Len(Undrained), Drained[i] = Undrained[j]
      PROVE  FALSE
  <2>1. i \in 1 .. Len(acceptBuf) /\ Drained[i] = acceptBuf[i]
    BY <1>2, <1>3
  <2>2. DrainRoom + j \in 1 .. Len(acceptBuf) /\ Undrained[j] = acceptBuf[DrainRoom + j]
    BY <1>2, <1>3
  <2>3. i = DrainRoom + j
    BY <1>3, <1>7, <2>1, <2>2
  <2> QED
    BY <1>2, <1>3, <2>3
<1>8. ToSet(Tail(Drained)) \subseteq ToSet(Drained)
  <2>1. Drained # <<>>
    BY <1>2, <1>3
  <2> QED
    BY <1>2, <2>1, TailSet
<1>9. Staged' \subseteq ToSet(Drained) /\ Buffered' = ToSet(Undrained)
  BY <1>1, <1>8 DEF Staged, Buffered
<1>10. ToSet(Drained) \cap ToSet(Undrained) = {}
  BY <1>4, <1>7
<1>11. \A x \in Staged' : tier'[x] = "STAGED"
  BY <1>1, <1>5, <1>9
<1>12. \A x \in Buffered' : tier'[x] = "ACCEPT_BUFFER"
  BY <1>1, <1>6, <1>9, <1>10 DEF TierHonest
<1> QED
  BY <1>11, <1>12 DEF TierHonest

LEMMA RemovalTierHonest ==
  ASSUME TiersTypeOK, TierHonest, NEW s, RemoveSlot(s) \/ \E k : PopMatched(s, k)
  PROVE  TierHonest'
<1>1. Staged' \subseteq Staged /\ Buffered' \subseteq Buffered /\ tier' = tier
  BY RemoveAtSet DEF PopMatched, RemoveSlot, TiersTypeOK, Staged, Buffered
<1> QED
  BY <1>1 DEF TierHonest
------------------------------------------------------------------------------
(***************************************************************************)
(* For callers: what an operation does to a sound pair of tiers, in terms  *)
(* of the slots that wait and their labels alone.                          *)
(***************************************************************************)
TiersSound == TiersTypeOK /\ IsInjective(Line) /\ TierHonest

LEMMA QueueInitSound == QueueInit => TiersSound /\ Waiting = {}
<1> SUFFICES ASSUME QueueInit PROVE TiersSound /\ Waiting = {}
  OBVIOUS
<1>1. staging = <<>> /\ acceptBuf = <<>>
  BY DEF QueueInit
<1>2. Line = <<>>
  BY <1>1 DEF Line
<1>3. IsInjective(Line) /\ Staged = {} /\ Buffered = {}
  BY <1>1, <1>2 DEF IsInjective, Staged, Buffered, ToSet
<1> QED
  BY <1>3, QueueInitTyped DEF TiersSound, TierHonest, Waiting

LEMMA EnqueueSound ==
  ASSUME TiersSound, NEW s \in Slots \ Waiting, Enqueue(s) \/ EnqueueHead(s)
  PROVE  /\ TiersSound'
         /\ Waiting' = Waiting \cup {s}
         /\ \E label \in {"STAGED", "ACCEPT_BUFFER"} : tier' = [tier EXCEPT ![s] = label]
         /\ UNCHANGED <<closed, disconnected, evicted>>
<1>1. TiersTypeOK /\ TiersTypeOK' /\ TierHonest'
  BY EnqueueTyped, EnqueueTierHonest DEF TiersSound
<1>2. PICK k : Inserts(Line, Line', k, s)
  BY <1>1, EnqueueInserts
<1>3. Line \in Seq(Slots) /\ ToSet(Line) = Waiting
  BY <1>1, LineTyped DEF LineOK
<1>4. Line' \in Seq(Slots) /\ ToSet(Line') = Waiting'
  BY <1>1, LineTypedNext DEF LineOK, ToSet
<1>5. Waiting' = Waiting \cup {s} /\ IsInjective(Line')
  BY <1>2, <1>3, <1>4, InsertsSets DEF TiersSound
<1> QED
  BY <1>1, <1>5 DEF TiersSound, Enqueue, EnqueueHead

LEMMA PopNextSound ==
  ASSUME TiersSound, NEW s \in Slots, PopNext(s)
  PROVE  /\ TiersSound'
         /\ s \in Waiting /\ Waiting' = Waiting \ {s}
         /\ tier'[s] = "STAGED"
         /\ \A x \in Slots : tier'[x] = tier[x] \/ (tier[x] = "ACCEPT_BUFFER" /\ tier'[x] = "STAGED")
         /\ UNCHANGED <<closed, disconnected>>
         /\ evicted \subseteq disconnected => evicted' \subseteq disconnected
<1>1. /\ TiersTypeOK /\ TiersTypeOK' /\ TierHonest /\ TierHonest' /\ IsInjective(Line)
      /\ evicted \subseteq disconnected => evicted' \subseteq disconnected
      /\ staging \in Seq(Slots) /\ acceptBuf \in Seq(Slots) /\ DOMAIN tier = Slots
  BY PopNextTyped, PopHeadTierHonest, PopDrainedTierHonest
     DEF TiersSound, TiersTypeOK, PopNext, FlagIfGone
<1>2. Inserts(Line', Line, 1, s)
  BY <1>1, PopNextDeletes
<1>3. Line \in Seq(Slots) /\ ToSet(Line) = Waiting
  BY <1>1, LineTyped DEF LineOK
<1>4. Line' \in Seq(Slots) /\ ToSet(Line') = Waiting'
  BY <1>1, LineTypedNext DEF LineOK, ToSet
<1>5. Waiting = Waiting' \cup {s} /\ s \notin Waiting' /\ IsInjective(Line')
  BY <1>1, <1>2, <1>3, <1>4, InsertsSets
<1>6. CASE PopHead(s)
  <2>1. s \in Staged
    BY <1>1, <1>6, TailSet DEF PopHead, Staged
  <2>2. tier' = tier \/ (acceptBuf # <<>> /\ tier' = [tier EXCEPT ![Head(acceptBuf)] = "STAGED"])
    BY <1>6 DEF PopHead
  <2>3. acceptBuf # <<>> => Head(acceptBuf) \in Buffered
    BY <1>1, TailSet DEF Buffered
  <2>4. /\ tier'[s] = "STAGED"
        /\ \A x \in Slots : tier'[x] = tier[x] \/ (tier[x] = "ACCEPT_BUFFER" /\ tier'[x] = "STAGED")
    BY <1>1, <2>1, <2>2, <2>3 DEF TierHonest
  <2> QED
    BY <1>1, <1>5, <2>4 DEF TiersSound, PopNext
<1>7. CASE PopDrained(s)
  <2>1. /\ acceptBuf # <<>> /\ s = Head(acceptBuf)
        /\ tier' = [x \in Slots |-> IF x \in ToSet(Drained) THEN "STAGED" ELSE tier[x]]
    BY <1>7, PopDrainedParts
  <2>2. /\ DrainRoom \in 1 .. Len(acceptBuf) /\ Len(Drained) = DrainRoom /\ Drained \in Seq(Slots)
        /\ \A j \in 1 .. DrainRoom : Drained[j] = acceptBuf[j]
    BY <1>1, <2>1, DrainedParts
  <2>3. /\ ToSet(Drained) = {Drained[i] : i \in 1 .. Len(Drained)}
        /\ Buffered = {acceptBuf[j] : j \in 1 .. Len(acceptBuf)}
    BY <1>1, <2>2, LenProperties DEF Buffered, ToSet
  <2>4. \A j \in 1 .. DrainRoom : j \in 1 .. Len(acceptBuf)
    BY <1>1, <2>2
  <2>5. ToSet(Drained) \subseteq Buffered
    BY <2>2, <2>3, <2>4
  <2>6. s \in ToSet(Drained)
    <3>1. 1 \in 1 .. DrainRoom /\ s = acceptBuf[1]
      BY <1>1, <2>1, <2>2
    <3> QED
      BY <2>2, <2>3, <3>1
  <2> QED
    BY <1>1, <1>5, <2>1, <2>5, <2>6 DEF TiersSound, TierHonest, PopNext
<1> QED
  BY <1>6, <1>7 DEF PopNext

LEMMA PopMatchedSound ==
  ASSUME TiersSound, NEW s \in Slots, NEW k, PopMatched(s, k)
  PROVE  /\ TiersSound'
         /\ s \in Waiting /\ Waiting' = Waiting \ {s}
         /\ tier[s] = "STAGED" /\ Key[s] = k
         /\ UNCHANGED <<closed, tier, disconnected>>
         /\ evicted \subseteq disconnected => evicted' \subseteq disconnected
<1>1. /\ TiersTypeOK /\ TiersTypeOK' /\ TierHonest /\ TierHonest' /\ IsInjective(Line)
      /\ evicted \subseteq disconnected => evicted' \subseteq disconnected
  BY PopMatchedTyped, RemovalTierHonest DEF TiersSound, PopMatched, FlagIfGone
<1>2. PICK j : Inserts(Line', Line, j, s)
  BY <1>1, RemovalDeletes
<1>3. Line \in Seq(Slots) /\ ToSet(Line) = Waiting
  BY <1>1, LineTyped DEF LineOK
<1>4. Line' \in Seq(Slots) /\ ToSet(Line') = Waiting'
  BY <1>1, LineTypedNext DEF LineOK, ToSet
<1>5. Waiting = Waiting' \cup {s} /\ s \notin Waiting' /\ IsInjective(Line')
  BY <1>1, <1>2, <1>3, <1>4, InsertsSets
<1>6. s \in Staged /\ Key[s] = k
  BY <1>1, LenProperties DEF PopMatched, IsFirstMatch, Staged, ToSet, TiersTypeOK
<1> QED
  BY <1>1, <1>5, <1>6 DEF TiersSound, TierHonest, PopMatched

LEMMA CloseSound ==
  ASSUME TiersSound, Close
  PROVE  TiersSound' /\ Waiting' = {} /\ UNCHANGED <<tier, disconnected, evicted>>
<1>1. TiersTypeOK' /\ staging' = <<>> /\ acceptBuf' = <<>>
  BY CloseTyped DEF TiersSound, Close
<1>2. Line' = <<>>
  BY <1>1 DEF Line
<1>3. IsInjective(Line') /\ Staged' = {} /\ Buffered' = {}
  BY <1>1, <1>2 DEF IsInjective, Staged, Buffered, ToSet
<1> QED
  BY <1>1, <1>3 DEF TiersSound, TierHonest, Waiting, Close

LEMMA OthersSound ==
  ASSUME TiersSound, (\E s \in Slots : Disconnect(s)) \/ UNCHANGED queueVars
  PROVE  TiersSound' /\ Waiting' = Waiting /\ UNCHANGED <<closed, tier, evicted>>
<1>1. TiersTypeOK' /\ UNCHANGED <<staging, acceptBuf, closed, tier, evicted>>
  BY CloseTyped DEF TiersSound, Disconnect, queueVars
<1> QED
  BY <1>1 DEF TiersSound, TierHonest, Line, Waiting, Staged, Buffered
==============================================================================
