---------------------- MODULE NotificationOutboxProofs ----------------------
(***************************************************************************)
(* Proofs about NotificationOutbox, for any number of notes, flushes and   *)
(* crashes and any limit of the queue: types, the order of the queue, and  *)
(* that nothing but a race loses a note.                                   *)
(***************************************************************************)
EXTENDS NotificationOutbox, TLAPS

-----------------------------------------------------------------------------
(* Sequences of notes.                                                     *)

LEMMA Numbers ==
    /\ MaxNotes \in Nat \ {0} /\ MaxQueued \in Nat \ {0}
    /\ \A n \in NoteIds : n \in Nat
<1>1. MaxNotes \in Nat \ {0} /\ MaxQueued \in Nat \ {0}
    BY BoundsAssumption
<1> QED
    BY <1>1 DEF NoteIds

Ordered(s) == \A i, j \in DOMAIN s : i < j => s[i] < s[j]

\* Cutting off the front keeps order and what is left.
LEMMA SuffixFacts ==
    ASSUME NEW s \in Seq(NoteIds), NEW n \in 1..Len(s) + 1
    PROVE  LET t == SubSeq(s, n, Len(s)) IN
           /\ t \in Seq(NoteIds) /\ Len(t) = Len(s) - n + 1
           /\ Ordered(s) => Ordered(t)
           /\ Entries(t) \subseteq Entries(s)
<1> DEFINE t == SubSeq(s, n, Len(s))
<1>1. t \in Seq(NoteIds) /\ Len(t) = Len(s) - n + 1 /\ DOMAIN t = 1..Len(s) - n + 1
    OBVIOUS
<1>2. \A i \in DOMAIN t : t[i] = s[i + n - 1] /\ i + n - 1 \in DOMAIN s
    OBVIOUS
<1>3. Ordered(s) => Ordered(t)
    BY <1>1, <1>2 DEF Ordered
<1>4. Entries(t) \subseteq Entries(s)
    BY <1>2 DEF Entries
<1> HIDE DEF t
<1> QED
    BY <1>1, <1>3, <1>4 DEF t

LEMMA TailFacts ==
    ASSUME NEW s \in Seq(NoteIds), s # <<>>
    PROVE  /\ Tail(s) \in Seq(NoteIds) /\ Len(Tail(s)) = Len(s) - 1
           /\ Head(s) \in NoteIds
           /\ Entries(s) = {Head(s)} \cup Entries(Tail(s))
           /\ Ordered(s) => Ordered(Tail(s)) /\ \A i \in DOMAIN Tail(s) : Head(s) < Tail(s)[i]
<1>1. /\ Tail(s) \in Seq(NoteIds) /\ Len(Tail(s)) = Len(s) - 1 /\ Head(s) = s[1]
      /\ Len(s) \in Nat \ {0} /\ Head(s) \in NoteIds
    OBVIOUS
<1>2. \A i \in DOMAIN Tail(s) : Tail(s)[i] = s[i + 1] /\ i + 1 \in DOMAIN s
    BY <1>1
<1>3. Entries(s) \subseteq {Head(s)} \cup Entries(Tail(s))
  <2> SUFFICES ASSUME NEW i \in DOMAIN s PROVE s[i] \in {Head(s)} \cup Entries(Tail(s))
    BY DEF Entries
  <2>1. CASE i = 1
    BY <1>1, <2>1
  <2>2. CASE i # 1
    <3>1. i - 1 \in DOMAIN Tail(s) /\ Tail(s)[i - 1] = s[i]
        BY <1>1, <2>2
    <3> QED
        BY <3>1 DEF Entries
  <2> QED
    BY <2>1, <2>2
<1>4. {Head(s)} \cup Entries(Tail(s)) \subseteq Entries(s)
    BY <1>1, <1>2 DEF Entries
<1>5. Ordered(s) => Ordered(Tail(s)) /\ \A i \in DOMAIN Tail(s) : Head(s) < Tail(s)[i]
    BY <1>1, <1>2 DEF Ordered
<1> QED
    BY <1>1, <1>3, <1>4, <1>5

LEMMA AppendFacts ==
    ASSUME NEW s \in Seq(NoteIds), NEW n \in NoteIds
    PROVE  /\ Append(s, n) \in Seq(NoteIds) /\ Len(Append(s, n)) = Len(s) + 1
           /\ Entries(Append(s, n)) = Entries(s) \cup {n}
           /\ Ordered(s) /\ (\A i \in DOMAIN s : s[i] < n) => Ordered(Append(s, n))
<1>1. /\ Append(s, n) \in Seq(NoteIds) /\ Len(Append(s, n)) = Len(s) + 1 /\ Len(s) \in Nat
      /\ \A i \in DOMAIN s : i \in DOMAIN Append(s, n) /\ Append(s, n)[i] = s[i]
      /\ Append(s, n)[Len(s) + 1] = n
    OBVIOUS
<1>2. DOMAIN Append(s, n) = DOMAIN s \cup {Len(s) + 1}
    BY <1>1
<1>3. Entries(Append(s, n)) = Entries(s) \cup {n}
    BY <1>1, <1>2 DEF Entries
<1>4. Ordered(s) /\ (\A i \in DOMAIN s : s[i] < n) => Ordered(Append(s, n))
    BY <1>1, <1>2 DEF Ordered
<1> QED
    BY <1>1, <1>3, <1>4

\* The newest note fits in with those that make room for it.
LEMMA TrimmedFacts ==
    ASSUME NEW s \in Seq(NoteIds)
    PROVE  /\ Trimmed(s) \in Seq(NoteIds) /\ Len(Trimmed(s)) <= MaxQueued
           /\ Ordered(s) => Ordered(Trimmed(s))
           /\ Entries(Trimmed(s)) \subseteq Entries(s)
<1>1. MaxQueued \in Nat \ {0}
    BY BoundsAssumption
<1>2. CASE Len(s) > MaxQueued
  <2>1. Len(s) - MaxQueued + 1 \in 1..Len(s) + 1
    BY <1>1, <1>2
  <2>2. Trimmed(s) = SubSeq(s, Len(s) - MaxQueued + 1, Len(s))
    BY <1>2 DEF Trimmed
  <2>3. Len(s) - (Len(s) - MaxQueued + 1) + 1 = MaxQueued
    BY <1>1
  <2> QED
    BY <1>1, <2>1, <2>2, <2>3, SuffixFacts
<1>3. CASE ~(Len(s) > MaxQueued)
    BY <1>1, <1>3 DEF Trimmed
<1> QED
    BY <1>2, <1>3

-----------------------------------------------------------------------------
(* Types.                                                                  *)

FlushRecord == [stage : {"idle", "sending"}, queued : Seq(NoteIds),
                left : Seq(NoteIds), stillPending : Seq(NoteIds)]

LEMMA EnqueuedIsANote ==
    ASSUME TypeOK, Enqueue
    PROVE  /\ enqueued + 1 \in NoteIds /\ enqueued \in Nat /\ enqueued' = enqueued + 1
           /\ Append(queue, enqueued + 1) \in Seq(NoteIds)
<1>1. enqueued + 1 \in NoteIds /\ enqueued \in Nat
    BY BoundsAssumption DEF TypeOK, Enqueue, NoteIds
<1> QED
    BY <1>1, AppendFacts DEF TypeOK, Enqueue

LEMMA TypeStep ==
    ASSUME TypeOK, [Next]_vars
    PROVE  TypeOK'
<1>0. flushes \in [Flushes -> FlushRecord] /\ Idle \in FlushRecord
    BY DEF TypeOK, FlushRecord, Idle
<1>1. CASE Enqueue
  <2>1. queue' \in Seq(NoteIds)
    BY <1>1, EnqueuedIsANote, TrimmedFacts DEF Enqueue, Save
  <2>2. enqueued' \in 0..MaxNotes
    BY <1>1, BoundsAssumption DEF Enqueue, TypeOK
  <2>3. dropped' \subseteq NoteIds
    <3>1. Entries(Append(queue, enqueued + 1)) \subseteq NoteIds
        BY <1>1, EnqueuedIsANote DEF Entries
    <3> QED
        BY <1>1, <3>1 DEF Enqueue, TypeOK
  <2> QED
    BY <1>1, <2>1, <2>2, <2>3 DEF Enqueue, Save, TypeOK, outside
<1>2. CASE Crash
    BY <1>0, <1>2 DEF Crash, TypeOK, history, FlushRecord
<1>3. CASE Launch
    BY <1>3 DEF Launch, TypeOK, history
<1>4. ASSUME NEW f \in Flushes, BeginFlush(f) PROVE TypeOK'
    BY <1>4 DEF BeginFlush, TypeOK, outside, history
<1>5. ASSUME NEW f \in Flushes, NEW n \in NoteIds, Delivered(f, n) PROVE TypeOK'
  <2>1. flushes[f].left \in Seq(NoteIds) /\ flushes[f].left # <<>>
    BY <1>5 DEF Delivered, Posts, TypeOK
  <2>2. flushes' \in [Flushes -> FlushRecord]
    BY <1>0, <1>5, <2>1, TailFacts DEF Delivered, FlushRecord
  <2> QED
    BY <1>5, <2>2 DEF Delivered, TypeOK, outside, FlushRecord
<1>6. ASSUME NEW f \in Flushes, NEW n \in NoteIds, NotDelivered(f, n) PROVE TypeOK'
  <2>1. /\ flushes[f].left \in Seq(NoteIds) /\ flushes[f].left # <<>>
        /\ flushes[f].stillPending \in Seq(NoteIds)
    BY <1>6 DEF NotDelivered, Posts, TypeOK
  <2>2. flushes' \in [Flushes -> FlushRecord]
    BY <1>0, <1>6, <2>1, TailFacts, AppendFacts DEF NotDelivered, FlushRecord
  <2> QED
    BY <1>6, <2>2 DEF NotDelivered, TypeOK, outside, FlushRecord
<1>7. ASSUME NEW f \in Flushes, NEW n \in NoteIds, Throws(f, n) PROVE TypeOK'
    BY <1>0, <1>7 DEF Throws, TypeOK, outside, history, FlushRecord
<1>8. ASSUME NEW f \in Flushes, EndFlush(f) PROVE TypeOK'
    BY <1>0, <1>8 DEF EndFlush, Save, TypeOK, outside, history, FlushRecord
<1>9. CASE UNCHANGED vars
    BY <1>9 DEF vars, TypeOK, outside, history
<1> QED
    BY <1>1, <1>2, <1>3, <1>4, <1>5, <1>6, <1>7, <1>8, <1>9 DEF Next, Flush

LEMMA InitiallyTyped ==
    ASSUME Init
    PROVE  TypeOK
<1>1. Idle \in FlushRecord /\ <<>> \in Seq(NoteIds)
    BY DEF Idle, FlushRecord
<1>2. flushes \in [Flushes -> FlushRecord]
    BY <1>1 DEF Init
<1>3. 0 \in 0..MaxNotes
    BY Numbers
<1> QED
    BY <1>1, <1>2, <1>3 DEF Init, TypeOK, FlushRecord

\* The queue and the lists of every flush hold notes, the counters numbers
\* (enqueue, flush).
THEOREM TypeCorrect == Spec => []TypeOK
<1>1. Init => TypeOK
    BY InitiallyTyped
<1>2. TypeOK /\ [Next]_vars => TypeOK'
    BY TypeStep
<1> QED
    BY <1>1, <1>2, PTL DEF Spec

-----------------------------------------------------------------------------
(* Order: what a flush puts back is what it took, in the same order.       *)

Upto(s) == \A i \in DOMAIN s : s[i] <= enqueued

Orderly(flush) ==
    /\ Ordered(flush.left) /\ Ordered(flush.stillPending)
    /\ \A i \in DOMAIN flush.stillPending, j \in DOMAIN flush.left :
          flush.stillPending[i] < flush.left[j]
    /\ Len(flush.stillPending) + Len(flush.left) <= MaxQueued
    /\ Upto(flush.left) /\ Upto(flush.stillPending)

InOrder ==
    /\ TypeOK
    /\ Ordered(queue) /\ Len(queue) <= MaxQueued /\ Upto(queue)
    /\ \A f \in Flushes : Orderly(flushes[f])

LEMMA IdleIsOrderly == Orderly(Idle)
    BY BoundsAssumption DEF Orderly, Idle, Ordered, Upto

LEMMA InOrderStep ==
    ASSUME InOrder, [Next]_vars
    PROVE  InOrder'
<1>0. TypeOK /\ TypeOK'
    BY TypeStep DEF InOrder
<1>1. CASE Enqueue
  <2> DEFINE longer == Append(queue, enqueued + 1)
  <2>1. /\ longer \in Seq(NoteIds) /\ enqueued + 1 \in NoteIds /\ enqueued \in Nat
        /\ enqueued' = enqueued + 1 /\ queue \in Seq(NoteIds)
    BY <1>0, <1>1, EnqueuedIsANote DEF TypeOK
  <2>2. \A i \in DOMAIN queue : queue[i] < enqueued + 1
    <3> SUFFICES ASSUME NEW i \in DOMAIN queue PROVE queue[i] < enqueued + 1
        OBVIOUS
    <3>1. queue[i] <= enqueued
        BY DEF InOrder, Upto
    <3>2. queue[i] \in NoteIds /\ queue[i] \in Nat
      <4>1. queue[i] \in NoteIds
          BY <2>1
      <4> QED
          BY <4>1, Numbers
    <3> QED
        BY <2>1, <3>1, <3>2
  <2>3. Ordered(longer)
    BY <2>1, <2>2, AppendFacts DEF InOrder
  <2>4. Entries(longer) = Entries(queue) \cup {enqueued + 1}
    BY <2>1, AppendFacts
  <2>5. \A n \in Entries(longer) : n <= enqueued + 1
    <3> SUFFICES ASSUME NEW i \in DOMAIN queue PROVE queue[i] <= enqueued + 1
        BY <2>1, <2>4 DEF Entries
    <3>1. queue[i] \in NoteIds
        BY <2>1
    <3> QED
        BY <2>1, <2>2, <3>1, Numbers
  <2> HIDE DEF longer
  <2>6. queue' = Trimmed(longer)
    BY <1>1 DEF Enqueue, Save, longer
  <2>7. Ordered(queue') /\ Len(queue') <= MaxQueued /\ Entries(queue') \subseteq Entries(longer)
    BY <2>1, <2>3, <2>6, TrimmedFacts
  <2>8. \A i \in DOMAIN queue' : queue'[i] <= enqueued'
    BY <2>1, <2>5, <2>7 DEF Entries
  <2>9. ASSUME NEW f \in Flushes PROVE Orderly(flushes[f])'
    <3>1. flushes' = flushes /\ Orderly(flushes[f]) /\ flushes[f] \in FlushRecord
        BY <1>0, <1>1 DEF Enqueue, InOrder, TypeOK, FlushRecord
    <3>2. ASSUME NEW s \in Seq(NoteIds), Upto(s) PROVE \A i \in DOMAIN s : s[i] <= enqueued'
      <4> SUFFICES ASSUME NEW i \in DOMAIN s PROVE s[i] <= enqueued + 1
          BY <2>1
      <4>1. s[i] \in NoteIds /\ s[i] <= enqueued
          BY <3>2 DEF Upto
      <4> QED
          BY <2>1, <4>1, Numbers
    <3> QED
        BY <3>1, <3>2 DEF Orderly, Upto, FlushRecord
  <2> QED
    BY <1>0, <2>7, <2>8, <2>9 DEF InOrder, Upto
<1>2. CASE Crash
    BY <1>0, <1>2, IdleIsOrderly DEF Crash, InOrder, Orderly, Upto, history
<1>3. CASE Launch
    BY <1>0, <1>3 DEF Launch, InOrder, Orderly, Upto, history
<1>4. ASSUME NEW f \in Flushes, BeginFlush(f) PROVE InOrder'
  <2>1. /\ flushes'[f].left = queue /\ flushes'[f].stillPending = <<>>
        /\ \A g \in Flushes : g # f => flushes'[g] = flushes[g]
        /\ UNCHANGED <<queue, enqueued>>
    BY <1>0, <1>4 DEF BeginFlush, TypeOK, history
  <2>2. Orderly(flushes[f])'
    BY <1>0, <2>1 DEF InOrder, Orderly, Ordered, Upto, TypeOK
  <2> QED
    BY <1>0, <2>1, <2>2 DEF InOrder, Orderly, Upto
<1>5. ASSUME NEW f \in Flushes, NEW n \in NoteIds, Delivered(f, n) PROVE InOrder'
  <2>1. /\ flushes'[f].left = Tail(flushes[f].left)
        /\ flushes'[f].stillPending = flushes[f].stillPending
        /\ \A g \in Flushes : g # f => flushes'[g] = flushes[g]
        /\ UNCHANGED <<queue, enqueued>>
    BY <1>0, <1>5 DEF Delivered, TypeOK
  <2>2. flushes[f].left \in Seq(NoteIds) /\ flushes[f].left # <<>>
    BY <1>0, <1>5 DEF Delivered, Posts, TypeOK
  <2>3. /\ Ordered(Tail(flushes[f].left)) /\ Len(Tail(flushes[f].left)) = Len(flushes[f].left) - 1
        /\ Entries(Tail(flushes[f].left)) \subseteq Entries(flushes[f].left)
    BY <2>2, TailFacts DEF InOrder, Orderly
  <2>4. Orderly(flushes[f])'
    <3> DEFINE l == flushes[f].left
               p == flushes[f].stillPending
    <3>1. /\ Orderly(flushes[f]) /\ l \in Seq(NoteIds) /\ p \in Seq(NoteIds)
          /\ Len(l) \in Nat /\ Len(p) \in Nat /\ Len(Tail(l)) \in Nat
        BY <1>0, <2>2 DEF InOrder, TypeOK
    <3> HIDE DEF l, p
    <3>2. Len(p) + Len(Tail(l)) <= MaxQueued
      <4>1. Len(p) + Len(l) <= MaxQueued
          BY <3>1 DEF Orderly, l, p
      <4>2. Len(Tail(l)) = Len(l) - 1
          BY <2>3 DEF l
      <4> QED
          BY <3>1, <4>1, <4>2, Numbers
    <3>3. \A i \in DOMAIN Tail(l) : Tail(l)[i] \in Entries(l)
        BY <2>3 DEF Entries, l
    <3>4. \A x \in Entries(l) : x <= enqueued /\ \A i \in DOMAIN p : p[i] < x
        BY <3>1 DEF Orderly, Upto, Entries, l, p
    <3> QED
        BY <2>1, <2>3, <3>1, <3>2, <3>3, <3>4 DEF Orderly, Upto, l, p
  <2> QED
    BY <1>0, <2>1, <2>4 DEF InOrder, Orderly, Upto
<1>6. ASSUME NEW f \in Flushes, NEW n \in NoteIds, NotDelivered(f, n) PROVE InOrder'
  <2> DEFINE l == flushes[f].left
             p == flushes[f].stillPending
  <2>1. /\ flushes'[f].left = Tail(l) /\ flushes'[f].stillPending = Append(p, n)
        /\ \A g \in Flushes : g # f => flushes'[g] = flushes[g]
        /\ UNCHANGED <<queue, enqueued>>
    BY <1>0, <1>6 DEF NotDelivered, TypeOK
  <2>2. l \in Seq(NoteIds) /\ l # <<>> /\ p \in Seq(NoteIds) /\ n = Head(l) /\ n = l[1]
    BY <1>0, <1>6 DEF NotDelivered, Posts, TypeOK
  <2>3. Orderly(flushes[f])
    BY DEF InOrder
  <2> HIDE DEF l, p
  <2>4. /\ Ordered(Tail(l)) /\ Len(Tail(l)) = Len(l) - 1 /\ Tail(l) \in Seq(NoteIds)
        /\ Entries(l) = {n} \cup Entries(Tail(l))
        /\ \A j \in DOMAIN Tail(l) : n < Tail(l)[j]
    BY <2>2, <2>3, TailFacts DEF Orderly, l
  <2>5. \A i \in DOMAIN p : p[i] < n
    <3>1. 1 \in DOMAIN l
        BY <2>2
    <3> QED
        BY <2>2, <2>3, <3>1 DEF Orderly, l, p
  <2>6. /\ Ordered(Append(p, n)) /\ Len(Append(p, n)) = Len(p) + 1 /\ Append(p, n) \in Seq(NoteIds)
        /\ Entries(Append(p, n)) = Entries(p) \cup {n}
    BY <2>2, <2>3, <2>5, AppendFacts DEF Orderly, p
  <2>7. \A x \in Entries(p) \cup Entries(l) : x <= enqueued
    BY <2>3 DEF Orderly, Upto, Entries, l, p
  <2>8. \A x \in Entries(Append(p, n)), y \in Entries(Tail(l)) : x < y
    <3> SUFFICES ASSUME NEW x \in Entries(Append(p, n)), NEW y \in Entries(Tail(l)) PROVE x < y
        OBVIOUS
    <3>1. n < y /\ y \in Nat /\ n \in Nat
      <4>1. y \in NoteIds /\ n < y
          BY <2>4 DEF Entries
      <4> QED
          BY <4>1, Numbers
    <3>2. x = n \/ (x < n /\ x \in Nat)
      <4>1. x = n \/ (x \in NoteIds /\ x < n)
          BY <2>2, <2>5, <2>6 DEF Entries
      <4> QED
          BY <4>1, Numbers
    <3> QED
        BY <3>1, <3>2
  <2>9. Orderly(flushes[f])'
    <3>1. Len(Append(p, n)) + Len(Tail(l)) <= MaxQueued
      <4>1. Len(p) \in Nat /\ Len(l) \in Nat
          BY <2>2
      <4>2. Len(p) + Len(l) <= MaxQueued
          BY <2>3 DEF Orderly, l, p
      <4> QED
          BY <2>4, <2>6, <4>1, <4>2, Numbers
    <3>2. \A i \in DOMAIN Append(p, n) : Append(p, n)[i] <= enqueued
        BY <2>2, <2>4, <2>6, <2>7 DEF Entries
    <3>3. \A i \in DOMAIN Tail(l) : Tail(l)[i] <= enqueued
        BY <2>4, <2>7 DEF Entries
    <3>4. \A i \in DOMAIN Append(p, n), j \in DOMAIN Tail(l) : Append(p, n)[i] < Tail(l)[j]
        BY <2>8 DEF Entries
    <3> QED
        BY <2>1, <2>4, <2>6, <3>1, <3>2, <3>3, <3>4 DEF Orderly, Upto
  <2> QED
    BY <1>0, <2>1, <2>9 DEF InOrder, Orderly, Upto
<1>7. ASSUME NEW f \in Flushes, NEW n \in NoteIds, Throws(f, n) PROVE InOrder'
  <2>1. /\ flushes'[f] = Idle /\ \A g \in Flushes : g # f => flushes'[g] = flushes[g]
        /\ UNCHANGED <<queue, enqueued>>
    BY <1>0, <1>7 DEF Throws, TypeOK, history
  <2> QED
    BY <1>0, <2>1, IdleIsOrderly DEF InOrder, Orderly, Upto
<1>8. ASSUME NEW f \in Flushes, EndFlush(f) PROVE InOrder'
  <2>1. /\ queue' = flushes[f].stillPending /\ flushes[f].left = <<>>
        /\ flushes'[f] = Idle /\ \A g \in Flushes : g # f => flushes'[g] = flushes[g]
        /\ UNCHANGED enqueued
    BY <1>0, <1>8 DEF EndFlush, Save, TypeOK, history
  <2>2. Orderly(flushes[f]) /\ Len(flushes[f].stillPending) \in Nat
    BY <1>0 DEF InOrder, TypeOK
  <2>3. Ordered(queue') /\ Len(queue') <= MaxQueued /\ Upto(queue)'
    BY <2>1, <2>2 DEF Orderly, Upto
  <2> QED
    BY <1>0, <2>1, <2>3, IdleIsOrderly DEF InOrder, Orderly, Upto
<1>9. CASE UNCHANGED vars
    BY <1>0, <1>9 DEF vars, history, InOrder, Orderly, Upto
<1> QED
    BY <1>1, <1>2, <1>3, <1>4, <1>5, <1>6, <1>7, <1>8, <1>9 DEF Next, Flush

\* However flushes overwrite the queue under each other, it stays in the order in
\* which the notes were enqueued, holds none twice and keeps its limit: for any
\* number of flushes at a time (enqueue, flush).
THEOREM QueueStaysInOrder == Spec => []QueueInOrder
<1>1. Init => InOrder
  <2> SUFFICES ASSUME Init PROVE InOrder
    OBVIOUS
  <2>1. TypeOK
    BY InitiallyTyped
  <2>2. Ordered(queue) /\ Len(queue) <= MaxQueued /\ Upto(queue)
    BY Numbers DEF Init, Ordered, Upto
  <2> QED
    BY <2>1, <2>2, IdleIsOrderly DEF Init, InOrder
<1>2. InOrder /\ [Next]_vars => InOrder'
    BY InOrderStep
<1>3. InOrder => QueueInOrder
    BY DEF InOrder, Ordered, QueueInOrder
<1> QED
    BY <1>1, <1>2, <1>3, PTL DEF Spec

-----------------------------------------------------------------------------
(* Nothing but a race loses a note: while the queue has not changed under  *)
(* a flush, every note of the queue has been received or is still in the   *)
(* hands of each flush under way, so that a save takes none away.          *)

InHands(f) == Entries(flushes[f].left) \cup Entries(flushes[f].stillPending)
Covered(f) == Sending(f) => Entries(queue) \subseteq received \cup InHands(f)

Kept ==
    /\ TypeOK
    /\ KeptUnlessRaced
    /\ raced \/ \A f \in Flushes : Covered(f)

\* A save that is no race changes nothing, or runs under no other flush.
LEMMA SaveFacts ==
    ASSUME NEW s, NEW savers, Save(s, savers), ~raced'
    PROVE  /\ ~raced /\ queue' = s
           /\ s = queue \/ \A f \in Flushes \ savers : ~Sending(f)
    BY DEF Save

LEMMA KeptStep ==
    ASSUME Kept, [Next]_vars
    PROVE  Kept'
<1>0. TypeOK /\ TypeOK'
    BY TypeStep DEF Kept
<1> SUFFICES ASSUME ~raced'
             PROVE  1..enqueued' \subseteq Entries(queue)' \cup received' \cup dropped'
                    /\ \A f \in Flushes : Covered(f)'
    BY <1>0 DEF Kept, KeptUnlessRaced
<1> DEFINE Goal == 1..enqueued' \subseteq Entries(queue)' \cup received' \cup dropped'
                   /\ \A f \in Flushes : Covered(f)'
<1>1. CASE Enqueue
  <2> DEFINE longer == Append(queue, enqueued + 1)
  <2>1. /\ Entries(longer) = Entries(queue) \cup {enqueued + 1}
        /\ enqueued \in Nat /\ enqueued' = enqueued + 1 /\ queue \in Seq(NoteIds)
    BY <1>0, <1>1, EnqueuedIsANote, AppendFacts DEF TypeOK
  <2> HIDE DEF longer
  <2>2. /\ Save(Trimmed(longer), {}) /\ UNCHANGED <<flushes, received>>
        /\ dropped' = dropped \cup (Entries(longer) \ Entries(Trimmed(longer)))
    BY <1>1 DEF Enqueue, longer
  <2>3. /\ ~raced /\ queue' = Trimmed(longer)
        /\ queue' = queue \/ \A f \in Flushes : ~Sending(f)
    BY <2>2, SaveFacts
  <2>4. Entries(longer) \subseteq Entries(queue') \cup dropped' /\ dropped \subseteq dropped'
    BY <2>2, <2>3
  <2>5. 1..enqueued \subseteq Entries(queue) \cup received \cup dropped
    BY <2>3 DEF Kept, KeptUnlessRaced
  <2>6. 1..enqueued' = 1..enqueued \cup {enqueued + 1}
    BY <2>1
  <2>7. 1..enqueued' \subseteq Entries(queue') \cup received' \cup dropped'
    BY <2>1, <2>2, <2>4, <2>5, <2>6
  <2>8. ASSUME NEW f \in Flushes PROVE Covered(f)'
    BY <2>2, <2>3 DEF Kept, Covered, InHands, Sending, Entries
  <2> QED
    BY <2>7, <2>8 DEF Entries
<1>2. CASE Crash
    BY <1>2 DEF Crash, Kept, KeptUnlessRaced, Covered, Sending, Idle, history
<1>3. CASE Launch
    BY <1>3 DEF Launch, Kept, KeptUnlessRaced, Covered, InHands, Sending, history
<1>4. ASSUME NEW f \in Flushes, BeginFlush(f) PROVE Goal
  <2>1. /\ flushes'[f].left = queue /\ \A g \in Flushes : g # f => flushes'[g] = flushes[g]
        /\ UNCHANGED <<queue, enqueued, received, dropped, raced>>
    BY <1>0, <1>4 DEF BeginFlush, TypeOK, history
  <2> QED
    BY <2>1 DEF Kept, KeptUnlessRaced, Covered, InHands, Sending
<1>5. ASSUME NEW f \in Flushes, NEW n \in NoteIds, Delivered(f, n) PROVE Goal
  <2>1. /\ flushes'[f].left = Tail(flushes[f].left)
        /\ flushes'[f].stillPending = flushes[f].stillPending /\ Sending(f)
        /\ \A g \in Flushes : g # f => flushes'[g] = flushes[g]
        /\ received' = received \cup {n} /\ UNCHANGED <<queue, enqueued, dropped, raced>>
    BY <1>0, <1>5 DEF Delivered, Posts, TypeOK
  <2>2. Entries(flushes[f].left) = {n} \cup Entries(Tail(flushes[f].left))
    BY <1>0, <1>5, TailFacts DEF Delivered, Posts, TypeOK
  <2> QED
    BY <2>1, <2>2 DEF Kept, KeptUnlessRaced, Covered, InHands, Sending
<1>6. ASSUME NEW f \in Flushes, NEW n \in NoteIds, NotDelivered(f, n) PROVE Goal
  <2>1. /\ flushes'[f].left = Tail(flushes[f].left) /\ Sending(f)
        /\ flushes'[f].stillPending = Append(flushes[f].stillPending, n)
        /\ \A g \in Flushes : g # f => flushes'[g] = flushes[g]
        /\ received \subseteq received' /\ UNCHANGED <<queue, enqueued, dropped, raced>>
    BY <1>0, <1>6 DEF NotDelivered, Posts, TypeOK
  <2>2. Entries(flushes[f].left) = {n} \cup Entries(Tail(flushes[f].left))
    BY <1>0, <1>6, TailFacts DEF NotDelivered, Posts, TypeOK
  <2>3. Entries(Append(flushes[f].stillPending, n)) = Entries(flushes[f].stillPending) \cup {n}
    BY <1>0, AppendFacts DEF TypeOK
  <2> QED
    BY <2>1, <2>2, <2>3 DEF Kept, KeptUnlessRaced, Covered, InHands, Sending
<1>7. ASSUME NEW f \in Flushes, NEW n \in NoteIds, Throws(f, n) PROVE Goal
  <2>1. /\ flushes'[f] = Idle /\ \A g \in Flushes : g # f => flushes'[g] = flushes[g]
        /\ UNCHANGED <<queue, enqueued, received, dropped, raced>>
    BY <1>0, <1>7 DEF Throws, TypeOK, history
  <2> QED
    BY <2>1 DEF Kept, KeptUnlessRaced, Covered, InHands, Sending, Idle
<1>8. ASSUME NEW f \in Flushes, EndFlush(f) PROVE Goal
  <2>1. /\ Save(flushes[f].stillPending, {f}) /\ Sending(f) /\ flushes[f].left = <<>>
        /\ flushes'[f] = Idle /\ \A g \in Flushes : g # f => flushes'[g] = flushes[g]
        /\ UNCHANGED <<enqueued, received, dropped>>
    BY <1>0, <1>8 DEF EndFlush, TypeOK, history
  <2>2. /\ ~raced /\ queue' = flushes[f].stillPending
        /\ queue' = queue \/ \A g \in Flushes \ {f} : ~Sending(g)
    BY <2>1, SaveFacts
  <2>3. Entries(<<>>) = {}
    BY DEF Entries
  <2>4. Entries(queue) \subseteq received \cup Entries(queue')
    BY <2>1, <2>2, <2>3 DEF Kept, Covered, InHands
  <2>5. 1..enqueued \subseteq Entries(queue) \cup received \cup dropped
    BY <2>2 DEF Kept, KeptUnlessRaced
  <2>6. ASSUME NEW g \in Flushes PROVE Covered(g)'
    BY <2>1, <2>2 DEF Kept, Covered, InHands, Sending, Idle, Entries
  <2> QED
    BY <2>1, <2>4, <2>5, <2>6 DEF Entries
<1>9. CASE UNCHANGED vars
    BY <1>9 DEF vars, history, Kept, KeptUnlessRaced, Covered, InHands, Sending
<1> QED
    BY <1>1, <1>2, <1>3, <1>4, <1>5, <1>6, <1>7, <1>8, <1>9 DEF Next, Flush

\* Neither a crash, nor an unreachable partner, nor an answer that is lost, nor an
\* address that ends a flush loses a note, however many flushes there are: only a
\* queue that changes under a flush does (enqueue, flush).
THEOREM NothingElseLosesANote == Spec => []KeptUnlessRaced
<1>1. Init => Kept
  <2> SUFFICES ASSUME Init PROVE Kept
    OBVIOUS
  <2>1. KeptUnlessRaced
    BY DEF Init, KeptUnlessRaced
  <2>2. \A f \in Flushes : Covered(f)
    BY DEF Init, Covered, Sending, Idle
  <2> QED
    BY <2>1, <2>2, InitiallyTyped DEF Kept
<1>2. Kept /\ [Next]_vars => Kept'
    BY KeptStep
<1>3. Kept => KeptUnlessRaced
    BY DEF Kept
<1> QED
    BY <1>1, <1>2, <1>3, PTL DEF Spec

=============================================================================
