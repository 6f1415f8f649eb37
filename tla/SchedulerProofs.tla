---------------------------- MODULE SchedulerProofs ----------------------------
(***************************************************************************)
(* Proofs about the event queue and the scheduler.  First, for any size of *)
(* the buffer and any element type, class Queue implements the lossy       *)
(* first-in first-out queue.  Then, for any timers, settings and services, *)
(* what the scheduler does with the events of its sources.                 *)
(***************************************************************************)
EXTENDS Scheduler, NumberLemmas, SequenceTheorems, FiniteSetTheorems, FunctionTheorems,
        TLAPS

-----------------------------------------------------------------------------
(* The positions of a queue *)

\* Slot(q, index) lies size - index slots behind the writer, cyclically.
LEMMA SlotValue ==
  ASSUME NEW q \in Queues, NEW index \in Nat, index <= q.size
  PROVE  /\ Slot(q, index) \in Slots
         /\ Slot(q, index) = IF q.size - index <= q.write
                               THEN q.write - (q.size - index)
                               ELSE QueueSize + q.write - (q.size - index)
<1> DEFINE x == QueueSize + q.write - q.size + index
<1>1. /\ QueueSize \in Nat /\ QueueSize > 0
      /\ q.write \in Nat /\ q.write < QueueSize
      /\ q.size \in Nat /\ q.size <= QueueSize
  BY QueueAssumption DEF Queues, Slots
<1>2. x \in Nat /\ x < 2 * QueueSize
  BY <1>1
<1>3. x % QueueSize = IF x < QueueSize THEN x ELSE x - QueueSize
  <2> HIDE DEF x
  <2> QED
    BY <1>1, <1>2, ModSmall
<1>4. Slot(q, index) = IF x < QueueSize THEN x ELSE x - QueueSize
  BY <1>3 DEF Slot
<1>5. QED
  BY <1>1, <1>4 DEF Slots

\* The writer's next position.
LEMMA NextWrite ==
  ASSUME NEW w \in Slots
  PROVE  /\ (w + 1) % QueueSize \in Slots
         /\ (w + 1) % QueueSize = IF w + 1 = QueueSize THEN 0 ELSE w + 1
<1> DEFINE x == w + 1
<1>1. QueueSize \in Nat /\ QueueSize > 0 /\ w \in Nat /\ w < QueueSize
  BY QueueAssumption DEF Slots
<1>2. x \in Nat /\ x < 2 * QueueSize
  BY <1>1
<1>3. x % QueueSize = IF x < QueueSize THEN x ELSE x - QueueSize
  <2> HIDE DEF x
  <2> QED
    BY <1>1, <1>2, ModSmall
<1>4. QED
  BY <1>1, <1>3 DEF Slots

\* What a slot can hold.
Cells == Elements \cup {Garbage}

\* The indices of the elements a caller can reach, from the oldest on.
Indices(q) == 0 .. q.size - 1

LEMMA QueueNumbers ==
  ASSUME NEW q \in Queues
  PROVE  /\ QueueSize \in Nat /\ QueueSize > 0
         /\ q.write \in Nat /\ q.write < QueueSize /\ q.write \in Slots
         /\ q.size \in Nat /\ q.size <= QueueSize
         /\ q.max \in Nat /\ q.max <= QueueSize /\ q.overflow \in Nat
         /\ q.array \in [Slots -> Cells]
  BY QueueAssumption DEF Queues, Slots, Cells

LEMMA FinitelyMany ==
  ASSUME NEW q \in Queues
  PROVE  IsFiniteSet(Indices(q)) /\ IsFiniteSet(0 .. q.size - 2)
<1>1. 0 \in Int /\ q.size - 1 \in Int /\ q.size - 2 \in Int
  BY QueueNumbers
<1> QED
  BY <1>1, FS_Interval DEF Indices

LEMMA AtCell ==
  ASSUME NEW q \in Queues, NEW n \in Indices(q)
  PROVE  At(q, n) \in Cells
<1>1. n \in Nat /\ n <= q.size
  BY QueueNumbers DEF Indices
<1>2. Slot(q, n) \in Slots
  BY <1>1, SlotValue
<1> QED
  BY <1>2, QueueNumbers DEF At

LEMMA PushedType ==
  ASSUME NEW q \in Queues, NEW val \in Elements
  PROVE  /\ Pushed(q, val) \in Queues
         /\ Pushed(q, val).array = [q.array EXCEPT ![q.write] = val]
         /\ Pushed(q, val).write = IF q.write + 1 = QueueSize THEN 0 ELSE q.write + 1
         /\ Pushed(q, val).size = IF q.size = QueueSize THEN q.size ELSE q.size + 1
         /\ Pushed(q, val).overflow = IF q.size = QueueSize THEN q.overflow + 1 ELSE q.overflow
<1>1. /\ q.write \in Slots
      /\ (q.write + 1) % QueueSize \in Slots
      /\ (q.write + 1) % QueueSize = IF q.write + 1 = QueueSize THEN 0 ELSE q.write + 1
  BY NextWrite DEF Queues
<1>2. [q.array EXCEPT ![q.write] = val] \in [Slots -> Elements \cup {Garbage}]
  BY <1>1 DEF Queues
<1>3. QED
  BY <1>1, <1>2, QueueAssumption DEF Pushed, Queues

\* push() puts the value at the end and keeps what is there, but for the oldest element
\* of a full buffer.
LEMMA PushedAt ==
  ASSUME NEW q \in Queues, NEW val \in Elements
  PROVE  LET r == Pushed(q, val)
         IN  /\ At(r, r.size - 1) = val
             /\ \A n \in 0 .. r.size - 2 :
                  At(r, n) = At(q, IF q.size = QueueSize THEN n + 1 ELSE n)
<1> DEFINE r == Pushed(q, val)
<1>1. /\ r \in Queues
      /\ r.size = IF q.size = QueueSize THEN q.size ELSE q.size + 1
      /\ r.array = [q.array EXCEPT ![q.write] = val]
      /\ r.write = IF q.write + 1 = QueueSize THEN 0 ELSE q.write + 1
  BY PushedType
<1> HIDE DEF r
<1>2. /\ QueueSize \in Nat /\ QueueSize > 0 /\ q.write \in Nat /\ q.write < QueueSize
      /\ q.size \in Nat /\ q.size <= QueueSize /\ q.write \in Slots
      /\ q.array \in [Slots -> Cells]
      /\ r.size \in Nat /\ r.size > 0 /\ r.write \in Nat
  BY <1>1, QueueNumbers
<1>3. At(r, r.size - 1) = val
  <2>1. r.size - 1 \in Nat /\ r.size - 1 <= r.size
    BY <1>2
  <2>2. Slot(r, r.size - 1) = IF r.size - (r.size - 1) <= r.write
                                THEN r.write - (r.size - (r.size - 1))
                                ELSE QueueSize + r.write - (r.size - (r.size - 1))
    BY <1>1, <2>1, SlotValue
  <2>3. Slot(r, r.size - 1) = q.write
    BY <1>1, <1>2, <2>2
  <2> QED
    BY <1>1, <1>2, <2>3 DEF At
<1>4. ASSUME NEW n \in 0 .. r.size - 2
      PROVE  At(r, n) = At(q, IF q.size = QueueSize THEN n + 1 ELSE n)
  <2> DEFINE m == IF q.size = QueueSize THEN n + 1 ELSE n
  <2>1. /\ n \in Nat /\ n <= r.size /\ m \in Nat /\ m < q.size
        /\ q.size - m = r.size - n - 1 /\ q.size - m >= 1
    BY <1>1, <1>2
  <2> HIDE DEF m
  <2>2. /\ Slot(q, m) \in Slots
        /\ Slot(q, m) = IF q.size - m <= q.write THEN q.write - (q.size - m)
                                              ELSE QueueSize + q.write - (q.size - m)
    BY <1>2, <2>1, SlotValue
  <2>3. Slot(r, n) = IF r.size - n <= r.write THEN r.write - (r.size - n)
                                              ELSE QueueSize + r.write - (r.size - n)
    BY <1>1, <2>1, SlotValue
  <2> DEFINE d == q.size - m
  <2>4. /\ d \in Nat /\ d >= 1 /\ d <= QueueSize /\ r.size - n = d + 1
        /\ Slot(q, m) = IF d <= q.write THEN q.write - d ELSE QueueSize + q.write - d
    BY <1>2, <2>1, <2>2
  <2>5. d # QueueSize
    BY <1>1, <1>2, <2>1 DEF m
  <2> HIDE DEF d
  <2>6. Slot(q, m) # q.write
    BY <1>2, <2>4, <2>5
  <2>7. Slot(r, n) = Slot(q, m)
    BY <1>1, <1>2, <2>3, <2>4, <2>5
  <2>8. At(r, n) = At(q, m)
    BY <1>1, <1>2, <2>2, <2>6, <2>7 DEF At
  <2> QED
    BY <2>8 DEF m
<1> QED
  BY <1>3, <1>4 DEF r

\* pop() keeps all but the oldest element.
LEMMA PoppedAt ==
  ASSUME NEW q \in Queues, q.size > 0
  PROVE  LET r == Popped(q)
         IN  /\ r \in Queues /\ r.size = q.size - 1 /\ r.overflow = q.overflow
             /\ r.max = q.max
             /\ \A n \in Indices(r) : At(r, n) = At(q, n + 1)
<1> DEFINE r == Popped(q)
<1>1. /\ r \in Queues /\ r.size = q.size - 1 /\ r.overflow = q.overflow /\ r.max = q.max
      /\ r.array = q.array /\ r.write = q.write
  BY QueueAssumption DEF Queues, Popped
<1> HIDE DEF r
<1>2. ASSUME NEW n \in Indices(r) PROVE At(r, n) = At(q, n + 1)
  <2>1. n \in Nat /\ q.size \in Nat /\ QueueSize \in Nat /\ q.write \in Nat
    BY <1>1, QueueNumbers DEF Indices
  <2>2. QueueSize + r.write - r.size + n = QueueSize + q.write - q.size + (n + 1)
    BY <1>1, <2>1
  <2> QED
    BY <1>1, <2>2 DEF At, Slot
<1> QED
  BY <1>1, <1>2 DEF r

\* Assigning through operator[] changes that element and no other.
LEMMA AssignedAt ==
  ASSUME NEW q \in Queues, NEW index \in Indices(q), NEW val \in Cells
  PROVE  LET r == Assigned(q, index, val)
         IN  /\ r \in Queues /\ r.size = q.size /\ r.overflow = q.overflow
             /\ r.max = q.max
             /\ \A n \in Indices(q) : At(r, n) = IF n = index THEN val ELSE At(q, n)
<1> DEFINE r == Assigned(q, index, val)
<1>1. /\ QueueSize \in Nat /\ q.write \in Nat /\ q.write < QueueSize
      /\ q.size \in Nat /\ q.size <= QueueSize /\ q.array \in [Slots -> Cells]
      /\ index \in Nat /\ index < q.size
  BY QueueNumbers DEF Indices
<1>2. /\ Slot(q, index) \in Slots
      /\ Slot(q, index) = IF q.size - index <= q.write
                             THEN q.write - (q.size - index)
                             ELSE QueueSize + q.write - (q.size - index)
  BY <1>1, SlotValue
<1>3. /\ r \in Queues /\ r.size = q.size /\ r.write = q.write
      /\ r.overflow = q.overflow /\ r.max = q.max
      /\ r.array = [q.array EXCEPT ![Slot(q, index)] = val]
  <2>1. [q.array EXCEPT ![Slot(q, index)] = val] \in [Slots -> Elements \cup {Garbage}]
    BY <1>1, <1>2 DEF Cells
  <2>2. r = [q EXCEPT !.array = [q.array EXCEPT ![Slot(q, index)] = val]]
    BY DEF Assigned
  <2> HIDE DEF r
  <2>3. QED
    BY <2>1, <2>2 DEF Queues
<1> HIDE DEF r
<1>4. ASSUME NEW n \in Indices(q) PROVE At(r, n) = IF n = index THEN val ELSE At(q, n)
  <2>1. n \in Nat /\ n < q.size
    BY <1>1 DEF Indices
  <2>2. Slot(r, n) = Slot(q, n) /\ Slot(q, n) \in Slots
    BY <1>1, <1>3, <2>1, SlotValue DEF Slot
  <2>3. Slot(q, n) = IF q.size - n <= q.write THEN q.write - (q.size - n)
                                              ELSE QueueSize + q.write - (q.size - n)
    BY <1>1, <2>1, SlotValue
  <2>4. Slot(q, n) = Slot(q, index) <=> n = index
    BY <1>1, <1>2, <2>1, <2>3
  <2> QED
    BY <1>1, <1>2, <1>3, <2>2, <2>4 DEF At
<1> QED
  BY <1>3, <1>4 DEF r

\* std::swap() on two elements exchanges these and keeps the others.
LEMMA SwappedAt ==
  ASSUME NEW q \in Queues, NEW a \in Indices(q), NEW b \in Indices(q)
  PROVE  LET r == Swapped(q, a, b)
         IN  /\ r \in Queues /\ r.size = q.size /\ r.overflow = q.overflow
             /\ r.max = q.max
             /\ \A n \in Indices(q) :
                  At(r, n) = At(q, IF n = b THEN a ELSE IF n = a THEN b ELSE n)
<1> DEFINE p == Assigned(q, a, At(q, b))
           r == Assigned(p, b, At(q, a))
<1>1. At(q, a) \in Cells /\ At(q, b) \in Cells
  BY AtCell
<1>2. /\ p \in Queues /\ p.size = q.size /\ p.overflow = q.overflow /\ p.max = q.max
      /\ \A n \in Indices(q) : At(p, n) = IF n = a THEN At(q, b) ELSE At(q, n)
  BY <1>1, AssignedAt
<1> HIDE DEF p
<1>3. Indices(p) = Indices(q)
  BY <1>2 DEF Indices
<1>4. /\ r \in Queues /\ r.size = p.size /\ r.overflow = p.overflow /\ r.max = p.max
      /\ \A n \in Indices(p) : At(r, n) = IF n = b THEN At(q, a) ELSE At(p, n)
  BY <1>1, <1>2, <1>3, AssignedAt
<1>5. r = Swapped(q, a, b)
  BY DEF Swapped, p
<1> HIDE DEF r
<1> QED
  BY <1>2, <1>3, <1>4, <1>5

-----------------------------------------------------------------------------
(***************************************************************************)
(* What the member functions do to the elements a caller can reach.        *)
(***************************************************************************)

LEMMA ContentsSeq ==
  ASSUME NEW q \in Queues
  PROVE  /\ Contents(q) \in Seq(Cells)
         /\ Len(Contents(q)) = q.size /\ q.size \in Nat
         /\ \A n \in 1 .. q.size : Contents(q)[n] = At(q, n - 1)
<1>1. q.size \in Nat
  BY QueueNumbers
<1>2. ASSUME NEW n \in 1 .. q.size PROVE At(q, n - 1) \in Cells
  <2>1. n - 1 \in Indices(q)
    BY <1>1 DEF Indices
  <2>2. QED
    BY <2>1, AtCell
<1>3. Contents(q) \in [1 .. q.size -> Cells]
  BY <1>2 DEF Contents
<1>4. Contents(q) \in Seq(Cells)
  BY <1>1, <1>3, SeqDef
<1>5. Len(Contents(q)) = q.size
  BY <1>1, <1>3, <1>4, LenProperties
<1>6. QED
  BY <1>1, <1>4, <1>5 DEF Contents

\* push() below the limit appends.
LEMMA PushAppends ==
  ASSUME NEW q \in Queues, NEW val \in Elements, q.size # QueueSize
  PROVE  Contents(Pushed(q, val)) = Append(Contents(q), val)
<1> DEFINE r == Pushed(q, val)
           C == Contents(q)
           D == Contents(r)
           E == Append(C, val)
<1>1. /\ r \in Queues /\ r.size = q.size + 1 /\ q.size \in Nat
      /\ At(r, q.size) = val
      /\ \A n \in 0 .. q.size - 1 : At(r, n) = At(q, n)
  <2>1. r \in Queues /\ r.size = q.size + 1 /\ q.size \in Nat
    <3>1. /\ Pushed(q, val) \in Queues
          /\ Pushed(q, val).size = IF q.size = QueueSize THEN q.size ELSE q.size + 1
      BY PushedType
    <3> QED
      BY <3>1, QueueNumbers
  <2>2. /\ At(r, r.size - 1) = val
        /\ \A n \in 0 .. r.size - 2 : At(r, n) = At(q, n)
    BY PushedAt
  <2> HIDE DEF r
  <2>3. r.size - 1 = q.size /\ r.size - 2 = q.size - 1
    BY <2>1
  <2> QED
    BY <2>1, <2>2, <2>3
<1> HIDE DEF r
<1>2. /\ C \in Seq(Cells) /\ Len(C) = q.size
      /\ \A n \in 1 .. q.size : C[n] = At(q, n - 1)
  BY ContentsSeq
<1>3. /\ D \in Seq(Cells) /\ Len(D) = q.size + 1
      /\ \A n \in 1 .. q.size + 1 : D[n] = At(r, n - 1)
  BY <1>1, ContentsSeq
<1> HIDE DEF C, D
<1>4. /\ E \in Seq(Cells) /\ Len(E) = q.size + 1
      /\ \A n \in 1 .. q.size : E[n] = C[n]
      /\ E[q.size + 1] = val
  BY <1>2, AppendProperties DEF Cells
<1> HIDE DEF E
<1>5. ASSUME NEW n \in 1 .. Len(D) PROVE D[n] = E[n]
  <2>1. CASE n = q.size + 1
    BY <1>1, <1>3, <1>4, <2>1
  <2>2. CASE n # q.size + 1
    <3>1. n \in 1 .. q.size /\ n - 1 \in 0 .. q.size - 1 /\ n \in 1 .. q.size + 1
      BY <1>1, <1>3, <2>2
    <3> QED
      BY <1>1, <1>2, <1>3, <1>4, <3>1
  <2> QED
    BY <2>1, <2>2
<1> QED
  BY <1>3, <1>4, <1>5, SeqEqual DEF C, D, E, r

\* push() into a full buffer drops the oldest element and appends.
LEMMA PushDrops ==
  ASSUME NEW q \in Queues, NEW val \in Elements, q.size = QueueSize
  PROVE  /\ Contents(q) # << >>
         /\ Contents(Pushed(q, val)) = Append(Tail(Contents(q)), val)
<1> DEFINE r == Pushed(q, val)
           C == Contents(q)
           D == Contents(r)
           E == Append(Tail(C), val)
<1>1. /\ r \in Queues /\ r.size = q.size /\ q.size \in Nat /\ q.size > 0
      /\ At(r, q.size - 1) = val
      /\ \A n \in 0 .. q.size - 2 : At(r, n) = At(q, n + 1)
  <2>1. /\ Pushed(q, val) \in Queues
        /\ Pushed(q, val).size = IF q.size = QueueSize THEN q.size ELSE q.size + 1
    BY PushedType
  <2>2. /\ At(r, r.size - 1) = val
        /\ \A n \in 0 .. r.size - 2 : At(r, n) = At(q, n + 1)
    BY PushedAt
  <2> QED
    BY <2>1, <2>2, QueueNumbers
<1> HIDE DEF r
<1>2. /\ C \in Seq(Cells) /\ Len(C) = q.size
      /\ \A n \in 1 .. q.size : C[n] = At(q, n - 1)
  BY ContentsSeq
<1>3. /\ D \in Seq(Cells) /\ Len(D) = q.size
      /\ \A n \in 1 .. q.size : D[n] = At(r, n - 1)
  BY <1>1, ContentsSeq
<1> HIDE DEF C, D
<1>4. C # << >>
  BY <1>1, <1>2
<1>5. /\ E \in Seq(Cells) /\ Len(E) = q.size
      /\ \A n \in 1 .. q.size - 1 : E[n] = C[n + 1]
      /\ E[q.size] = val
  <2>1. /\ Tail(C) \in Seq(Cells) /\ Len(Tail(C)) = q.size - 1
        /\ \A n \in 1 .. q.size - 1 : Tail(C)[n] = C[n + 1]
    BY <1>2, <1>4, HeadTailProperties
  <2>2. /\ E \in Seq(Cells) /\ Len(E) = Len(Tail(C)) + 1
        /\ \A n \in 1 .. Len(Tail(C)) : E[n] = Tail(C)[n]
        /\ E[Len(Tail(C)) + 1] = val
    BY <2>1, AppendProperties DEF Cells
  <2> HIDE DEF E
  <2> QED
    BY <1>1, <2>1, <2>2
<1> HIDE DEF E
<1>6. ASSUME NEW n \in 1 .. Len(D) PROVE D[n] = E[n]
  <2>1. CASE n = q.size
    BY <1>1, <1>3, <1>5, <2>1
  <2>2. CASE n # q.size
    <3>1. /\ n \in 1 .. q.size - 1 /\ n \in 1 .. q.size /\ n + 1 \in 1 .. q.size
          /\ n - 1 \in 0 .. q.size - 2 /\ (n - 1) + 1 = (n + 1) - 1
      BY <1>1, <1>3, <2>2
    <3>2. D[n] = At(r, n - 1) /\ C[n + 1] = At(q, (n + 1) - 1) /\ E[n] = C[n + 1]
      BY <1>2, <1>3, <1>5, <3>1
    <3>3. At(r, n - 1) = At(q, (n - 1) + 1)
      BY <1>1, <3>1
    <3> QED
      BY <3>1, <3>2, <3>3
  <2> QED
    BY <2>1, <2>2
<1> QED
  BY <1>3, <1>4, <1>5, <1>6, SeqEqual DEF C, D, E, r

\* pop() takes the oldest element.
LEMMA PopTakesHead ==
  ASSUME NEW q \in Queues, q.size > 0
  PROVE  /\ Contents(q) # << >>
         /\ Oldest(q) = Head(Contents(q))
         /\ Contents(Popped(q)) = Tail(Contents(q))
<1> DEFINE r == Popped(q)
           C == Contents(q)
           D == Contents(r)
<1>1. /\ r \in Queues /\ r.size = q.size - 1
      /\ \A n \in Indices(r) : At(r, n) = At(q, n + 1)
  BY PoppedAt
<1> HIDE DEF r
<1>2. /\ C \in Seq(Cells) /\ Len(C) = q.size /\ q.size \in Nat
      /\ \A n \in 1 .. q.size : C[n] = At(q, n - 1)
  BY ContentsSeq
<1>3. /\ D \in Seq(Cells) /\ Len(D) = q.size - 1
      /\ \A n \in 1 .. q.size - 1 : D[n] = At(r, n - 1)
  BY <1>1, ContentsSeq
<1> HIDE DEF C, D
<1>4. C # << >>
  BY <1>2
<1>5. Oldest(q) = Head(C)
  <2>1. C[1] = At(q, 1 - 1) /\ 1 - 1 = 0
    BY <1>2
  <2>2. Head(C) = C[1]
    BY <1>2, <1>4
  <2>3. QED
    BY <2>1, <2>2 DEF Oldest
<1>6. /\ Tail(C) \in Seq(Cells) /\ Len(Tail(C)) = q.size - 1
      /\ \A n \in 1 .. q.size - 1 : Tail(C)[n] = C[n + 1]
  BY <1>2, <1>4, HeadTailProperties
<1>7. ASSUME NEW n \in 1 .. Len(D) PROVE D[n] = Tail(C)[n]
  <2>1. /\ n \in 1 .. q.size - 1 /\ n + 1 \in 1 .. q.size /\ (n - 1) + 1 = (n + 1) - 1
        /\ n - 1 \in Indices(r)
    BY <1>1, <1>2, <1>3 DEF Indices
  <2>2. D[n] = At(r, n - 1) /\ Tail(C)[n] = C[n + 1] /\ C[n + 1] = At(q, (n + 1) - 1)
    BY <1>2, <1>3, <1>6, <2>1
  <2>3. At(r, n - 1) = At(q, (n - 1) + 1)
    BY <1>1, <2>1
  <2>4. QED
    BY <2>1, <2>2, <2>3
<1> QED
  BY <1>3, <1>4, <1>5, <1>6, <1>7, SeqEqual DEF C, D, r

\* Assigning through operator[] replaces that element and no other.
LEMMA AssignReplaces ==
  ASSUME NEW q \in Queues, NEW index \in Indices(q), NEW val \in Elements
  PROVE  Contents(Assigned(q, index, val)) = [Contents(q) EXCEPT ![index + 1] = val]
<1> DEFINE r == Assigned(q, index, val)
           C == Contents(q)
           D == Contents(r)
           E == [C EXCEPT ![index + 1] = val]
<1>1. /\ r \in Queues /\ r.size = q.size
      /\ \A n \in Indices(q) : At(r, n) = IF n = index THEN val ELSE At(q, n)
  BY AssignedAt DEF Cells
<1> HIDE DEF r
<1>2. /\ C \in Seq(Cells) /\ Len(C) = q.size /\ q.size \in Nat
      /\ \A n \in 1 .. q.size : C[n] = At(q, n - 1)
  BY ContentsSeq
<1>3. /\ D \in Seq(Cells) /\ Len(D) = q.size
      /\ \A n \in 1 .. q.size : D[n] = At(r, n - 1)
  BY <1>1, ContentsSeq
<1> HIDE DEF C, D
<1>4. val \in Cells /\ index + 1 \in 1 .. q.size /\ index \in Nat
  BY <1>2 DEF Cells, Indices
<1>5. /\ E \in Seq(Cells) /\ Len(E) = q.size
      /\ \A n \in 1 .. q.size : E[n] = IF n = index + 1 THEN val ELSE C[n]
  BY <1>2, <1>4, ExceptSeq
<1> HIDE DEF E
<1>6. ASSUME NEW n \in 1 .. Len(D) PROVE D[n] = E[n]
  <2>1. n \in 1 .. q.size /\ n - 1 \in Indices(q) /\ (n - 1 = index <=> n = index + 1)
    BY <1>2, <1>3, <1>4 DEF Indices
  <2> QED
    BY <1>1, <1>2, <1>3, <1>5, <2>1
<1> QED
  BY <1>3, <1>5, <1>6, SeqEqual DEF C, D, E, r

\* std::swap() exchanges the two elements.
LEMMA SwapExchanges ==
  ASSUME NEW q \in Queues, NEW a \in Indices(q), NEW b \in Indices(q)
  PROVE  LET C == Contents(q)
         IN  Contents(Swapped(q, a, b)) = [C EXCEPT ![a + 1] = C[b + 1], ![b + 1] = C[a + 1]]
<1> DEFINE r == Swapped(q, a, b)
           C == Contents(q)
           D == Contents(r)
           F == [C EXCEPT ![a + 1] = C[b + 1]]
           E == [F EXCEPT ![b + 1] = C[a + 1]]
<1>1. /\ r \in Queues /\ r.size = q.size
      /\ \A n \in Indices(q) : At(r, n) = At(q, IF n = b THEN a ELSE IF n = a THEN b ELSE n)
  BY SwappedAt
<1> HIDE DEF r
<1>2. /\ C \in Seq(Cells) /\ Len(C) = q.size /\ q.size \in Nat
      /\ \A n \in 1 .. q.size : C[n] = At(q, n - 1)
  BY ContentsSeq
<1>3. /\ D \in Seq(Cells) /\ Len(D) = q.size
      /\ \A n \in 1 .. q.size : D[n] = At(r, n - 1)
  BY <1>1, ContentsSeq
<1> HIDE DEF C, D
<1>4. /\ a + 1 \in 1 .. q.size /\ b + 1 \in 1 .. q.size /\ a \in Nat /\ b \in Nat
      /\ C[a + 1] \in Cells /\ C[b + 1] \in Cells
      /\ C[a + 1] = At(q, a) /\ C[b + 1] = At(q, b)
  <2>1. /\ a + 1 \in 1 .. q.size /\ b + 1 \in 1 .. q.size /\ a \in Nat /\ b \in Nat
        /\ (a + 1) - 1 = a /\ (b + 1) - 1 = b
    BY <1>2 DEF Indices
  <2>2. C[a + 1] = At(q, a) /\ C[b + 1] = At(q, b)
    BY <1>2, <2>1
  <2> QED
    BY <2>1, <2>2, AtCell
<1>5. /\ F \in Seq(Cells) /\ Len(F) = q.size
      /\ \A n \in 1 .. q.size : F[n] = IF n = a + 1 THEN C[b + 1] ELSE C[n]
  BY <1>2, <1>4, ExceptSeq
<1> HIDE DEF F
<1>6. /\ E \in Seq(Cells) /\ Len(E) = q.size
      /\ \A n \in 1 .. q.size : E[n] = IF n = b + 1 THEN C[a + 1] ELSE F[n]
  BY <1>4, <1>5, ExceptSeq
<1>7. E = [C EXCEPT ![a + 1] = C[b + 1], ![b + 1] = C[a + 1]]
  BY DEF F
<1> HIDE DEF E
<1>8. ASSUME NEW n \in 1 .. Len(D) PROVE D[n] = E[n]
  <2>1. /\ n \in 1 .. q.size /\ n - 1 \in Indices(q)
        /\ (n - 1 = a <=> n = a + 1) /\ (n - 1 = b <=> n = b + 1)
    BY <1>2, <1>3, <1>4 DEF Indices
  <2>2. D[n] = At(q, IF n - 1 = b THEN a ELSE IF n - 1 = a THEN b ELSE n - 1)
    BY <1>1, <1>3, <2>1
  <2>3. E[n] = IF n = b + 1 THEN C[a + 1] ELSE IF n = a + 1 THEN C[b + 1] ELSE C[n]
    BY <1>5, <1>6, <2>1
  <2> QED
    BY <1>2, <1>4, <2>1, <2>2, <2>3
<1>9. D = E
  BY <1>3, <1>6, <1>8, SeqEqual
<1> QED
  BY <1>7, <1>9 DEF C, D, r

\* A queue of size 0 has no elements.
LEMMA EmptyContents ==
  ASSUME NEW q \in Queues
  PROVE  Contents(q) = << >> <=> q.size = 0
  BY ContentsSeq, QueueAssumption DEF Queues

LEMMA ClearedType ==
  ASSUME NEW q \in Queues
  PROVE  /\ Cleared(q) \in Queues
         /\ Cleared(q).size = 0 /\ Cleared(q).max = 0 /\ Cleared(q).overflow = 0
<1>1. q.array \in [Slots -> Elements \cup {Garbage}]
  BY DEF Queues
<1>2. 0 \in Slots /\ 0 \in 0 .. QueueSize
  BY QueueAssumption DEF Slots
<1>3. QED
  BY <1>1, <1>2 DEF Queues, Cleared

LEMMA NewQueueType == NewQueue \in Queues
  BY QueueAssumption DEF NewQueue, Queues, Slots

-----------------------------------------------------------------------------

\* What every reachable queue satisfies: no element a caller can reach is
\* garbage, so what pop() stores was pushed or assigned.
QueueInv == QueueTypeOK /\ DebugValuesAgree /\ Contents(queue) \in Seq(Elements)

LEMMA InitQueueInv == QueueInit => QueueInv
<1> SUFFICES ASSUME QueueInit PROVE QueueInv
  OBVIOUS
<1>1. queue \in Queues /\ queue.size = 0 /\ queue.overflow = 0 /\ queue.max = 0
  BY NewQueueType DEF QueueInit, NewQueue
<1>2. Contents(queue) = << >>
  BY <1>1, EmptyContents
<1>3. QED
  BY <1>1, <1>2, EmptySeq DEF QueueInit, QueueInv, QueueTypeOK, DebugValuesAgree

LEMMA PushStep ==
  ASSUME QueueInv, NEW val \in Elements, Push(val)
  PROVE  /\ QueueInv'
         /\ Abstract!Push(val) \/ Abstract!PushDropping(val)
<1>1. /\ queue \in Queues /\ queue' = Pushed(queue, val) /\ got' = got
  BY DEF QueueInv, QueueTypeOK, Push
<1>2. /\ queue.size \in Nat /\ queue.size <= QueueSize /\ queue.max \in Nat
      /\ queue.max <= QueueSize /\ queue.overflow \in Nat /\ QueueSize \in Nat
      /\ queue.size <= queue.max
      /\ queue.overflow > 0 => queue.max = QueueSize
  BY <1>1, QueueAssumption DEF QueueInv, DebugValuesAgree, Queues
<1>3. queue' \in Queues
  BY <1>1, PushedType
<1>4. Contents(queue) \in Seq(Elements) /\ Len(Contents(queue)) = queue.size
  BY <1>1, ContentsSeq DEF QueueInv
<1>5. CASE queue.size # QueueSize
  <2>1. Contents(queue)' = Append(Contents(queue), val)
    BY <1>1, <1>5, PushAppends
  <2>2. /\ queue'.overflow = queue.overflow
        /\ queue'.size = queue.size + 1
        /\ queue'.max = IF queue.max < queue.size + 1 THEN queue.size + 1 ELSE queue.max
    BY <1>1, <1>5 DEF Pushed
  <2>3. Contents(queue)' \in Seq(Elements)
    BY <1>4, <2>1, AppendProperties
  <2>4. DebugValuesAgree'
    BY <1>2, <1>5, <2>2 DEF DebugValuesAgree
  <2>5. Abstract!Push(val)
    BY <1>1, <1>2, <1>4, <1>5, <2>1, <2>2 DEF Abstract!Push
  <2>6. QED
    BY <1>1, <1>3, <2>3, <2>4, <2>5 DEF QueueInv, QueueTypeOK
<1>6. CASE queue.size = QueueSize
  <2>1. /\ Contents(queue) # << >>
        /\ Contents(queue)' = Append(Tail(Contents(queue)), val)
    BY <1>1, <1>6, PushDrops
  <2>2. /\ queue'.overflow = queue.overflow + 1
        /\ queue'.size = queue.size
        /\ queue'.max = queue.max
    BY <1>1, <1>2, <1>6 DEF Pushed
  <2>3. Contents(queue)' \in Seq(Elements)
    <3>1. Tail(Contents(queue)) \in Seq(Elements)
      BY <1>4, <2>1, HeadTailProperties
    <3>2. QED
      BY <2>1, <3>1, AppendProperties
  <2>4. DebugValuesAgree'
    BY <1>2, <1>6, <2>2 DEF DebugValuesAgree
  <2>5. Abstract!PushDropping(val)
    BY <1>1, <1>4, <1>6, <2>1, <2>2 DEF Abstract!PushDropping
  <2>6. QED
    BY <1>1, <1>3, <2>3, <2>4, <2>5 DEF QueueInv, QueueTypeOK
<1>7. QED
  BY <1>5, <1>6

LEMMA PopStep ==
  ASSUME QueueInv, Pop
  PROVE  QueueInv' /\ Abstract!Pop
<1>1. /\ queue \in Queues /\ queue.size > 0 /\ queue' = Popped(queue)
      /\ got' = <<Oldest(queue)>>
  BY DEF QueueInv, QueueTypeOK, Pop
<1>2. /\ queue' \in Queues
      /\ Contents(queue) # << >>
      /\ Oldest(queue) = Head(Contents(queue))
      /\ Contents(queue)' = Tail(Contents(queue))
  BY <1>1, PoppedAt, PopTakesHead
<1>3. /\ Head(Contents(queue)) \in Elements
      /\ Tail(Contents(queue)) \in Seq(Elements)
  BY <1>2, HeadTailProperties DEF QueueInv
<1>4. /\ queue'.size = queue.size - 1 /\ queue'.max = queue.max
      /\ queue'.overflow = queue.overflow /\ queue.size \in Nat /\ queue.max \in Nat
  BY <1>1, QueueAssumption DEF Popped, Queues
<1>5. DebugValuesAgree'
  BY <1>4 DEF QueueInv, DebugValuesAgree
<1>6. QueueTypeOK'
  BY <1>1, <1>2, <1>3 DEF QueueTypeOK
<1>7. QED
  BY <1>1, <1>2, <1>3, <1>4, <1>5, <1>6 DEF QueueInv, Abstract!Pop

LEMMA PopEmptyStep ==
  ASSUME QueueInv, PopEmpty
  PROVE  QueueInv' /\ Abstract!PopNothing
<1>1. queue' = queue /\ got' = << >> /\ queue.size = 0 /\ queue \in Queues
  BY DEF QueueInv, QueueTypeOK, PopEmpty
<1>2. Contents(queue) = << >> /\ Contents(queue)' = Contents(queue)
  BY <1>1, EmptyContents
<1>3. QED
  BY <1>1, <1>2 DEF QueueInv, QueueTypeOK, DebugValuesAgree, Abstract!PopNothing

LEMMA AssignStep ==
  ASSUME QueueInv, NEW index \in Slots, NEW val \in Elements, Assign(index, val)
  PROVE  QueueInv' /\ Abstract!Assign(index + 1, val)
<1>1. /\ queue \in Queues /\ queue' = Assigned(queue, index, val) /\ got' = got
      /\ index < queue.size /\ index \in Nat /\ queue.size \in Nat
  BY QueueAssumption DEF QueueInv, QueueTypeOK, Assign, Slots, Queues
<1>2. /\ queue' \in Queues
      /\ Contents(queue)' = [Contents(queue) EXCEPT ![index + 1] = val]
  <2>1. index \in Indices(queue) /\ val \in Cells
    BY <1>1 DEF Indices, Cells
  <2> QED
    BY <1>1, <2>1, AssignedAt, AssignReplaces
<1>3. /\ Contents(queue) \in Seq(Elements)
      /\ index + 1 \in 1 .. Len(Contents(queue))
  BY <1>1, ContentsSeq DEF QueueInv
<1>4. Contents(queue)' \in Seq(Elements)
  BY <1>2, <1>3, ExceptSeq
<1>5. /\ queue'.size = queue.size /\ queue'.max = queue.max
      /\ queue'.overflow = queue.overflow
  BY <1>1 DEF Assigned, Queues
<1>6. QED
  BY <1>1, <1>2, <1>3, <1>4, <1>5 DEF QueueInv, QueueTypeOK, DebugValuesAgree, Abstract!Assign

LEMMA SwapStep ==
  ASSUME QueueInv, NEW m \in Slots, NEW n \in Slots, Swap(m, n)
  PROVE  QueueInv' /\ Abstract!Swap(m + 1, n + 1)
<1> DEFINE C == Contents(queue)
<1>1. /\ queue \in Queues /\ queue' = Swapped(queue, m, n) /\ got' = got
      /\ m < queue.size /\ n < queue.size /\ m \in Nat /\ n \in Nat /\ queue.size \in Nat
  BY QueueAssumption DEF QueueInv, QueueTypeOK, Swap, Slots, Queues
<1>2. m \in Indices(queue) /\ n \in Indices(queue)
  BY <1>1 DEF Indices
<1>3. /\ queue' \in Queues /\ queue'.size = queue.size /\ queue'.overflow = queue.overflow
      /\ queue'.max = queue.max
  BY <1>1, <1>2, SwappedAt
<1>4. C' = [C EXCEPT ![m + 1] = C[n + 1], ![n + 1] = C[m + 1]]
  BY <1>1, <1>2, SwapExchanges
<1>5. /\ C \in Seq(Elements) /\ Len(C) = queue.size
      /\ m + 1 \in 1 .. Len(C) /\ n + 1 \in 1 .. Len(C)
  BY <1>1, ContentsSeq DEF QueueInv
<1>6. C' \in Seq(Elements)
  <2> HIDE DEF C
  <2> DEFINE F == [C EXCEPT ![m + 1] = C[n + 1]]
  <2>1. C[m + 1] \in Elements /\ C[n + 1] \in Elements
    BY <1>5, ElementOfSeq
  <2>2. F \in Seq(Elements) /\ Len(F) = Len(C)
    BY <1>5, <2>1, ExceptSeq
  <2>3. C' = [F EXCEPT ![n + 1] = C[m + 1]]
    BY <1>4
  <2> HIDE DEF F
  <2> QED
    BY <1>5, <2>1, <2>2, <2>3, ExceptSeq
<1> QED
  BY <1>1, <1>3, <1>4, <1>5, <1>6
     DEF QueueInv, QueueTypeOK, DebugValuesAgree, Abstract!Swap

LEMMA ResetStep ==
  ASSUME QueueInv, Reset
  PROVE  QueueInv' /\ Abstract!Reset
<1>1. queue \in Queues /\ queue' = Cleared(queue) /\ got' = got
  BY DEF QueueInv, QueueTypeOK, Reset
<1>2. queue' \in Queues /\ queue'.size = 0 /\ queue'.max = 0 /\ queue'.overflow = 0
  BY <1>1, ClearedType
<1>3. Contents(queue)' = << >>
  BY <1>2, EmptyContents
<1>4. Contents(queue)' \in Seq(Elements)
  BY <1>3, EmptySeq
<1>5. QED
  BY <1>1, <1>2, <1>3, <1>4 DEF QueueInv, QueueTypeOK, DebugValuesAgree, Abstract!Reset

LEMMA QueueStep == QueueInv /\ [QueueNext]_queueVars => QueueInv' /\ [Abstract!Next]_(Abstract!vars)
<1> SUFFICES ASSUME QueueInv, [QueueNext]_queueVars
             PROVE  QueueInv' /\ [Abstract!Next]_(Abstract!vars)
  OBVIOUS
<1>1. ASSUME NEW val \in Elements, Push(val)
      PROVE  QueueInv' /\ [Abstract!Next]_(Abstract!vars)
  BY <1>1, PushStep DEF Abstract!Next
<1>2. CASE Pop
  BY <1>2, PopStep DEF Abstract!Next
<1>3. CASE PopEmpty
  BY <1>3, PopEmptyStep DEF Abstract!Next
<1>4. ASSUME NEW index \in Slots, NEW val \in Elements, Assign(index, val)
      PROVE  QueueInv' /\ [Abstract!Next]_(Abstract!vars)
  <2>1. index + 1 \in 1 .. QueueSize
    BY QueueAssumption DEF Slots
  <2>2. QED
    BY <1>4, <2>1, AssignStep DEF Abstract!Next
<1>5. CASE Reset
  BY <1>5, ResetStep DEF Abstract!Next
<1>6. ASSUME NEW m \in Slots, NEW n \in Slots, Swap(m, n)
      PROVE  QueueInv' /\ [Abstract!Next]_(Abstract!vars)
  <2>1. m + 1 \in 1 .. QueueSize /\ n + 1 \in 1 .. QueueSize
    BY QueueAssumption DEF Slots
  <2>2. QED
    BY <1>6, <2>1, SwapStep DEF Abstract!Next
<1>7. CASE UNCHANGED queueVars
  <2>1. Contents(queue)' = Contents(queue)
    BY <1>7 DEF queueVars
  <2>2. QED
    BY <1>7, <2>1 DEF queueVars, QueueInv, QueueTypeOK, DebugValuesAgree, Abstract!vars
<1> QED
  BY <1>1, <1>2, <1>3, <1>4, <1>5, <1>6, <1>7 DEF QueueNext

THEOREM QueueInvariant == QueueSpec => []QueueInv
<1>1. QueueInit => QueueInv
  BY InitQueueInv
<1>2. QueueInv /\ [QueueNext]_queueVars => QueueInv'
  BY QueueStep
<1>3. QED
  BY <1>1, <1>2, PTL DEF QueueSpec

\* The positions stay inside m_array whatever the calls, and pop() never
\* stores an uninitialised slot through its getter.
THEOREM QueueTypeCorrect == QueueSpec => []QueueTypeOK
<1>1. QueueInv => QueueTypeOK
  BY DEF QueueInv
<1>2. QED
  BY <1>1, QueueInvariant, PTL

\* get_overflow_count() and get_max_size() never contradict each other.
THEOREM DebugValues == QueueSpec => []DebugValuesAgree
<1>1. QueueInv => DebugValuesAgree
  BY DEF QueueInv
<1>2. QED
  BY <1>1, QueueInvariant, PTL

\* The circular buffer implements the lossy first-in first-out queue.
THEOREM QueueRefinement == QueueSpec => ImplementsLossyQueue
<1>1. QueueInit => Abstract!Init
  <2> SUFFICES ASSUME QueueInit PROVE Abstract!Init
    OBVIOUS
  <2>1. Contents(queue) = << >>
    BY NewQueueType, EmptyContents DEF QueueInit, NewQueue
  <2>2. QED
    BY <2>1 DEF QueueInit, NewQueue, Abstract!Init
<1>2. QueueInv /\ [QueueNext]_queueVars => [Abstract!Next]_(Abstract!vars)
  BY QueueStep
<1>3. QED
  BY <1>1, <1>2, QueueInvariant, PTL DEF QueueSpec, ImplementsLossyQueue, Abstract!Spec

-----------------------------------------------------------------------------
(***************************************************************************)
(* The scheduler.  The inductive invariant: besides the types and the      *)
(* queue's invariant,                                                      *)
(*  - every event is accounted for,                                        *)
(*  - the sources that were asked in this turn have no due event left,     *)
(*  - after the sort, the oldest element is the earliest, and              *)
(*  - while nobody sets a timer, the events of a timer whose schedule fits *)
(*    the word are all different, later than the last one that was run,    *)
(*    and not later than the timer's last period;                          *)
(*  - every event of a one-shot timer was set.                             *)
(***************************************************************************)

\* Source s has no event that is due now.
Drained(s) == /\ s \in Periodic => ~ TimerDue(timer[s], now)
              /\ s \in Oneshot => ~ OneshotDue(oneshot[s], now)

FetchInv == /\ pc = "fetch" => \A s \in Sources : s < src => Drained(s)
            /\ pc \in {"sort", "run"} => \A s \in Sources : Drained(s)

EarliestInv ==
  pc = "run" =>
    \A n \in Indices(queue) : Oldest(queue).deadline <= At(queue, n).deadline

\* The timer has moved over k periods of its schedule, which does not wrap around.
OnPeriod(t) == /\ t.endRun = t.start + t.period * t.numPeriods
               /\ \E k \in 0 .. t.numPeriods : t.lastRun = t.start + t.period * k

\* The events of source s at the positions P of a queue q, when the one with deadline
\* last was run and the latest that was emitted has the deadline latest.
InOrder(s, q, P, last, latest) ==
  LET Of == {n \in P : At(q, n).source = s}
  IN  /\ last <= latest
      /\ \A n \in Of : last < At(q, n).deadline /\ At(q, n).deadline <= latest
      /\ \A m, n \in Of : m # n => At(q, m).deadline # At(q, n).deadline

OrderInv == changes = 0 =>
  \A s \in Periodic : Fits(timer[s]) =>
    OnPeriod(timer[s]) /\ InOrder(s, queue, Indices(queue), lastRan[s], timer[s].lastRun)

\* What a one-shot timer has emitted and will emit, it was set for.
SetInv == \A s \in Oneshot : emitted[s] + Pending(s) <= timesSet[s]

IInv == TypeOK /\ QueueInv /\ EventsAccounted /\ FetchInv /\ EarliestInv /\ OrderInv /\ SetInv

-----------------------------------------------------------------------------
(* Words, sources and events *)

LEMMA Settings ==
  /\ TimeRange \in Nat /\ TimeRange > 0
  /\ NumPeriodic \in Nat /\ NumOneshot \in Nat /\ Sources # {}
  /\ Sources = 1 .. NumPeriodic + NumOneshot
  /\ \A s \in Sources : s \in Nat /\ s >= 1 /\ (s \in Periodic \/ s \in Oneshot)
  /\ Periodic \subseteq Sources /\ Oneshot \subseteq Sources
  /\ Elements = Events
  /\ MaxClock \in Nat /\ MaxChanges \in Nat /\ StopTimes \subseteq Times
  /\ \A s \in Schedules : s[1] \in Times /\ s[2] \in Times /\ s[3] \in Times
  /\ \A s \in Shots : s[1] \in Times /\ s[2] \in Times
  BY TimeRangeAssumption, SchedulerAssumption DEF Sources, Periodic, Oneshot

LEMMA TimesAreNumbers == \A t \in Times : t \in Nat /\ t < TimeRange
  BY Settings DEF Times

\* Remainders are words.
LEMMA Words == \A x \in Int : x % TimeRange \in Times
  BY Settings, DivMod DEF Times

\* What the elements of a queue without garbage are
LEMMA QueuedEvents ==
  ASSUME NEW q \in Queues, Contents(q) \in Seq(Elements), NEW n \in Indices(q)
  PROVE  /\ At(q, n) \in Events /\ At(q, n).source \in Sources
         /\ At(q, n).deadline \in Times /\ At(q, n).deadline \in Nat
<1>1. q.size \in Nat /\ Len(Contents(q)) = q.size
      /\ \A m \in 1 .. q.size : Contents(q)[m] = At(q, m - 1)
  BY ContentsSeq
<1>2. n + 1 \in 1 .. q.size /\ (n + 1) - 1 = n
  BY <1>1 DEF Indices
<1>3. Contents(q)[n + 1] \in Elements
  BY <1>1, <1>2, ElementOfSeq
<1>4. At(q, n) \in Events
  BY <1>1, <1>2, <1>3, Settings
<1> QED
  BY <1>4, TimesAreNumbers DEF Events

\* sort_earliest_first() finds the position of an element with the least deadline.
LEMMA EarliestFound ==
  ASSUME NEW q \in Queues, Contents(q) \in Seq(Elements), q.size > 0
  PROVE  /\ Earliest(q) \in Indices(q)
         /\ \A n \in Indices(q) : At(q, Earliest(q)).deadline <= At(q, n).deadline
<1> DEFINE D(n) == At(q, n).deadline
           First == {n \in Indices(q) : \A m \in Indices(q) : D(n) <= D(m)}
           Before(m, n) == D(m) < D(n) \/ (D(m) = D(n) /\ m < n)
<1>1. q.size \in Nat
  BY QueueNumbers
<1>2. \A n \in Indices(q) : n \in Nat /\ D(n) \in Nat
  BY <1>1, QueuedEvents DEF Indices
<1>3. First # {}
  <2> DEFINE Ds == {D(n) : n \in Indices(q)}
  <2>1. 0 \in Indices(q)
    BY <1>1 DEF Indices
  <2>2. Ds \subseteq Nat /\ Ds # {}
    BY <1>2, <2>1
  <2>3. PICK d \in Ds : \A e \in Ds : d <= e
    <3> HIDE DEF Ds
    <3> QED
      BY <2>2, Smallest
  <2>4. PICK n \in Indices(q) : d = D(n)
    OBVIOUS
  <2>5. n \in First
    BY <2>3, <2>4
  <2> QED
    BY <2>5
<1>4. PICK n \in First : \A m \in First : n <= m
  <2>1. First \subseteq Nat
    BY <1>2
  <2> HIDE DEF First
  <2> QED
    BY <1>3, <2>1, Smallest
<1>5. ASSUME NEW m \in Indices(q) \ {n} PROVE Before(n, m)
  <2>1. D(n) <= D(m) /\ D(n) \in Nat /\ D(m) \in Nat /\ m \in Nat /\ n \in Nat
    BY <1>2, <1>4
  <2>2. CASE D(n) = D(m)
    <3>1. m \in First
      BY <1>4, <2>2
    <3>2. n <= m /\ n # m
      BY <1>4, <3>1
    <3> QED
      BY <2>1, <2>2, <3>2
  <2> QED
    BY <2>1, <2>2
<1> DEFINE P(k) == k \in 0 .. q.size - 1 /\ \A m \in (0 .. q.size - 1) \ {k} : Before(k, m)
           e == CHOOSE k \in 0 .. q.size - 1 : \A m \in (0 .. q.size - 1) \ {k} : Before(k, m)
<1>6. P(n)
  BY <1>4, <1>5 DEF Indices
<1>7. P(e)
  BY <1>6
<1>8. Earliest(q) = e
  BY DEF Earliest
<1> HIDE DEF e
<1>9. ASSUME NEW m \in Indices(q) PROVE D(e) <= D(m)
  <2>1. CASE m = e
    BY <1>2, <2>1
  <2>2. CASE m # e
    <3>1. m \in (0 .. q.size - 1) \ {e} /\ e \in Indices(q)
      BY <1>7, <2>2 DEF Indices
    <3>2. Before(e, m)
      BY <1>7, <3>1
    <3> QED
      BY <1>2, <3>1, <3>2
  <2> QED
    BY <2>1, <2>2
<1> QED
  BY <1>7, <1>8, <1>9 DEF Indices

-----------------------------------------------------------------------------
(* Sums over the sources *)

\* The sums of the first counts
Sums(count) ==
  CHOOSE sum : sum = [s \in 0 .. NumPeriodic + NumOneshot |->
                        IF s = 0 THEN 0 ELSE sum[s - 1] + count[s]]

LEMMA SumsExist ==
  ASSUME NEW count \in [Sources -> Nat]
  PROVE  LET sum == Sums(count)
         IN  /\ Total(count) = sum[NumPeriodic + NumOneshot]
             /\ sum[0] = 0
             /\ \A s \in Sources : sum[s] = sum[s - 1] + count[s]
             /\ \A s \in 0 .. NumPeriodic + NumOneshot : sum[s] \in Nat
<1> DEFINE N == NumPeriodic + NumOneshot
           Adds(f, n) == /\ f \in [0 .. n -> Nat]
                         /\ f = [s \in 0 .. n |-> IF s = 0 THEN 0 ELSE f[s - 1] + count[s]]
           S == {n \in Nat : n <= N => \E f : Adds(f, n)}
<1>1. N \in Nat /\ Sources = 1 .. N
  BY Settings
<1>2. 0 \in S
  <2> DEFINE f == [s \in 0 .. 0 |-> 0]
  <2>1. f \in [0 .. 0 -> Nat]
    OBVIOUS
  <2>2. f = [s \in 0 .. 0 |-> IF s = 0 THEN 0 ELSE f[s - 1] + count[s]]
    OBVIOUS
  <2>3. Adds(f, 0)
    BY <2>1, <2>2
  <2> HIDE DEF Adds, f
  <2> QED
    BY <2>3
<1>3. ASSUME NEW n \in Nat, n + 1 <= N, \E f : Adds(f, n) PROVE \E f : Adds(f, n + 1)
  <2>1. PICK f : Adds(f, n)
    BY <1>3
  <2> DEFINE g == [s \in 0 .. n + 1 |-> IF s = n + 1 THEN f[n] + count[n + 1] ELSE f[s]]
  <2>2. n + 1 \in Sources /\ n \in 0 .. n
    BY <1>1, <1>3
  <2>3. g \in [0 .. n + 1 -> Nat]
    BY <2>1, <2>2
  <2>4. ASSUME NEW s \in 0 .. n + 1
        PROVE  g[s] = IF s = 0 THEN 0 ELSE g[s - 1] + count[s]
    <3>1. CASE s = n + 1
      <4>1. s # 0 /\ s - 1 = n /\ n \in 0 .. n + 1 /\ n # n + 1
        BY <3>1
      <4> QED
        BY <3>1, <4>1
    <3>2. CASE s # n + 1
      <4>1. s \in 0 .. n /\ (s # 0 => s - 1 \in 0 .. n /\ s - 1 \in 0 .. n + 1 /\ s - 1 # n + 1)
        BY <3>2
      <4>2. f[s] = IF s = 0 THEN 0 ELSE f[s - 1] + count[s]
        BY <2>1, <4>1
      <4> QED
        BY <3>2, <4>1, <4>2
    <3> QED
      BY <3>1, <3>2
  <2>5. g = [s \in 0 .. n + 1 |-> IF s = 0 THEN 0 ELSE g[s - 1] + count[s]]
    <3>1. g = [s \in 0 .. n + 1 |-> g[s]]
      BY <2>3
    <3> HIDE DEF g
    <3> QED
      BY <2>4, <3>1
  <2>6. Adds(g, n + 1)
    BY <2>3, <2>5
  <2> HIDE DEF Adds, g
  <2> QED
    BY <2>6
<1>4. PICK f : Adds(f, N)
  <2> HIDE DEF Adds, N
  <2>1. \A n \in Nat : n \in S => n + 1 \in S
    BY <1>1, <1>3
  <2> HIDE DEF S
  <2>2. Nat \subseteq S
    BY <1>2, <2>1, Induction
  <2> QED
    BY <1>1, <2>2 DEF S
<1> DEFINE sum == Sums(count)
<1>5. sum = [s \in 0 .. N |-> IF s = 0 THEN 0 ELSE sum[s - 1] + count[s]]
  BY <1>4 DEF Sums
<1>6. Total(count) = sum[N]
  BY DEF Total, Sums
<1> HIDE DEF sum
<1>7. /\ sum[0] = 0
      /\ \A s \in Sources : sum[s] = sum[s - 1] + count[s]
  BY <1>1, <1>5
<1>8. \A s \in 0 .. N : sum[s] \in Nat
  <2> DEFINE T == {n \in Nat : n <= N => sum[n] \in Nat}
  <2>1. 0 \in T
    BY <1>7
  <2>2. ASSUME NEW n \in T PROVE n + 1 \in T
    <3> SUFFICES ASSUME n + 1 <= N PROVE sum[n + 1] \in Nat
      OBVIOUS
    <3>1. n + 1 \in Sources /\ (n + 1) - 1 = n /\ sum[n] \in Nat
      BY <1>1
    <3> QED
      BY <1>7, <3>1
  <2> HIDE DEF T
  <2>3. Nat \subseteq T
    BY <2>1, <2>2, Induction
  <2> QED
    BY <1>1, <2>3 DEF T
<1> QED
  BY <1>6, <1>7, <1>8 DEF sum

LEMMA TotalOfNone == Total([s \in Sources |-> 0]) = 0
<1> DEFINE c == [s \in Sources |-> 0]
           N == NumPeriodic + NumOneshot
           sum == Sums(c)
           S == {n \in Nat : n <= N => sum[n] = 0}
<1>1. N \in Nat /\ Sources = 1 .. N /\ c \in [Sources -> Nat]
  BY Settings
<1>2. /\ Total(c) = sum[N] /\ sum[0] = 0
      /\ \A s \in Sources : sum[s] = sum[s - 1] + c[s]
  BY <1>1, SumsExist
<1> HIDE DEF sum
<1>3. ASSUME NEW n \in S PROVE n + 1 \in S
  <2>1. n + 1 <= N => n + 1 \in Sources /\ (n + 1) - 1 = n /\ c[n + 1] = 0
    BY <1>1
  <2> QED
    BY <1>1, <1>2, <2>1
<1>4. 0 \in S
  BY <1>2
<1>5. Nat \subseteq S
  <2> HIDE DEF S
  <2> QED
    BY <1>3, <1>4, Induction
<1> QED
  BY <1>1, <1>2, <1>5

\* Counting once more for one source adds one to the sum.
LEMMA TotalGrows ==
  ASSUME NEW count \in [Sources -> Nat], NEW src0 \in Sources
  PROVE  /\ [count EXCEPT ![src0] = @ + 1] \in [Sources -> Nat]
         /\ Total([count EXCEPT ![src0] = @ + 1]) = Total(count) + 1
         /\ Total(count) \in Nat
<1> DEFINE c == [count EXCEPT ![src0] = @ + 1]
           N == NumPeriodic + NumOneshot
           sum == Sums(count)
           more == Sums(c)
           S == {n \in Nat : n <= N => more[n] = IF n < src0 THEN sum[n] ELSE sum[n] + 1}
<1>1. N \in Nat /\ Sources = 1 .. N /\ c \in [Sources -> Nat] /\ src0 \in Nat /\ src0 <= N
      /\ src0 > 0
  BY Settings
<1>2. /\ Total(count) = sum[N] /\ sum[0] = 0
      /\ \A s \in Sources : sum[s] = sum[s - 1] + count[s]
      /\ \A s \in 0 .. N : sum[s] \in Nat
  BY SumsExist
<1>3. /\ Total(c) = more[N] /\ more[0] = 0
      /\ \A s \in Sources : more[s] = more[s - 1] + c[s]
  BY <1>1, SumsExist
<1> HIDE DEF sum, more
<1>4. ASSUME NEW n \in S PROVE n + 1 \in S
  <2> SUFFICES ASSUME n + 1 <= N
               PROVE  more[n + 1] = IF n + 1 < src0 THEN sum[n + 1] ELSE sum[n + 1] + 1
    OBVIOUS
  <2>1. /\ n + 1 \in Sources /\ (n + 1) - 1 = n /\ n \in 0 .. N /\ sum[n] \in Nat
        /\ more[n] = IF n < src0 THEN sum[n] ELSE sum[n] + 1
        /\ c[n + 1] = IF n + 1 = src0 THEN count[n + 1] + 1 ELSE count[n + 1]
        /\ count[n + 1] \in Nat
    BY <1>1, <1>2
  <2>2. more[n + 1] = more[n] + c[n + 1] /\ sum[n + 1] = sum[n] + count[n + 1]
    BY <1>2, <1>3, <2>1
  <2> HIDE DEF c
  <2> QED
    BY <1>1, <2>1, <2>2
<1>5. 0 \in S
  BY <1>1, <1>2, <1>3
<1>6. Nat \subseteq S
  <2> HIDE DEF S
  <2> QED
    BY <1>4, <1>5, Induction
<1>7. more[N] = sum[N] + 1 /\ sum[N] \in Nat
  BY <1>1, <1>2, <1>6
<1> HIDE DEF c
<1> QED
  BY <1>1, <1>2, <1>3, <1>7 DEF c

-----------------------------------------------------------------------------
(* What is done to the timers *)

\* What next_event() leaves of the timer when it returns true.
LEMMA Fired ==
  ASSUME NEW T \in Timers, NEW t \in Times, LoopEnds(T, t) # {}
  PROVE  LET n == Turns(T, t)
         IN  /\ n \in LoopEnds(T, t) /\ \A m \in LoopEnds(T, t) : n <= m
             /\ TimerFired(T, t) \in Timers
             /\ TimerFired(T, t).lastRun = RunAfter(T, n)
             /\ TimerFired(T, t).period = T.period
             /\ TimerFired(T, t).start = T.start
             /\ TimerFired(T, t).endRun = T.endRun
             /\ TimerFired(T, t).numPeriods = T.numPeriods
<1> DEFINE n == Turns(T, t)
<1>1. LoopEnds(T, t) \subseteq Nat
  BY TimesAreNumbers DEF LoopEnds
<1>2. n \in LoopEnds(T, t) /\ \A m \in LoopEnds(T, t) : n <= m
  BY <1>1, Smallest DEF Turns
<1>3. TimerFired(T, t) = [T EXCEPT !.lastRun = RunAfter(T, n),
                                   !.missed = (@ + n) % TimeRange]
  BY DEF TimerFired
<1> HIDE DEF n
<1>4. T.lastRun + (n + 1) * T.period \in Int /\ T.missed + n \in Int
  BY <1>1, <1>2, TimesAreNumbers DEF Timers
<1>5. RunAfter(T, n) \in Times /\ (T.missed + n) % TimeRange \in Times
  BY <1>4, Words DEF RunAfter
<1> QED
  BY <1>2, <1>3, <1>5 DEF Timers, n

LEMMA EndIsWord == ASSUME NEW T \in Timers PROVE WithEnd(T) \in Timers
<1>1. T.start + T.period * T.numPeriods \in Int
  BY TimesAreNumbers DEF Timers
<1>2. (T.start + T.period * T.numPeriods) % TimeRange \in Times
  BY <1>1, Words
<1> QED
  BY <1>2 DEF WithEnd, Timers

LEMMA SettersAreTyped ==
  ASSUME NEW T \in Timers, NEW x \in Times
  PROVE  /\ SetFirstDeadline(T, x) \in Timers
         /\ SetPeriod(T, x) \in Timers
         /\ SetNumPeriods(T, x) \in Timers
<1>1. /\ [T EXCEPT !.start = x, !.lastRun = x] \in Timers
      /\ [T EXCEPT !.period = x] \in Timers
      /\ [T EXCEPT !.numPeriods = x] \in Timers
  BY DEF Timers
<1> QED
  BY <1>1, EndIsWord DEF SetFirstDeadline, SetPeriod, SetNumPeriods

\* A timer that has been given its schedule stands at the first deadline.
LEMMA StartedTimer ==
  ASSUME NEW s \in Schedules
  PROVE  Started(s) \in Timers /\ (Fits(Started(s)) => OnPeriod(Started(s)))
<1> DEFINE A == SetFirstDeadline(NewTimer, s[1])
           B == SetPeriod(A, s[2])
           C == SetNumPeriods(B, s[3])
<1>1. s[1] \in Times /\ s[2] \in Times /\ s[3] \in Times
  BY Settings
<1>2. NewTimer \in Timers
  BY Settings DEF NewTimer, Timers, Times
<1>3. A \in Timers /\ A.start = s[1] /\ A.lastRun = s[1]
  BY <1>1, <1>2, SettersAreTyped DEF SetFirstDeadline, WithEnd, NewTimer
<1> HIDE DEF A
<1>4. B \in Timers /\ B.start = s[1] /\ B.lastRun = s[1] /\ B.period = s[2]
  BY <1>1, <1>3, SettersAreTyped DEF SetPeriod, WithEnd, Timers
<1> HIDE DEF B
<1>5. /\ C \in Timers /\ C.start = s[1] /\ C.lastRun = s[1] /\ C.period = s[2]
      /\ C.numPeriods = s[3] /\ C.endRun = (C.start + C.period * C.numPeriods) % TimeRange
  BY <1>1, <1>4, SettersAreTyped DEF SetNumPeriods, WithEnd, Timers
<1>6. Started(s) = C
  BY DEF Started, A, B
<1> HIDE DEF C
<1>7. ASSUME Fits(C) PROVE OnPeriod(C)
  <2> DEFINE end == C.start + C.period * C.numPeriods
  <2>1. end \in Nat /\ end < TimeRange
    BY <1>5, <1>7, TimesAreNumbers DEF Fits, Timers
  <2>2. end % TimeRange = end
    <3> HIDE DEF end
    <3> QED
      BY <2>1, Settings, ModSmall
  <2>3. 0 \in 0 .. C.numPeriods /\ C.lastRun = C.start + C.period * 0
    BY <1>1, <1>5, TimesAreNumbers
  <2> QED
    BY <1>5, <2>2, <2>3 DEF OnPeriod
<1> QED
  BY <1>5, <1>6, <1>7

\* A due timer whose schedule fits moves on to a later period of it.
LEMMA FiredOnPeriod ==
  ASSUME NEW T \in Timers, NEW t \in Times, TimerDue(T, t), Fits(T), OnPeriod(T)
  PROVE  /\ LoopEnds(T, t) # {}
         /\ OnPeriod(TimerFired(T, t)) /\ T.lastRun < TimerFired(T, t).lastRun
<1>1. /\ T.start \in Nat /\ T.period \in Nat /\ T.numPeriods \in 0 .. TimeRange - 1
      /\ T.lastRun \in Nat /\ t \in Nat /\ T.start + T.period * T.numPeriods < TimeRange
      /\ T.lastRun <= t /\ t < T.start + T.period * T.numPeriods
      /\ TimeRange \in Nat \ {0}
  BY Settings, TimesAreNumbers DEF Timers, Fits, TimerDue, OnPeriod, Times
<1>2. PICK k \in 0 .. T.numPeriods : T.lastRun = T.start + T.period * k
  BY DEF OnPeriod
<1>3. LoopEnds(T, t) = {i \in 0 .. TimeRange - 1 :
                          (T.lastRun + (i + 1) * T.period) % TimeRange >= t}
  BY DEF LoopEnds, RunAfter, Times
<1>4. OnSchedule(TimeRange, T.start, T.period, T.numPeriods, k, T.lastRun, t, LoopEnds(T, t))
  BY <1>1, <1>2, <1>3 DEF OnSchedule
<1> DEFINE i == Turns(T, t)
           F == TimerFired(T, t)
<1>5. /\ LoopEnds(T, t) # {}
      /\ \A j \in LoopEnds(T, t) : (\A m \in LoopEnds(T, t) : j <= m) =>
           /\ k + j + 1 <= T.numPeriods /\ T.period > 0
           /\ (T.lastRun + (j + 1) * T.period) % TimeRange = T.start + T.period * (k + j + 1)
           /\ (T.lastRun + (j + 1) * T.period) % TimeRange = T.lastRun + (j + 1) * T.period
  BY <1>4, NextPeriod
<1>6. /\ i \in LoopEnds(T, t) /\ \A m \in LoopEnds(T, t) : i <= m
      /\ F.lastRun = RunAfter(T, i) /\ F.period = T.period /\ F.start = T.start
      /\ F.endRun = T.endRun /\ F.numPeriods = T.numPeriods
  BY <1>5, Fired
<1>7. i \in Nat
  BY <1>6, TimesAreNumbers DEF LoopEnds
<1> HIDE DEF i, F
<1>8. /\ k + i + 1 <= T.numPeriods /\ T.period > 0
      /\ F.lastRun = T.start + T.period * (k + i + 1)
      /\ F.lastRun = T.lastRun + (i + 1) * T.period
  BY <1>5, <1>6 DEF RunAfter
<1>9. T.lastRun < F.lastRun
  <2>1. T.period * (i + 1) >= T.period * 1
    BY <1>1, <1>7, Grows
  <2>2. (i + 1) * T.period > 0
    BY <1>1, <1>7, <1>8, <2>1
  <2> QED
    BY <1>1, <1>7, <1>8, <2>2
<1>10. OnPeriod(F)
  <2>1. k + i + 1 \in 0 .. F.numPeriods /\ F.lastRun = F.start + F.period * (k + i + 1)
    BY <1>1, <1>6, <1>7, <1>8
  <2> QED
    BY <1>6, <2>1 DEF OnPeriod
<1> QED
  BY <1>5, <1>9, <1>10 DEF F

-----------------------------------------------------------------------------
(***************************************************************************)
(* What push(), pop() and the swap do to the positions of the events: what *)
(* stays in the queue is moved, and no element is there twice afterwards.  *)
(***************************************************************************)

\* The elements of r at the positions P come from different positions Q of q.
Comes(r, P, q, Q) == \E f \in Injection(P, Q) : \A n \in P : At(r, n) = At(q, f[n])

\* Where f moves positions without collisions
LEMMA Moved ==
  ASSUME NEW r, NEW P, NEW q, NEW Q, NEW f \in [P -> Q],
         \A m, n \in P : f[m] = f[n] => m = n,
         \A n \in P : At(r, n) = At(q, f[n])
  PROVE  Comes(r, P, q, Q)
<1>1. f \in Injection(P, Q)
  BY Fun_IsInj
<1> QED
  BY <1>1 DEF Comes

LEMMA PushMoves ==
  ASSUME NEW q \in Queues, NEW val \in Elements
  PROVE  LET r == Pushed(q, val)
         IN  /\ r \in Queues /\ r.size \in Nat /\ r.size > 0
             /\ r.size + r.overflow = q.size + q.overflow + 1
             /\ At(r, r.size - 1) = val
             /\ Comes(r, 0 .. r.size - 2, q, Indices(q))
<1> DEFINE r == Pushed(q, val)
           P == 0 .. r.size - 2
           f == [n \in P |-> IF q.size = QueueSize THEN n + 1 ELSE n]
<1>1. /\ r \in Queues
      /\ r.size = IF q.size = QueueSize THEN q.size ELSE q.size + 1
      /\ r.overflow = IF q.size = QueueSize THEN q.overflow + 1 ELSE q.overflow
  BY PushedType
<1>2. /\ At(r, r.size - 1) = val
      /\ \A n \in 0 .. r.size - 2 : At(r, n) = At(q, IF q.size = QueueSize THEN n + 1 ELSE n)
  BY PushedAt
<1> HIDE DEF r
<1>3. /\ QueueSize \in Nat /\ QueueSize > 0 /\ q.size \in Nat /\ q.overflow \in Nat
      /\ r.size \in Nat /\ r.size > 0 /\ q.size <= QueueSize
  BY <1>1, QueueNumbers
<1>4. f \in [P -> Indices(q)]
  BY <1>1, <1>3 DEF Indices
<1>5. \A m, n \in P : f[m] = f[n] => m = n
  BY <1>3
<1>6. \A n \in P : At(r, n) = At(q, f[n])
  BY <1>2
<1> HIDE DEF f, P
<1>7. Comes(r, P, q, Indices(q))
  BY <1>4, <1>5, <1>6, Moved
<1> QED
  BY <1>1, <1>2, <1>3, <1>7 DEF r, P

LEMMA PopMoves ==
  ASSUME NEW q \in Queues, q.size > 0
  PROVE  LET r == Popped(q)
         IN  /\ r \in Queues /\ q.size = r.size + 1 /\ r.overflow = q.overflow
             /\ r.size \in Nat /\ 0 \in Indices(q)
             /\ Comes(r, Indices(r), q, Indices(q) \ {0})
<1> DEFINE r == Popped(q)
           P == Indices(r)
           f == [n \in P |-> n + 1]
<1>1. /\ r \in Queues /\ r.size = q.size - 1 /\ r.overflow = q.overflow
      /\ \A n \in P : At(r, n) = At(q, n + 1)
  BY PoppedAt
<1> HIDE DEF r
<1>2. q.size \in Nat /\ r.size \in Nat
  BY <1>1, QueueNumbers
<1>3. f \in [P -> Indices(q) \ {0}]
  BY <1>1, <1>2 DEF Indices
<1>4. \A m, n \in P : f[m] = f[n] => m = n
  BY <1>2 DEF Indices
<1>5. \A n \in P : At(r, n) = At(q, f[n])
  BY <1>1
<1> HIDE DEF f, P
<1>6. Comes(r, P, q, Indices(q) \ {0})
  BY <1>3, <1>4, <1>5, Moved
<1>7. q.size = r.size + 1 /\ 0 \in Indices(q)
  BY <1>1, <1>2 DEF Indices
<1> QED
  BY <1>1, <1>2, <1>6, <1>7 DEF r, P

LEMMA SwapMoves ==
  ASSUME NEW q \in Queues, NEW a \in Indices(q), NEW b \in Indices(q)
  PROVE  LET r == Swapped(q, a, b)
         IN  /\ r \in Queues /\ r.size = q.size /\ r.overflow = q.overflow
             /\ Comes(r, Indices(r), q, Indices(q))
<1> DEFINE r == Swapped(q, a, b)
           P == Indices(q)
           f == [n \in P |-> IF n = b THEN a ELSE IF n = a THEN b ELSE n]
<1>1. /\ r \in Queues /\ r.size = q.size /\ r.overflow = q.overflow
      /\ \A n \in P : At(r, n) = At(q, IF n = b THEN a ELSE IF n = a THEN b ELSE n)
  BY SwappedAt
<1> HIDE DEF r
<1>2. f \in [P -> P] /\ \A n \in P : At(r, n) = At(q, f[n])
  BY <1>1
<1>3. \A m, n \in P : f[m] = f[n] => m = n
  OBVIOUS
<1>4. Indices(r) = P
  BY <1>1 DEF Indices
<1> HIDE DEF f, P
<1>5. Comes(r, P, q, P)
  BY <1>2, <1>3, Moved
<1> QED
  BY <1>1, <1>4, <1>5 DEF r, P

\* How many events of a source there are at some positions
Count(s, q, P) == Cardinality({n \in P : At(q, n).source = s})

\* Moving events makes none more.
LEMMA MovedCount ==
  ASSUME NEW q, NEW Q, IsFiniteSet(Q), NEW r, NEW P, Comes(r, P, q, Q), NEW s
  PROVE  Count(s, r, P) \in Nat /\ Count(s, q, Q) \in Nat /\ Count(s, r, P) <= Count(s, q, Q)
<1> DEFINE A == {n \in P : At(r, n).source = s}
           B == {n \in Q : At(q, n).source = s}
<1>1. PICK f \in Injection(P, Q) : \A n \in P : At(r, n) = At(q, f[n])
  BY DEF Comes
<1>2. f \in [P -> Q] /\ \A m, n \in P : f[m] = f[n] => m = n
  BY <1>1 DEF Injection, IsInjective
<1> DEFINE g == [n \in A |-> f[n]]
<1>3. g \in [A -> B]
  BY <1>1, <1>2
<1>4. \A m, n \in A : g[m] = g[n] => m = n
  BY <1>2
<1>5. IsFiniteSet(B)
  BY FS_Subset
<1> HIDE DEF g, A, B
<1>6. g \in Injection(A, B)
  BY <1>3, <1>4, Fun_IsInj
<1>7. IsFiniteSet(A) /\ Cardinality(A) <= Cardinality(B)
  BY <1>5, <1>6, FS_Injection
<1>8. Cardinality(A) \in Nat /\ Cardinality(B) \in Nat
  BY <1>5, <1>7, FS_CardinalityType
<1> QED
  BY <1>7, <1>8 DEF Count, A, B

\* One position more or less
LEMMA CountOne ==
  ASSUME NEW q, NEW P, IsFiniteSet(P), NEW n, n \notin P, NEW s
  PROVE  /\ Count(s, q, P) \in Nat
         /\ Count(s, q, P \cup {n}) = IF At(q, n).source = s THEN Count(s, q, P) + 1
                                                             ELSE Count(s, q, P)
<1> DEFINE A == {m \in P : At(q, m).source = s}
           B == {m \in P \cup {n} : At(q, m).source = s}
<1>1. IsFiniteSet(A) /\ n \notin A
  BY FS_Subset
<1>2. B = IF At(q, n).source = s THEN A \cup {n} ELSE A
  OBVIOUS
<1> HIDE DEF A, B
<1>3. Cardinality(A) \in Nat /\ Cardinality(A \cup {n}) = Cardinality(A) + 1
  BY <1>1, FS_CardinalityType, FS_AddElement
<1> QED
  BY <1>2, <1>3 DEF Count, A, B

\* Moving events keeps their order.
LEMMA MovedOrder ==
  ASSUME NEW q, NEW Q, NEW r, NEW P, Comes(r, P, q, Q), NEW s, NEW last, NEW latest,
         InOrder(s, q, Q, last, latest)
  PROVE  InOrder(s, r, P, last, latest)
<1>1. PICK f \in Injection(P, Q) : \A n \in P : At(r, n) = At(q, f[n])
  BY DEF Comes
<1>2. f \in [P -> Q] /\ \A m, n \in P : f[m] = f[n] => m = n
  BY <1>1 DEF Injection, IsInjective
<1> QED
  BY <1>1, <1>2 DEF InOrder

-----------------------------------------------------------------------------
(* The steps of the scheduler *)

LEMMA NowIsWord == ASSUME TypeOK PROVE now \in Times
<1>1. readAt \in Int
  BY Settings DEF TypeOK
<1> QED
  BY <1>1, Words DEF now

LEMMA StateFacts ==
  ASSUME TypeOK
  PROVE  /\ queue \in Queues /\ src \in Sources /\ now \in Times
         /\ queue.size \in Nat /\ queue.size <= QueueSize
  BY NowIsWord, QueueNumbers, Settings DEF TypeOK, QueueTypeOK

\* A source at hand that has an event pushes it.
LEMMA PeriodicEmits ==
  ASSUME TypeOK, FetchPeriodic
  PROVE  LET T == TimerFired(timer[src], now)
         IN  /\ src \in Periodic /\ timer[src] \in Timers /\ T \in Timers
             /\ timer' = [timer EXCEPT ![src] = T] /\ T.lastRun \in Times
             /\ Emit(T.lastRun) /\ [source |-> src, deadline |-> T.lastRun] \in Elements
<1>1. src \in Periodic /\ src \in Sources /\ timer[src] \in Timers /\ now \in Times
  BY StateFacts DEF TypeOK, FetchPeriodic
<1>2. LoopEnds(timer[src], now) # {}
  BY DEF FetchPeriodic, TimerHangs
<1> DEFINE T == TimerFired(timer[src], now)
<1>3. T \in Timers
  BY <1>1, <1>2, Fired
<1>4. timer' = [timer EXCEPT ![src] = T] /\ Emit(timer'[src].lastRun)
  BY DEF FetchPeriodic
<1> HIDE DEF T
<1>5. timer'[src] = T
  BY <1>1, <1>4 DEF TypeOK
<1>6. T.lastRun \in Times
  BY <1>3 DEF Timers
<1>7. [source |-> src, deadline |-> T.lastRun] \in Elements
  BY <1>1, <1>6, Settings DEF Events
<1> QED
  BY <1>1, <1>3, <1>4, <1>5, <1>6, <1>7 DEF T

LEMMA OneshotEmits ==
  ASSUME TypeOK, FetchOneshot
  PROVE  /\ src \in Oneshot /\ oneshot[src] \in Oneshots
         /\ oneshot' = [oneshot EXCEPT ![src] = OneshotFired(@)]
         /\ oneshot[src].deadline \in Times
         /\ Emit(oneshot[src].deadline)
         /\ [source |-> src, deadline |-> oneshot[src].deadline] \in Elements
<1>1. src \in Oneshot /\ src \in Sources /\ oneshot[src] \in Oneshots
  BY StateFacts DEF TypeOK, FetchOneshot
<1>2. oneshot[src].deadline \in Times
  BY <1>1 DEF Oneshots
<1> QED
  BY <1>1, <1>2, Settings DEF FetchOneshot, Events

\* The first of the queue
LEMMA OldestEvent ==
  ASSUME TypeOK, QueueInv, queue.size > 0
  PROVE  /\ 0 \in Indices(queue) /\ Oldest(queue) = At(queue, 0)
         /\ Oldest(queue).source \in Sources /\ Oldest(queue).deadline \in Times
<1>1. 0 \in Indices(queue)
  BY StateFacts DEF Indices
<1> QED
  BY <1>1, StateFacts, QueuedEvents DEF QueueInv, Oldest

\* The scheduler does nothing to its queue but call the functions of class Queue, and
\* it exchanges elements that are there.
LEMMA UsesQueueStep ==
  ASSUME TypeOK, QueueInv, [Next]_vars PROVE [QueueNext]_queueVars
<1>1. CASE UNCHANGED queueVars
  BY <1>1
<1>2. CASE FetchPeriodic
  BY <1>2, PeriodicEmits DEF Emit, QueueNext
<1>3. CASE FetchOneshot
  BY <1>3, OneshotEmits DEF Emit, QueueNext
<1>4. CASE Sort
  <2>1. CASE queue.size > 1
    <3>1. Earliest(queue) \in Indices(queue)
      BY <2>1, StateFacts, EarliestFound DEF QueueInv
    <3>2. /\ Earliest(queue) \in Slots /\ Earliest(queue) < queue.size
          /\ 0 \in Slots /\ 0 < queue.size
      BY <2>1, <3>1, StateFacts, QueueAssumption DEF Indices, Slots
    <3>3. Swap(0, Earliest(queue))
      BY <1>4, <2>1, <3>2 DEF Sort, EarliestFirst, Swap
    <3> QED
      BY <3>2, <3>3 DEF QueueNext
  <2>2. CASE ~ queue.size > 1
    BY <1>4, <2>2 DEF Sort, queueVars
  <2> QED
    BY <2>1, <2>2
<1>5. CASE RunService
  BY <1>5 DEF RunService, QueueNext
<1>6. CASE RunNothing
  BY <1>6 DEF RunNothing, QueueNext
<1>7. Tick \/ Continue \/ Return \/ NextSource \/ ReadClock \/ (\E stop \in StopTimes : Execute(stop))
        => UNCHANGED queueVars
  BY DEF Tick, Continue, Return, NextSource, ReadClock, Execute
<1>8. UNCHANGED vars => UNCHANGED queueVars
  BY DEF vars
<1> QED
  BY <1>1, <1>2, <1>3, <1>4, <1>5, <1>6, <1>7, <1>8 DEF Next, Step

LEMMA QueueInvStep ==
  ASSUME TypeOK, QueueInv, [Next]_vars PROVE QueueInv' /\ QueueTypeOK'
  BY UsesQueueStep, QueueStep DEF QueueInv

-----------------------------------------------------------------------------
(* Types *)

\* What a service does to the timers
LEMMA ServiceTypes ==
  ASSUME TypeOK, Service
  PROVE  /\ timer' \in [Periodic -> Timers] /\ oneshot' \in [Oneshot -> Oneshots]
         /\ changes' \in 0 .. MaxChanges /\ timesSet' \in [Oneshot -> Nat]
<1>1. /\ timer \in [Periodic -> Timers] /\ oneshot \in [Oneshot -> Oneshots]
      /\ changes \in 0 .. MaxChanges /\ timesSet \in [Oneshot -> Nat]
  BY DEF TypeOK
<1>2. CASE UNCHANGED <<sources, settings>>
  BY <1>1, <1>2 DEF sources, settings
<1>3. changes < MaxChanges /\ changes' = changes + 1 => changes' \in 0 .. MaxChanges
  BY <1>1, Settings
<1>4. ASSUME NEW s \in Periodic, NEW schedule \in Schedules,
             timer' = [timer EXCEPT ![s] =
                  SetFirstDeadline(SetNumPeriods(SetPeriod(
                    @, schedule[2]), schedule[3]), schedule[1])]
      PROVE  timer' \in [Periodic -> Timers]
  <2>1. /\ SetPeriod(timer[s], schedule[2]) \in Timers
        /\ SetNumPeriods(SetPeriod(timer[s], schedule[2]), schedule[3]) \in Timers
        /\ SetFirstDeadline(SetNumPeriods(SetPeriod(timer[s], schedule[2]), schedule[3]),
                            schedule[1]) \in Timers
    BY <1>1, SettersAreTyped, Settings
  <2> QED
    BY <1>1, <1>4, <2>1
<1>5. ASSUME StartAgain
      PROVE  /\ timer' \in [Periodic -> Timers] /\ oneshot' \in [Oneshot -> Oneshots]
             /\ timesSet' \in [Oneshot -> Nat]
  <2>1. timer' \in [Periodic -> Timers]
    BY <1>4, <1>5 DEF StartAgain
  <2> QED
    BY <1>1, <1>5, <2>1 DEF StartAgain
<1>6. ASSUME SetAgain
      PROVE  /\ timer' \in [Periodic -> Timers] /\ oneshot' \in [Oneshot -> Oneshots]
             /\ timesSet' \in [Oneshot -> Nat]
  <2>1. PICK s \in Oneshot, shot \in Shots :
          /\ \/ oneshot' = [oneshot EXCEPT ![s] = SetDeadline(@, shot[1])]
             \/ oneshot' = [oneshot EXCEPT ![s] = SetWindow(@, shot[2])]
             \/ oneshot' = [oneshot EXCEPT ![s] = SetDeadline(SetWindow(@, shot[2]), shot[1])]
          /\ timesSet' = [timesSet EXCEPT ![s] = @ + 1]
    BY <1>6 DEF SetAgain
  <2>2. oneshot[s] \in Oneshots /\ shot[1] \in Times /\ shot[2] \in Times
    BY <1>1, Settings
  <2>3. /\ SetDeadline(oneshot[s], shot[1]) \in Oneshots
        /\ SetWindow(oneshot[s], shot[2]) \in Oneshots
    BY <2>2 DEF SetDeadline, SetWindow, Oneshots
  <2>4. SetDeadline(SetWindow(oneshot[s], shot[2]), shot[1]) \in Oneshots
    BY <2>2, <2>3 DEF SetDeadline, Oneshots
  <2>5. oneshot' \in [Oneshot -> Oneshots]
    BY <1>1, <2>1, <2>3, <2>4
  <2>6. timesSet' \in [Oneshot -> Nat]
    BY <1>1, <2>1
  <2> QED
    BY <1>1, <1>6, <2>5, <2>6 DEF SetAgain
<1> QED
  BY <1>1, <1>2, <1>3, <1>5, <1>6 DEF Service

LEMMA InitTypes == Init => TypeOK
<1> SUFFICES ASSUME Init PROVE TypeOK
  OBVIOUS
<1>1. QueueTypeOK
  BY InitQueueInv DEF Init, QueueInv
<1>2. timer \in [Periodic -> Timers]
  BY StartedTimer DEF Init
<1>3. oneshot \in [Oneshot -> Oneshots]
  <2>1. \A s \in Shots : ArmedOneshot(s[1], s[2]) \in Oneshots
    BY Settings DEF ArmedOneshot, Oneshots
  <2>2. NewOneshot \in Oneshots
    BY Settings DEF NewOneshot, Oneshots, Times
  <2> QED
    BY <2>1, <2>2 DEF Init
<1>5. timesSet \in [Oneshot -> Nat]
  BY DEF Init
<1>4. 0 \in Times /\ 1 \in 1 .. NumPeriodic + NumOneshot
  BY Settings DEF Times
<1> QED
  BY <1>1, <1>2, <1>3, <1>4, <1>5, Settings DEF Init, TypeOK, Locations

LEMMA TypeStep ==
  ASSUME TypeOK, QueueInv, [Next]_vars PROVE TypeOK'
<1> USE DEF loopVars, sources, history, settings
<1>1. QueueTypeOK'
  BY QueueInvStep
<1>2. CASE UNCHANGED vars
  BY <1>1, <1>2 DEF vars, TypeOK
<1>3. CASE Tick
  BY <1>1, <1>3, Settings DEF Tick, TypeOK
<1>4. ASSUME NEW stop \in StopTimes, Execute(stop) PROVE TypeOK'
  BY <1>1, <1>4, Settings DEF Execute, TypeOK, Locations
<1>5. CASE Continue
  BY <1>1, <1>5, Settings DEF Continue, TypeOK, Locations
<1>6. CASE Return
  BY <1>1, <1>6 DEF Return, TypeOK, Locations
<1>7. CASE FetchPeriodic
  <2>1. timer' \in [Periodic -> Timers]
    BY <1>7, PeriodicEmits DEF TypeOK
  <2>2. emitted' \in [Sources -> Nat]
    BY <1>7, PeriodicEmits DEF Emit, TypeOK
  <2> QED
    BY <1>1, <1>7, <2>1, <2>2 DEF FetchPeriodic, TypeOK
<1>8. CASE FetchOneshot
  <2>1. oneshot' \in [Oneshot -> Oneshots]
    BY <1>8, OneshotEmits DEF TypeOK, OneshotFired, Oneshots
  <2>2. emitted' \in [Sources -> Nat]
    BY <1>8, OneshotEmits DEF Emit, TypeOK
  <2> QED
    BY <1>1, <1>8, <2>1, <2>2 DEF FetchOneshot, TypeOK
<1>9. CASE NextSource
  BY <1>1, <1>9, Settings DEF NextSource, TypeOK, Locations
<1>10. CASE Sort
  BY <1>1, <1>10 DEF Sort, TypeOK, Locations
<1>11. CASE RunService
  <2>1. /\ timer' \in [Periodic -> Timers] /\ oneshot' \in [Oneshot -> Oneshots]
        /\ changes' \in 0 .. MaxChanges /\ timesSet' \in [Oneshot -> Nat]
    BY <1>11, ServiceTypes DEF RunService
  <2>2. ran' \in [Sources -> Nat] /\ lastRan' \in [Sources -> {-1} \cup Times]
    <3>1. queue.size > 0
      BY <1>11 DEF RunService, Pop
    <3>2. Oldest(queue).deadline \in Times /\ Oldest(queue).source \in Sources
      BY <3>1, OldestEvent
    <3> QED
      BY <1>11, <3>2 DEF RunService, TypeOK
  <2> QED
    BY <1>1, <1>11, <2>1, <2>2 DEF RunService, TypeOK, Locations
<1>12. CASE RunNothing
  BY <1>1, <1>12 DEF RunNothing, TypeOK, Locations
<1>13. CASE ReadClock
  BY <1>1, <1>13, Settings DEF ReadClock, TypeOK, Locations
<1> QED
  BY <1>2, <1>3, <1>4, <1>5, <1>6, <1>7, <1>8, <1>9, <1>10, <1>11, <1>12, <1>13
     DEF Next, Step

-----------------------------------------------------------------------------
(* Every event is accounted for *)

LEMMA InitAccounts == Init => EventsAccounted
<1> SUFFICES ASSUME Init PROVE EventsAccounted
  OBVIOUS
<1>1. /\ queue.size = 0 /\ queue.overflow = 0
      /\ emitted = [s \in Sources |-> 0] /\ ran = [s \in Sources |-> 0]
  BY DEF Init, QueueInit, NewQueue
<1>2. \A s \in Sources : Cardinality(Queued(s)) = 0
  <2>1. \A s \in Sources : Queued(s) = {}
    BY <1>1 DEF Queued
  <2> QED
    BY <2>1, FS_EmptySet
<1>3. Total(emitted) = 0 /\ Total(ran) = 0
  BY <1>1, TotalOfNone
<1> QED
  BY <1>1, <1>2, <1>3 DEF EventsAccounted

LEMMA AccountedCounts ==
  ASSUME EventsAccounted, NEW s \in Sources
  PROVE  /\ ran[s] + Count(s, queue, Indices(queue)) <= emitted[s]
         /\ Total(emitted) = Total(ran) + queue.size + queue.overflow
  BY DEF EventsAccounted, Queued, Count, Indices

LEMMA EmitAccounts ==
  ASSUME TypeOK, QueueInv, EventsAccounted, NEW d, Emit(d), UNCHANGED ran,
         [source |-> src, deadline |-> d] \in Elements
  PROVE  EventsAccounted'
<1> DEFINE val == [source |-> src, deadline |-> d]
           r == Pushed(queue, val)
           P == 0 .. r.size - 2
<1>1. /\ queue \in Queues /\ src \in Sources /\ queue' = r /\ val \in Elements
      /\ emitted' = [emitted EXCEPT ![src] = @ + 1]
      /\ emitted \in [Sources -> Nat] /\ ran \in [Sources -> Nat] /\ val.source = src
  BY StateFacts DEF TypeOK, Emit, Push
<1>2. /\ r \in Queues /\ r.size \in Nat /\ r.size > 0
      /\ r.size + r.overflow = queue.size + queue.overflow + 1
      /\ At(r, r.size - 1) = val
      /\ Comes(r, 0 .. r.size - 2, queue, Indices(queue))
  BY <1>1, PushMoves
<1> HIDE DEF val, r
<1>3. /\ queue.size \in Nat /\ queue.overflow \in Nat /\ r.overflow \in Nat
      /\ IsFiniteSet(Indices(queue)) /\ IsFiniteSet(P)
  BY <1>1, <1>2, QueueNumbers, FinitelyMany
<1>4. Total(emitted)' = Total(ran)' + queue'.size + queue'.overflow
  <2>1. Total(ran) \in Nat /\ Total(emitted) \in Nat /\ Total(emitted') = Total(emitted) + 1
    BY <1>1, TotalGrows
  <2>2. Total(emitted) = Total(ran) + queue.size + queue.overflow
    BY DEF EventsAccounted
  <2>3. Total(emitted)' = Total(emitted') /\ Total(ran)' = Total(ran)
    BY DEF Total
  <2>4. queue'.size + queue'.overflow = queue.size + queue.overflow + 1
    BY <1>1, <1>2
  <2>5. queue'.size \in Nat /\ queue'.overflow \in Nat
    BY <1>1, <1>2, <1>3
  <2> HIDE DEF P
  <2> QED
    <3>1. Total(emitted') = Total(ran) + (queue.size + queue.overflow + 1)
      BY <1>3, <2>1, <2>2
    <3>2. Total(emitted') = Total(ran) + (queue'.size + queue'.overflow)
      BY <2>4, <3>1
    <3>3. Total(emitted') = Total(ran) + queue'.size + queue'.overflow
      BY <2>1, <2>5, <3>2
    <3> QED
      BY <2>3, <3>3
<1>5. ASSUME NEW s \in Sources PROVE ran[s] + Count(s, r, Indices(r)) <= emitted'[s]
  <2>1. /\ Count(s, r, P) \in Nat /\ Count(s, queue, Indices(queue)) \in Nat
        /\ Count(s, r, P) <= Count(s, queue, Indices(queue))
    BY <1>2, <1>3, MovedCount
  <2>2. Indices(r) = P \cup {r.size - 1} /\ r.size - 1 \notin P
    BY <1>2 DEF Indices
  <2>3. Count(s, r, Indices(r)) = IF s = src THEN Count(s, r, P) + 1 ELSE Count(s, r, P)
    <3>1. IsFiniteSet(P) /\ At(r, r.size - 1).source = src
      BY <1>1, <1>2, <1>3
    <3> HIDE DEF P
    <3> QED
      BY <2>2, <3>1, CountOne
  <2>4. emitted'[s] = IF s = src THEN emitted[s] + 1 ELSE emitted[s]
    BY <1>1
  <2>5. ran[s] \in Nat /\ emitted[s] \in Nat
    BY <1>1
  <2> HIDE DEF P
  <2> QED
    BY <2>1, <2>3, <2>4, <2>5, AccountedCounts
<1> QED
  BY <1>1, <1>4, <1>5 DEF EventsAccounted, Queued, Count, Indices

LEMMA SortAccounts ==
  ASSUME TypeOK, QueueInv, EventsAccounted, Sort PROVE EventsAccounted'
<1> USE DEF history, settings
<1>1. CASE queue.size > 1
  <2> DEFINE r == EarliestFirst(queue)
  <2>1. queue' = r /\ UNCHANGED history /\ queue \in Queues
    BY <1>1, StateFacts DEF Sort
  <2>2. 0 \in Indices(queue) /\ Earliest(queue) \in Indices(queue)
    BY <1>1, StateFacts, EarliestFound DEF QueueInv, Indices
  <2>3. /\ r.size = queue.size /\ r.overflow = queue.overflow
        /\ Comes(r, Indices(r), queue, Indices(queue))
    BY <2>1, <2>2, SwapMoves DEF EarliestFirst
  <2> HIDE DEF r
  <2>4. IsFiniteSet(Indices(queue))
    BY <2>1, FinitelyMany
  <2>5. ASSUME NEW s \in Sources PROVE ran[s] + Count(s, r, Indices(r)) <= emitted[s]
    <3>1. /\ Count(s, r, Indices(r)) <= Count(s, queue, Indices(queue))
          /\ Count(s, r, Indices(r)) \in Nat /\ Count(s, queue, Indices(queue)) \in Nat
      BY <2>3, <2>4, MovedCount
    <3>2. ran[s] \in Nat /\ emitted[s] \in Nat
      BY DEF TypeOK
    <3> QED
      BY <3>1, <3>2, AccountedCounts
  <2>6. Total(emitted)' = Total(emitted) /\ Total(ran)' = Total(ran)
    BY <2>1 DEF Total
  <2> QED
    BY <2>1, <2>3, <2>5, <2>6 DEF EventsAccounted, Queued, Count, Indices
<1>2. CASE ~ queue.size > 1
  BY <1>2 DEF Sort, EventsAccounted, Queued, Total
<1> QED
  BY <1>1, <1>2

LEMMA RunAccounts ==
  ASSUME TypeOK, QueueInv, EventsAccounted, RunService PROVE EventsAccounted'
<1> DEFINE r == Popped(queue)
           e == Oldest(queue)
<1>1. /\ queue \in Queues /\ queue.size > 0 /\ queue' = r /\ emitted' = emitted
      /\ ran' = [ran EXCEPT ![e.source] = @ + 1]
      /\ emitted \in [Sources -> Nat] /\ ran \in [Sources -> Nat]
  BY StateFacts DEF TypeOK, RunService, Pop
<1>2. /\ r \in Queues /\ queue.size = r.size + 1 /\ r.overflow = queue.overflow
      /\ r.size \in Nat /\ 0 \in Indices(queue)
      /\ Comes(r, Indices(r), queue, Indices(queue) \ {0})
  BY <1>1, PopMoves
<1>3. e = At(queue, 0) /\ e.source \in Sources
  BY <1>1, OldestEvent
<1> HIDE DEF r, e
<1>4. queue.overflow \in Nat /\ IsFiniteSet(Indices(queue)) /\ IsFiniteSet(Indices(queue) \ {0})
  BY <1>1, QueueNumbers, FinitelyMany, FS_RemoveElement
<1>5. Total(emitted)' = Total(ran)' + queue'.size + queue'.overflow
  <2>1. Total(ran) \in Nat /\ Total(ran') = Total(ran) + 1
    BY <1>1, <1>3, TotalGrows
  <2>2. Total(emitted) = Total(ran) + queue.size + queue.overflow
    BY DEF EventsAccounted
  <2>3. Total(emitted)' = Total(emitted) /\ Total(ran)' = Total(ran')
    BY <1>1 DEF Total
  <2> QED
    BY <1>1, <1>2, <1>4, <2>1, <2>2, <2>3
<1>6. ASSUME NEW s \in Sources PROVE ran'[s] + Count(s, r, Indices(r)) <= emitted[s]
  <2> DEFINE P == Indices(queue) \ {0}
  <2>1. /\ Count(s, r, Indices(r)) \in Nat /\ Count(s, queue, P) \in Nat
        /\ Count(s, r, Indices(r)) <= Count(s, queue, P)
    BY <1>2, <1>4, MovedCount
  <2>2. Indices(queue) = P \cup {0} /\ 0 \notin P
    BY <1>2
  <2>3. Count(s, queue, Indices(queue)) =
          IF s = e.source THEN Count(s, queue, P) + 1 ELSE Count(s, queue, P)
    <3> HIDE DEF P
    <3>1. IsFiniteSet(P)
      BY <1>4 DEF P
    <3> QED
      BY <1>3, <2>2, <3>1, CountOne
  <2>4. ran'[s] = IF s = e.source THEN ran[s] + 1 ELSE ran[s]
    BY <1>1
  <2>5. ran[s] \in Nat /\ emitted[s] \in Nat
    BY <1>1
  <2> HIDE DEF P
  <2> QED
    BY <2>1, <2>3, <2>4, <2>5, AccountedCounts
<1> QED
  BY <1>1, <1>5, <1>6 DEF EventsAccounted, Queued, Count, Indices

LEMMA AccountsStep ==
  ASSUME TypeOK, QueueInv, EventsAccounted, [Next]_vars PROVE EventsAccounted'
<1>1. CASE UNCHANGED <<queue, emitted, ran>>
  BY <1>1 DEF EventsAccounted, Total, Queued
<1>2. CASE FetchPeriodic
  BY <1>2, PeriodicEmits, EmitAccounts DEF FetchPeriodic
<1>3. CASE FetchOneshot
  BY <1>3, OneshotEmits, EmitAccounts DEF FetchOneshot
<1>4. CASE Sort
  BY <1>4, SortAccounts
<1>5. CASE RunService
  BY <1>5, RunAccounts
<1>6. /\ Tick \/ Continue \/ Return \/ NextSource \/ ReadClock \/ (\E stop \in StopTimes : Execute(stop))
           => UNCHANGED <<queue, emitted, ran>>
      /\ RunNothing \/ UNCHANGED vars => UNCHANGED <<queue, emitted, ran>>
  BY DEF Tick, Continue, Return, NextSource, ReadClock, Execute, RunNothing, PopEmpty, vars,
         queueVars, history, settings
<1> QED
  BY <1>1, <1>2, <1>3, <1>4, <1>5, <1>6 DEF Next, Step

-----------------------------------------------------------------------------
(* The sources are drained, and the earliest event comes first *)

LEMMA FetchStep ==
  ASSUME TypeOK, FetchInv, [Next]_vars PROVE FetchInv'
<1> USE DEF loopVars, sources
<1>1. CASE UNCHANGED <<pc, src, timer, oneshot, readAt>>
  BY <1>1 DEF FetchInv, Drained, now
<1>2. CASE Continue
  BY <1>2, Settings DEF Continue, FetchInv
<1>3. CASE FetchPeriodic
  <2>1. ASSUME NEW s \in Sources, s < src PROVE Drained(s)'
    <3>1. Drained(s) /\ s # src
      BY <1>3, <2>1, Settings, StateFacts DEF FetchPeriodic, FetchInv
    <3>2. /\ timer' = [timer EXCEPT ![src] = TimerFired(@, now)] /\ oneshot' = oneshot
          /\ timer \in [Periodic -> Timers] /\ now' = now
      BY <1>3 DEF FetchPeriodic, TypeOK, now
    <3>3. s \in Periodic => timer'[s] = timer[s]
      BY <3>1, <3>2
    <3> QED
      BY <3>1, <3>2, <3>3 DEF Drained
  <2> QED
    BY <1>3, <2>1 DEF FetchPeriodic, FetchInv
<1>4. CASE FetchOneshot
  <2>1. ASSUME NEW s \in Sources, s < src PROVE Drained(s)'
    <3>1. Drained(s) /\ s # src
      BY <1>4, <2>1, Settings, StateFacts DEF FetchOneshot, FetchInv
    <3>2. /\ oneshot' = [oneshot EXCEPT ![src] = OneshotFired(@)] /\ timer' = timer
          /\ oneshot \in [Oneshot -> Oneshots] /\ now' = now
      BY <1>4 DEF FetchOneshot, TypeOK, now
    <3>3. s \in Oneshot => oneshot'[s] = oneshot[s]
      BY <3>1, <3>2
    <3> QED
      BY <3>1, <3>2, <3>3 DEF Drained
  <2> QED
    BY <1>4, <2>1 DEF FetchOneshot, FetchInv
<1>5. CASE NextSource
  <2>1. /\ Drained(src) /\ \A s \in Sources : s < src => Drained(s)
        /\ src \in Sources
    BY <1>5, StateFacts DEF NextSource, Drained, FetchInv
  <2>2. \A s \in Sources : Drained(s)' <=> Drained(s)
    BY <1>5 DEF NextSource, Drained, now
  <2>3. CASE src + 1 \in Sources
    <3>1. pc' = "fetch" /\ src' = src + 1
      BY <1>5, <2>3 DEF NextSource
    <3>2. ASSUME NEW s \in Sources, s < src' PROVE s < src \/ s = src
      BY <2>1, <3>1, <3>2, Settings
    <3> QED
      BY <2>1, <2>2, <3>1, <3>2 DEF FetchInv
  <2>4. CASE src + 1 \notin Sources
    <3>1. pc' = "sort"
      BY <1>5, <2>4 DEF NextSource
    <3>2. ASSUME NEW s \in Sources PROVE s < src \/ s = src
      BY <2>1, <2>4, Settings
    <3> QED
      BY <2>1, <2>2, <3>1, <3>2 DEF FetchInv
  <2> QED
    BY <2>3, <2>4
<1>6. CASE Sort
  BY <1>6 DEF Sort, FetchInv, Drained, now
<1>7. Return \/ RunService \/ RunNothing \/ ReadClock \/ (\E stop \in StopTimes : Execute(stop))
        => FetchInv'
  BY DEF Return, RunService, RunNothing, ReadClock, Execute, FetchInv
<1>8. Tick \/ UNCHANGED vars => UNCHANGED <<pc, src, timer, oneshot, readAt>>
  BY DEF Tick, vars
<1> QED
  BY <1>1, <1>2, <1>3, <1>4, <1>5, <1>6, <1>7, <1>8 DEF Next, Step

LEMMA EarliestStep ==
  ASSUME TypeOK, QueueInv, EarliestInv, [Next]_vars PROVE EarliestInv'
<1>1. CASE UNCHANGED <<pc, queue>>
  BY <1>1 DEF EarliestInv, Indices
<1>2. CASE Sort
  <2>1. CASE queue.size > 1
    <3> DEFINE e == Earliest(queue)
               r == Swapped(queue, 0, e)
    <3>1. /\ 0 \in Indices(queue) /\ e \in Indices(queue)
          /\ \A n \in Indices(queue) : At(queue, e).deadline <= At(queue, n).deadline
      BY <2>1, StateFacts, EarliestFound DEF QueueInv, Indices
    <3> HIDE DEF e
    <3>2. /\ r.size = queue.size
          /\ \A n \in Indices(queue) :
               At(r, n) = At(queue, IF n = e THEN 0 ELSE IF n = 0 THEN e ELSE n)
      BY <3>1, StateFacts, SwappedAt
    <3>3. queue' = r
      BY <1>2, <2>1 DEF Sort, EarliestFirst, e
    <3> HIDE DEF r
    <3>4. Indices(r) = Indices(queue)
      BY <3>2 DEF Indices
    <3>5. At(r, 0) = At(queue, e)
      BY <3>1, <3>2
    <3> QED
      BY <3>1, <3>2, <3>3, <3>4, <3>5 DEF EarliestInv, Oldest, Indices
  <2>2. CASE ~ queue.size > 1
    <3>1. queue' = queue
      BY <1>2, <2>2 DEF Sort
    <3>2. ASSUME NEW n \in Indices(queue)
          PROVE  Oldest(queue).deadline <= At(queue, n).deadline
      <4>1. n = 0
        BY <2>2, StateFacts DEF Indices
      <4>2. At(queue, n).deadline \in Nat
        BY StateFacts, QueuedEvents DEF QueueInv
      <4> QED
        BY <4>1, <4>2 DEF Oldest
    <3> QED
      BY <3>1, <3>2 DEF EarliestInv, Indices
  <2> QED
    BY <2>1, <2>2
<1>3. Continue \/ Return \/ FetchPeriodic \/ FetchOneshot \/ NextSource \/ RunService
        \/ RunNothing \/ ReadClock \/ (\E stop \in StopTimes : Execute(stop)) => pc' # "run"
  BY DEF Continue, Return, FetchPeriodic, FetchOneshot, NextSource, RunService, RunNothing,
         ReadClock, Execute
<1>4. Tick \/ UNCHANGED vars => UNCHANGED <<pc, queue>>
  BY DEF Tick, vars, queueVars
<1> QED
  BY <1>1, <1>2, <1>3, <1>4 DEF Next, Step, EarliestInv

-----------------------------------------------------------------------------
(* The events of a timer stay in order *)

\* A new event joins those of its source as the latest, and leaves the others alone.
LEMMA PushOrder ==
  ASSUME NEW q \in Queues, Contents(q) \in Seq(Elements), NEW val \in Elements,
         NEW s \in Sources, NEW last \in {-1} \cup Times, NEW latest \in Times,
         InOrder(s, q, Indices(q), last, latest)
  PROVE  LET r == Pushed(q, val)
         IN  /\ val.source # s => InOrder(s, r, Indices(r), last, latest)
             /\ val.source = s /\ latest < val.deadline =>
                  InOrder(s, r, Indices(r), last, val.deadline)
<1> DEFINE r == Pushed(q, val)
           P == 0 .. r.size - 2
<1>1. /\ r.size \in Nat /\ r.size > 0 /\ At(r, r.size - 1) = val
      /\ Comes(r, P, q, Indices(q))
  BY PushMoves
<1> HIDE DEF r
<1>2. Indices(r) = P \cup {r.size - 1}
  BY <1>1 DEF Indices
<1> HIDE DEF P
<1>3. InOrder(s, r, P, last, latest)
  BY <1>1, MovedOrder
<1>4. /\ last \in Int /\ latest \in Int /\ val.deadline \in Int
  BY Settings, TimesAreNumbers DEF Events
<1>5. \A n \in P : At(r, n).deadline \in Int
  <2>1. PICK f \in Injection(P, Indices(q)) : \A n \in P : At(r, n) = At(q, f[n])
    BY <1>1 DEF Comes
  <2>2. \A n \in P : f[n] \in Indices(q)
    BY <2>1 DEF Injection
  <2> QED
    BY <2>1, <2>2, QueuedEvents
<1>6. ASSUME val.source # s PROVE InOrder(s, r, Indices(r), last, latest)
  BY <1>1, <1>2, <1>3, <1>6 DEF InOrder
<1>7. ASSUME val.source = s, latest < val.deadline
      PROVE  InOrder(s, r, Indices(r), last, val.deadline)
  <2> DEFINE Of == {n \in Indices(r) : At(r, n).source = s}
             D(n) == At(r, n).deadline
  <2>1. last <= latest /\ last < val.deadline /\ last <= val.deadline
    BY <1>3, <1>4, <1>7 DEF InOrder
  <2>2. ASSUME NEW n \in Of, n # r.size - 1
        PROVE  /\ n \in P /\ At(r, n).source = s
               /\ last < D(n) /\ D(n) <= latest /\ D(n) < val.deadline /\ D(n) \in Int
    <3>1. n \in P /\ At(r, n).source = s
      BY <1>2, <2>2
    <3> QED
      BY <1>3, <1>4, <1>5, <1>7, <3>1 DEF InOrder
  <2>3. \A n \in Of : last < D(n) /\ D(n) <= val.deadline
    BY <1>1, <1>4, <2>1, <2>2
  <2>4. ASSUME NEW m \in Of, NEW n \in Of, m # n PROVE D(m) # D(n)
    <3>1. CASE m # r.size - 1 /\ n # r.size - 1
      <4>1. m \in P /\ n \in P /\ At(r, m).source = s /\ At(r, n).source = s
        BY <2>2, <3>1
      <4> QED
        BY <1>3, <2>4, <4>1 DEF InOrder
    <3>2. CASE m = r.size - 1
      BY <1>1, <1>4, <2>2, <2>4, <3>2
    <3>3. CASE n = r.size - 1
      BY <1>1, <1>4, <2>2, <2>4, <3>3
    <3> QED
      BY <3>1, <3>2, <3>3
  <2> QED
    BY <2>1, <2>3, <2>4 DEF InOrder
<1> QED
  BY <1>6, <1>7 DEF r

\* When the earliest event is run, the others of its source are later.
LEMMA PopOrder ==
  ASSUME NEW q \in Queues, Contents(q) \in Seq(Elements), q.size > 0,
         \A n \in Indices(q) : At(q, 0).deadline <= At(q, n).deadline,
         NEW s \in Sources, NEW last, NEW latest,
         InOrder(s, q, Indices(q), last, latest)
  PROVE  LET r == Popped(q)
         IN  InOrder(s, r, Indices(r),
                     IF At(q, 0).source = s THEN At(q, 0).deadline ELSE last, latest)
<1> DEFINE r == Popped(q)
           Q == Indices(q) \ {0}
           next == IF At(q, 0).source = s THEN At(q, 0).deadline ELSE last
<1>1. Comes(r, Indices(r), q, Q) /\ 0 \in Indices(q)
  BY PopMoves
<1> HIDE DEF r
<1>2. \A n \in Indices(q) : At(q, n).deadline \in Int
  BY QueuedEvents
<1>3. InOrder(s, q, Q, next, latest)
  <2>1. CASE At(q, 0).source = s
    BY <1>1, <1>2, <2>1 DEF InOrder
  <2>2. CASE At(q, 0).source # s
    BY <2>2 DEF InOrder
  <2> QED
    BY <2>1, <2>2
<1> HIDE DEF Q, next
<1>4. InOrder(s, r, Indices(r), next, latest)
  BY <1>1, <1>3, MovedOrder
<1> QED
  BY <1>4 DEF r, next

LEMMA InitOrder == Init => OrderInv
<1> SUFFICES ASSUME Init, NEW s \in Periodic, Fits(timer[s])
             PROVE  OnPeriod(timer[s]) /\ InOrder(s, queue, Indices(queue), lastRan[s], timer[s].lastRun)
  BY DEF OrderInv
<1>1. PICK schedule \in Schedules : timer[s] = Started(schedule)
  BY DEF Init
<1>2. OnPeriod(timer[s]) /\ timer[s].lastRun \in Nat
  BY <1>1, StartedTimer, TimesAreNumbers DEF Timers
<1>3. Indices(queue) = {} /\ lastRan[s] = -1
  BY Settings DEF Init, QueueInit, NewQueue, Indices
<1> QED
  BY <1>2, <1>3 DEF InOrder

\* What the invariant says of one timer
LEMMA OrderOf ==
  ASSUME TypeOK, OrderInv, changes = 0, NEW s \in Periodic, Fits(timer[s])
  PROVE  /\ OnPeriod(timer[s]) /\ s \in Sources
         /\ InOrder(s, queue, Indices(queue), lastRan[s], timer[s].lastRun)
         /\ lastRan[s] \in {-1} \cup Times /\ timer[s] \in Timers /\ timer[s].lastRun \in Times
  BY Settings DEF OrderInv, TypeOK, Timers

LEMMA OrderStep ==
  ASSUME TypeOK, QueueInv, EarliestInv, OrderInv, [Next]_vars PROVE OrderInv'
<1> USE DEF sources, history, settings
<1> SUFFICES ASSUME changes' = 0, NEW s \in Periodic, Fits(timer'[s])
             PROVE  /\ OnPeriod(timer'[s])
                    /\ InOrder(s, queue', Indices(queue'), lastRan'[s], timer'[s].lastRun)
  BY DEF OrderInv, Fits, OnPeriod, InOrder, Indices, At, Slot
<1>1. CASE UNCHANGED <<queue, timer, lastRan, changes>>
  BY <1>1, OrderOf
<1>2. CASE FetchPeriodic
  <2> DEFINE T == timer[src]
             F == TimerFired(T, now)
             val == [source |-> src, deadline |-> F.lastRun]
  <2>1. /\ queue' = Pushed(queue, val) /\ val \in Elements /\ changes = 0
        /\ lastRan' = lastRan /\ queue \in Queues /\ now \in Times
        /\ timer' = [timer EXCEPT ![src] = F] /\ src \in Periodic /\ T \in Timers
        /\ val.source = src /\ val.deadline = F.lastRun
    BY <1>2, PeriodicEmits, StateFacts DEF FetchPeriodic, Emit, Push
  <2> HIDE DEF val
  <2>2. CASE s # src
    <3>1. timer'[s] = timer[s]
      BY <2>1, <2>2 DEF TypeOK
    <3>2. /\ OnPeriod(timer[s]) /\ s \in Sources
          /\ InOrder(s, queue, Indices(queue), lastRan[s], timer[s].lastRun)
          /\ lastRan[s] \in {-1} \cup Times /\ timer[s].lastRun \in Times
      BY <2>1, <3>1, OrderOf
    <3> QED
      BY <2>1, <2>2, <3>1, <3>2, PushOrder DEF QueueInv
  <2>3. CASE s = src
    <3>1. timer'[s] = F
      BY <2>1, <2>3 DEF TypeOK
    <3>2. LoopEnds(T, now) # {} /\ TimerDue(T, now)
      BY <1>2 DEF FetchPeriodic, TimerHangs
    <3>3. /\ F.start = T.start /\ F.period = T.period /\ F.numPeriods = T.numPeriods
      BY <2>1, <3>2, Fired
    <3>4. Fits(T)
      BY <3>1, <3>3 DEF Fits
    <3>5. /\ OnPeriod(T) /\ s \in Sources
          /\ InOrder(s, queue, Indices(queue), lastRan[s], T.lastRun)
          /\ lastRan[s] \in {-1} \cup Times /\ T.lastRun \in Times
      BY <2>1, <2>3, <3>4, OrderOf
    <3>6. OnPeriod(F) /\ T.lastRun < F.lastRun
      BY <2>1, <3>2, <3>4, <3>5, FiredOnPeriod
    <3> HIDE DEF T, F
    <3>7. InOrder(s, Pushed(queue, val), Indices(Pushed(queue, val)), lastRan[s], val.deadline)
      BY <2>1, <2>3, <3>5, <3>6, PushOrder DEF QueueInv
    <3> QED
      BY <2>1, <3>1, <3>6, <3>7
  <2> QED
    BY <2>2, <2>3
<1>3. CASE FetchOneshot
  <2> DEFINE val == [source |-> src, deadline |-> oneshot[src].deadline]
  <2>1. /\ queue' = Pushed(queue, val) /\ val \in Elements /\ changes = 0
        /\ lastRan' = lastRan /\ timer' = timer /\ queue \in Queues
        /\ val.source = src /\ src \in Oneshot
    BY <1>3, OneshotEmits, StateFacts DEF FetchOneshot, Emit, Push
  <2> HIDE DEF val
  <2>2. s # src
    BY <2>1, SchedulerAssumption DEF Periodic, Oneshot
  <2>3. /\ OnPeriod(timer[s]) /\ s \in Sources
        /\ InOrder(s, queue, Indices(queue), lastRan[s], timer[s].lastRun)
        /\ lastRan[s] \in {-1} \cup Times /\ timer[s].lastRun \in Times
    BY <2>1, OrderOf
  <2> QED
    BY <2>1, <2>2, <2>3, PushOrder DEF QueueInv
<1>4. CASE Sort
  <2>1. /\ timer' = timer /\ lastRan' = lastRan /\ changes = 0 /\ queue \in Queues
        /\ queue' = IF queue.size > 1 THEN EarliestFirst(queue) ELSE queue
    BY <1>4, StateFacts DEF Sort
  <2>2. /\ OnPeriod(timer[s])
        /\ InOrder(s, queue, Indices(queue), lastRan[s], timer[s].lastRun)
    BY <2>1, OrderOf
  <2>3. CASE queue.size > 1
    <3>1. 0 \in Indices(queue) /\ Earliest(queue) \in Indices(queue)
      BY <2>3, StateFacts, EarliestFound DEF QueueInv, Indices
    <3>2. Comes(EarliestFirst(queue), Indices(EarliestFirst(queue)), queue, Indices(queue))
      BY <2>1, <3>1, SwapMoves DEF EarliestFirst
    <3> QED
      BY <2>1, <2>2, <2>3, <3>2, MovedOrder
  <2> QED
    BY <2>1, <2>2, <2>3
<1>5. CASE RunService
  <2>1. /\ queue' = Popped(queue) /\ queue.size > 0 /\ queue \in Queues /\ pc = "run"
        /\ lastRan' = [lastRan EXCEPT ![Oldest(queue).source] = Oldest(queue).deadline]
    BY <1>5, StateFacts DEF RunService, Pop
  <2>2. changes = 0 /\ timer' = timer
    <3>1. changes \in Nat
      BY Settings DEF TypeOK
    <3> QED
      BY <1>5, <3>1 DEF RunService, Service
  <2>3. /\ OnPeriod(timer[s]) /\ s \in Sources
        /\ InOrder(s, queue, Indices(queue), lastRan[s], timer[s].lastRun)
    BY <2>2, OrderOf
  <2>4. \A n \in Indices(queue) : At(queue, 0).deadline <= At(queue, n).deadline
    BY <2>1 DEF EarliestInv, Oldest
  <2>5. lastRan'[s] = IF At(queue, 0).source = s THEN At(queue, 0).deadline ELSE lastRan[s]
    BY <2>1, <2>3 DEF TypeOK, Oldest
  <2>6. InOrder(s, Popped(queue), Indices(Popped(queue)), lastRan'[s], timer[s].lastRun)
    BY <2>1, <2>3, <2>4, <2>5, PopOrder DEF QueueInv
  <2> QED
    BY <2>1, <2>2, <2>3, <2>6
<1>6. /\ Tick \/ Continue \/ Return \/ NextSource \/ ReadClock \/ (\E stop \in StopTimes : Execute(stop))
           => UNCHANGED <<queue, timer, lastRan, changes>>
      /\ RunNothing \/ UNCHANGED vars => UNCHANGED <<queue, timer, lastRan, changes>>
  BY DEF Tick, Continue, Return, NextSource, ReadClock, Execute, RunNothing, PopEmpty, vars,
         queueVars
<1> QED
  BY <1>1, <1>2, <1>3, <1>4, <1>5, <1>6 DEF Next, Step

-----------------------------------------------------------------------------
(* One-shot timers *)

LEMMA InitSet == Init => SetInv
<1> SUFFICES ASSUME Init, NEW s \in Oneshot PROVE emitted[s] + Pending(s) <= timesSet[s]
  BY DEF SetInv
<1>1. emitted[s] = 0 /\ timesSet[s] = IF oneshot[s].hasBeenRun THEN 0 ELSE 1
  BY Settings DEF Init
<1> QED
  BY <1>1 DEF Pending

LEMMA SetStep ==
  ASSUME TypeOK, SetInv, [Next]_vars PROVE SetInv'
<1> USE DEF sources, history, settings
<1> SUFFICES ASSUME NEW s \in Oneshot PROVE emitted'[s] + Pending(s)' <= timesSet'[s]
  BY DEF SetInv
<1>1. /\ emitted[s] \in Nat /\ timesSet[s] \in Nat /\ oneshot[s].hasBeenRun \in BOOLEAN
      /\ emitted[s] + Pending(s) <= timesSet[s]
      /\ emitted \in [Sources -> Nat] /\ timesSet \in [Oneshot -> Nat]
      /\ oneshot \in [Oneshot -> Oneshots] /\ s \in Sources
  <2>1. s \in Sources /\ emitted \in [Sources -> Nat] /\ timesSet \in [Oneshot -> Nat]
        /\ oneshot \in [Oneshot -> Oneshots]
    BY Settings DEF TypeOK
  <2>2. oneshot[s].hasBeenRun \in BOOLEAN
    BY <2>1 DEF Oneshots
  <2> QED
    BY <2>1, <2>2 DEF SetInv
<1>2. CASE UNCHANGED <<emitted, oneshot, timesSet>>
  BY <1>1, <1>2 DEF Pending
<1>3. CASE FetchPeriodic
  <2>1. /\ src \in Periodic /\ emitted' = [emitted EXCEPT ![src] = @ + 1]
        /\ oneshot' = oneshot /\ timesSet' = timesSet
    BY <1>3 DEF FetchPeriodic, Emit
  <2>2. src # s
    BY <2>1, Settings DEF Periodic, Oneshot
  <2>3. emitted'[s] = emitted[s]
    BY <1>1, <2>1, <2>2
  <2> QED
    BY <1>1, <2>1, <2>3 DEF Pending
<1>4. CASE FetchOneshot
  <2>1. /\ src \in Oneshot /\ OneshotDue(oneshot[src], now)
        /\ emitted' = [emitted EXCEPT ![src] = @ + 1]
        /\ oneshot' = [oneshot EXCEPT ![src] = OneshotFired(@)] /\ timesSet' = timesSet
    BY <1>4 DEF FetchOneshot, Emit
  <2>2. CASE src = s
    <3>1. Pending(s) = 1
      BY <2>1, <2>2 DEF OneshotDue, Pending
    <3>2. oneshot'[s].hasBeenRun = TRUE
      BY <1>1, <2>1, <2>2 DEF OneshotFired, Oneshots
    <3>3. Pending(s)' = 0
      BY <3>2 DEF Pending
    <3>4. emitted'[s] = emitted[s] + 1
      BY <1>1, <2>1, <2>2
    <3> QED
      BY <1>1, <2>1, <3>1, <3>3, <3>4
  <2>3. CASE src # s
    <3>1. emitted'[s] = emitted[s] /\ oneshot'[s] = oneshot[s]
      BY <1>1, <2>1, <2>3
    <3> QED
      BY <1>1, <2>1, <3>1 DEF Pending
  <2> QED
    BY <2>2, <2>3
<1>5. CASE RunService
  <2>1. Service /\ emitted' = emitted
    BY <1>5 DEF RunService
  <2>2. CASE UNCHANGED <<sources, settings>> \/ StartAgain
    BY <1>2, <2>1, <2>2 DEF StartAgain
  <2>3. CASE SetAgain
    <3>1. PICK u \in Oneshot :
            /\ \A v \in Oneshot : v # u => oneshot'[v] = oneshot[v]
            /\ timesSet' = [timesSet EXCEPT ![u] = @ + 1]
      BY <1>1, <2>3 DEF SetAgain
    <3>2. CASE u = s
      <4>1. timesSet'[s] = timesSet[s] + 1 /\ Pending(s)' \in 0 .. 1 /\ Pending(s) \in 0 .. 1
        BY <1>1, <3>1, <3>2 DEF Pending
      <4> QED
        BY <1>1, <2>1, <4>1
    <3>3. CASE u # s
      <4>1. timesSet'[s] = timesSet[s] /\ oneshot'[s] = oneshot[s]
        BY <1>1, <3>1, <3>3
      <4> QED
        BY <1>1, <2>1, <4>1 DEF Pending
    <3> QED
      BY <3>2, <3>3
  <2> QED
    BY <2>1, <2>2, <2>3 DEF Service
<1>6. /\ Tick \/ Continue \/ Return \/ NextSource \/ Sort => UNCHANGED <<emitted, oneshot, timesSet>>
      /\ ReadClock \/ RunNothing \/ (\E stop \in StopTimes : Execute(stop))
           => UNCHANGED <<emitted, oneshot, timesSet>>
      /\ UNCHANGED vars => UNCHANGED <<emitted, oneshot, timesSet>>
  BY DEF Tick, Continue, Return, NextSource, Sort, ReadClock, RunNothing, Execute, vars
<1> QED
  BY <1>2, <1>3, <1>4, <1>5, <1>6 DEF Next, Step

-----------------------------------------------------------------------------
(* What holds of every program *)

LEMMA InitIInv == Init => IInv
<1> SUFFICES ASSUME Init PROVE IInv
  OBVIOUS
<1>1. TypeOK /\ EventsAccounted /\ OrderInv /\ SetInv
  BY InitTypes, InitAccounts, InitOrder, InitSet
<1>2. QueueInv
  BY InitQueueInv DEF Init
<1>3. FetchInv /\ EarliestInv
  BY DEF Init, FetchInv, EarliestInv
<1> QED
  BY <1>1, <1>2, <1>3 DEF IInv

LEMMA IInvStep == IInv /\ [Next]_vars => IInv'
<1> SUFFICES ASSUME IInv, [Next]_vars PROVE IInv'
  OBVIOUS
<1>1. TypeOK /\ QueueInv /\ EventsAccounted /\ FetchInv /\ EarliestInv /\ OrderInv /\ SetInv
  BY DEF IInv
<1>2. TypeOK' /\ QueueInv' /\ EventsAccounted'
  BY <1>1, TypeStep, QueueInvStep, AccountsStep
<1>3. FetchInv' /\ EarliestInv' /\ OrderInv' /\ SetInv'
  BY <1>1, FetchStep, EarliestStep, OrderStep, SetStep
<1> QED
  BY <1>2, <1>3 DEF IInv

THEOREM SchedulerInvariant == Spec => []IInv
  BY InitIInv, IInvStep, PTL DEF Spec

\* The queue's indices, the timers' words and the counts stay in their ranges.
THEOREM TypeCorrect == Spec => []TypeOK
<1>1. IInv => TypeOK
  BY DEF IInv
<1> QED
  BY <1>1, SchedulerInvariant, PTL

\* No event of the sources vanishes unnoticed, and none is run twice, however many
\* there are, however small the queue is, and whatever the services do.
THEOREM AccountsEvents == Spec => []EventsAccounted
<1>1. IInv => EventsAccounted
  BY DEF IInv
<1> QED
  BY <1>1, SchedulerInvariant, PTL

\* The service of a one-shot timer is run at most once for every time the timer was set,
\* whatever became of its earlier events.
THEOREM OneshotsRunAsSet == Spec => []RunsAsSet
<1>1. IInv => RunsAsSet
  <2> SUFFICES ASSUME IInv, NEW s \in Oneshot
               PROVE  ran[s] + Cardinality(Queued(s)) + Pending(s) <= timesSet[s]
    BY DEF RunsAsSet
  <2> DEFINE c == Cardinality(Queued(s))
  <2>1. /\ s \in Sources /\ ran[s] \in Nat /\ emitted[s] \in Nat /\ timesSet[s] \in Nat
        /\ ran[s] + c <= emitted[s]
    BY Settings DEF IInv, TypeOK, EventsAccounted
  <2>2. c \in Nat
    <3>1. IsFiniteSet(0 .. queue.size - 1) /\ Queued(s) \subseteq 0 .. queue.size - 1
      BY StateFacts, FS_Interval DEF IInv, Queued
    <3> QED
      BY <3>1, FS_Subset, FS_CardinalityType
  <2>3. emitted[s] + Pending(s) <= timesSet[s] /\ Pending(s) \in 0 .. 1
    BY DEF IInv, SetInv, Pending
  <2> HIDE DEF c
  <2>4. ran[s] + c + Pending(s) <= timesSet[s]
    BY <2>1, <2>2, <2>3
  <2> QED
    BY <2>4 DEF c
<1> QED
  BY <1>1, SchedulerInvariant, PTL

\* fetch_events_from_source() leaves no event behind that is due.
THEOREM DrainsSources == Spec => []SourcesDrained
<1>1. IInv => SourcesDrained
  BY Settings DEF IInv, FetchInv, Drained, SourcesDrained
<1> QED
  BY <1>1, SchedulerInvariant, PTL

\* Every service that is run belongs to an event with the earliest deadline of the queue,
\* and the events of a timer are run one after the other.
THEOREM InServiceOrder == Spec => ServiceOrder
<1>1. IInv /\ [Next]_vars =>
        [RunService => \A n \in 0 .. queue.size - 1 :
                         Oldest(queue).deadline <= At(queue, n).deadline]_vars
  BY DEF IInv, EarliestInv, Indices, RunService
<1>2. IInv /\ [Next]_vars =>
        [RunService /\ changes = 0 =>
           LET e == Oldest(queue)
           IN  e.source \in Periodic /\ Fits(timer[e.source]) =>
                 e.deadline > lastRan[e.source]]_vars
  <2> SUFFICES ASSUME IInv, RunService, changes = 0, Oldest(queue).source \in Periodic,
                      Fits(timer[Oldest(queue).source])
               PROVE  Oldest(queue).deadline > lastRan[Oldest(queue).source]
    OBVIOUS
  <2>1. TypeOK /\ QueueInv /\ OrderInv /\ queue.size > 0
    BY DEF IInv, RunService, Pop
  <2>2. 0 \in Indices(queue) /\ Oldest(queue) = At(queue, 0)
    BY <2>1, OldestEvent
  <2> DEFINE s == Oldest(queue).source
  <2>3. InOrder(s, queue, Indices(queue), lastRan[s], timer[s].lastRun)
    BY <2>1, OrderOf
  <2>4. lastRan[s] < At(queue, 0).deadline
    BY <2>2, <2>3 DEF InOrder
  <2>5. At(queue, 0).deadline \in Int /\ lastRan[s] \in Int
    BY <2>1, <2>2, OrderOf, OldestEvent, TimesAreNumbers
  <2> QED
    BY <2>2, <2>4, <2>5
<1> QED
  BY <1>1, <1>2, SchedulerInvariant, PTL
     DEF Spec, ServiceOrder, EarliestDeadlineFirst, RunInOrder

\* The scheduler is one of the callers class Queue was proved for.
THEOREM UsesQueue == Spec => QueueSpec
<1>1. Init => QueueInit
  BY DEF Init
<1>2. IInv /\ [Next]_vars => [QueueNext]_queueVars
  BY UsesQueueStep DEF IInv
<1> QED
  BY <1>1, <1>2, SchedulerInvariant, PTL DEF Spec, QueueSpec

\* What the scheduler sees is the lossy first-in first-out queue.
THEOREM SeesLossyQueue == Spec => ImplementsLossyQueue
  BY UsesQueue, QueueRefinement

=============================================================================
