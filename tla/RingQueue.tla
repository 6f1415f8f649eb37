------------------------------ MODULE RingQueue ------------------------------
(***************************************************************************)
(* class Queue of include/libnux/scheduling/Queue.hpp: a circular buffer   *)
(* of fixed size whose push never fails but overwrites the oldest element  *)
(* when the buffer is full, and counts that.  An object is a record; the   *)
(* member functions are operators that take and return one.                *)
(***************************************************************************)
EXTENDS Integers, Sequences

CONSTANTS QueueSize, \* template parameter N
          Elements,  \* values of template parameter T
          Garbage    \* what a slot of m_array holds before it is written

ASSUME QueueAssumption == /\ QueueSize \in Nat \ {0}
                          /\ Garbage \notin Elements

Slots == 0 .. QueueSize - 1

\* array, write, size, overflow and max are m_array, m_write_addr,
\* m_size_current, m_overflow_count and m_max_size.
Queues == [array    : [Slots -> Elements \cup {Garbage}],
           write    : Slots,
           size     : 0 .. QueueSize,
           overflow : Nat,
           max      : 0 .. QueueSize]

\* init(): the slots keep what they hold.
Cleared(q) == [array |-> q.array,
               write |-> 0, size |-> 0, overflow |-> 0, max |-> 0]

\* Queue(): the array is not initialised.
NewQueue == [array |-> [s \in Slots |-> Garbage],
             write |-> 0, size |-> 0, overflow |-> 0, max |-> 0]

\* Mistake: the writer's position for the oldest element's.
SlotFromWriter(q, index) == (QueueSize + q.write + index) % QueueSize

\* Where operator[] and pop() find the element number index, from the oldest.
Slot(q, index) == (QueueSize + q.write - q.size + index) % QueueSize

\* operator[]
At(q, index) == q.array[Slot(q, index)]

\* Mistake: the high-water mark is taken before the element is counted.
PushedMarkedLate(q, val) ==
  LET full  == q.size = QueueSize
      grown == IF full THEN q.size ELSE q.size + 1
  IN  [array    |-> [q.array EXCEPT ![q.write] = val],
       write    |-> (q.write + 1) % QueueSize,
       size     |-> grown,
       overflow |-> IF full THEN q.overflow + 1 ELSE q.overflow,
       max      |-> IF q.max < q.size THEN q.size ELSE q.max]

\* push(val)
Pushed(q, val) ==
  LET full  == q.size = QueueSize
      grown == IF full THEN q.size ELSE q.size + 1
  IN  [array    |-> [q.array EXCEPT ![q.write] = val],
       write    |-> (q.write + 1) % QueueSize,
       size     |-> grown,
       overflow |-> IF full THEN q.overflow + 1 ELSE q.overflow,
       max      |-> IF q.max < grown THEN grown ELSE q.max]

\* pop() of a queue that is not empty: what it stores and what it leaves.
Oldest(q) == At(q, 0)
Popped(q) == [q EXCEPT !.size = @ - 1]

\* q[index] = val
Assigned(q, index, val) == [q EXCEPT !.array[Slot(q, index)] = val]

\* std::swap(q[m], q[n])
Swapped(q, m, n) == Assigned(Assigned(q, m, At(q, n)), n, At(q, m))

\* The elements a caller can reach, oldest first.
Contents(q) == [n \in 1 .. q.size |-> At(q, n - 1)]
=============================================================================
