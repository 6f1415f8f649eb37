-------------------------------- MODULE Queue --------------------------------
(***************************************************************************)
(* One object of class Queue (include/libnux/scheduling/Queue.hpp) and any *)
(* sequence of calls to its member functions.                              *)
(***************************************************************************)
EXTENDS RingQueue

VARIABLES queue, \* the object
          got    \* what the last pop() stored through `getter'; << >> if it
                 \* returned false

queueVars == <<queue, got>>

QueueTypeOK == /\ queue \in Queues
               /\ got \in {<< >>} \cup {<<v>> : v \in Elements}

QueueInit == queue = NewQueue /\ got = << >>

Push(val) == /\ queue' = Pushed(queue, val)
             /\ UNCHANGED got

Pop == /\ queue.size > 0
       /\ got' = <<Oldest(queue)>>
       /\ queue' = Popped(queue)

PopEmpty == /\ queue.size = 0
            /\ got' = << >>
            /\ UNCHANGED queue

\* The caller assigns through the reference operator[] returns.
Assign(index, val) == /\ index < queue.size
                      /\ queue' = Assigned(queue, index, val)
                      /\ UNCHANGED got

\* The caller exchanges what two of these references lead to.
Swap(m, n) == /\ m < queue.size /\ n < queue.size
              /\ queue' = Swapped(queue, m, n)
              /\ UNCHANGED got

\* init(), called again on an object in use.
Reset == queue' = Cleared(queue) /\ UNCHANGED got

QueueNext == \/ \E val \in Elements : Push(val)
             \/ Pop
             \/ PopEmpty
             \/ \E index \in Slots, val \in Elements : Assign(index, val)
             \/ \E m, n \in Slots : Swap(m, n)
             \/ Reset

QueueSpec == QueueInit /\ [][QueueNext]_queueVars

-----------------------------------------------------------------------------

\* The two debug values agree: elements can only have been dropped if the
\* high-water mark has reached the size of the buffer, and the mark is never
\* below what is stored now.
DebugValuesAgree == /\ queue.overflow > 0 => queue.max = QueueSize
                    /\ queue.size <= queue.max

\* The queue the index arithmetic implements.
Abstract == INSTANCE LossyQueue
              WITH Capacity <- QueueSize, items <- Contents(queue),
                   lost <- queue.overflow, most <- queue.max

\* Whatever the calls, the object behaves as a first-in first-out queue that
\* drops its oldest elements: slots that were never written, or that hold
\* popped elements, are never seen.
ImplementsLossyQueue == Abstract!Spec
=============================================================================
