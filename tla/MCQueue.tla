------------------------------- MODULE MCQueue -------------------------------
(***************************************************************************)
(* The queue for TLC: with a bound on the elements that are dropped.       *)
(***************************************************************************)
EXTENDS Queue

CONSTANT MaxOverflow \* bound: no push once that many elements were dropped

ASSUME MaxOverflowAssumption == MaxOverflow \in Nat

MayPush == queue.size = QueueSize => queue.overflow < MaxOverflow

BoundedNext == \/ MayPush /\ \E val \in Elements : Push(val)
               \/ Pop
               \/ PopEmpty
               \/ \E index \in Slots, val \in Elements : Assign(index, val)
               \/ \E m, n \in Slots : Swap(m, n)
               \/ Reset

BoundedSpec == QueueInit /\ [][BoundedNext]_queueVars
=============================================================================
