----------------------------- MODULE LossyQueue -----------------------------
(***************************************************************************)
(* What class Queue promises: a first-in first-out queue of at most        *)
(* Capacity elements that drops its oldest element to take a new one, and  *)
(* that knows how many it dropped and how long it once was.                *)
(***************************************************************************)
EXTENDS Integers, Sequences

CONSTANTS Capacity, Elements

VARIABLES items, \* the elements, oldest first
          lost,  \* how many were dropped since the last Reset
          most,  \* the greatest length since the last Reset
          got    \* what the last Pop returned: << >> if there was nothing

vars == <<items, lost, most, got>>

Init == items = << >> /\ lost = 0 /\ most = 0 /\ got = << >>

Push(v) == /\ Len(items) < Capacity
           /\ items' = Append(items, v)
           /\ most' = IF most < Len(items) + 1 THEN Len(items) + 1 ELSE most
           /\ UNCHANGED <<lost, got>>

PushDropping(v) == /\ Len(items) = Capacity
                   /\ items' = Append(Tail(items), v)
                   /\ lost' = lost + 1
                   /\ UNCHANGED <<most, got>>

Pop == /\ items # << >>
       /\ got' = <<Head(items)>>
       /\ items' = Tail(items)
       /\ UNCHANGED <<lost, most>>

PopNothing == /\ items = << >>
              /\ got' = << >>
              /\ UNCHANGED <<items, lost, most>>

Assign(n, v) == /\ n \in 1 .. Len(items)
                /\ items' = [items EXCEPT ![n] = v]
                /\ UNCHANGED <<lost, most, got>>

Swap(m, n) == /\ m \in 1 .. Len(items) /\ n \in 1 .. Len(items)
              /\ items' = [items EXCEPT ![m] = items[n], ![n] = items[m]]
              /\ UNCHANGED <<lost, most, got>>

Reset == /\ items' = << >>
         /\ lost' = 0
         /\ most' = 0
         /\ UNCHANGED got

Next == \/ \E v \in Elements : Push(v) \/ PushDropping(v)
        \/ Pop \/ PopNothing
        \/ \E n \in 1 .. Capacity, v \in Elements : Assign(n, v)
        \/ \E m, n \in 1 .. Capacity : Swap(m, n)
        \/ Reset

Spec == Init /\ [][Next]_vars
=============================================================================
