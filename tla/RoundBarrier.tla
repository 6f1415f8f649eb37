---------------------------- MODULE RoundBarrier ----------------------------
(***************************************************************************)
(* What a barrier between N agents promises, without any word on how the   *)
(* agents tell each other: every agent calls wait() Rounds times, and call *)
(* number e of an agent returns only once every agent has made call e.     *)
(***************************************************************************)
EXTENDS Integers

CONSTANTS Agents, \* who meets at the barrier
          Rounds  \* calls of wait() each agent makes

VARIABLES round,  \* round[i]: calls of wait() that have returned to agent i
          inside  \* the agents that are inside a call

vars == <<round, inside>>

Init == /\ round = [i \in Agents |-> 0]
        /\ inside = {}

\* Agent i calls wait().
Enter(i) == /\ i \notin inside
            /\ round[i] < Rounds
            /\ inside' = inside \cup {i}
            /\ UNCHANGED round

\* Has agent j made its call number e (counted from 0)?
Arrived(j, e) == \/ round[j] > e
                 \/ round[j] = e /\ j \in inside

\* wait() returns to agent i.
Leave(i) == /\ i \in inside
            /\ \A j \in Agents : Arrived(j, round[i])
            /\ inside' = inside \ {i}
            /\ round' = [round EXCEPT ![i] = @ + 1]

Next == \E i \in Agents : Enter(i) \/ Leave(i)

Spec == Init /\ [][Next]_vars
=============================================================================
