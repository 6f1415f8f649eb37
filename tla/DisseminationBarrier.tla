------------------------ MODULE DisseminationBarrier ------------------------
(***************************************************************************)
(* The dissemination barrier of include/libnux/vx/barrier.h, as the two    *)
(* embedded processors (PPUs) of a chip use it in                          *)
(* tests/hw/libnux/with_hostcode/vx/barrier_two_ppus.cpp: every agent      *)
(* constructs its own Barrier object at boot, spins until the host sets    *)
(* its `begin' word, calls initialize() once and then wait() Rounds times. *)
(*                                                                         *)
(* An agent notifies another one by storing its sense into a flag of that  *)
(* agent's object over the on-chip bus; the store is completed (`sync')    *)
(* before the agent starts to spin on its own flag, and one word is        *)
(* written or read at a time.  The agents interleave at that grain.        *)
(***************************************************************************)
EXTENDS Integers

CONSTANTS N,        \* template parameter N: number of agents
          NumFlags, \* num_flags_per_parity == hate::math::log2(N)
          Pow2,     \* Pow2[k]: hate::math::pow(2, k)
          Rounds,   \* calls of wait() an agent makes (1000 in the test)
          NoAgent,  \* the null `remote' pointer
          Image     \* what a word may hold before the constructor has run

Agents   == 0 .. N - 1
Flags    == 0 .. NumFlags - 1
Parities == {0, 1}   \* num_states_parity == 2
Words    == {0, 1}   \* the two values a sense takes

(***************************************************************************)
(* log2 and pow come from an external library.  The barrier needs log2 to  *)
(* be rounded up: 2^NumFlags has to reach all N agents.                    *)
(***************************************************************************)
ASSUME BarrierAssumption ==
  /\ N \in Nat \ {0}
  /\ NumFlags \in Nat
  /\ Rounds \in Nat
  /\ NoAgent \notin Agents
  /\ Image \subseteq Words /\ Image # {}
  /\ Pow2 \in [0 .. NumFlags -> Nat]
  /\ Pow2[0] = 1
  /\ \A k \in Flags : Pow2[k + 1] = 2 * Pow2[k] /\ Pow2[k] < N
  /\ N <= Pow2[NumFlags]

VARIABLES flags,   \* flags[i][p][k]: word `local' of flags[p][k] of agent i
          remote,  \* remote[i][p][k]: whose flags[p][k] agent i notifies
          parity,  \* member parity of agent i's object
          sense,   \* member sense of agent i's object
          pc,      \* where agent i's program is
          step,    \* loop variable k of wait()
          counter, \* the test's counter: calls of wait() that have returned
          begin    \* the agents whose `begin' word the host has set

vars == <<flags, remote, parity, sense, pc, step, counter, begin>>

Locations == {"boot",   \* released from reset, constructor not yet run
              "await",  \* start(): spinning on `begin'
              "ready",  \* between two calls of wait()
              "loop",   \* in wait(), at the head of the for loop
              "spin"}   \* in wait(), spinning on the own flag

TypeOK ==
  /\ flags   \in [Agents -> [Parities -> [Flags -> Words]]]
  /\ remote  \in [Agents -> [Parities -> [Flags -> Agents \cup {NoAgent}]]]
  /\ parity  \in [Agents -> Parities]
  /\ sense   \in [Agents -> Words]
  /\ pc      \in [Agents -> Locations]
  /\ step    \in [Agents -> 0 .. NumFlags]
  /\ counter \in [Agents -> 0 .. Rounds]
  /\ begin   \in SUBSET Agents

Init ==
  /\ flags   \in [Agents -> [Parities -> [Flags -> Image]]]
  /\ remote  = [i \in Agents |-> [p \in Parities |-> [k \in Flags |-> NoAgent]]]
  /\ parity  \in [Agents -> Image]
  /\ sense   \in [Agents -> Image]
  /\ pc      = [i \in Agents |-> "boot"]
  /\ step    = [i \in Agents |-> 0]
  /\ counter = [i \in Agents |-> 0]
  /\ begin   = {}

Goto(i, location) == pc' = [pc EXCEPT ![i] = location]

-----------------------------------------------------------------------------

\* Barrier(): run by the start-up code before start() is called.
Construct(i) ==
  /\ pc[i] = "boot"
  /\ flags' = [flags EXCEPT ![i] = [p \in Parities |-> [k \in Flags |-> 0]]]
  /\ remote' = [remote EXCEPT ![i] =
                  [p \in Parities |-> [k \in Flags |-> NoAgent]]]
  /\ parity' = [parity EXCEPT ![i] = 0]
  /\ sense' = [sense EXCEPT ![i] = 1]
  /\ Goto(i, "await")
  /\ UNCHANGED <<step, counter, begin>>

\* Mistake: the host does not wait until every processor is up.
HostBeginEarly(i) ==
  /\ i \notin begin
  /\ begin' = begin \cup {i}
  /\ UNCHANGED <<flags, remote, parity, sense, pc, step, counter>>

\* The host sets agent i's `begin' word.  It started every processor before
\* and took far longer than a constructor to get here.
HostBegin(i) ==
  /\ i \notin begin
  /\ \A j \in Agents : pc[j] # "boot"
  /\ begin' = begin \cup {i}
  /\ UNCHANGED <<flags, remote, parity, sense, pc, step, counter>>

\* Mistake: 2 * k for 2^k.
OtherTwice(i, k) == (i + 2 * k) % N

\* The agent whose flag k agent i notifies.
Other(i, k) == (i + Pow2[k]) % N

\* initialize(locations, i), and counter = 0.
Initialize(i) ==
  /\ pc[i] = "await"
  /\ i \in begin
  /\ remote' = [remote EXCEPT ![i] =
                  [p \in Parities |-> [k \in Flags |-> Other(i, k)]]]
  /\ counter' = [counter EXCEPT ![i] = 0]
  /\ Goto(i, "ready")
  /\ UNCHANGED <<flags, parity, sense, step, begin>>

\* Agent i calls wait().
Enter(i) ==
  /\ pc[i] = "ready"
  /\ counter[i] < Rounds
  /\ step' = [step EXCEPT ![i] = 0]
  /\ Goto(i, "loop")
  /\ UNCHANGED <<flags, remote, parity, sense, counter, begin>>

\* *(flag.remote) = sense; sync.
Notify(i) ==
  /\ pc[i] = "loop"
  /\ step[i] < NumFlags
  /\ flags' = [flags EXCEPT
                 ![remote[i][parity[i]][step[i]]][parity[i]][step[i]] = sense[i]]
  /\ Goto(i, "spin")
  /\ UNCHANGED <<remote, parity, sense, step, counter, begin>>

\* while (flag.local != sense) {}: the read that ends the loop.
Spin(i) ==
  /\ pc[i] = "spin"
  /\ flags[i][parity[i]][step[i]] = sense[i]
  /\ step' = [step EXCEPT ![i] = @ + 1]
  /\ Goto(i, "loop")
  /\ UNCHANGED <<flags, remote, parity, sense, counter, begin>>

\* Mistake: one set of flags only, the sense flips after every call.
LeaveOneParity(i) ==
  /\ pc[i] = "loop"
  /\ step[i] = NumFlags
  /\ sense' = [sense EXCEPT ![i] = 1 - @]
  /\ counter' = [counter EXCEPT ![i] = @ + 1]
  /\ Goto(i, "ready")
  /\ UNCHANGED <<flags, remote, parity, step, begin>>

\* Mistake: the sense flips with the first parity instead of the second.
LeaveFlipsFirst(i) ==
  /\ pc[i] = "loop"
  /\ step[i] = NumFlags
  /\ sense' = [sense EXCEPT ![i] = IF parity[i] = 0 THEN 1 - @ ELSE @]
  /\ parity' = [parity EXCEPT ![i] = 1 - @]
  /\ counter' = [counter EXCEPT ![i] = @ + 1]
  /\ Goto(i, "ready")
  /\ UNCHANGED <<flags, remote, step, begin>>

\* The end of wait(): flip the sense after parity 1, flip the parity, return.
Leave(i) ==
  /\ pc[i] = "loop"
  /\ step[i] = NumFlags
  /\ sense' = [sense EXCEPT ![i] = IF parity[i] = 1 THEN 1 - @ ELSE @]
  /\ parity' = [parity EXCEPT ![i] = 1 - @]
  /\ counter' = [counter EXCEPT ![i] = @ + 1]
  /\ Goto(i, "ready")
  /\ UNCHANGED <<flags, remote, step, begin>>

\* One agent's program.
Agent(i) == \/ Construct(i)
            \/ Initialize(i)
            \/ Enter(i)
            \/ Notify(i)
            \/ Spin(i)
            \/ Leave(i)

\* Every program has made its calls and has left start().
Finished == \A i \in Agents : pc[i] = "ready" /\ counter[i] = Rounds

Stop == Finished /\ UNCHANGED vars

Next == \/ \E i \in Agents : Agent(i) \/ HostBegin(i)
        \/ Stop

Spec == Init /\ [][Next]_vars

(***************************************************************************)
(* Each processor keeps executing its own program (its clock does not stop *)
(* and a bus access completes), and the host script reaches every begin    *)
(* word.  A spinning agent is disabled until its flag has the value.       *)
(***************************************************************************)
Fairness == \A i \in Agents : WF_vars(Agent(i)) /\ WF_vars(HostBegin(i))

FairSpec == Spec /\ Fairness

-----------------------------------------------------------------------------

InWait(i) == pc[i] \in {"loop", "spin"}

\* Agent j has made its call number e of wait().
Entered(j, e) == counter[j] > e \/ (counter[j] = e /\ InWait(j))

\* The barrier property: when call number e of wait() has returned to some
\* agent, every agent has made its call e (test_barrier_vx_v3.py can only
\* look at the counters after both programs have ended).
BarrierSafe ==
  \A i, j \in Agents : counter[i] > 0 => Entered(j, counter[i] - 1)

\* The agent that notifies flag k of agent j.
NotifiedBy(i, j, k) == remote[i][0][k] = j

\* Agent i has stored its notification for flag k in its call number e.
Notified(i, e, k) ==
  \/ counter[i] > e
  \/ /\ counter[i] = e
     /\ \/ pc[i] = "loop" /\ step[i] > k
        \/ pc[i] = "spin" /\ step[i] >= k

\* Overwritten and stale flags: while agent j is in a call and has not passed
\* flag k, that flag shows j's sense exactly when j's notifier has notified it
\* in the same call.  A notification is thus neither lost to a faster agent
\* that is already in its next call (why there are two parities) nor seen
\* twice (why the sense flips).
FlagsTruthful ==
  \A i, j \in Agents, k \in Flags :
    InWait(j) /\ step[j] <= k /\ NotifiedBy(i, j, k)
      => (flags[j][parity[j]][k] = sense[j] <=> Notified(i, counter[j], k))

\* Every program gets through all its calls: nobody is left spinning.
AllFinish == <>Finished

\* The abstract barrier this one implements.
Abstract == INSTANCE RoundBarrier
              WITH round <- counter, inside <- {i \in Agents : InWait(i)}

\* Every step of the flags' protocol is a step of the abstract barrier or
\* leaves it alone.
ImplementsRoundBarrier == Abstract!Spec
-----------------------------------------------------------------------------
(***************************************************************************)
(* The inductive invariant.  Its last three parts carry the argument: a    *)
(* flag holds the sense of the last notification its source has stored; an *)
(* agent that has passed k flags knows of 2^k agents, itself included,     *)
(* that they are in its call; and a call that has returned had all agents  *)
(* in it.                                                                  *)
(***************************************************************************)

\* The sense of call number e of wait(), and of the flags before any call.
Sense(e) == IF (e + 4) % 4 < 2 THEN 1 ELSE 0

\* The agent that notifies flag k of agent j: Other(Source(j, k), k) = j.
Source(j, k) == IF j >= Pow2[k] THEN j - Pow2[k] ELSE j - Pow2[k] + N

\* How far a notification has travelled from agent j when it is at agent i.
Dist(j, i) == IF j <= i THEN i - j ELSE i - j + N

\* The last call with parity p in which agent i has notified flag k; negative
\* if there is none.
LastNotified(i, p, k) ==
  IF counter[i] % 2 = p
    THEN IF Notified(i, counter[i], k) THEN counter[i] ELSE counter[i] - 2
    ELSE counter[i] - 1

BootInv ==
  \A i \in Agents :
    /\ pc[i] = "boot" => begin = {}
    /\ pc[i] \in {"boot", "await"} => counter[i] = 0
    /\ pc[i] \in {"ready", "loop", "spin"} => i \in begin

ObjectInv ==
  \A i \in Agents :
    /\ pc[i] # "boot" => /\ parity[i] = counter[i] % 2
                        /\ sense[i] = Sense(counter[i])
    /\ pc[i] \in {"ready", "loop", "spin"} =>
         \A p \in Parities, k \in Flags : remote[i][p][k] = Other(i, k)
    /\ pc[i] \in {"boot", "await"} =>
         \A p \in Parities, k \in Flags : remote[i][p][k] = NoAgent
    /\ pc[i] = "spin" => step[i] < NumFlags
    /\ InWait(i) => counter[i] < Rounds

FlagInv ==
  \A j \in Agents : pc[j] # "boot" =>
    \A p \in Parities, k \in Flags :
      flags[j][p][k] = Sense(LastNotified(Source(j, k), p, k))

KnowInv ==
  \A i \in Agents : InWait(i) =>
    \A k \in 0 .. step[i], j \in Agents :
      Dist(j, i) < Pow2[k] => Entered(j, counter[i])

IInv == TypeOK /\ BootInv /\ ObjectInv /\ FlagInv /\ KnowInv /\ BarrierSafe
=============================================================================
