--------------------- MODULE DisseminationBarrierProofs ---------------------
(***************************************************************************)
(* For any number of agents and of calls, the dissemination barrier keeps  *)
(* the barrier property and implements the abstract barrier.               *)
(***************************************************************************)
EXTENDS DisseminationBarrier, NumberLemmas, TLAPS

\* The distances the flags cover.
LEMMA Pow2Facts ==
  ASSUME NEW k \in Flags
  PROVE  /\ k \in Nat /\ k + 1 \in 0 .. NumFlags
         /\ Pow2[k] \in Nat /\ Pow2[k] < N
         /\ Pow2[k + 1] = 2 * Pow2[k]
  BY BarrierAssumption DEF Flags

\* Other(i, k) is an agent, and Source inverts it.
LEMMA OtherSource ==
  ASSUME NEW i \in Agents, NEW k \in Flags
  PROVE  /\ Other(i, k) \in Agents
         /\ Source(i, k) \in Agents
         /\ \A j \in Agents : Source(j, k) = i <=> j = Other(i, k)
<1>1. /\ N \in Nat /\ N > 0
      /\ i \in 0 .. N - 1
      /\ Pow2[k] \in Nat
      /\ Pow2[k] < N
  BY BarrierAssumption DEF Agents, Flags
<1> DEFINE x == i + Pow2[k]
<1>2. x \in Nat /\ x < 2 * N
  BY <1>1
<1>3. x % N = IF x < N THEN x ELSE x - N
  <2> HIDE DEF x
  <2> QED
    BY <1>1, <1>2, ModSmall, SMTT(30)
<1>4. Other(i, k) = IF i + Pow2[k] < N THEN i + Pow2[k] ELSE i + Pow2[k] - N
  BY <1>1, <1>3 DEF Other
<1>5. QED
  BY <1>1, <1>4 DEF Agents, Source

\* What the end of wait() does to parity and sense.
LEMMA NextSense ==
  ASSUME NEW c \in Nat
  PROVE  /\ c % 2 \in {0, 1}
         /\ (c + 1) % 2 = 1 - (c % 2)
         /\ Sense(c) \in {0, 1}
         /\ Sense(c + 1) = IF c % 2 = 1 THEN 1 - Sense(c) ELSE Sense(c)
  BY DEF Sense

\* Sense and parity tell apart any two calls that are less than four apart.
LEMMA SenseTells ==
  ASSUME NEW c \in Nat, NEW e \in Int, e >= -2, c - 3 <= e, e <= c + 3,
         e % 2 = c % 2, Sense(e) = Sense(c)
  PROVE  e = c
  BY DEF Sense

-----------------------------------------------------------------------------
(***************************************************************************)
(* The initial states, and one lemma per action.                           *)
(***************************************************************************)

LEMMA InitIInv == Init => IInv
<1> SUFFICES ASSUME Init PROVE IInv
  OBVIOUS
<1>1. TypeOK
  <2>1. flags \in [Agents -> [Parities -> [Flags -> Words]]]
    BY BarrierAssumption DEF Init
  <2>2. remote \in [Agents -> [Parities -> [Flags -> Agents \cup {NoAgent}]]]
    BY DEF Init
  <2>3. parity \in [Agents -> Parities] /\ sense \in [Agents -> Words]
    BY BarrierAssumption DEF Init, Parities, Words
  <2>4. /\ pc \in [Agents -> Locations]
        /\ step \in [Agents -> 0 .. NumFlags]
        /\ counter \in [Agents -> 0 .. Rounds]
        /\ begin \in SUBSET Agents
    BY BarrierAssumption DEF Init, Locations
  <2>5. QED
    BY <2>1, <2>2, <2>3, <2>4 DEF TypeOK
<1>2. /\ \A i \in Agents : pc[i] = "boot" /\ counter[i] = 0
      /\ \A i \in Agents, p \in Parities, k \in Flags : remote[i][p][k] = NoAgent
      /\ begin = {}
  BY DEF Init
<1>3. QED
  BY <1>1, <1>2
  DEF IInv, BootInv, ObjectInv, FlagInv, KnowInv, BarrierSafe, InWait, Entered

LEMMA ConstructIInv ==
  ASSUME IInv, NEW i \in Agents, Construct(i)
  PROVE  IInv'
<1>1. TypeOK'
  BY BarrierAssumption
  DEF IInv, TypeOK, Construct, Goto, Locations, Words, Flags, Parities
<1>2. /\ begin = {} /\ begin' = {}
      /\ counter' = counter
      /\ step' = step
      /\ \A j \in Agents : pc[j] \in {"boot", "await"} /\ counter[j] = 0
  BY DEF IInv, TypeOK, BootInv, Locations, Construct
<1>3. /\ pc' = [pc EXCEPT ![i] = "await"]
      /\ pc'[i] = "await"
      /\ \A j \in Agents : j # i => pc'[j] = pc[j]
  BY DEF IInv, TypeOK, Construct, Goto
<1>4. BootInv'
  BY <1>2, <1>3 DEF BootInv
<1>5. KnowInv' /\ BarrierSafe'
  BY <1>2, <1>3 DEF KnowInv, BarrierSafe, InWait, Entered
<1>6. ObjectInv'
  <2>1. /\ parity' = [parity EXCEPT ![i] = 0]
        /\ sense' = [sense EXCEPT ![i] = 1]
        /\ \A j \in Agents : pc'[j] \in {"boot", "await"}
        /\ \A j \in Agents : counter[j] = 0
    BY <1>2, <1>3 DEF Construct
  <2>2. Sense(0) = 1 /\ 0 % 2 = 0
    BY DEF Sense
  <2>3. \A j \in Agents : pc'[j] # "boot" =>
          parity'[j] = 0 /\ sense'[j] = 1
    <3>1. parity'[i] = 0 /\ sense'[i] = 1
      BY <2>1 DEF IInv, TypeOK
    <3>2. \A j \in Agents : j # i => parity'[j] = parity[j] /\ sense'[j] = sense[j]
      BY <2>1 DEF IInv, TypeOK
    <3>3. \A j \in Agents : pc[j] # "boot" => parity[j] = 0 /\ sense[j] = 1
      BY <2>1, <2>2 DEF IInv, ObjectInv
    <3>4. QED
      BY <1>3, <3>1, <3>2, <3>3
  <2>4. \A j \in Agents, p \in Parities, k \in Flags : remote'[j][p][k] = NoAgent
    <3>1. \A j \in Agents, p \in Parities, k \in Flags : remote[j][p][k] = NoAgent
      BY <1>2 DEF IInv, ObjectInv
    <3>2. QED
      BY <3>1 DEF IInv, TypeOK, Construct
  <2>5. QED
    BY <1>2, <2>1, <2>2, <2>3, <2>4 DEF ObjectInv, InWait
<1>7. FlagInv'
  <2> SUFFICES ASSUME NEW j \in Agents, pc'[j] # "boot",
                      NEW p \in Parities, NEW k \in Flags
               PROVE  flags'[j][p][k] = Sense(LastNotified(Source(j, k), p, k)')
    BY DEF FlagInv, Source
  <2>1. Source(j, k) \in Agents
    BY OtherSource
  <2>2. LastNotified(Source(j, k), p, k)' = LastNotified(Source(j, k), p, k)
    BY <1>2, <1>3, <2>1 DEF LastNotified, Notified
  <2>3. CASE j = i
    <3>1. flags'[i][p][k] = 0
      BY DEF IInv, TypeOK, Construct
    <3>2. LastNotified(Source(j, k), p, k) = IF p = 0 THEN -2 ELSE -1
      BY <1>2, <2>1 DEF LastNotified, Notified, Parities
    <3>3. Sense(-2) = 0 /\ Sense(-1) = 0
      BY DEF Sense
    <3>4. QED
      BY <2>2, <2>3, <3>1, <3>2, <3>3
  <2>4. CASE j # i
    <3>1. flags'[j] = flags[j] /\ pc[j] # "boot"
      BY <1>3, <2>4 DEF IInv, TypeOK, Construct
    <3>2. QED
      BY <2>2, <3>1 DEF IInv, FlagInv
  <2>5. QED
    BY <2>3, <2>4
<1>8. QED
  BY <1>1, <1>4, <1>5, <1>6, <1>7 DEF IInv

LEMMA HostBeginIInv ==
  ASSUME IInv, NEW i \in Agents, HostBegin(i)
  PROVE  IInv'
<1>1. /\ begin' = begin \cup {i}
      /\ \A j \in Agents : pc[j] # "boot"
      /\ UNCHANGED <<flags, remote, parity, sense, pc, step, counter>>
  BY DEF HostBegin
<1>2. TypeOK' /\ BootInv'
  BY <1>1 DEF IInv, TypeOK, BootInv
<1>3. ObjectInv' /\ FlagInv'
  BY <1>1 DEF IInv, ObjectInv, FlagInv, InWait, LastNotified, Notified, Source
<1>4. KnowInv' /\ BarrierSafe'
  BY <1>1 DEF IInv, KnowInv, BarrierSafe, InWait, Entered
<1>5. QED
  BY <1>2, <1>3, <1>4 DEF IInv

LEMMA InitializeIInv ==
  ASSUME IInv, NEW i \in Agents, Initialize(i)
  PROVE  IInv'
<1>1. /\ pc[i] = "await" /\ i \in begin /\ counter[i] = 0
      /\ pc' = [pc EXCEPT ![i] = "ready"]
      /\ UNCHANGED <<flags, parity, sense, step, begin>>
  BY DEF IInv, BootInv, Initialize, Goto
<1>2. counter' = counter
  BY <1>1 DEF IInv, TypeOK, Initialize
<1>3. /\ pc'[i] = "ready"
      /\ \A j \in Agents : j # i => pc'[j] = pc[j]
  BY <1>1 DEF IInv, TypeOK
<1>4. \A j \in Agents : InWait(j)' <=> InWait(j)
  BY <1>1, <1>3 DEF InWait
<1>5. TypeOK'
  <2>1. remote' \in [Agents -> [Parities -> [Flags -> Agents \cup {NoAgent}]]]
    BY OtherSource DEF IInv, TypeOK, Initialize
  <2>2. QED
    BY <1>1, <1>2, <2>1 DEF IInv, TypeOK, Locations
<1>6. BootInv'
  BY <1>1, <1>2, <1>3 DEF IInv, BootInv
<1>7. ObjectInv'
  <2>1. \A p \in Parities, k \in Flags : remote'[i][p][k] = Other(i, k)
    BY DEF IInv, TypeOK, Initialize
  <2>2. \A j \in Agents : j # i => remote'[j] = remote[j]
    BY DEF IInv, TypeOK, Initialize
  <2>3. QED
    BY <1>1, <1>2, <1>3, <1>4, <2>1, <2>2 DEF IInv, ObjectInv
<1>8. FlagInv'
  <2> SUFFICES ASSUME NEW j \in Agents, pc'[j] # "boot",
                      NEW p \in Parities, NEW k \in Flags
               PROVE  flags'[j][p][k] = Sense(LastNotified(Source(j, k), p, k)')
    BY DEF FlagInv, Source
  <2>1. LastNotified(Source(j, k), p, k)' = LastNotified(Source(j, k), p, k)
    BY <1>1, <1>2, <1>3, OtherSource DEF LastNotified, Notified
  <2>2. QED
    BY <1>1, <1>3, <2>1 DEF IInv, FlagInv
<1>9. KnowInv' /\ BarrierSafe'
  BY <1>1, <1>2, <1>4 DEF IInv, KnowInv, BarrierSafe, Entered
<1>10. QED
  BY <1>5, <1>6, <1>7, <1>8, <1>9 DEF IInv

LEMMA EnterIInv ==
  ASSUME IInv, NEW i \in Agents, Enter(i)
  PROVE  IInv'
<1>1. /\ pc[i] = "ready" /\ counter[i] < Rounds
      /\ step' = [step EXCEPT ![i] = 0]
      /\ pc' = [pc EXCEPT ![i] = "loop"]
      /\ UNCHANGED <<flags, remote, parity, sense, counter, begin>>
  BY DEF Enter, Goto
<1>2. /\ pc'[i] = "loop" /\ step'[i] = 0
      /\ \A j \in Agents : j # i => pc'[j] = pc[j] /\ step'[j] = step[j]
  BY <1>1 DEF IInv, TypeOK
<1>3. /\ InWait(i)' /\ ~ InWait(i)
      /\ \A j \in Agents : j # i => (InWait(j)' <=> InWait(j))
  BY <1>1, <1>2 DEF InWait
<1>4. TypeOK'
  BY <1>1, BarrierAssumption DEF IInv, TypeOK, Locations
<1>5. BootInv' /\ ObjectInv'
  BY <1>1, <1>2, <1>3 DEF IInv, BootInv, ObjectInv
<1>6. FlagInv'
  <2> SUFFICES ASSUME NEW j \in Agents, pc'[j] # "boot",
                      NEW p \in Parities, NEW k \in Flags
               PROVE  flags'[j][p][k] = Sense(LastNotified(Source(j, k), p, k)')
    BY DEF FlagInv, Source
  <2>1. \A s \in Agents : Notified(s, counter[s], k)' <=> Notified(s, counter[s], k)
    BY <1>1, <1>2 DEF IInv, TypeOK, Notified, Flags
  <2>2. LastNotified(Source(j, k), p, k)' = LastNotified(Source(j, k), p, k)
    BY <1>1, <2>1, OtherSource DEF LastNotified
  <2>3. QED
    BY <1>1, <1>2, <2>2 DEF IInv, FlagInv
<1>7. \A j \in Agents, e \in Int : Entered(j, e) => Entered(j, e)'
  BY <1>1, <1>3 DEF Entered
<1>8. KnowInv'
  <2> SUFFICES ASSUME NEW a \in Agents, InWait(a)', NEW k \in 0 .. step'[a],
                      NEW j \in Agents, Dist(j, a) < Pow2[k]
               PROVE  Entered(j, counter[a])'
    BY <1>1 DEF KnowInv, Dist, Entered
  <2>1. CASE a = i
    <3>1. k = 0 /\ Pow2[k] = 1
      BY <1>2, <2>1, BarrierAssumption
    <3>2. j = i
      BY <2>1, <3>1, BarrierAssumption DEF Dist, Agents
    <3>3. QED
      BY <1>1, <1>3, <2>1, <3>2 DEF Entered
  <2>2. CASE a # i
    <3>1. Entered(j, counter[a])
      BY <1>2, <1>3, <2>2 DEF IInv, KnowInv
    <3>2. QED
      BY <1>1, <1>3, <3>1 DEF Entered
  <2>3. QED
    BY <2>1, <2>2
<1>9. BarrierSafe'
  BY <1>1, <1>3 DEF IInv, BarrierSafe, Entered
<1>10. QED
  BY <1>4, <1>5, <1>6, <1>8, <1>9 DEF IInv

LEMMA NotifyIInv ==
  ASSUME IInv, NEW i \in Agents, Notify(i)
  PROVE  IInv'
<1> DEFINE K == step[i]
           P == parity[i]
           O == Other(i, K)
<1>1. /\ pc[i] = "loop" /\ K \in Flags /\ P \in Parities /\ O \in Agents
      /\ sense[i] \in Words
      /\ pc' = [pc EXCEPT ![i] = "spin"]
      /\ UNCHANGED <<remote, parity, sense, step, counter, begin>>
  <2>1. /\ pc[i] = "loop" /\ step[i] < NumFlags
        /\ pc' = [pc EXCEPT ![i] = "spin"]
        /\ UNCHANGED <<remote, parity, sense, step, counter, begin>>
    BY DEF Notify, Goto
  <2>2. step[i] \in 0 .. NumFlags /\ P \in Parities /\ sense[i] \in Words
    BY DEF IInv, TypeOK
  <2>3. K \in Flags
    BY <2>1, <2>2, BarrierAssumption DEF Flags
  <2>4. O \in Agents
    BY <2>3, OtherSource
  <2>5. QED
    BY <2>1, <2>2, <2>3, <2>4
<1>2. flags' = [flags EXCEPT ![O][P][K] = sense[i]]
  <2>1. remote[i][P][K] = O
    BY <1>1 DEF IInv, ObjectInv
  <2>2. QED
    BY <2>1 DEF Notify
<1>3. /\ pc'[i] = "spin"
      /\ \A j \in Agents : j # i => pc'[j] = pc[j]
      /\ \A j \in Agents : InWait(j)' <=> InWait(j)
  BY <1>1 DEF IInv, TypeOK, InWait
<1>4. TypeOK'
  BY <1>1, <1>2 DEF IInv, TypeOK, Locations
<1>5. BootInv' /\ ObjectInv'
  <2>1. K < NumFlags
    BY <1>1, BarrierAssumption DEF Flags
  <2>2. BootInv'
    BY <1>1, <1>3 DEF IInv, BootInv
  <2>3. ObjectInv'
    BY <1>1, <1>3, <2>1 DEF IInv, ObjectInv
  <2>4. QED
    BY <2>2, <2>3
<1>6. FlagInv'
  <2> SUFFICES ASSUME NEW j \in Agents, pc'[j] # "boot",
                      NEW p \in Parities, NEW k \in Flags
               PROVE  flags'[j][p][k] = Sense(LastNotified(Source(j, k), p, k)')
    BY DEF FlagInv, Source
  <2> DEFINE S == Source(j, k)
  <2>1. S \in Agents /\ pc[j] # "boot"
    BY <1>1, <1>3, OtherSource
  <2>2. CASE j = O /\ p = P /\ k = K
    <3>1. S = i
      BY <1>1, <2>2, OtherSource
    <3>2. LastNotified(S, p, k)' = counter[i]
      BY <1>1, <1>3, <2>2, <3>1 DEF IInv, TypeOK, ObjectInv, LastNotified, Notified, Flags
    <3>3. sense[i] = Sense(counter[i])
      BY <1>1 DEF IInv, ObjectInv
    <3>4. flags'[j][p][k] = sense[i]
      BY <1>1, <1>2, <2>2 DEF IInv, TypeOK
    <3>5. QED
      BY <3>2, <3>3, <3>4
  <2>3. CASE ~ (j = O /\ p = P /\ k = K)
    <3>1. flags'[j][p][k] = flags[j][p][k]
      BY <1>1, <1>2, <2>3 DEF IInv, TypeOK
    <3>2. LastNotified(S, p, k)' = LastNotified(S, p, k)
      <4>1. CASE S # i \/ k # K
        BY <1>1, <1>3, <2>1, <4>1 DEF IInv, TypeOK, LastNotified, Notified, Flags
      <4>2. CASE S = i /\ k = K
        <5>1. p # P
          BY <1>1, <2>3, <4>2, OtherSource
        <5>2. counter[i] % 2 # p
          BY <1>1, <5>1 DEF IInv, ObjectInv
        <5>3. QED
          BY <1>1, <4>2, <5>2 DEF LastNotified
      <4>3. QED
        BY <4>1, <4>2
    <3>3. QED
      BY <2>1, <3>1, <3>2 DEF IInv, FlagInv
  <2>4. QED
    BY <2>2, <2>3
<1>7. KnowInv' /\ BarrierSafe'
  BY <1>1, <1>3 DEF IInv, KnowInv, BarrierSafe, Entered
<1>8. QED
  BY <1>4, <1>5, <1>6, <1>7 DEF IInv

\* The flag of an agent that may go on was set by its source in the same call.
LEMMA FlagTells ==
  ASSUME IInv, NEW j \in Agents, InWait(j), NEW k \in Flags, step[j] <= k
  PROVE  LET s == Source(j, k)
         IN  flags[j][parity[j]][k] = sense[j] <=> Notified(s, counter[j], k)
<1> DEFINE s == Source(j, k)
           e == LastNotified(s, parity[j], k)
<1>1. /\ s \in Agents
      /\ counter[s] \in Nat /\ counter[j] \in Nat
      /\ pc[j] # "boot"
      /\ parity[j] = counter[j] % 2 /\ parity[j] \in Parities
      /\ sense[j] = Sense(counter[j])
      /\ flags[j][parity[j]][k] = Sense(e)
  BY OtherSource DEF IInv, TypeOK, ObjectInv, FlagInv, InWait
<1>2. counter[s] <= counter[j] + 1 /\ counter[j] <= counter[s] + 1
  BY <1>1 DEF IInv, BarrierSafe, Entered
<1>3. /\ e \in Int /\ e >= -2 /\ e % 2 = counter[j] % 2
      /\ counter[j] - 3 <= e /\ e <= counter[j] + 1
  BY <1>1, <1>2 DEF LastNotified, Parities
<1>4. ASSUME Sense(e) = Sense(counter[j]) PROVE Notified(s, counter[j], k)
  <2>1. e = counter[j]
    BY <1>1, <1>3, <1>4, SenseTells
  <2>2. QED
    BY <1>1, <1>2, <2>1 DEF LastNotified, Notified
<1>5. ASSUME Notified(s, counter[j], k) PROVE e = counter[j]
  BY <1>1, <1>2, <1>5 DEF LastNotified, Notified
<1>6. QED
  BY <1>1, <1>4, <1>5

LEMMA SpinIInv ==
  ASSUME IInv, NEW i \in Agents, Spin(i)
  PROVE  IInv'
<1> DEFINE K == step[i]
           S == Source(i, K)
<1>1. /\ pc[i] = "spin" /\ InWait(i)
      /\ K \in Flags /\ S \in Agents
      /\ flags[i][parity[i]][K] = sense[i]
      /\ step' = [step EXCEPT ![i] = K + 1]
      /\ pc' = [pc EXCEPT ![i] = "loop"]
      /\ UNCHANGED <<flags, remote, parity, sense, counter, begin>>
  <2>1. pc[i] = "spin" /\ step[i] \in 0 .. NumFlags /\ step[i] < NumFlags
    BY DEF IInv, TypeOK, ObjectInv, Spin
  <2>2. K \in Flags
    BY <2>1, BarrierAssumption DEF Flags
  <2>3. QED
    BY <2>1, <2>2, OtherSource DEF Spin, Goto, InWait
<1>2. /\ pc'[i] = "loop" /\ step'[i] = K + 1 /\ K + 1 \in 0 .. NumFlags
      /\ \A j \in Agents : j # i => pc'[j] = pc[j] /\ step'[j] = step[j]
      /\ \A j \in Agents : InWait(j)' <=> InWait(j)
  <2>1. step \in [Agents -> 0 .. NumFlags] /\ pc \in [Agents -> Locations]
    BY DEF IInv, TypeOK
  <2>2. K + 1 \in 0 .. NumFlags
    BY <1>1, BarrierAssumption DEF Flags
  <2>3. /\ pc'[i] = "loop" /\ step'[i] = K + 1
        /\ \A j \in Agents : j # i => pc'[j] = pc[j] /\ step'[j] = step[j]
    BY <1>1, <2>1
  <2>4. QED
    BY <1>1, <2>2, <2>3 DEF InWait
<1>3. TypeOK'
  BY <1>1, <1>2 DEF IInv, TypeOK, Locations
<1>4. BootInv' /\ ObjectInv'
  BY <1>1, <1>2 DEF IInv, BootInv, ObjectInv
<1>5. FlagInv'
  <2> SUFFICES ASSUME NEW j \in Agents, pc'[j] # "boot",
                      NEW p \in Parities, NEW k \in Flags
               PROVE  flags'[j][p][k] = Sense(LastNotified(Source(j, k), p, k)')
    BY DEF FlagInv, Source
  <2>1. \A s \in Agents : Notified(s, counter[s], k)' <=> Notified(s, counter[s], k)
    BY <1>1, <1>2 DEF IInv, TypeOK, Notified, Flags
  <2>2. LastNotified(Source(j, k), p, k)' = LastNotified(Source(j, k), p, k)
    BY <1>1, <2>1, OtherSource DEF LastNotified
  <2>3. QED
    BY <1>1, <1>2, <2>2 DEF IInv, FlagInv
<1>7. KnowInv'
  <2> SUFFICES ASSUME NEW a \in Agents, InWait(a)', NEW k \in 0 .. step'[a],
                      NEW j \in Agents, Dist(j, a) < Pow2[k]
               PROVE  Entered(j, counter[a])
    BY <1>1, <1>2 DEF KnowInv, Dist, Entered
  <2>1. CASE a # i \/ k <= K
    BY <1>1, <1>2, <2>1, BarrierAssumption DEF IInv, KnowInv, Flags
  <2>2. CASE a = i /\ k = K + 1
    <3>1. Notified(S, counter[i], K)
      BY <1>1, FlagTells DEF IInv, TypeOK, Flags
    <3>2. CASE Dist(j, i) < Pow2[K]
      <4>1. K \in 0 .. step[i]
        BY <1>1, Pow2Facts
      <4>2. QED
        BY <1>1, <2>2, <3>2, <4>1 DEF IInv, KnowInv
    <3>3. CASE ~ (Dist(j, i) < Pow2[K])
      <4>0. /\ counter[S] \in Nat /\ counter[i] \in Nat /\ counter[j] \in Nat
            /\ step[S] \in Nat /\ K \in Nat
        BY <1>1, Pow2Facts DEF IInv, TypeOK
      <4>1. /\ N \in Nat /\ i \in 0 .. N - 1 /\ j \in 0 .. N - 1
            /\ Pow2[K] \in Nat /\ Pow2[K] < N /\ Pow2[K + 1] = 2 * Pow2[K]
        BY <1>1, Pow2Facts, BarrierAssumption DEF Agents
      <4>2. Dist(j, S) < Pow2[K]
        BY <2>2, <3>3, <4>1 DEF Dist, Source
      <4>3. CASE counter[S] = counter[i]
        <5>1. InWait(S) /\ step[S] >= K
          BY <3>1, <4>3, <4>0 DEF Notified, InWait
        <5>2. QED
          BY <1>1, <2>2, <4>0, <4>2, <4>3, <5>1 DEF IInv, KnowInv
      <4>4. CASE counter[S] > counter[i]
        <5>1. Entered(j, counter[S] - 1)
          BY <1>1, <4>0, <4>4 DEF IInv, BarrierSafe
        <5>2. QED
          BY <2>2, <4>0, <4>4, <5>1 DEF Entered
      <4>5. QED
        BY <3>1, <4>3, <4>4 DEF Notified
    <3>4. QED
      BY <3>2, <3>3
  <2>3. QED
    BY <1>1, <1>2, <2>1, <2>2, BarrierAssumption DEF Flags
<1>8. BarrierSafe'
  BY <1>1, <1>2 DEF IInv, BarrierSafe, Entered
<1>9. QED
  BY <1>3, <1>4, <1>5, <1>7, <1>8 DEF IInv

LEMMA LeaveIInv ==
  ASSUME IInv, NEW i \in Agents, Leave(i)
  PROVE  IInv'
<1> DEFINE c == counter[i]
<1>1. /\ pc[i] = "loop" /\ step[i] = NumFlags /\ InWait(i)
      /\ c \in Nat /\ c < Rounds
      /\ parity[i] = c % 2 /\ sense[i] = Sense(c)
      /\ pc' = [pc EXCEPT ![i] = "ready"]
      /\ counter' = [counter EXCEPT ![i] = c + 1]
      /\ UNCHANGED <<flags, remote, step, begin>>
  BY DEF IInv, TypeOK, ObjectInv, Leave, Goto, InWait
<1>2. /\ pc'[i] = "ready" /\ counter'[i] = c + 1
      /\ \A j \in Agents : j # i => pc'[j] = pc[j] /\ counter'[j] = counter[j]
      /\ ~ InWait(i)'
      /\ \A j \in Agents : j # i => (InWait(j)' <=> InWait(j))
  BY <1>1 DEF IInv, TypeOK, InWait
<1>3. /\ parity' = [parity EXCEPT ![i] = 1 - (c % 2)]
      /\ sense' = [sense EXCEPT ![i] = Sense(c + 1)]
      /\ 1 - (c % 2) \in {0, 1} /\ Sense(c + 1) \in {0, 1}
      /\ (c + 1) % 2 = 1 - (c % 2)
  <2>1. /\ parity' = [parity EXCEPT ![i] = 1 - parity[i]]
        /\ sense' = [sense EXCEPT ![i] = IF parity[i] = 1 THEN 1 - sense[i]
                                                         ELSE sense[i]]
    BY DEF Leave
  <2>2. /\ 1 - parity[i] = 1 - (c % 2)
        /\ (IF parity[i] = 1 THEN 1 - sense[i] ELSE sense[i]) = Sense(c + 1)
    BY <1>1, NextSense
  <2>3. /\ c % 2 \in {0, 1} /\ Sense(c + 1) \in {0, 1}
        /\ (c + 1) % 2 = 1 - (c % 2)
    BY <1>1, NextSense
  <2>4. 1 - (c % 2) \in {0, 1}
    BY <2>3
  <2>5. QED
    BY <2>1, <2>2, <2>3, <2>4, Zenon
<1>4. TypeOK'
  <2>1. parity' \in [Agents -> Parities] /\ sense' \in [Agents -> Words]
    BY <1>3 DEF IInv, TypeOK, Parities, Words
  <2>2. counter' \in [Agents -> 0 .. Rounds] /\ pc' \in [Agents -> Locations]
    BY <1>1, BarrierAssumption DEF IInv, TypeOK, Locations
  <2>3. QED
    BY <1>1, <2>1, <2>2 DEF IInv, TypeOK
<1>5. BootInv'
  BY <1>1, <1>2 DEF IInv, BootInv
<1>6. ObjectInv'
  <2>1. parity'[i] = counter'[i] % 2 /\ sense'[i] = Sense(counter'[i])
    BY <1>2, <1>3 DEF IInv, TypeOK
  <2>2. \A j \in Agents : j # i => parity'[j] = parity[j] /\ sense'[j] = sense[j]
    BY <1>3 DEF IInv, TypeOK
  <2>3. QED
    BY <1>1, <1>2, <2>1, <2>2 DEF IInv, ObjectInv
<1>7. FlagInv'
  <2> SUFFICES ASSUME NEW j \in Agents, pc'[j] # "boot",
                      NEW p \in Parities, NEW k \in Flags
               PROVE  flags'[j][p][k] = Sense(LastNotified(Source(j, k), p, k)')
    BY DEF FlagInv, Source
  <2> DEFINE S == Source(j, k)
  <2>1. S \in Agents /\ k < NumFlags
    BY OtherSource, BarrierAssumption DEF Flags
  <2>2. LastNotified(S, p, k)' = LastNotified(S, p, k)
    <3>1. CASE S = i
      <4> HIDE DEF S
      <4>1. Notified(i, c, k) /\ ~ Notified(i, counter[i], k)'
        BY <1>1, <1>2, <2>1 DEF Notified
      <4>2. LastNotified(i, p, k) = IF c % 2 = p THEN c ELSE c - 1
        BY <4>1 DEF LastNotified
      <4>3. LastNotified(i, p, k)' = IF (c + 1) % 2 = p THEN c - 1 ELSE c
        BY <1>1, <1>2, <4>1 DEF LastNotified
      <4>4. c % 2 = p <=> (c + 1) % 2 # p
        BY <1>1, NextSense DEF Parities
      <4>5. QED
        BY <3>1, <4>2, <4>3, <4>4
    <3>2. CASE S # i
      BY <1>1, <1>2, <2>1, <3>2 DEF LastNotified, Notified
    <3>3. QED
      BY <3>1, <3>2
  <2>3. QED
    BY <1>1, <1>2, <2>2 DEF IInv, FlagInv
<1>8. \A j \in Agents : Entered(j, c)
  <2> SUFFICES ASSUME NEW j \in Agents PROVE Entered(j, c)
    OBVIOUS
  <2>1. NumFlags \in 0 .. step[i] /\ Dist(j, i) < Pow2[NumFlags]
    BY <1>1, BarrierAssumption DEF Dist, Agents
  <2>2. QED
    BY <1>1, <2>1 DEF IInv, KnowInv
<1>9. \A j \in Agents, e \in Nat : Entered(j, e) => Entered(j, e)'
  BY <1>1, <1>2 DEF IInv, TypeOK, Entered
<1>10. KnowInv'
  BY <1>1, <1>2, <1>9 DEF IInv, TypeOK, KnowInv, Dist
<1>11. BarrierSafe'
  <2> SUFFICES ASSUME NEW a \in Agents, NEW j \in Agents, counter'[a] > 0
               PROVE  Entered(j, counter[a] - 1)'
    BY DEF BarrierSafe, Entered, InWait
  <2>1. CASE a = i
    BY <1>1, <1>2, <1>8, <1>9, <2>1 DEF Entered
  <2>2. CASE a # i
    <3>1. counter'[a] = counter[a] /\ counter[a] - 1 \in Nat
      BY <1>2, <2>2 DEF IInv, TypeOK
    <3>2. Entered(j, counter[a] - 1)
      BY <3>1 DEF IInv, BarrierSafe
    <3>3. QED
      BY <1>9, <3>1, <3>2 DEF Entered
  <2>3. QED
    BY <2>1, <2>2
<1>12. QED
  BY <1>4, <1>5, <1>6, <1>7, <1>10, <1>11 DEF IInv

-----------------------------------------------------------------------------

LEMMA NextIInv == IInv /\ [Next]_vars => IInv'
<1> SUFFICES ASSUME IInv, [Next]_vars PROVE IInv'
  OBVIOUS
<1>1. ASSUME NEW i \in Agents, Agent(i) PROVE IInv'
  <2>1. CASE Construct(i)
    BY <2>1, ConstructIInv
  <2>2. CASE Initialize(i)
    BY <2>2, InitializeIInv
  <2>3. CASE Enter(i)
    BY <2>3, EnterIInv
  <2>4. CASE Notify(i)
    BY <2>4, NotifyIInv
  <2>5. CASE Spin(i)
    BY <2>5, SpinIInv
  <2>6. CASE Leave(i)
    BY <2>6, LeaveIInv
  <2>7. QED
    BY <1>1, <2>1, <2>2, <2>3, <2>4, <2>5, <2>6 DEF Agent
<1>2. ASSUME NEW i \in Agents, HostBegin(i) PROVE IInv'
  BY <1>2, HostBeginIInv
<1>3. CASE UNCHANGED vars
  BY <1>3
  DEF vars, IInv, TypeOK, BootInv, ObjectInv, FlagInv, KnowInv, BarrierSafe,
      InWait, Entered, LastNotified, Notified
<1>4. QED
  BY <1>1, <1>2, <1>3 DEF Next, Stop

\* The inductive invariant holds in every reachable state of the program.
THEOREM InductiveInvariant == Spec => []IInv
<1>1. Init => IInv
  BY InitIInv
<1>2. IInv /\ [Next]_vars => IInv'
  BY NextIInv
<1>3. QED
  BY <1>1, <1>2, PTL DEF Spec

\* Every variable keeps the range its declaration in barrier.h and the loop
\* bounds of wait() give it; in particular no flag index runs past the array.
THEOREM TypeCorrect == Spec => []TypeOK
<1>1. IInv => TypeOK
  BY DEF IInv
<1>2. QED
  BY <1>1, InductiveInvariant, PTL

\* The barrier property of wait(): a call returns to an agent only after every
\* agent has made the same call.
THEOREM BarrierProperty == Spec => []BarrierSafe
<1>1. IInv => BarrierSafe
  BY DEF IInv
<1>2. QED
  BY <1>1, InductiveInvariant, PTL

\* No notification is overwritten before it is seen, and none is seen twice,
\* although agents may be a whole call apart and flags are never cleared.
THEOREM NotificationsKept == Spec => []FlagsTruthful
<1>1. IInv => FlagsTruthful
  <2> SUFFICES ASSUME IInv, NEW i \in Agents, NEW j \in Agents, NEW k \in Flags,
                      InWait(j), step[j] <= k, NotifiedBy(i, j, k)
               PROVE  flags[j][parity[j]][k] = sense[j] <=> Notified(i, counter[j], k)
    BY DEF FlagsTruthful
  <2>1. pc[i] \in {"ready", "loop", "spin"}
    <3>1. remote[i][0][k] # NoAgent
      BY BarrierAssumption DEF NotifiedBy
    <3>2. QED
      BY <3>1 DEF IInv, TypeOK, ObjectInv, Locations, Parities
  <2>2. Other(i, k) = j
    BY <2>1 DEF IInv, ObjectInv, NotifiedBy, Parities
  <2>3. Source(j, k) = i
    BY <2>2, OtherSource
  <2>4. QED
    BY <2>3, FlagTells
<1>2. QED
  BY <1>1, InductiveInvariant, PTL

\* A step of the flag protocol is a step of the abstract barrier or a stutter.
LEMMA StepRefines == IInv /\ [Next]_vars => [Abstract!Next]_(Abstract!vars)
<1> DEFINE In == {i \in Agents : InWait(i)}
<1> SUFFICES ASSUME IInv, [Next]_vars PROVE [Abstract!Next]_(Abstract!vars)
  OBVIOUS
<1>1. ASSUME counter' = counter, \A j \in Agents : InWait(j)' <=> InWait(j)
      PROVE  UNCHANGED Abstract!vars
  BY <1>1 DEF Abstract!vars
<1>2. ASSUME NEW i \in Agents, Enter(i) PROVE Abstract!Enter(i)
  <2>1. /\ pc[i] = "ready" /\ counter[i] < Rounds
        /\ pc' = [pc EXCEPT ![i] = "loop"]
        /\ counter' = counter
    BY <1>2 DEF Enter, Goto
  <2>2. ~ InWait(i) /\ InWait(i)'
    BY <2>1 DEF IInv, TypeOK, InWait
  <2>3. \A j \in Agents : j # i => (InWait(j)' <=> InWait(j))
    BY <2>1 DEF IInv, TypeOK, InWait
  <2>4. In' = In \cup {i}
    BY <2>2, <2>3
  <2>5. QED
    BY <2>1, <2>2, <2>4 DEF Abstract!Enter
<1>3. ASSUME NEW i \in Agents, Leave(i) PROVE Abstract!Leave(i)
  <2>1. /\ pc[i] = "loop" /\ step[i] = NumFlags
        /\ pc' = [pc EXCEPT ![i] = "ready"]
        /\ counter' = [counter EXCEPT ![i] = @ + 1]
    BY <1>3 DEF Leave, Goto
  <2>2. InWait(i) /\ ~ InWait(i)'
    BY <2>1 DEF IInv, TypeOK, InWait
  <2>3. \A j \in Agents : j # i => (InWait(j)' <=> InWait(j))
    BY <2>1 DEF IInv, TypeOK, InWait
  <2>4. In' = In \ {i}
    BY <2>2, <2>3
  <2>5. \A j \in Agents : Entered(j, counter[i])
    <3> SUFFICES ASSUME NEW j \in Agents PROVE Entered(j, counter[i])
      OBVIOUS
    <3>1. NumFlags \in 0 .. step[i] /\ Dist(j, i) < Pow2[NumFlags]
      BY <2>1, BarrierAssumption DEF Dist, Agents
    <3>2. QED
      BY <2>2, <3>1 DEF IInv, KnowInv
  <2>6. \A j \in Agents : Abstract!Arrived(j, counter[i])
    BY <2>5 DEF Entered, Abstract!Arrived
  <2>7. QED
    BY <2>1, <2>2, <2>4, <2>6 DEF Abstract!Leave
<1>4. ASSUME NEW i \in Agents, Construct(i) \/ Notify(i) \/ Spin(i)
      PROVE  UNCHANGED Abstract!vars
  BY <1>1, <1>4 DEF IInv, TypeOK, Construct, Notify, Spin, Goto, InWait
<1>5. ASSUME NEW i \in Agents, Initialize(i)
      PROVE  UNCHANGED Abstract!vars
  <2>1. counter' = counter
    BY <1>5 DEF IInv, TypeOK, BootInv, Initialize
  <2>2. \A j \in Agents : InWait(j)' <=> InWait(j)
    BY <1>5 DEF IInv, TypeOK, Initialize, Goto, InWait
  <2>3. QED
    BY <1>1, <2>1, <2>2
<1>6. ASSUME NEW i \in Agents, HostBegin(i) PROVE UNCHANGED Abstract!vars
  BY <1>1, <1>6 DEF HostBegin, InWait
<1>7. CASE UNCHANGED vars
  BY <1>1, <1>7 DEF vars, InWait
<1>8. QED
  BY <1>2, <1>3, <1>4, <1>5, <1>6, <1>7 DEF Next, Agent, Stop, Abstract!Next

\* The dissemination barrier implements the abstract barrier: its flags,
\* parities and senses are one way to keep that promise.
THEOREM Refinement == Spec => ImplementsRoundBarrier
<1>1. Init => Abstract!Init
  BY DEF Init, Abstract!Init, InWait
<1>2. QED
  BY <1>1, StepRefines, InductiveInvariant, PTL
  DEF Spec, ImplementsRoundBarrier, Abstract!Spec

=============================================================================
