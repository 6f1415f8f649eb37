----------------------- MODULE MCDisseminationBarrier -----------------------
(***************************************************************************)
(* Instances of the dissemination barrier for TLC.                         *)
(***************************************************************************)
EXTENDS DisseminationBarrier

\* Powers of two up to the largest instance, cut to the domain in use.
MCPow2 == [k \in 0 .. NumFlags |-> CASE k = 0 -> 1 [] k = 1 -> 2
                                     [] k = 2 -> 4 [] k = 3 -> 8]

=============================================================================
