----------------------------- MODULE PowersOfTwo -----------------------------
(***************************************************************************)
(* The powers of two that words, shifts and addresses are made of: the     *)
(* recursive function is the one the provers can reason about.             *)
(***************************************************************************)
EXTENDS Integers

TwoTo[n \in Nat] == IF n = 0 THEN 1 ELSE 2 * TwoTo[n - 1]
=============================================================================
