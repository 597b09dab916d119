----------------------------- MODULE MCRunCreation -----------------------------
(***************************************************************************)
(* Requests of every kind that share keys, and a run with descendants.     *)
(***************************************************************************)
EXTENDS RunCreation, TLC

CONSTANTS q1, q2, q3, k1, k2
MCRequests == {q1, q2, q3}
MCKeys == {k1, k2}
MCSymmetry == Permutations(MCRequests) \cup Permutations(MCKeys)
=============================================================================
