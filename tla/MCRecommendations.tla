-------------------------- MODULE MCRecommendations --------------------------
(***************************************************************************)
(* Two requests that decide, and a process that supersedes, expires or     *)
(* offers meanwhile.                                                       *)
(***************************************************************************)
EXTENDS Recommendations

CONSTANTS d1, d2, w1
MCDeciders == {d1, d2}
MCWorkers == {w1}
=============================================================================
