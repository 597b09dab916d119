--------------------------- MODULE MCRunScheduler ---------------------------
(***************************************************************************)
(* Two workflow slots let a superseded workflow and its successor be alive *)
(* at the same time; two minutes let a tick fail, be repeated and be       *)
(* followed by another one.                                                *)
(***************************************************************************)
EXTENDS RunScheduler

CONSTANTS f1, f2
MCFlows == {f1, f2}
=============================================================================
