----------------------------- MODULE MCRunStore -----------------------------
(***************************************************************************)
(* Three requests beside the approval that waits from the start: two       *)
(* decisions and whatever gets between them, or a request, its repetition  *)
(* and another one.                                                        *)
(***************************************************************************)
EXTENDS RunStore

CONSTANTS q1, q2, q3
MCRequests == {q1, q2, q3}
=============================================================================
