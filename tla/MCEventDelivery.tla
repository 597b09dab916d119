--------------------------- MODULE MCEventDelivery ---------------------------
(***************************************************************************)
(* Two processes, each with its drain and its hub, and a page with at most *)
(* two sources.                                                            *)
(***************************************************************************)
EXTENDS EventDelivery

CONSTANTS p1, p2, s1, s2
MCProcesses == {p1, p2}
MCSources == {s1, s2}
=============================================================================
