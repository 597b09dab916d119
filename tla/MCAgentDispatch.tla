--------------------------- MODULE MCAgentDispatch ---------------------------
(***************************************************************************)
(* Two processes: an analysis and a request, a second analysis or a second *)
(* delivery that gets in its way.                                          *)
(***************************************************************************)
EXTENDS AgentDispatch

CONSTANTS s1, s2
MCSlots == {s1, s2}
=============================================================================
