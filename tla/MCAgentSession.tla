--------------------------- MODULE MCAgentSession ---------------------------
(* One advisor with the turns of a short run.                              *)
EXTENDS AgentSession
=============================================================================
