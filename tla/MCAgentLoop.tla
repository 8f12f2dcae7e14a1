----------------------------- MODULE MCAgentLoop -----------------------------
(* Bounded instances of the agent loop; the .cfg files choose the senders. *)
EXTENDS AgentLoop
=============================================================================
