----------------------------- MODULE MCAgentSockets -----------------------------
(* Two agents over two paths, for TLC. *)
EXTENDS AgentSockets

=============================================================================
