----------------------------- MODULE MCAgentRun -----------------------------
(* AgentRun on small instances.                                            *)
EXTENDS AgentRun

=============================================================================
