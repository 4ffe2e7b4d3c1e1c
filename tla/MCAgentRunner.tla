--------------------------- MODULE MCAgentRunner ---------------------------
(* AgentRunner for TLC: small sets come from the configuration. *)
EXTENDS AgentRunner
=============================================================================
