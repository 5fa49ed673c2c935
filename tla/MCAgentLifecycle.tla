-------------------------- MODULE MCAgentLifecycle --------------------------
(* AgentLifecycle for TLC: the .cfg files give its constants their values.  *)
EXTENDS AgentLifecycle
=============================================================================
