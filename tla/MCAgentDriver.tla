--------------------------- MODULE MCAgentDriver ---------------------------
(* AgentDriver on small instances: messages are interchangeable. *)
EXTENDS AgentDriver, TLC

Messages == Permutations(Message)
============================================================================
