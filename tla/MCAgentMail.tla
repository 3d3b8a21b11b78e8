---------------------------- MODULE MCAgentMail ----------------------------
(* AgentMail for TLC: messages are interchangeable. *)
EXTENDS AgentMail, TLC

Symmetry == Permutations(Mail)
=============================================================================
