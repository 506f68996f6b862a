---------------------------- MODULE MCAgentLoop ----------------------------
(* Instance of AgentLoop: questions with and without numbers, with the three *)
(* ways to verify an answer and the settings for repair, recovery and cache. *)
EXTENDS AgentLoop

MCConfs ==
  {[guard |-> g, stream |-> s, needed |-> n, repair |-> r, recovery |-> r, cache |-> r] :
     g \in BOOLEAN, s \in BOOLEAN, n \in {0, 2}, r \in BOOLEAN}
=============================================================================
