---------------------------- MODULE MCChatStream ----------------------------
(* Instance of ChatStream: a turn of two tool calls and two chunks, so that    *)
(* there may be text between two rounds of tools, an empty turn after it, and *)
(* two disturbances of different kinds.                                       *)
EXTENDS ChatStream

MCCalls  == <<2, 0>>
MCChunks == <<2, 0>>
MCBudget == [b \in BudgetKinds |-> 1]
=============================================================================
