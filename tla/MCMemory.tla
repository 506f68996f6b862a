------------------------------ MODULE MCMemory ------------------------------
(* Instance of Memory: two messages, of which a prompt may leave out one, and *)
(* room for one memory, so that one is evicted; a crash, another fault and    *)
(* two events from outside, three in all.                                     *)
EXTENDS Memory

MCBudget == [crash |-> 1, fault |-> 1, event |-> 2]
=============================================================================
