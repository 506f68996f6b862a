---------------------------- MODULE MCCompaction ----------------------------
(* Instance of Compaction: two old messages and two turns of two requests, a  *)
(* list of one id, so that ids are evicted, and two attempts of a job.        *)
EXTENDS Compaction

MCBudget == [b \in BudgetKinds |-> 1]
=============================================================================
