--------------------------- MODULE MCAnswerCache ---------------------------
(* Instance of AnswerCache: two documents of which one goes into the key,   *)
(* two questions, two processings, and two of: a failure, an unreachable      *)
(* store, a restore.  Documents and questions are interchangeable.            *)
EXTENDS AnswerCache, TLC

CONSTANTS d1, d2, t1, t2

MCDocs == {d1, d2}
MCTurns == {t1, t2}
MCBudget == [b \in BudgetKinds |-> 1]
MCSymmetry == Permutations(MCDocs) \cup Permutations(MCTurns)
=============================================================================
