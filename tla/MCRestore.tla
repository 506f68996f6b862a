----------------------------- MODULE MCRestore -----------------------------
(* Instance of Restore: one document at the beginning, another to come; one   *)
(* backup, two restores of it, two faults and one of each other failure.      *)
EXTENDS Restore

CONSTANTS d1, d2

MCDocs == {d1, d2}
MCInitial == {d1}
MCBudget == [b \in BudgetKinds |-> IF b = "fault" THEN 2 ELSE 1]
=============================================================================
