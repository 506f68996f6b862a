----------------------------- MODULE MCIngestion -----------------------------
(* Instances of Ingestion for TLC: the budgets of its runs. *)
EXTENDS Ingestion

Bounds(crash, fault, claim, pause) ==
  [k \in BudgetKinds |-> CASE k = "crash" -> crash [] k = "fault" -> fault
                           [] k = "claim" -> claim [] k = "pause" -> pause]

CoreBudget    == Bounds(1, 1, 1, 1)
PairBudget    == Bounds(1, 0, 1, 0)
CrashBudget   == Bounds(1, 0, 1, 0)
FirstBudget   == Bounds(0, 0, 0, 0)
OcrBudget     == Bounds(0, 0, 2, 0)
PauseBudget   == Bounds(0, 0, 0, 1)
==============================================================================
