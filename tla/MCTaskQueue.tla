---------------------------- MODULE MCTaskQueue ----------------------------
(* Instances of TaskQueue for TLC: keys and budgets of its runs. *)
EXTENDS TaskQueue

CONSTANTS Key

Bounds(crash, stop, fault, lapse) ==
  [b \in BudgetKinds |-> CASE b = "crash" -> crash [] b = "stop" -> stop
                           [] b = "fault" -> fault [] b = "lapse" -> lapse]

\* Every task has the same idempotency key.
SameKey == [t \in Task |-> Key]
NoKeys  == [t \in Task |-> NoKey]

QueueBudget == Bounds(1, 1, 1, 1)
CrashBudget == Bounds(1, 0, 0, 0)
============================================================================
