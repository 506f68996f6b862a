---------------------------- MODULE MCSourceStore ----------------------------
(* Instances of SourceStore for TLC: contents and budgets of its runs. *)
EXTENDS SourceStore

CONSTANTS a, b, other

\* Every upload has the same content, except one.
TwoContents == [u \in Upload |-> IF u = other THEN b ELSE a]

Bounds(crash, fault, failed, delete, clearAll) ==
  [crash |-> crash, fault |-> fault, vector |-> failed, removal |-> failed,
   delete |-> delete, clear |-> clearAll]

AllBudget  == Bounds(1, 1, 1, 1, 1)
LossBudget == Bounds(0, 1, 0, 1, 0)
==============================================================================
