----------------------------- MODULE MCTermStats -----------------------------
(* Instance of TermStats: two documents of up to two chunks and one term,     *)
(* two requests, a crash, a failure, and three processings.  Documents and    *)
(* requests are interchangeable.                                              *)
EXTENDS TermStats, TLC

CONSTANTS d1, d2, r1, r2, a

MCDocs == {d1, d2}
MCRequests == {r1, r2}
MCTerms == {a}
MCBudget == [crash |-> 1, fault |-> 1, process |-> 3]
MCSymmetry == Permutations(MCDocs) \cup Permutations(MCRequests)
=============================================================================
