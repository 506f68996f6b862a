----------------------------- MODULE MCToolTurn -----------------------------
(* Instance of ToolTurn: two overlapping chunks of one document and one of   *)
(* another, with a citation budget that the searches must compete for.       *)
EXTENDS ToolTurn, TLC

CONSTANTS c1, c2, c3, listing, d1, d2

MCChunks == {c1, c2, c3}
MCDocOf == (c1 :> d1) @@ (c2 :> d1) @@ (c3 :> d2)
MCOverlap == {<<c1, c2>>, <<c2, c1>>}
=============================================================================
