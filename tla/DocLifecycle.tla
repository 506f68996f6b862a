----------------------------- MODULE DocLifecycle -----------------------------
(***************************************************************************)
(* What the document API promises of a document, without tasks, stores or  *)
(* generations: one phase per document and the moves a client may see.     *)
(* Several documents may move in one step (clear-all, recovery).           *)
(***************************************************************************)
CONSTANT Docs

VARIABLE phase

Outcome == {"ready", "failed", "waiting"}

Init == phase = [d \in Docs |-> "absent"]

\* A document is uploaded once, is processed again only out of an outcome,
\* reaches an outcome only by being processed, and stays deleted.  A waiting
\* document may also fail, when its source file is lost.
Moves ==
     {<<"absent", "pending">>, <<"waiting", "failed">>}
  \cup ({"pending"} \X Outcome)
  \cup (Outcome \X {"pending"})
  \cup ((Outcome \cup {"pending"}) \X {"gone"})

Step(d) == phase'[d] = phase[d] \/ <<phase[d], phase'[d]>> \in Moves

Next == /\ phase' \in [Docs -> Outcome \cup {"absent", "pending", "gone"}]
        /\ \A d \in Docs : Step(d)

Spec == Init /\ [][Next]_phase
==============================================================================
