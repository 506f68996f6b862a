------------------------------ MODULE TermStats ------------------------------
(***************************************************************************)
(* The full-text index in SQLite (textdb/bm25_search.py): chunk rows, the  *)
(* postings of each term, and the number of chunks that hold a term (df),  *)
(* which scores and the correction of typing errors are computed from.     *)
(*                                                                         *)
(* An insertion is one transaction.  The deletion of a document is two     *)
(* queries and three transactions: what it subtracts from df was counted   *)
(* before, and between the transactions it may be overtaken, fail or die   *)
(* with the process.  Deletions come from the pipeline, which cleans before*)
(* it writes and after a failure, and from delete and clear-all requests.  *)
(***************************************************************************)
EXTENDS Integers, FiniteSets

CONSTANTS
  Docs,      \* documents
  Chunks,    \* bound: chunk numbers of a document
  Terms,     \* terms; each is counted apart from the others
  Requests,  \* bound: delete requests, clear-all being one for each document;
             \* none of them is in Docs
  Budget     \* bound: crashes, failures, processings

BudgetKinds == {"crash", "fault", "process"}

VARIABLES
  status,   \* documents.status: none yet, busy, settled, gone
  rows,     \* bm25_docs: chunk ids
  postings, \* bm25_index: terms and chunk ids
  df,       \* bm25_stats: 0 where there is no row
  proc,     \* the task of each document and each request: where it is, its locals
  hurt,     \* history: a deletion was cut off or doubled after it had counted
  crossed,  \* history: a request deleted from a document that was being written
  used      \* how much of each Budget was spent

vars == <<status, rows, postings, df, proc, hurt, crossed, used>>
tables == <<rows, postings, df>>
past == <<hurt, crossed>>

Ids(d) == {d} \X Chunks
Procs == Docs \cup Requests
NoCounts == [t \in Terms |-> 0]
Idle == [pc |-> "idle", doc |-> "none", ids |-> {}, cnt |-> NoCounts, undo |-> FALSE]
Spend(b) == used[b] < Budget[b] /\ used' = [used EXCEPT ![b] = @ + 1]

Init ==
  /\ status = [d \in Docs |-> "none"]
  /\ rows = {} /\ postings = {} /\ df = NoCounts
  /\ proc = [p \in Procs |-> Idle]
  /\ hurt = FALSE /\ crossed = FALSE /\ used = [b \in BudgetKinds |-> 0]

CountIn(set, ids) == [t \in Terms |-> Cardinality({x \in set : x[1] = t /\ x[2] \in ids})]
Without(set, ids) == {x \in set : x[2] \notin ids}
Less(a, b) == [t \in Terms |-> IF a[t] > b[t] THEN a[t] - b[t] ELSE 0]    \* MAX(0, ..)
Plus(a, b) == [t \in Terms |-> a[t] + b[t]]

Cleaning == {"select", "ids", "count", "subtract", "postings", "rows"}
OnDoc(p, d) == proc[p].pc # "idle" /\ proc[p].doc = d

-----------------------------------------------------------------------------
(* Who works on a document                                                   *)

\* A new document, a reprocess, or the rescan of an interrupted one: the pipeline
\* deletes what there is.
Process(d) ==
  /\ status[d] \in {"none", "settled", "busy"} /\ proc[d].pc = "idle" /\ Spend("process")
  /\ status' = [status EXCEPT ![d] = "busy"]
  /\ proc' = [proc EXCEPT ![d] = [Idle EXCEPT !.pc = "ids", !.doc = d]]
  /\ crossed' = (crossed \/ \E r \in Requests : OnDoc(r, d) /\ proc[r].pc # "select")
  /\ UNCHANGED <<tables, hurt>>

\* delete_document reads the status and then deletes the row; of two requests
\* that read it, the second deletes no row and goes on all the same.
Select(r, d) ==
  /\ proc[r] = Idle /\ status[d] = "settled"
  /\ proc' = [proc EXCEPT ![r] = [Idle EXCEPT !.pc = "select", !.doc = d]]
  /\ UNCHANGED <<status, tables, past, used>>

DeleteRow(r) ==
  /\ proc[r].pc = "select"
  /\ LET d == proc[r].doc IN
     /\ status' = [status EXCEPT ![d] = "gone"]
     /\ crossed' = (crossed \/ OnDoc(d, d))
     /\ hurt' = (hurt \/ \E s \in Requests \ {r} : OnDoc(s, d) /\ proc[s].pc # "select")
  /\ proc' = [proc EXCEPT ![r].pc = "ids"]
  /\ UNCHANGED <<tables, used>>

\* Where a process is after delete_by_document, finished or failed: a request is
\* over, a task goes on to write, or has undone what it wrote and is over.
Cleaned(p) ==
  IF p \in Docs /\ ~proc[p].undo
  THEN [proc EXCEPT ![p] = [Idle EXCEPT !.pc = "old", !.doc = p]]
  ELSE [proc EXCEPT ![p] = IF p \in Docs THEN Idle ELSE [Idle EXCEPT !.pc = "over"]]
Settles(p) == p \in Docs /\ proc[p].undo /\ status[p] = "busy"
AfterClean(p) ==
  /\ proc' = Cleaned(p)
  /\ status' = [d \in Docs |-> IF d = p /\ Settles(p) THEN "settled" ELSE status[d]]

-----------------------------------------------------------------------------
(* delete_by_document                                                        *)

ReadIds(p) ==
  /\ proc[p].pc = "ids"
  /\ LET found == {c \in rows : c[1] = proc[p].doc} IN
     IF found = {} THEN AfterClean(p)
     ELSE /\ proc' = [proc EXCEPT ![p].pc = "count", ![p].ids = found]
          /\ UNCHANGED status
  /\ UNCHANGED <<tables, past, used>>

Counted(p) == CountIn(postings, proc[p].ids)

\* _increment_terms: without a posting there is nothing to subtract.
Count(p) ==
  /\ proc[p].pc = "count"
  /\ LET cnt == Counted(p) IN
     proc' = [proc EXCEPT ![p].pc = IF cnt = NoCounts THEN "postings" ELSE "subtract",
                          ![p].cnt = cnt]
  /\ UNCHANGED <<status, tables, past, used>>

Subtract(p) ==
  /\ proc[p].pc = "subtract"
  /\ df' = Less(df, proc[p].cnt)
  /\ proc' = [proc EXCEPT ![p].pc = "postings"]
  /\ UNCHANGED <<status, rows, postings, past, used>>

DeletePostings(p) ==
  /\ proc[p].pc = "postings"
  /\ postings' = Without(postings, proc[p].ids)
  /\ proc' = [proc EXCEPT ![p].pc = "rows"]
  /\ UNCHANGED <<status, rows, df, past, used>>

DeleteChunkRows(p) ==
  /\ proc[p].pc = "rows"
  /\ rows' = {c \in rows : c[1] # proc[p].doc}
  /\ AfterClean(p)
  /\ UNCHANGED <<postings, df, past, used>>

-----------------------------------------------------------------------------
(* insert_batch: what the chunks had is looked up, and then one transaction  *)
(* replaces it                                                               *)

ReadOld(d) ==
  /\ proc[d].pc = "old"
  /\ \E n \in Chunks : LET ids == {c \in Ids(d) : c[2] <= n} IN
       proc' = [proc EXCEPT ![d].pc = "insert", ![d].ids = ids,
                            ![d].cnt = CountIn(postings, ids)]
  /\ UNCHANGED <<status, tables, past, used>>

Insert(d) ==
  /\ proc[d].pc = "insert"
  /\ \E new \in SUBSET (Terms \X proc[d].ids) :
       LET ids  == proc[d].ids
           kept == IF proc[d].cnt = NoCounts THEN postings ELSE Without(postings, ids) IN
       /\ rows' = rows \cup ids
       /\ postings' = kept \cup new
       /\ df' = Plus(Less(df, proc[d].cnt), CountIn(new, ids))
  /\ proc' = [proc EXCEPT ![d] = [Idle EXCEPT !.pc = "written", !.doc = d]]
  /\ UNCHANGED <<status, past, used>>

\* Verification, commit and final status: ready, or a row that is gone by now.
Finish(d) ==
  /\ proc[d].pc = "written"
  /\ IF status[d] = "busy"
     THEN /\ status' = [status EXCEPT ![d] = "settled"]
          /\ proc' = [proc EXCEPT ![d] = Idle]
     ELSE /\ proc' = [proc EXCEPT ![d] = [Idle EXCEPT !.pc = "ids", !.doc = d, !.undo = TRUE]]
          /\ UNCHANGED status
  /\ UNCHANGED <<tables, past, used>>

-----------------------------------------------------------------------------
(* Failures                                                                  *)

\* Counted out, and the postings are still there.
Torn(p) == proc[p].pc = "postings" /\ proc[p].cnt # NoCounts

\* A statement fails and its transaction is rolled back.  A task that has begun
\* to write undoes it; a deletion that fails is logged, or ends the task.
Fail(p) ==
  /\ proc[p].pc \in (Cleaning \ {"select"}) \cup {"old", "insert", "written"} /\ Spend("fault")
  /\ hurt' = (hurt \/ Torn(p))
  /\ IF p \in Docs /\ proc[p].pc \in {"old", "insert", "written"}
     THEN /\ proc' = [proc EXCEPT ![p] = [Idle EXCEPT !.pc = "ids", !.doc = p, !.undo = TRUE]]
          /\ UNCHANGED status
     ELSE /\ proc' = [proc EXCEPT ![p] = IF p \in Docs THEN Idle ELSE [Idle EXCEPT !.pc = "over"]]
          /\ status' = [d \in Docs |-> IF d = p /\ status[d] = "busy" THEN "settled" ELSE status[d]]
  /\ UNCHANGED <<tables, crossed>>

Crash ==
  /\ Spend("crash")
  /\ proc' = [p \in Procs |-> IF p \in Docs \/ proc[p] = Idle THEN Idle
                              ELSE [Idle EXCEPT !.pc = "over"]]
  /\ hurt' = (hurt \/ \E p \in Procs : Torn(p))
  /\ UNCHANGED <<status, tables, crossed>>

-----------------------------------------------------------------------------
Delete(p) == ReadIds(p) \/ Count(p) \/ Subtract(p) \/ DeletePostings(p) \/ DeleteChunkRows(p)

Next ==
  \/ \E d \in Docs : Process(d) \/ ReadOld(d) \/ Insert(d) \/ Finish(d)
  \/ \E r \in Requests : DeleteRow(r) \/ \E d \in Docs : Select(r, d)
  \/ \E p \in Procs : Delete(p) \/ Fail(p)
  \/ Crash

Spec == Init /\ [][Next]_vars

-----------------------------------------------------------------------------
Held == CountIn(postings, Docs \X Chunks)
AtRest == \A p \in Procs : proc[p].pc \in {"idle", "over", "select", "written"}

TypeOK ==
  /\ status \in [Docs -> {"none", "busy", "settled", "gone"}]
  /\ rows \subseteq Docs \X Chunks /\ postings \subseteq Terms \X (Docs \X Chunks)
  /\ df \in [Terms -> Nat] /\ hurt \in BOOLEAN /\ crossed \in BOOLEAN

\* Between deletions df is the number of chunks that hold the term, over any
\* processings, failures, crashes and deletions of other documents, unless one
\* was cut off or doubled just after it had subtracted (delete_by_document).
StatsExact == AtRest /\ ~hurt /\ ~crossed => df = Held

\* However deletions are cut off, repeated and doubled, and at any time, df does
\* not exceed the number of chunks that hold the term: what drifts makes a term
\* look rarer, and never turns a score of search negative.
NeverOvercounts == ~crossed => \A t \in Terms : df[t] <= Held[t]

\* A posting has its chunk row at any time, also after a deletion that was cut
\* off: what df counts is a chunk that the JOIN of search finds.
PostingsHaveRows == ~crossed => \A x \in postings : x[2] \in rows

\* "Increment/decrement df for terms in given chunks by their actual count"
\* (bm25_search.py): when all work is done, df is right.
StatsNeverDrift == AtRest => df = Held
=============================================================================
