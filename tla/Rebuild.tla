------------------------------- MODULE Rebuild -------------------------------
(***************************************************************************)
(* Rebuilding the indexes (api/settings.py, api/settings_rebuild.py) while *)
(* documents are ingested and deleted, a clear-all that nothing keeps away *)
(* from it, and the stream that reports its progress (rag/progress.py).    *)
(*                                                                         *)
(* A rebuild copies the documents table, embeds what it copied into a new  *)
(* collection and a second set of BM25 tables, and switches both: first    *)
(* the pointer, then the tables, undoing the first when the second fails.  *)
(***************************************************************************)
EXTENDS Integers, Sequences, FiniteSets

CONSTANTS
  Docs,      \* documents
  Initial,   \* those ready and indexed at the beginning
  Rebuilds,  \* bound: rebuilds, numbered from 1; also their collections
  Requests,  \* bound: uploads, reprocessings, deletions and streams
  Upsets     \* bound: faults, cancellations, crashes and clear-alls

Budget      == [request |-> Requests, upset |-> Upsets]
BudgetKinds == DOMAIN Budget

ASSUME RebuildAssumption ==
  /\ Initial \subseteq Docs
  /\ Rebuilds \in Nat \ {0}
  /\ Requests \in Nat /\ Upsets \in Nat

VARIABLES
  row,       \* documents.status; "gone" once deleted
  text,      \* documents with raw_text
  sealed,    \* documents whose active generation is committed
  jobs,      \* ingestions under way
  colls,     \* what each existing collection holds
  ptr, run,  \* collection named by active_collections.json and by the settings
  live,      \* live BM25 tables: the rebuild that made them, and their documents
  staged,    \* the _v2 tables, or NoTables
  locked,    \* _rebuild_lock
  pc,        \* where each rebuild is
  snap,      \* statuses each rebuild copied
  had,       \* documents whose text it copied with them
  todo,      \* those it has yet to embed
  points,    \* those it has embedded
  former,    \* what the pointer named before each rebuild switched it
  result,    \* _last_rebuild_result, or NoEvent
  latest,    \* progress._latest["rebuild"], or NoEvent
  stream,    \* the one open progress stream
  clearing,  \* step of a clear-all
  torn,      \* an interruption or a clear-all came between the two switches
  overtaken, \* documents ingested into the index since the running rebuild switched
  used       \* how many requests and upsets there were

vars == <<row, text, sealed, jobs, colls, ptr, run, live, staged, locked, pc, snap, had, todo,
          points, former, result, latest, stream, clearing, torn, overtaken, used>>

RebuildIds == 1..Rebuilds
Cleared    == Rebuilds + 1                    \* collection made by a clear-all
NoTables   == [gen |-> -1, docs |-> {}]
NoEvent    == [of |-> 0, status |-> "none"]
Kinds      == {"progress", "completed", "failed"}
Events     == [of : RebuildIds, status : Kinds]
Terminal(e) == e.status \in {"completed", "failed"}

Statuses  == {"none", "busy", "ready", "failed", "gone"}
Steps     == {"guard", "parse", "index", "write", "seal"}
Embedding == {"queued", "copy", "embed"}
Switching == {"pointer", "tables", "drop"}
Ending    == {"rows", "publish", "unlock"}
Switched  == {"tables", "drop", "rows", "publish"}
Running   == (Embedding \cup Switching \cup Ending) \ {"queued"}
Pcs       == {"idle", "over", "failing"} \cup Embedding \cup Switching \cup Ending

docVars    == <<row, text, sealed, jobs>>
indexVars  == <<colls, ptr, run, live>>
workVars   == <<snap, had, todo, points, former>>
noteVars   == <<torn, overtaken>>
eventVars  == <<result, latest, stream>>

NoCopy   == [d \in Docs |-> "none"]
NoStream == [phase |-> "none", queue |-> <<>>, asked |-> 0, ended |-> NoEvent]

Init ==
  /\ row = [d \in Docs |-> IF d \in Initial THEN "ready" ELSE "none"]
  /\ text = Initial /\ sealed = Initial /\ jobs = {}
  /\ colls = [c \in {0} |-> Initial] /\ ptr = 0 /\ run = 0
  /\ live = [gen |-> 0, docs |-> Initial] /\ staged = NoTables
  /\ locked = FALSE /\ pc = [r \in RebuildIds |-> "idle"]
  /\ snap = [r \in RebuildIds |-> NoCopy]
  /\ had = [r \in RebuildIds |-> {}] /\ todo = had /\ points = had
  /\ former = [r \in RebuildIds |-> 0]
  /\ result = NoEvent /\ latest = NoEvent /\ stream = NoStream
  /\ clearing = "no" /\ torn = FALSE /\ overtaken = {}
  /\ used = [b \in BudgetKinds |-> 0]

Pay(requests, upsets) ==
  /\ used' = [request |-> used["request"] + requests, upset |-> used["upset"] + upsets]
  /\ \A b \in BudgetKinds : used'[b] <= Budget[b]
Spend(b) == used[b] < Budget[b] /\ used' = [used EXCEPT ![b] = @ + 1]
Rows == {d \in Docs : row[d] \notin {"none", "gone"}}
Holding(c, docs) == [k \in DOMAIN colls \cup {c} |-> IF k = c THEN docs ELSE colls[k]]
Without(gone) == [k \in DOMAIN colls \ gone |-> colls[k]]

-----------------------------------------------------------------------------
(* Documents.  Nothing keeps an ingestion or a deletion away from a rebuild.  *)
(* Ingestion.tla has the ingestion in full; here it is what a rebuild meets.  *)

Jobs == [id : 0..Requests, doc : Docs, at : Steps, to : 0..Cleared, retries : BOOLEAN]
Ingestion(i, d, at, retries) ==
  [id |-> i, doc |-> d, at |-> at, to |-> 0, retries |-> retries]

Goes(j, at)  == jobs' = (jobs \ {j}) \cup {[j EXCEPT !.at = at]}
Ends(j)      == jobs' = jobs \ {j}
Becomes(d, status) == row' = [row EXCEPT ![d] = status]
InIndex(j)   == j.at \in {"write", "seal"}
Held(c)      == IF c \in DOMAIN colls THEN colls[c] ELSE {}
Taken(c, d)  == [k \in DOMAIN colls |-> IF k = c THEN colls[k] \ {d} ELSE colls[k]]
TakenTerms(d) == [live EXCEPT !.docs = @ \ {d}]
Overtakes(d) ==
  overtaken' = IF \E r \in RebuildIds : pc[r] \in Switched THEN overtaken \cup {d} ELSE overtaken

quietVars == <<ptr, run, staged, locked, pc, workVars, eventVars, torn, clearing>>

\* An upload draws a fresh id.
Upload(d) ==
  /\ row[d] = "none" /\ Spend("request") /\ Becomes(d, "busy")
  /\ jobs' = jobs \cup {Ingestion(used'["request"], d, "guard", TRUE)}
  /\ UNCHANGED <<text, sealed, colls, live, overtaken, quietVars>>

\* It needs no guard, and it is not retried.
Reprocess(d) ==
  /\ row[d] \in {"ready", "failed"} /\ Spend("request") /\ Becomes(d, "busy")
  /\ jobs' = jobs \cup {Ingestion(used'["request"], d, "parse", FALSE)}
  /\ UNCHANGED <<text, sealed, colls, live, overtaken, quietVars>>

\* What c and the tables hold of d is deleted, but a failure of that is only logged:
\* one more upset.
Cleaned(c, d, requests, upsets) ==
  \/ colls' = Taken(c, d) /\ live' = TakenTerms(d) /\ Pay(requests, upsets)
  \/ /\ colls' \in {Taken(c, d), colls} /\ live' \in {TakenTerms(d), live}
     /\ Pay(requests, upsets + 1)

\* The row goes first.
Delete(d) ==
  /\ row[d] \in {"ready", "failed"} /\ Becomes(d, "gone")
  /\ Cleaned(run, d, 1, 0)
  /\ UNCHANGED <<text, sealed, jobs, overtaken, quietVars>>

\* A committed generation is taken as the end of the ingestion.
Skip(j) ==
  /\ j.at = "guard" /\ j.doc \in sealed \cap Rows
  /\ Becomes(j.doc, "ready") /\ Ends(j) /\ Overtakes(j.doc)
  /\ UNCHANGED <<text, sealed, colls, live, quietVars, used>>

\* The text is committed long before the index is written.
Parse(j) ==
  /\ j.at = "parse" \/ (j.at = "guard" /\ j.doc \notin sealed)
  /\ j.doc \in Rows /\ Becomes(j.doc, "busy")
  /\ text' = text \cup {j.doc} /\ Goes(j, "index")
  /\ UNCHANGED <<sealed, colls, live, overtaken, quietVars, used>>

\* Stage 1: what the indexes held of the document is deleted.  The ingestion stays
\* with the collection it finds active here, which is created if it is missing.
CleanUp(j) ==
  /\ j.at = "index" /\ j.doc \in Rows /\ Becomes(j.doc, "busy")
  /\ colls' = Holding(run, Held(run) \ {j.doc}) /\ live' = TakenTerms(j.doc)
  /\ jobs' = (jobs \ {j}) \cup {[j EXCEPT !.at = "write", !.to = run]}
  /\ Overtakes(j.doc)
  /\ UNCHANGED <<text, sealed, quietVars, used>>

\* Stages 3 and 4.
Write(j) ==
  /\ j.at = "write" /\ j.to \in DOMAIN colls
  /\ colls' = Holding(j.to, colls[j.to] \cup {j.doc})
  /\ live' = [live EXCEPT !.docs = @ \cup {j.doc}] /\ Goes(j, "seal")
  /\ UNCHANGED <<row, text, sealed, overtaken, quietVars, used>>

Verified(j) == j.doc \in Held(j.to) /\ j.doc \in live.docs

\* Stages 5 and 6.
Seal(j) ==
  /\ j.at = "seal" /\ Verified(j) /\ j.doc \in Rows
  /\ Becomes(j.doc, "ready") /\ sealed' = sealed \cup {j.doc} /\ Ends(j)
  /\ UNCHANGED <<text, colls, live, overtaken, quietVars, used>>

\* A step must fail when its row or collection is gone or what was written is not
\* there.  From stage 3 on what was written is taken out again, which may fail;
\* a background ingestion is retried, a bounded number of times.
MustFail(j) ==
  \/ j.doc \notin Rows \/ (j.at = "write" /\ j.to \notin DOMAIN colls)
  \/ (j.at = "seal" /\ ~Verified(j))

GiveUp(j) ==
  /\ LET n == IF MustFail(j) THEN 0 ELSE 1
     IN  IF InIndex(j) THEN Cleaned(j.to, j.doc, 0, n)
         ELSE Pay(0, n) /\ UNCHANGED <<colls, live>>
  /\ \/ j.doc \notin Rows /\ Ends(j) /\ UNCHANGED row
     \/ j.doc \in Rows /\ Ends(j) /\ Becomes(j.doc, "failed")
     \/ j.doc \in Rows /\ j.retries /\ Goes(j, "parse") /\ UNCHANGED row
  /\ UNCHANGED <<text, sealed, overtaken, quietVars>>

Ingest(j) ==
  \/ Skip(j) \/ Parse(j) \/ CleanUp(j) \/ Write(j) \/ Seal(j) \/ GiveUp(j)

-----------------------------------------------------------------------------
(* ProgressManager: the stream's queue starts with the latest event.  Only    *)
(* terminal events are kept here: the others are passed on and change nothing. *)

Kept(e) == IF Terminal(e) THEN <<e>> ELSE <<>>
Told(e) == [stream EXCEPT !.queue = IF stream.phase = "open" THEN @ \o Kept(e) ELSE @]
Publish(e) == latest' = e /\ stream' = Told(e)

Current == CHOOSE r \in RebuildIds : pc[r] \notin {"idle", "over"}
SomeRunning == \E r \in RebuildIds : pc[r] \notin {"idle", "over"}

Open ==
  /\ stream.phase = "none" /\ Spend("request")
  /\ stream' =
       IF result # NoEvent /\ ~locked
       THEN [NoStream EXCEPT !.phase = "closed", !.ended = result]
       ELSE [NoStream EXCEPT !.phase = "open",
                             !.queue = Kept(latest),
                             !.asked = IF locked /\ SomeRunning THEN Current ELSE 0]
  /\ UNCHANGED <<docVars, indexVars, staged, locked, pc, workVars, result, latest, clearing, noteVars>>

Deliver ==
  /\ stream.phase = "open" /\ stream.queue # <<>>
  /\ stream' = [stream EXCEPT !.phase = "closed", !.queue = <<>>, !.ended = Head(stream.queue)]
  /\ UNCHANGED <<docVars, indexVars, staged, locked, pc, workVars, result, latest,
                 clearing, noteVars, used>>

-----------------------------------------------------------------------------
(* rebuild_collections and _do_rebuild                                       *)

Step(r, from, to) == pc[r] = from /\ pc' = [pc EXCEPT ![r] = to]

AnnouncedLate(r) == UNCHANGED <<latest, stream>>                        \* mutant
\* An event goes out before the task has started.
Announced(r) == Publish([of |-> r, status |-> "progress"])

Post(r) ==
  /\ ~locked /\ \A q \in RebuildIds : q < r => pc[q] = "over"
  /\ Step(r, "idle", "queued")
  /\ locked' = TRUE /\ Announced(r)
  /\ UNCHANGED <<docVars, indexVars, staged, workVars, result, clearing, noteVars, used>>

\* The old result is forgotten and left-over tables are dropped.
Prepare(r) ==
  /\ Step(r, "queued", "copy")
  /\ result' = NoEvent /\ staged' = NoTables
  /\ Publish([of |-> r, status |-> "progress"])
  /\ UNCHANGED <<docVars, indexVars, locked, workVars, clearing, noteVars, used>>

Copy(r) ==
  /\ Step(r, "copy", "embed")
  /\ snap' = [snap EXCEPT ![r] = row] /\ had' = [had EXCEPT ![r] = text]
  /\ todo' = [todo EXCEPT ![r] = Rows]
  /\ staged' = [gen |-> r, docs |-> {}]
  /\ UNCHANGED <<docVars, indexVars, locked, points, former, eventVars, clearing, noteVars, used>>

Copied(r) == {d \in Docs : snap[r][d] \notin {"none", "gone"}}

\* A document copied without its text is read back from the tables in use; one
\* that is not there either is skipped.  An embedding that fails counts as failed.
Embed(r, d) ==
  /\ pc[r] = "embed" /\ d \in todo[r]
  /\ todo' = [todo EXCEPT ![r] = @ \ {d}]
  /\ \/ d \notin had[r] \cup live.docs /\ UNCHANGED <<points, staged, used>>
     \/ d \in had[r] \cup live.docs /\ Spend("upset") /\ UNCHANGED <<points, staged>>
     \/ /\ d \in had[r] \cup live.docs /\ points' = [points EXCEPT ![r] = @ \cup {d}]
        /\ staged' = [staged EXCEPT !.docs = @ \cup {d}] /\ UNCHANGED used
  /\ UNCHANGED <<docVars, indexVars, locked, pc, snap, had, former, eventVars, clearing, noteVars>>

\* No document at all could be embedded: the present index is kept.
AllFailed(r) == Copied(r) # {} /\ points[r] = {}

Create(r) ==
  /\ pc[r] = "embed" /\ todo[r] = {} /\ ~AllFailed(r)
  /\ pc' = [pc EXCEPT ![r] = "pointer"]
  /\ colls' = Holding(r, points[r])
  /\ Publish([of |-> r, status |-> "progress"])
  /\ UNCHANGED <<docVars, ptr, run, live, staged, locked, workVars, result, clearing, noteVars, used>>

-----------------------------------------------------------------------------
(* activate_qdrant_and_bm25                                                  *)

SwitchPointer(r) ==
  /\ Step(r, "pointer", "tables")
  /\ ptr' = r /\ run' = r /\ former' = [former EXCEPT ![r] = run]
  /\ torn' = (torn \/ clearing # "no")
  /\ overtaken' = {j.doc : j \in {k \in jobs : InIndex(k)}}
  /\ UNCHANGED <<docVars, colls, live, staged, locked, snap, had, todo, points, eventVars,
                 clearing, used>>

SwitchTables(r) ==
  /\ Step(r, "tables", "drop")
  /\ live' = staged /\ staged' = NoTables
  /\ UNCHANGED <<docVars, colls, ptr, run, locked, workVars, eventVars, clearing, noteVars, used>>

RestoredNot(r) == UNCHANGED <<ptr, run>>                               \* mutant
Restored(r) == ptr' = former[r] /\ run' = former[r]

\* The transaction of the tables is rolled back; the pointer is restored, then
\* the new collection deleted.
Compensate(r) ==
  /\ Step(r, "tables", "failing") /\ Spend("upset")
  /\ Restored(r)
  /\ colls' = Without({r})
  /\ UNCHANGED <<docVars, live, staged, locked, workVars, eventVars, clearing, noteVars>>

\* Every other collection goes; a deletion that fails ends in a report of failure.
DropOld(r) ==
  /\ \/ Step(r, "drop", "rows") /\ colls' = Without(DOMAIN colls \ {r}) /\ UNCHANGED used
     \/ Step(r, "drop", "failing") /\ Spend("upset") /\ UNCHANGED colls
  /\ UNCHANGED <<docVars, ptr, run, live, staged, locked, workVars, eventVars, clearing, noteVars>>

StatusOfAll(r, d) == "ready"                                           \* mutant
StatusOf(r, d) == IF d \in points[r] THEN "ready" ELSE "failed"

\* One commit for the rows as they were copied.  The status of a row is written
\* where it is not the one copied; for a row that is gone the commit raises if
\* anything of it, such as its number of chunks, is to be written.
Rewritten(r) == {d \in Copied(r) : StatusOf(r, d) # snap[r][d]}

UpdateRows(r) ==
  /\ \/ /\ Step(r, "rows", "publish") /\ Rewritten(r) \subseteq Rows
        /\ row' = [d \in Docs |-> IF d \in Rewritten(r) THEN StatusOf(r, d) ELSE row[d]]
     \/ Step(r, "rows", "failing") /\ ~(Copied(r) \subseteq Rows) /\ UNCHANGED row
  /\ UNCHANGED <<text, sealed, jobs, indexVars, staged, locked, workVars, eventVars, clearing,
                 noteVars, used>>

Report(r, status) ==
  LET e == [of |-> r, status |-> status] IN result' = e /\ Publish(e)

Complete(r) ==
  /\ Step(r, "publish", "unlock") /\ Report(r, "completed")
  /\ UNCHANGED <<docVars, indexVars, staged, locked, workVars, clearing, noteVars, used>>

Refuse(r) ==
  /\ Step(r, "embed", "failing") /\ todo[r] = {} /\ AllFailed(r)
  /\ UNCHANGED <<docVars, indexVars, staged, locked, workVars, eventVars, clearing, noteVars, used>>

\* The except clause takes the error of any other step.
Raises(r) ==
  /\ pc[r] \in {"copy", "embed", "pointer", "rows"} /\ Spend("upset")
  /\ pc' = [pc EXCEPT ![r] = "failing"]
  /\ UNCHANGED <<docVars, indexVars, staged, locked, workVars, eventVars, clearing, noteVars>>

Fail(r) ==
  /\ Step(r, "failing", "unlock")
  /\ staged' = NoTables /\ Report(r, "failed")
  /\ UNCHANGED <<docVars, indexVars, locked, workVars, clearing, noteVars, used>>

\* The variables of the task are gone, and what overtook it with them.
Forgets(r) ==
  /\ snap' = [snap EXCEPT ![r] = NoCopy] /\ had' = [had EXCEPT ![r] = {}]
  /\ todo' = [todo EXCEPT ![r] = {}] /\ points' = [points EXCEPT ![r] = {}]
  /\ former' = [former EXCEPT ![r] = 0] /\ overtaken' = {}

Unlock(r) ==
  /\ Step(r, "unlock", "over") /\ locked' = FALSE
  /\ Forgets(r)
  /\ UNCHANGED <<docVars, indexVars, staged, eventVars, clearing, torn, used>>

LockAfterCancelKept(r) == locked                                       \* mutant
\* Maintenance cancels the task: only the finally clause runs, and not even that
\* when the task had not started.
LockAfterCancel(r) == pc[r] = "queued"

\* Inside the switch of the tables the pointer is restored although the commit
\* may have been carried out by then.
Cancel(r) ==
  /\ pc[r] \in Running \cup {"queued"} /\ pc[r] # "unlock" /\ Spend("upset")
  /\ pc' = [pc EXCEPT ![r] = "over"]
  /\ locked' = LockAfterCancel(r)
  /\ IF pc[r] # "tables" THEN UNCHANGED <<colls, ptr, run, live, staged, torn>>
     ELSE /\ Restored(r) /\ colls' = Without({r})
          /\ \/ UNCHANGED <<live, staged, torn>>
             \/ live' = staged /\ staged' = NoTables /\ torn' = TRUE
  /\ Forgets(r)
  /\ UNCHANGED <<docVars, eventVars, clearing>>

-----------------------------------------------------------------------------
(* clear_all_data, in three parts                                            *)

ClearVectors ==
  /\ clearing = "no" /\ Spend("upset") /\ clearing' = "drop"
  /\ colls' = Holding(Cleared, {}) /\ run' = Cleared /\ ptr' = Cleared
  /\ torn' = (torn \/ SomeRunning)
  /\ UNCHANGED <<docVars, live, staged, locked, pc, workVars, eventVars, overtaken>>

ClearDrop ==
  /\ clearing = "drop" /\ clearing' = "rows"
  /\ colls' = Without(DOMAIN colls \ {Cleared})
  /\ torn' = (torn \/ SomeRunning)
  /\ UNCHANGED <<docVars, ptr, run, live, staged, locked, pc, workVars, eventVars, overtaken, used>>

ClearRows ==
  /\ clearing = "rows" /\ clearing' = "no"
  /\ row' = [d \in Docs |-> IF d \in Rows THEN "gone" ELSE row[d]]
  /\ live' = [gen |-> IF torn \/ SomeRunning THEN live.gen ELSE Cleared, docs |-> {}]
  /\ torn' = (torn \/ SomeRunning)
  /\ UNCHANGED <<text, sealed, jobs, colls, ptr, run, staged, locked, pc, workVars, eventVars,
                 overtaken, used>>

\* A crash, and the start after it, which reads the pointer and takes up the
\* documents that were being ingested.
Crash ==
  /\ Spend("upset")
  /\ torn' = (torn \/ clearing # "no" \/ \E r \in RebuildIds : pc[r] = "tables")
  /\ locked' = FALSE /\ run' = ptr /\ clearing' = "no" /\ overtaken' = {}
  /\ jobs' = {Ingestion(0, d, "guard", TRUE) : d \in {e \in Docs : row[e] = "busy"}}
  /\ pc' = [r \in RebuildIds |-> IF pc[r] = "idle" THEN "idle" ELSE "over"]
  /\ snap' = [r \in RebuildIds |-> NoCopy]
  /\ had' = [r \in RebuildIds |-> {}] /\ todo' = had' /\ points' = had'
  /\ former' = [r \in RebuildIds |-> 0]
  /\ result' = NoEvent /\ latest' = NoEvent /\ stream' = NoStream
  /\ UNCHANGED <<row, text, sealed, colls, ptr, live, staged>>

-----------------------------------------------------------------------------
Proceed(r) ==
  \/ Prepare(r) \/ Copy(r) \/ (\E d \in Docs : Embed(r, d)) \/ Create(r)
  \/ SwitchPointer(r) \/ SwitchTables(r) \/ DropOld(r) \/ UpdateRows(r) \/ Complete(r)
  \/ Refuse(r) \/ Fail(r) \/ Unlock(r)

Next ==
  \/ \E d \in Docs : Upload(d) \/ Reprocess(d) \/ Delete(d)
  \/ \E j \in jobs : Ingest(j)
  \/ Open \/ Deliver
  \/ \E r \in RebuildIds :
       Post(r) \/ Proceed(r) \/ Compensate(r) \/ Raises(r) \/ Cancel(r)
  \/ ClearVectors \/ ClearDrop \/ ClearRows \/ Crash

\* A task that has started goes on; events are delivered.
Spec == Init /\ [][Next]_vars /\ (\A r \in RebuildIds : WF_vars(Proceed(r))) /\ WF_vars(Deliver)

-----------------------------------------------------------------------------
TypeOK ==
  /\ row \in [Docs -> Statuses] /\ text \subseteq Docs /\ sealed \subseteq Docs
  /\ jobs \subseteq Jobs /\ overtaken \subseteq Docs
  /\ DOMAIN colls \subseteq 0..Cleared /\ \A c \in DOMAIN colls : colls[c] \subseteq Docs
  /\ ptr \in 0..Cleared /\ run \in 0..Cleared
  /\ locked \in BOOLEAN /\ pc \in [RebuildIds -> Pcs]
  /\ snap \in [RebuildIds -> [Docs -> Statuses]] /\ had \in [RebuildIds -> SUBSET Docs]
  /\ todo \in [RebuildIds -> SUBSET Docs] /\ points \in [RebuildIds -> SUBSET Docs]
  /\ result \in Events \cup {NoEvent} /\ latest \in Events \cup {NoEvent}
  /\ torn \in BOOLEAN /\ clearing \in {"no", "drop", "rows"}
  /\ used \in [request : 0..Requests, upset : 0..Upsets]

\* Vectors and BM25 tables in use come from the same rebuild, except between
\* the two switches: when the second fails the first is undone.
SwitchedTogether ==
  (~torn /\ clearing = "no" /\ \A r \in RebuildIds : pc[r] # "tables")
    => live.gen = run /\ run = ptr

\* Documents that had failed before and that the rebuild failed to embed: their
\* status is not written again, and an ingestion may have made them ready.
FailedTwice(r) == {d \in Copied(r) : snap[r][d] = "failed" /\ StatusOf(r, d) = "failed"}

\* A rebuild about to report that it is complete has every document it copied
\* that is ready in both indexes, though documents are uploaded, parsed, ingested
\* again and deleted next to it and embeddings fail: but for those an ingestion
\* has reached in the index since the switch, and those that failed twice.
RebuiltIsIndexed ==
  \A r \in RebuildIds : (pc[r] = "publish" /\ ~torn) =>
    \A d \in Copied(r) \ (overtaken \cup FailedTwice(r)) :
      row[d] = "ready" => d \in colls[run] /\ d \in live.docs

\* A stream opened while a rebuild runs never ends with the result of an earlier
\* one, which would tell the client that the running one is over.
StreamOfOwnRun == stream.phase = "closed" => stream.ended.of >= stream.asked

\* A rebuild that started sets the lock free again, whatever happens to it.
LockReleased == \A r \in RebuildIds : (pc[r] \in Running) ~> ~locked
=============================================================================
