------------------------------ MODULE Ingestion ------------------------------
(***************************************************************************)
(* The life of a document in the knowledge base: upload, background        *)
(* indexing into the two stores (Qdrant vectors and the BM25 tables),      *)
(* index generations, reprocessing, deletion, the wait for the optional    *)
(* OCR model, a maintenance pause, and a crash with the start-up recovery. *)
(*                                                                         *)
(* The backend is one asyncio process.  Every action below is what the     *)
(* code does between two awaits, or a group of awaits whose intermediate   *)
(* states no other actor can tell apart.                                   *)
(***************************************************************************)
EXTENDS Naturals, FiniteSets

CONSTANTS
  Docs,            \* document ids; an upload always draws a fresh one
  Slots,           \* task slots per document: two would mean a double run
  MaxChunks,       \* bound: chunks one document can be split into
  MaxGens,         \* bound: index generations ever created
  MaxRetries,      \* settings.ingestion_max_retries
  MaxConcurrency,  \* settings.ingestion_max_concurrency
  Budget           \* bound: crashes, faults, claims and pauses in a behaviour

BudgetKinds == {"crash", "fault", "claim", "pause"}

ASSUME IngestionAssumption ==
  /\ MaxChunks \in Nat \ {0}
  /\ MaxGens \in Nat \ {0}
  /\ MaxRetries \in Nat \ {0}
  /\ MaxConcurrency \in Nat \ {0}
  /\ Budget \in [BudgetKinds -> Nat]

VARIABLES
  row,      \* documents.status, or the row's absence before and after its life
  active,   \* documents.active_generation_id, 0 for NULL
  gen,      \* the index_generations table
  nextGen,  \* the next generation id
  vec,      \* points in Qdrant per document: <<chunk id, generation_id payload>>
  bm,       \* rows of bm25_docs per document: chunk ids
  job,      \* the in-memory tasks of a document
  purge,    \* the delete or clear-all request being served
  mode,     \* "cleanup" while the lifespan start-up runs, then "up"
  paused,   \* BackgroundTaskManager._paused
  owed,     \* history: accepted (re)processing neither published nor failed
  used      \* how much of each Budget was spent

rowVars == <<row, active>>
idxVars == <<vec, bm>>
genVars == <<gen, nextGen>>
ctlVars == <<purge, mode, paused>>
vars == <<row, active, gen, nextGen, vec, bm, job, purge, mode, paused, owed, used>>

(***************************************************************************)
(* Statuses and records                                                    *)
(***************************************************************************)
Settled == {"ready", "failed", "waiting_for_ocr"}
Busy    == {"uploaded", "parsing", "chunking", "embedding", "indexing"}
Deleted == {"gone", "missed"}    \* missed: by a clear-all that had not listed it
Absent  == {"unborn"} \cup Deleted

Staging   == {"preparing", "writing_vector", "writing_bm25", "verifying"}
GenStatus == {"unused", "committed", "failed"} \cup Staging

Gens  == 1..MaxGens
Chunk == 1..MaxChunks

GenRec == [st : GenStatus, doc : SUBSET Docs, ids : SUBSET Chunk]

JobPc == {"idle", "queued", "parse", "ocr", "chunk", "embed", "embedding",
          "index", "generation", "delvec", "delbm", "writevec", "writebm",
          "verify", "commit", "switch", "final", "undovec", "undobm", "undogen",
          "transient", "permanent"}

JobRec == [pc : JobPc, kind : {"ingest", "reprocess"}, gen : 0..MaxGens,
           att : Nat, ids : SUBSET Chunk]

IdleJob == [pc |-> "idle", kind |-> "ingest", gen |-> 0, att |-> 0, ids |-> {}]

PurgeRec == [pc : {"none", "rows", "store", "vec", "bm"}, all : BOOLEAN,
             todo : SUBSET Docs, cur : SUBSET Docs]

NoPurge == [pc |-> "none", all |-> FALSE, todo |-> {}, cur |-> {}]

\* Chunk ids are uuid5(doc_id:chunk_index), so a split is a prefix of them.
Split(n) == 1..n

Exists(d) == row[d] \notin Absent
Live(d, s) == job[d][s].pc # "idle"
Committed(d) == active[d] # 0 /\ gen[active[d]].st = "committed"

\* A status UPDATE finds no row once the document was deleted.
SetAlways(d, st)  == [row EXCEPT ![d] = st]              \* mutant: inserts it again
SetNothing(d, st) == row                                 \* mutant: status not written
SetStatus(d, st)  == IF Exists(d) THEN [row EXCEPT ![d] = st] ELSE row

\* delete_by_document of a store.
EmptiedNever(store, d) == store                          \* mutant: nothing deleted
Emptied(store, d) == [store EXCEPT ![d] = {}]

Spend(k) == used[k] < Budget[k] /\ used' = [used EXCEPT ![k] = @ + 1]

Init ==
  /\ row = [d \in Docs |-> "unborn"]
  /\ active = [d \in Docs |-> 0]
  /\ gen = [g \in Gens |-> [st |-> "unused", doc |-> {}, ids |-> {}]]
  /\ nextGen = 1
  /\ vec = [d \in Docs |-> {}]
  /\ bm = [d \in Docs |-> {}]
  /\ job = [d \in Docs |-> [s \in Slots |-> IdleJob]]
  /\ purge = NoPurge
  /\ mode = "up"
  /\ paused = FALSE
  /\ owed = {}
  /\ used = [k \in BudgetKinds |-> 0]

(***************************************************************************)
(* Scheduling: BackgroundTaskManager.create.  A paused manager drops the   *)
(* work silently; the caller never learns.                                 *)
(***************************************************************************)
FreeSlot(d) == CHOOSE s \in Slots : job[d][s].pc = "idle"
CanLaunch(S) == \A d \in S : \E s \in Slots : job[d][s].pc = "idle"

NewJob(kind) ==
  [IdleJob EXCEPT !.pc = IF kind = "ingest" THEN "queued" ELSE "parse", !.kind = kind]

Launch(S, kind) ==
  /\ CanLaunch(S)
  /\ job' = [d \in Docs |->
               IF d \in S /\ ~paused
               THEN [job[d] EXCEPT ![FreeSlot(d)] = NewJob(kind)]
               ELSE job[d]]

At(d, s, p) == mode = "up" /\ job[d][s].pc = p
Goto(d, s, p) == job' = [job EXCEPT ![d][s].pc = p]
End(d, s) == job' = [job EXCEPT ![d][s] = IdleJob]

\* An ORM status write: the commit raises StaleDataError once the row is gone.
Advance(d, s, from, st, to) ==
  /\ At(d, s, from)
  /\ \/ Exists(d) /\ row' = [row EXCEPT ![d] = st] /\ Goto(d, s, to)
     \/ ~Exists(d) /\ Goto(d, s, "permanent") /\ UNCHANGED row
  /\ UNCHANGED <<active, genVars, idxVars, ctlVars, owed, used>>

(***************************************************************************)
(* Requests                                                                *)
(***************************************************************************)

\* POST /upload: the row is inserted and the ingestion task created.
Upload(d) ==
  /\ mode = "up" /\ row[d] = "unborn"
  /\ row' = [row EXCEPT ![d] = "uploaded"]
  /\ Launch({d}, "ingest")
  /\ owed' = owed \cup {d}
  /\ UNCHANGED <<active, genVars, idxVars, ctlVars, used>>

ClaimAny(d) == Exists(d)                                 \* mutant: no status guard
ClaimGuard(d) == row[d] \in Settled

\* POST /{id}/reprocess: the guarded UPDATE claims the row, then a task that
\* goes straight to _process_document is created.
Reprocess(d) ==
  /\ mode = "up" /\ ClaimGuard(d)
  /\ Spend("claim")
  /\ row' = [row EXCEPT ![d] = "uploaded"]
  /\ Launch({d}, "reprocess")
  /\ owed' = owed \cup {d}
  /\ UNCHANGED <<active, genVars, idxVars, ctlVars>>

\* The rows a rescan sends back to work and those whose source file is lost.
Rescan(S, lost) ==
  /\ row' = [d \in Docs |-> IF d \in lost THEN "failed"
                            ELSE IF d \in S THEN "uploaded" ELSE row[d]]
  /\ Launch(S \ lost, "ingest")
  /\ owed' = owed \ lost

\* The optional-model monitor sees OCR ready and claims every waiting row.
ResumeOcr(lost) ==
  LET waiting == {d \in Docs : row[d] = "waiting_for_ocr"} IN
  /\ mode = "up" /\ waiting # {} /\ lost \subseteq waiting
  /\ Spend("claim")
  /\ Rescan(waiting, lost)
  /\ UNCHANGED <<active, genVars, idxVars, ctlVars>>

(***************************************************************************)
(* DELETE /{id} and DELETE /clear-all: the statuses are read first, the    *)
(* rows deleted in a later transaction, the stores cleaned after that.     *)
(***************************************************************************)
DeleteRead(d) ==
  /\ mode = "up" /\ purge.pc = "none" /\ row[d] \in Settled
  /\ purge' = [NoPurge EXCEPT !.pc = "rows", !.todo = {d}]
  /\ UNCHANGED <<rowVars, genVars, idxVars, job, mode, paused, owed, used>>

ClearRead ==
  LET rows == {d \in Docs : Exists(d)} IN
  /\ mode = "up" /\ purge.pc = "none" /\ rows # {}
  /\ \A d \in rows : row[d] \in Settled
  /\ purge' = [NoPurge EXCEPT !.pc = "rows", !.all = TRUE, !.todo = rows]
  /\ UNCHANGED <<rowVars, genVars, idxVars, job, mode, paused, owed, used>>

\* clear-all deletes every row there is by now, not only those it read.
PurgeRows ==
  LET dead == {d \in Docs : Exists(d) /\ (purge.all \/ d \in purge.todo)} IN
  /\ mode = "up" /\ purge.pc = "rows"
  /\ row' = [d \in Docs |-> IF d \notin dead THEN row[d]
                            ELSE IF d \in purge.todo THEN "gone" ELSE "missed"]
  /\ active' = [d \in Docs |-> IF d \in dead THEN 0 ELSE active[d]]
  /\ owed' = owed \ dead
  /\ purge' = [purge EXCEPT !.pc = "store"]
  /\ UNCHANGED <<genVars, idxVars, job, mode, paused, used>>

\* create_vectordb is outside the best-effort try blocks: when it raises,
\* neither store is cleaned.
PurgeOpenStore ==
  /\ mode = "up" /\ purge.pc = "store"
  /\ \/ purge' = [purge EXCEPT !.pc = "vec"] /\ UNCHANGED used
     \/ purge' = NoPurge /\ Spend("fault")
  /\ UNCHANGED <<rowVars, genVars, idxVars, job, mode, paused, owed>>

PurgeVec(d) ==
  /\ mode = "up" /\ purge.pc = "vec" /\ d \in purge.todo
  /\ \/ vec' = Emptied(vec, d) /\ UNCHANGED used
     \/ Spend("fault") /\ UNCHANGED vec
  /\ purge' = [purge EXCEPT !.pc = "bm", !.todo = @ \ {d}, !.cur = {d}]
  /\ UNCHANGED <<rowVars, genVars, bm, job, mode, paused, owed>>

PurgeBm(d) ==
  /\ mode = "up" /\ purge.pc = "bm" /\ d \in purge.cur
  /\ \/ bm' = Emptied(bm, d) /\ UNCHANGED used
     \/ Spend("fault") /\ UNCHANGED bm
  /\ purge' = IF purge.todo = {} THEN NoPurge
              ELSE [purge EXCEPT !.pc = "vec", !.cur = {}]
  /\ UNCHANGED <<rowVars, genVars, vec, job, mode, paused, owed>>

(***************************************************************************)
(* The ingestion task _bg_process                                          *)
(***************************************************************************)

\* Tasks inside the semaphore; a reprocess task never takes it.
Holders == {h \in Docs \X Slots :
              LET j == job[h[1]][h[2]] IN
              j.kind = "ingest" /\ j.pc \notin {"idle", "queued"}}

\* The idempotency guard: a committed active generation means there is
\* nothing to do, and the row is declared ready without processing.
GuardHit(d, s) ==
  /\ At(d, s, "queued") /\ Cardinality(Holders) < MaxConcurrency
  /\ Exists(d) /\ Committed(d)
  /\ row' = [row EXCEPT ![d] = "ready"]
  /\ End(d, s)
  /\ UNCHANGED <<active, genVars, idxVars, ctlVars, owed, used>>

\* Past the guard, or out of the task when the row vanished (scalar_one).
GuardMiss(d, s) ==
  /\ At(d, s, "queued") /\ Cardinality(Holders) < MaxConcurrency
  /\ \/ Exists(d) /\ ~Committed(d) /\ Goto(d, s, "parse")
     \/ ~Exists(d) /\ End(d, s)
  /\ UNCHANGED <<rowVars, genVars, idxVars, ctlVars, owed, used>>

\* A transient error is retried while attempts remain; only the ingestion
\* task has the retry loop.
Retry(d, s) ==
  /\ At(d, s, "transient") /\ job[d][s].kind = "ingest"
  /\ job[d][s].att < MaxRetries - 1
  /\ job' = [job EXCEPT ![d][s] =
               [NewJob("ingest") EXCEPT !.pc = "parse", !.att = job[d][s].att + 1]]
  /\ UNCHANGED <<rowVars, genVars, idxVars, ctlVars, owed, used>>

\* A permanent error, the last attempt, or any error of a reprocess task.
GiveUp(d, s) ==
  /\ At(d, s, "transient") \/ At(d, s, "permanent")
  /\ row' = SetStatus(d, "failed")
  /\ owed' = owed \ {d}
  /\ End(d, s)
  /\ UNCHANGED <<active, genVars, idxVars, ctlVars, used>>

(***************************************************************************)
(* _process_document                                                       *)
(***************************************************************************)

\* Any step of the pipeline outside the index try block may raise.
Raise(d, s, from) ==
  /\ At(d, s, from) /\ Spend("fault")
  /\ Goto(d, s, "transient")
  /\ UNCHANGED <<rowVars, genVars, idxVars, ctlVars, owed>>

Parse(d, s) == Advance(d, s, "parse", "parsing", "chunk")

OcrNotReady(d, s) ==
  /\ At(d, s, "parse") /\ Exists(d)
  /\ Goto(d, s, "ocr")
  /\ UNCHANGED <<rowVars, genVars, idxVars, ctlVars, owed, used>>

\* The UPDATE is not conditional on the status.
MarkWaiting(d, s) ==
  /\ At(d, s, "ocr")
  /\ row' = SetStatus(d, "waiting_for_ocr")
  /\ End(d, s)
  /\ UNCHANGED <<active, genVars, idxVars, ctlVars, owed, used>>

\* Splitting the text: no chunk at all is a permanent error.
ChunkText(d, s) ==
  /\ At(d, s, "chunk")
  /\ \/ \E n \in 0..MaxChunks :
          /\ Exists(d) /\ row' = [row EXCEPT ![d] = "chunking"]
          /\ job' = [job EXCEPT ![d][s].pc = IF n = 0 THEN "permanent" ELSE "embed",
                                ![d][s].ids = Split(n)]
     \/ ~Exists(d) /\ Goto(d, s, "permanent") /\ UNCHANGED row
  /\ UNCHANGED <<active, genVars, idxVars, ctlVars, owed, used>>

Embed(d, s) == Advance(d, s, "embed", "embedding", "embedding")

\* Embedding, which may cut the chunks smaller when they are too long.
Embedded(d, s) ==
  /\ At(d, s, "embedding")
  /\ \E n \in 1..MaxChunks :
       /\ job[d][s].ids \subseteq Split(n)
       /\ job' = [job EXCEPT ![d][s].pc = "index", ![d][s].ids = Split(n)]
  /\ UNCHANGED <<rowVars, genVars, idxVars, ctlVars, owed, used>>

StartIndexing(d, s) == Advance(d, s, "index", "indexing", "generation")

CreateGeneration(d, s) ==
  /\ At(d, s, "generation") /\ nextGen \in Gens
  /\ gen' = [gen EXCEPT ![nextGen] = [st |-> "preparing", doc |-> {d}, ids |-> {}]]
  /\ nextGen' = nextGen + 1
  /\ job' = [job EXCEPT ![d][s].pc = "delvec", ![d][s].gen = nextGen]
  /\ UNCHANGED <<rowVars, idxVars, ctlVars, owed, used>>

\* Stage 1: both stores are emptied of the document, whatever generation the
\* data belongs to.
DeleteOldVectors(d, s) ==
  /\ At(d, s, "delvec")
  /\ vec' = Emptied(vec, d)
  /\ Goto(d, s, "delbm")
  /\ UNCHANGED <<rowVars, genVars, bm, ctlVars, owed, used>>

DeleteOldBm25(d, s) ==
  /\ At(d, s, "delbm")
  /\ bm' = Emptied(bm, d)
  /\ Goto(d, s, "writevec")
  /\ UNCHANGED <<rowVars, genVars, vec, ctlVars, owed, used>>

\* A generation status and the store write that follows it.
Stage(d, s, st) == gen' = [gen EXCEPT ![job[d][s].gen].st = st]

Upserted(d, s) ==
  LET ids == job[d][s].ids IN
  [vec EXCEPT ![d] = {p \in @ : p[1] \notin ids} \cup (ids \X {job[d][s].gen})]

\* Stage 3: an upsert that raises may have been applied all the same.
WriteVectors(d, s) ==
  /\ At(d, s, "writevec")
  /\ Stage(d, s, "writing_vector")
  /\ \/ vec' = Upserted(d, s) /\ Goto(d, s, "writebm") /\ UNCHANGED used
     \/ vec' \in {vec, Upserted(d, s)} /\ Goto(d, s, "undovec") /\ Spend("fault")
  /\ UNCHANGED <<rowVars, nextGen, bm, ctlVars, owed>>

\* Stage 4: one SQLite transaction.
WriteBm25(d, s) ==
  /\ At(d, s, "writebm")
  /\ Stage(d, s, "writing_bm25")
  /\ \/ bm' = [bm EXCEPT ![d] = @ \cup job[d][s].ids] /\ Goto(d, s, "verify")
        /\ UNCHANGED used
     \/ Goto(d, s, "undovec") /\ Spend("fault") /\ UNCHANGED bm
  /\ UNCHANGED <<rowVars, nextGen, vec, ctlVars, owed>>

\* Stage 5: the two stores' ids are compared with each other; a failing
\* Qdrant read counts as the empty set.
Verify(d, s) ==
  /\ At(d, s, "verify")
  /\ Stage(d, s, "verifying")
  /\ \E unreadable \in BOOLEAN :
       /\ IF unreadable THEN Spend("fault") ELSE UNCHANGED used
       /\ LET stored == IF unreadable THEN {} ELSE {p[1] : p \in vec[d]} IN
          Goto(d, s, IF stored = bm[d] THEN "commit" ELSE "undovec")
  /\ UNCHANGED <<rowVars, nextGen, idxVars, ctlVars, owed>>

SealedLater(d, s) == gen                                 \* mutant: commit comes last
Sealed(d, s) == [gen EXCEPT ![job[d][s].gen].st = "committed",
                            ![job[d][s].gen].ids = job[d][s].ids]

\* Stage 6: three transactions in a row.
CommitGeneration(d, s) ==
  /\ At(d, s, "commit")
  /\ \/ gen' = Sealed(d, s) /\ Goto(d, s, "switch") /\ UNCHANGED used
     \/ Goto(d, s, "undovec") /\ Spend("fault") /\ UNCHANGED gen
  /\ UNCHANGED <<rowVars, nextGen, idxVars, ctlVars, owed>>

SwitchActive(d, s) ==
  /\ At(d, s, "switch")
  /\ \/ /\ active' = IF Exists(d) THEN [active EXCEPT ![d] = job[d][s].gen] ELSE active
        /\ owed' = owed \ {d}
        /\ Goto(d, s, "final") /\ UNCHANGED used
     \/ Goto(d, s, "undovec") /\ Spend("fault") /\ UNCHANGED <<active, owed>>
  /\ UNCHANGED <<row, genVars, idxVars, ctlVars>>

FinalizeBlind(d, s) ==                   \* mutant: a vanished row is not noticed
  /\ At(d, s, "final")
  /\ row' = SetStatus(d, "ready") /\ End(d, s)
  /\ UNCHANGED <<active, genVars, idxVars, ctlVars, owed, used>>

Finalize(d, s) ==
  /\ At(d, s, "final")
  /\ \/ /\ Exists(d) /\ row' = [row EXCEPT ![d] = "ready"]
        /\ End(d, s) /\ UNCHANGED used
     \/ ~Exists(d) /\ Goto(d, s, "undovec") /\ UNCHANGED <<row, used>>
     \/ Goto(d, s, "undovec") /\ Spend("fault") /\ UNCHANGED row
  /\ UNCHANGED <<active, genVars, idxVars, ctlVars, owed>>

\* The except branch: each store is cleaned best-effort, then the generation
\* is marked failed and the error raised again.
UndoVectors(d, s) ==
  /\ At(d, s, "undovec")
  /\ \/ vec' = Emptied(vec, d) /\ UNCHANGED used
     \/ Spend("fault") /\ UNCHANGED vec
  /\ Goto(d, s, "undobm")
  /\ UNCHANGED <<rowVars, genVars, bm, ctlVars, owed>>

UndoBm25(d, s) ==
  /\ At(d, s, "undobm")
  /\ \/ bm' = Emptied(bm, d) /\ UNCHANGED used
     \/ Spend("fault") /\ UNCHANGED bm
  /\ Goto(d, s, "undogen")
  /\ UNCHANGED <<rowVars, genVars, vec, ctlVars, owed>>

FailGeneration(d, s) ==
  /\ At(d, s, "undogen")
  /\ \/ Stage(d, s, "failed") /\ UNCHANGED used
     \/ Spend("fault") /\ UNCHANGED gen
  /\ Goto(d, s, "transient")
  /\ UNCHANGED <<rowVars, nextGen, idxVars, ctlVars, owed>>

ProcessDocument(d, s) ==
  \/ Parse(d, s) \/ OcrNotReady(d, s) \/ MarkWaiting(d, s)
  \/ ChunkText(d, s) \/ Embed(d, s) \/ Embedded(d, s)
  \/ StartIndexing(d, s) \/ CreateGeneration(d, s)
  \/ DeleteOldVectors(d, s) \/ DeleteOldBm25(d, s)
  \/ WriteVectors(d, s) \/ WriteBm25(d, s) \/ Verify(d, s)
  \/ CommitGeneration(d, s) \/ SwitchActive(d, s) \/ Finalize(d, s)
  \/ UndoVectors(d, s) \/ UndoBm25(d, s) \/ FailGeneration(d, s)
  \/ \E from \in {"parse", "embedding", "generation", "delvec", "delbm"} :
       Raise(d, s, from)

JobStep(d, s) ==
  \/ GuardHit(d, s) \/ GuardMiss(d, s) \/ Retry(d, s) \/ GiveUp(d, s)
  \/ ProcessDocument(d, s)

(***************************************************************************)
(* Crash and start-up, maintenance                                         *)
(***************************************************************************)

\* The process dies, or shuts down: nothing of a running task is cleaned up.
Crash ==
  /\ Spend("crash")
  /\ job' = [d \in Docs |-> [s \in Slots |-> IdleJob]]
  /\ purge' = NoPurge /\ mode' = "cleanup" /\ paused' = FALSE
  /\ UNCHANGED <<rowVars, genVars, idxVars, owed>>

CleanupByDoc(g) == gen[g].doc            \* mutant: deletes a newer generation's data
CleanupHits(g)  == {d \in gen[g].doc : active[d] = g}

\* cleanup_staging_generations, one interrupted generation at a time.  The
\* index data is deleted only when the row still points at that generation.
CleanGeneration(g) ==
  /\ mode = "cleanup" /\ gen[g].st \in Staging
  /\ gen' = [gen EXCEPT ![g].st = "failed"]
  /\ vec' = [d \in Docs |-> IF d \in CleanupHits(g) THEN {} ELSE vec[d]]
  /\ bm' = [d \in Docs |-> IF d \in CleanupHits(g) THEN {} ELSE bm[d]]
  /\ UNCHANGED <<rowVars, nextGen, job, ctlVars, owed, used>>

InterruptedLate == {d \in Docs : row[d] \in Busy \ {"uploaded"}}   \* mutant
Interrupted == {d \in Docs : row[d] \in Busy}

\* recover_incomplete_documents, then the server starts taking requests.  A
\* generation whose cleanup failed is logged and left behind.
Recover(lost) ==
  /\ mode = "cleanup" /\ lost \subseteq Interrupted
  /\ IF lost = {} /\ \A g \in Gens : gen[g].st \notin Staging
     THEN UNCHANGED used ELSE Spend("fault")
  /\ Rescan(Interrupted, lost)
  /\ mode' = "up"
  /\ UNCHANGED <<active, genVars, idxVars, purge, paused>>

Startup == (\E g \in Gens : CleanGeneration(g)) \/ (\E lost \in SUBSET Docs : Recover(lost))

\* pause_for_maintenance cancels every task; CancelledError passes by the
\* except Exception clauses, so no status is written and no store cleaned.
Pause ==
  /\ mode = "up" /\ ~paused /\ Spend("pause")
  /\ job' = [d \in Docs |-> [s \in Slots |-> IdleJob]]
  /\ paused' = TRUE
  /\ UNCHANGED <<rowVars, genVars, idxVars, purge, mode, owed>>

\* resume_after_maintenance restarts durable tasks only; ingestion has none.
Resume ==
  /\ mode = "up" /\ paused
  /\ paused' = FALSE
  /\ UNCHANGED <<rowVars, genVars, idxVars, job, purge, mode, owed, used>>

Purging ==
  \/ PurgeRows \/ PurgeOpenStore
  \/ \E d \in Docs : PurgeVec(d) \/ PurgeBm(d)

Next ==
  \/ \E d \in Docs : Upload(d) \/ Reprocess(d) \/ DeleteRead(d)
  \/ \E lost \in SUBSET Docs : ResumeOcr(lost)
  \/ ClearRead \/ Purging
  \/ \E d \in Docs, s \in Slots : JobStep(d, s)
  \/ Crash \/ Startup \/ Pause \/ Resume

Spec == Init /\ [][Next]_vars

\* What the scheduler guarantees: the event loop keeps running tasks, requests
\* and the start-up; it promises nothing about users, OCR or crashes.
Fairness ==
  /\ \A d \in Docs, s \in Slots : WF_vars(JobStep(d, s))
  /\ WF_vars(Purging) /\ WF_vars(Startup) /\ WF_vars(Resume)

FairSpec == Spec /\ Fairness

(***************************************************************************)
(* Search: which stored points _filter_committed_generation lets through.  *)
(***************************************************************************)
Visible(d) == Exists(d) /\ (active[d] = 0 \/ Committed(d))

(***************************************************************************)
(* Properties                                                              *)
(***************************************************************************)

TypeOK ==
  /\ row \in [Docs -> Settled \cup Busy \cup Absent]
  /\ active \in [Docs -> 0..MaxGens]
  /\ gen \in [Gens -> GenRec]
  /\ nextGen \in 1..(MaxGens + 1)
  /\ vec \in [Docs -> SUBSET (Chunk \X Gens)]
  /\ bm \in [Docs -> SUBSET Chunk]
  /\ job \in [Docs -> [Slots -> JobRec]]
  /\ purge \in PurgeRec
  /\ mode \in {"cleanup", "up"}
  /\ paused \in BOOLEAN
  /\ owed \in SUBSET Docs
  /\ used \in [BudgetKinds -> Nat]

\* However requests, the OCR monitor, retries, crashes and recovery interleave,
\* at most one task works on a document: the claims on documents.status are
\* the only lock the pipeline has.
OneJobPerDocument ==
  \A d \in Docs : \A s, t \in Slots : Live(d, s) /\ Live(d, t) => s = t

\* While a task works on a document, its row is in a processing status or was
\* deleted: never in one that lets another request claim or delete it.
LiveJobHoldsClaim ==
  \A d \in Docs, s \in Slots : Live(d, s) => row[d] \in Busy \cup Deleted

\* A document in a processing status has a task (unless a maintenance pause
\* ever cancelled one): no early return or error path leaves the row behind.
BusyHasJob ==
  mode = "up" /\ used["pause"] = 0 =>
    \A d \in Docs : row[d] \in Busy => \E s \in Slots : Live(d, s)

\* A row never points at a generation still being written, or at another
\* document's: what the start-up cleanup relies on when it spares the data.
ActiveIsSealed ==
  \A d \in Docs : active[d] # 0 =>
    gen[active[d]].st \in {"committed", "failed"} /\ gen[active[d]].doc = {d}

Undisturbed == used["fault"] + used["crash"] + used["pause"] = 0

Leftover(d) ==
  /\ row[d] \in Deleted /\ purge.pc = "none" /\ \A s \in Slots : ~Live(d, s)
  /\ vec[d] # {} \/ bm[d] # {}

\* Without a fault, crash or pause, a deletion that has run its course leaves
\* nothing in either store of a document it listed, whatever task it raced with.
DeletedLeavesNothing ==
  Undisturbed => \A d \in Docs : row[d] = "gone" => ~Leftover(d)

IndexComplete(d) ==
  LET a == active[d] IN
  /\ a # 0 /\ gen[a].st = "committed" /\ gen[a].ids # {}
  /\ bm[d] = gen[a].ids
  /\ vec[d] = gen[a].ids \X {a}

\* When the pipeline publishes a document, both stores hold exactly the chunks
\* of its committed active generation, in spite of a racing deletion.
PublishComplete ==
  [][\A d \in Docs : row[d] = "indexing" /\ row'[d] = "ready" => IndexComplete(d)]_vars

\* Nothing changes the stored chunks of a document while it is ready: not a
\* crash, not the start-up cleanup of an older generation, not a late task.
ReadyIndexStable ==
  [][\A d \in Docs : row[d] = "ready" /\ row'[d] = "ready" =>
       vec'[d] = vec[d] /\ bm'[d] = bm[d]]_vars

\* Every document taken into processing leaves it, through crashes, retries and
\* reprocessing: it becomes ready, failed, waits for OCR, or is deleted; only a
\* maintenance pause may strand it.
SettlesUnlessPaused ==
  \A d \in Docs : row[d] \in Busy ~> row[d] \notin Busy \/ used["pause"] > 0

PhaseOf(st) == CASE st = "unborn" -> "absent"
                 [] st \in Deleted -> "gone"
                 [] st \in Busy -> "pending"
                 [] st = "waiting_for_ocr" -> "waiting"
                 [] OTHER -> st

Lifecycle == INSTANCE DocLifecycle WITH phase <- [d \in Docs |-> PhaseOf(row[d])]

\* The pipeline implements the document life cycle the API shows its clients.
ImplementsLifecycle == Lifecycle!Spec

(***************************************************************************)
(* Statements of the repository that the code does not keep; see README.   *)
(***************************************************************************)

\* The retriever's docstring: results whose generation is not committed
\* (active AND committed) are removed.
OnlyCommittedVisible ==
  \A d \in Docs : Visible(d) =>
    \A p \in vec[d] : p[2] = active[d] /\ gen[p[2]].st = "committed"

\* Indexing is announced as atomic: a ready document is completely indexed.
ReadyIsIndexed == \A d \in Docs : row[d] = "ready" => IndexComplete(d)

\* Clear-all deletes all documents with their vectors and full-text rows.
ClearAllLeavesNothing == Undisturbed => \A d \in Docs : ~Leftover(d)

\* A document that waited for OCR is processed before it is ready again.
ReadyIsProcessed == \A d \in Docs : row[d] = "ready" => d \notin owed

\* The restore procedure waits for running tasks and reloads the durable ones,
\* so that a document in processing settles all the same.
Settles == \A d \in Docs : row[d] \in Busy ~> row[d] \notin Busy
==============================================================================
