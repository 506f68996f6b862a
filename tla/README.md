# A TLA+ model of RAG-ReActAgent

RAG-ReActAgent is a FastAPI backend (one asyncio process) with a React front end.
Documents are uploaded, split, embedded and indexed in two stores, Qdrant and a
BM25 index kept in SQLite tables; an agent loop answers questions from them,
keeps conversations and a profile of its user. The model is about what depends on
the order of steps: the document pipeline, the task queue, files, backup and
restore, index rebuilds, the agent loop with its tools, memory and caches, and the
way of an answer to the page.

## 1. Inventory

One process runs everything: requests, background tasks and monitors interleave
at each `await`. SQLite (WAL), Qdrant and the upload directory survive a crash,
memory does not. No transaction spans two stores.

| Component | Source (`src/backend/`) | State | Hard part | Correct when | Modelled in |
|---|---|---|---|---|---|
| Ingestion pipeline | `rag/pipeline.py` | `documents.status`, `active_generation_id`, asyncio tasks | several ways to start the same document; failure between any two stores | one task per document, publishing complete, every document settles | `Ingestion` |
| Index generations | `rag/pipeline.py`, `models/orm.py` | `index_generations` | three transactions to publish; clean-up after a crash | the active generation is sealed; clean-up spares live data | `Ingestion` |
| Document API | `api/documents.py` | purge request in flight | status read in one transaction, row deleted in another | a deleted document leaves nothing | `Ingestion`, `SourceStore` (partly) |
| Source files | `storage/files.py` | content-addressed and staging files | files shared by content, no reference count | a row has its file, a file whose removal did not fail has its row | `SourceStore` (partly) |
| Task manager | `worker/tasks.py` | `task_queue`, `_tasks`, in-flight keys | best-effort writes, stale heartbeats, recovery next to live tasks | no double run, bounded attempts, every task ends | `TaskQueue` |
| Lifespan | `main.py` | start-up order | order of recovery steps | nothing recovered twice or missed | with what it recovers (partly) |
| Search filter | `rag/retriever.py` | none | reads while indexing | only committed data is shown | `Ingestion` (partly) |
| Stores | `vectordb/qdrant.py`, `textdb/bm25_search.py` | points; rows, postings, term statistics | BM25 deletion in several transactions | the two stores agree, statistics are right | `Ingestion`, `Rebuild`, `TermStats` (partly) |
| Optional models | `optional_models.py`, `ocr/` | monitor flags | flag set once | no document waits for ever | effect in `Ingestion` (partly) |
| Answer cache | `rag/answer_cache.py` | entries, collection version | version read at put time | no answer from an older collection | `AnswerCache` |
| Progress streams | `rag/progress.py` | subscribers, last event | replay of a stale event | each stream ends with its run's outcome | `Rebuild` (partly) |
| Maintenance, backup, restore | `maintenance.py`, `api/backup*.py` | phase, lock, candidate and previous directories | failure and crash between three switches | data of one origin; lock released | `Restore` |
| Rebuild | `api/settings.py`, `api/settings_rebuild.py` | rebuild lock, new collection, pointer | two switches; concurrent ingestion | both indexes of one rebuild, ready documents in both | `Rebuild` |
| Agent loop | `agent/loop.py`, `agent/loop_tools.py`, `agent/tools.py` | one question's draft, sources, limits | retries of four kinds; streaming before verification | bounded, no unchecked draft is shown or cached | `AgentLoop`, `ToolTurn` |
| Answer verification | `agent/verifier.py` | none | heuristics | unsupported text is refused | its verdicts in `AgentLoop` (partly) |
| Working context | `agent/context_state.py` | summary, version, watermark | optimistic lock across a model call | nothing forgotten, no merge undone | `Compaction` |
| Session memory | `agent/session_extract.py` | watermark of the extraction | failure between save and watermark; a token budget for the prompt | no message passed over but for newer ones | `Memory` |
| Profile memory | `memory/profile.py` | rows, index, pointer, dirty flag | index behind the table | recall equals the table | `Memory` |
| Chat API | `api/chat.py` | conversations, messages, SSE generator | disconnects between events and storing | what is shown is what is stored | `ChatStream` (partly) |
| Front end, chat | `src/frontend/src/stores/chatStore.ts` | messages on the page, abort controller | late events | the page ends as the server | `ChatStream` |
| Auth, users | `api/auth.py`, `auth/jwt.py`, `api/users.py` | users, credential version | sequential | old tokens are refused | not modelled |
| Front end, other stores | `src/frontend/src/stores/` | lists, polling | none of their own | show the server's state | not modelled |
| Database access, launcher, release tooling | `models/`, `launcher.py`, `scripts/` | | | | not modelled |

Interactions: the document API writes `documents` and starts work through the
task manager; the pipeline writes both stores and the generations, and bumps the
version of the answer cache; the search filter reads `documents` and
`index_generations` at any time; the lifespan cleans up generations, rescans
documents and recovers tasks before requests are served; a restore pauses the task
manager and replaces the data under everything; a rebuild copies the documents
while they come and go. A question goes from the page through the chat API into
the agent loop, which hands tool calls to a tool turn and reads the cache; when it
is answered, compaction and extraction of its conversation go through the task
manager.

## 2. Modules

| Module | What it is | Constants | Proofs |
|---|---|---|---|
| `Ingestion` | documents, generations, both stores, tasks, delete, clear-all, OCR wait, pause, crash, start-up | `MCIngestion` | `IngestionProofs` |
| `DocLifecycle` | abstract specification: one phase per document and the moves a client may see; `Ingestion` implements it | | `IngestionProofs` |
| `TaskQueue` | the task manager and its table | `MCTaskQueue` | `TaskQueueProofs` |
| `SourceStore` | uploaded files, shared by content | `MCSourceStore` | `StorageProofs` |
| `AgentLoop` | one question through the loop | `MCAgentLoop` | `AgentLoopProofs` |
| `ToolTurn` | the tool calls of one question | `MCToolTurn` | `ContextProofs` |
| `Restore` | backup, restore, maintenance lock | `MCRestore` | `StorageProofs` |
| `Rebuild` | index rebuild next to ingestion and deletion, clear-all, progress stream | in its configurations | `RebuildProofs` |
| `Compaction` | the working context of one conversation | `MCCompaction` | `ContextProofs` |
| `Memory` | profile, its index, extraction | `MCMemory` | `MemoryProofs` |
| `ChatStream` | a conversation from the event source to the page | `MCChatStream` | `ChatStreamProofs` |
| `AnswerCache` | cached answers under changing documents | `MCAnswerCache` | `AgentLoopProofs` |
| `TermStats` | rows, postings and document frequencies of BM25 | `MCTermStats` | |

They are separate state machines over different tables, cut where the code's
coupling is narrow. `Ingestion` sees the task manager only through `Launch` (a
paused manager drops the work) and `Pause`; ingestion tasks have no task type, so
nothing of the recovery in `TaskQueue` reaches them. `SourceStore`, `AnswerCache`
and `TermStats` see of the pipeline only that a document is busy, written and
settled; `Rebuild` has its steps without generations and OCR. `Compaction` and
`Memory` take from `TaskQueue` that a job may run again and may be lost,
`ChatStream` takes from `AgentLoop` that the loop ends, and `AgentLoop` leaves to
`ToolTurn` which sources it holds.

### Ingestion

`row`, `active`, `gen`, `vec` and `bm` are the durable state; `job` holds the
position of each task (`pc`), `purge` that of the delete or clear-all request.
Each stage of `_process_document` is an action, so a crash, a failure or another
actor fits between any two awaits of the code that leave a trace. Errors are
nondeterministic (`Raise`, the failing disjuncts of the write actions) and drawn
from the budget; whether an error counts as transient is left open, so a
transient one may also be treated as permanent. `Slots` gives a document room
for two tasks at once, so that a double run would show.

The two places where the code loses a row (a delete that races a task) follow
SQLAlchemy: an ORM flush that updates no row raises, a Core `UPDATE` does not.
`Deleted` has two values, `gone` and `missed`: a document deleted by a clear-all
that had not listed it is `missed`, and its data stays.

The start-up clean-up deletes data only for a staging generation that the row
points at. A row only ever points at a generation that was committed before
(`ActiveIsSealed`, proved), so that branch never deletes anything: interrupted
data is removed by the next run's stage 1 instead.

### TaskQueue

A row (`st`, `att`, `stale`) and the two asyncio tasks it can have: the fresh run
of `create()` and the recovered run of a recovery pass. Every write of the manager
can be swallowed (`Write`). `Lapse` makes a heartbeat stale: freely when the run is
gone, from the budget when it is alive. A cancelled task may have had its last
statement applied or not (`Pending`), and reaches the handler the code's `except`
clauses give it (`Handled`, `AfterCancel`). A recovery pass is two steps, as in the
code: the transaction, and the scheduling of the selected rows that have no task.
A shutdown, which cancels the tasks one after the other, is a `Stop` and a `Crash`.

### SourceStore

An upload request goes through streaming, duplicate check, commit into the
content-addressed store, insert, and on failure the check and the removal of
`_delete_storage_if_unreferenced`. Deletion and clear-all remove rows first and
files later. The removal of a file may raise (`Remove`): every caller goes on and none
tries again (`documents.py:353-354`, `395-398`, `pipeline.py:251-257`), so the file
stays. `lost` records the contents whose own removal was the last to fail or was never
begun. Code without an `await` between its effects is one step.

### AgentLoop

One action per place where `run_agent_loop` waits or branches: the head of an
iteration with its limits, the model call, the stream (each chunk may be shown, held
back, end, time out or raise a context error), the branch on what came, the tool
turn, repair, settling, forced synthesis. `conf` is one combination of settings and
class of question. Drafts are absent, blank or text; shown chunks are remembered by
kind, which is all the properties tell apart: `raw` as the model sent it, `unit`
verified one by one, and for a whole answer what the checker finds in it (`good`,
`weak`: something to repair, `zero`: no fact supported). `time` falls through the
four ranges the code compares with. What the model answers and how the verifier
judges is left open (`\E`).

A whole answer goes through `Verify` (the check with its time-out, extracts, rules),
`Mend` (the model's repair) and `Deliver` (the zero-support guard, cache, client).
The code keeps the original draft when repair is disabled, late, timed out or broken
off (`loop.py:1665-1687`), sends it and caches it, and so does the model: a `weak`
text may be given, but only then, or after a repair. `DraftsAreChecked` says that and
no more; that every given text is supported is not true of the code.

### ToolTurn

`batch` is the running turn; its calls complete in any order, or in order when
serial. `Succeed` registers sources as `emit_result` does, `Collect` does all that
follows: messages in call order, pruning in two passes, rewriting of the retrieval
messages. Sources and citations are a sequence and a function, as in the code.

### Restore

Each step of `restore` is a value of `pc`, `Proceed` carries it out, `Raises` makes
it fail and enter the rollback, whose own steps may fail (`RollbackRaises`). A store
is a generation and a set of documents, so mixed origin is visible. `MakeBackup`
takes database, manifest and archive in turn, `Write` lets a document come or go
between them. `Crash` empties memory and applies what start-up does to leftovers.

### Rebuild

`Proceed` follows `_do_rebuild`: copy, embed each document, switch the pointer,
switch the tables, mark rows, publish, unlock; `Compensate` undoes the first switch
when the second fails. What is embedded is the text the row had when it was copied,
which ingestion commits at parsing, or else what the live tables hold.

Nothing keeps the rest away. An ingestion (`jobs`) goes through the guard, parsing,
stage 1, which binds it to the collection of that moment and empties both indexes of
its document, writing, and sealing; it may fail anywhere, be retried, meet a
deletion, or find its collection gone. Uploads start one, and so does reprocessing a
ready or failed document. Deletion is one step, clear-all three. `overtaken` records
the documents an ingestion touched in the index since the switch. `Cancel` includes
a task that has not started, which leaves the lock set. `stream` is one subscriber
of `progress`, with its queue and the latest event it is given first.

### Compaction

A turn asks, is stored, loads the context, makes requests that trim the history,
and passes on what was cut beyond the watermark; each request may create a job.
Jobs load, call the model, and write if the version is the one they loaded;
otherwise they try again a bounded number of times. `Record` and `Again` are the
key in the stored context and a job that the task manager runs again.

### Memory

Every writer is a process: take the lock, load, save, then build the index (create
a collection, fill, switch, purge). `LoadUnlocked` is the build at start-up and in a
collection rebuild, which takes no lock. A failure marks the index dirty, a
cancellation between commit and mark does not. The prompt of an extraction takes the
newest messages that fit its token budget: at least `Fit`, perhaps not all behind the
cursor, and `read` takes only those. A memory is the number of the message
it came from, so `told` and `read` are histories in the same terms.

### ChatStream

The server's generator, the wire and the page are three programs. `gen` has the
locals of `sse_generator`; `wire` keeps order and may be cut; `bubble` is the last
message of the page with its tool cards. Text is a sequence of chunk numbers, so
that "the end of what was stored" is a suffix.

### AnswerCache

A change of the documents is cut into the steps between which a turn can retrieve:
claim, empty, show, ready or undone, deletion and purge. `Bump` is at the places the
code bumps; where it changes a document and does not (`Unbumped`: a failed clean-up,
an unreachable store, a restore), only the history `since` takes note. A source is a
document and the number of its text; the key holds only document ids, as in the
code.

### TermStats

Insertion is one transaction, deletion the two queries and three transactions of
`delete_by_document`, with what it counted in `cnt`. `hurt` and `crossed` record the
two situations in which the counts are known to go wrong.

## 3. Runs

| Run | Instance | Shows |
|---|---|---|
| `ingest_core` | 1 document, 2 slots, 2 chunks, 4 generations, 2 attempts; 1 crash, fault, claim, pause | one task per document and none missing, sealed generations, complete publishing, deletion leaves nothing, ready index stable, refinement of `DocLifecycle`, settling |
| `task_recovery` | 2 durable tasks of one key, 2 attempts, history of 1; 1 crash, stop, swallowed write, lapse | no double run, bounded executions, exclusion by key, done stays, every task ends |
| `source_files` | 3 uploads of one content, 1 of another; 1 of each failure, delete and clear-all | concurrent uploads keep the file, no orphan file but where its removal failed |
| `agent_turn` | limits 2 and 3, 1 context scale, repeat limit 2, 1 source, 2 calculator results, all settings | bounded work, drafts are checked, no arithmetic by the model, termination |
| `tool_turns` | 3 chunks of which some overlap, budget of 1 source, 3 calls, batches of 2 | citations name one source, the model reads what is verified, pruning is fair |
| `restore` | 2 documents, 2 restores, 2 faults, 1 of each other failure | complete, all or nothing, maintenance ends |
| `rebuild` | 2 documents, 2 rebuilds, 1 request, 2 upsets | what was rebuilt and is ready is indexed, switched together, stream of its own run, lock released |
| `compaction` | 4 messages, 2 turns of 2 requests, 2 attempts of a job | nothing forgotten, no merge undone |
| `chat` | a turn of 2 calls and 2 chunks and an empty turn, 2 troubles | shown ends what is stored, results with their calls, replayable history, no vain waiting |
| `memory` | 2 messages, profile of 1; 1 crash, 1 fault, 2 events, 3 in all | recall equals the profile, no write undone, no message passed over but for newer ones |
| `answer_cache` | 2 documents, 2 turns, 1 source in the key, 2 entries, 2 texts, 2 failures | what is found is current, deleted is not quoted |
| `ready_unindexed` | violation | see section 5 |

Three larger instances are run by hand with `tlc -config X.cfg M`, all without error:

| Configuration | Module | Shows |
|---|---|---|
| `IngestPair.cfg` | `MCIngestion` | 2 documents, 1 chunk, 5 generations, 1 crash, 1 claim: what documents share, that is semaphore, generations, clear-all, rescan (`LiveJobHoldsClaim`, `BusyHasJob`, `DeletedLeavesNothing`; 447 193 states) |
| `RebuildRequests.cfg` | `Rebuild` | one rebuild with 2 requests and 2 upsets, so that two ingestions or an ingestion and a deletion meet it (`RebuiltIsIndexed`; 3.2 million states) |
| `TermCounts.cfg` | `MCTermStats` | 2 documents of 2 chunks, 2 delete requests, 1 crash, 1 fault, 3 processings: `StatsExact`, `NeverOvercounts`, `PostingsHaveRows` (2.4 million states) |

### Bounds

All unbounded things are drawn from `Budget` (and `Total` or `Troubles` where there
are many kinds): crashes, failures, claims, pauses, writes, cut connections. One of
each is enough to put one event of each kind at every point of the others; where two
matter (rebuild, cache, memory, faults of a restore) there are two. Further bounds:
`MaxGens` (large enough that no behaviour stops for want of one), `MaxChunks` (two
make partial writes and re-splitting visible), one purge request at a time, one run
of an upload; the limits of the loop (2 and 3 iterations, against 10 and 16 in the
code) leave room for one extension and for each retry to meet each limit, and
`WorkBounded` is proved for every value. A profile of one memory makes every second
message evict. A key of one source makes the sources outside the key visible. Two
turns and two jobs are what the optimistic lock of the context is about. Histories
(`told`, `read`, `lost`, `since`, `overtaken`, `hurt`, `before`, ...) are variables
that no action reads to decide what the program does.

`CHECK_DEADLOCK FALSE` everywhere: with the budgets spent and all work done the
system rests.

### Fairness

`Ingestion` and `TaskQueue` check liveness under `FairSpec`: weak fairness of each
task's steps, of the purge request, of start-up, of the recovery monitor and of the
resume that follows a pause. `AgentLoop` has weak fairness of the loop's own step,
`Restore` and `Rebuild` of the steps of a request or task that has begun, `Rebuild`
also of the delivery of events. The event loop runs every ready task, awaited calls
return or raise (they have timeouts), and `restore` resumes in a `finally`. Users,
crashes, OCR readiness and faults are not fair; an abandoned heartbeat goes stale
because time passes. The other modules check safety only and state no fairness.

## 4. Proofs

Eight modules prove safety for all values of the constants, from the named
assumptions on the constants of the modules they extend and nothing else. Two of them
extend two components, whose names are kept apart for that (`SourceSpec`, `CacheSpec`).

`IngestionProofs` rests on one inductive invariant, `IInv`, with four parts.
`ClaimInv`: two live tasks of a document are one, a live task's row is busy or
deleted, and nothing runs during start-up. This is inductive only as a whole: a
claim starts a task because the status is settled, and the status is settled only
because no task is alive. `GenInv`: a task that has created a generation owns it,
it is not yet published, and it is committed before the row can point at it; an
active generation is older than the counter. From it follows that an active
generation is sealed. `PurgeInv` describes the purge request. With `IInv` a step
that leaves a document ready leaves its stores alone (`ReadyStable`), and every
step maps to a move of `DocLifecycle` or a stutter (`Refines`).

A second part goes on from there: no document is left in processing, a deletion
leaves nothing behind, and what is published is complete. `XInv` adds to `IInv` what
the stores hold at each stage of a task while its row exists (`StageInv`), who will
clean up once the row is gone (`DeleteInv`: the request that lists the document, or
the task that finds its row gone), that pauses and crashes are counted (`Counted`),
and that a request purges one document at a time (`OneCurrent`). One lemma, `Effect`,
says what a step of a task may do to the stores; because of the claim no other task
does it to the same document. `BusyHasJob` is inductive together with these.

`TaskQueueProofs` proves the type invariant, that a row never has two runs, that
the executions of a task are bounded by the attempts and the lost writes, and, as
long as no maintenance stop happened, that a row recorded as done stays done. All
of them follow from `QInv`, one invariant per task. The bound is not inductive:
starts and attempts drift apart when a write is lost, and a run whose result was
lost leaves a row that can be claimed once more. So the invariant says that a
waiting row has an attempt left (`AttemptLeft`), that starts are counted as attempts
or a lost write pays for them (`Accounted`), and that a row abandoned as running has
its extra start paid for before it is claimed (`Paid`), with at most one such claim
(`ClaimInLimit`). `DoneQuiet` relates a row's status to the position of its runs: a
run that will still write the row excludes that the row is done. A step of one task
leaves the invariants of the others alone (`SparedInv`). One task per idempotency key
rests on `Apart`: of two rivals one holds the key, by its row or by the fresh run
that will write it, and a task comes to hold it only by the check (`HoldStep`).

`AgentLoopProofs` proves the bound on the work of a question, that drafts are
checked before they are shown or cached, and that the model computes no number. The bound is
an account: every pass affords `PerPass` model calls (one per context scale, one
more for an empty answer, one for the stream itself). The pass that is tried again
after its answer was dropped needs one more, for its repair; the first pass pays for
it, which has no sources yet and so never asks again for an empty answer. The other
two follow from `Sourced`, what each position of the loop knows of the sources,
and, for the drafts, from how a text with faults came to be given: its repair was
tried, or was off, or the time had run down, and time does not come back.

`ContextProofs` proves of `Compaction` that merges are kept: a job that has loaded
and whose version is still the stored one has loaded the stored summary
(`FreshLoad`), so what it writes extends it; every other job conflicts. Its second
part proves that what is cut from a prompt is known (`NothingForgotten`), from
`ContextInv`: messages are posted in the order of their numbers and a history has no
gaps (`Ordered`); what was posted up to the watermark was merged (`Covered`), also
as a turn loaded it (`CtxOk`); and what was posted up to the last message of a job
is in the job or already merged (`JobOk`), so the job may move the watermark there,
however late it runs. The ids of the summary are a fold. An operator cannot be
proved about by induction here, but a set can: `UpTo` is induction as a fact about
sets, by the least element that is missing, and `FoldExists` and `FoldSteps` derive
from it what a fold passes through, element by element.

Its third part proves all properties of `ToolTurn`. The numbers given so far are the
first ones, each given once (`Numbered`), and a number outlives its source's pruning.
Every step of the selection is a fold, and each has a lemma that says what it passes
through: a filter takes elements in their order (`Thins`), a pass puts sources in hand
behind what is selected, each once (`Picks`, `Longer`). So pruning only takes sources
away, and the catalog of the last message is what is left. That it never silences a
search (`PruningIsFair`) is a count: in the first pass every search with a result left
has one selected afterwards (`OpportunityStep`), in the second a search with only one
selects nothing, so the two passes select at most one source per search and a second
per search that has two, which is `FairShare` (`ShareCounts`) and at most `Room`; the
later passes add behind, and the cut at `Room` keeps all of it (`ManyKeep`). With one
search, whatever is in hand was found by it (`Traced`) and something is kept
(`OneKeeps`).

`MemoryProofs` proves that no write of the profile is undone and that the cursor
passes over no message but for newer ones. A writer past its load holds the lock,
what it loaded is the profile, and the messages of its prompt are carried along
(`Passed`) until it saves them. Behind the cursor a message is in `read`, or `Fit`
messages after it are: those of the prompt that left it out. Its second part proves
that recall is current: as long as nothing ran that the lock does not order, every
build has the profile there is (`Current`) and a collection of its own (`Owned`), so
the one that ends last leaves the profile in the index; until then the mark is set,
or the one that will set it is known (`Excused`).

`RebuildProofs` proves all safety properties of `Rebuild`. The lock leaves one
rebuild running (`OneRebuild`), so the second tables are its own (`StagedOwn`), and
between the switches the collection it would go back to is the one the live tables
belong to (`Undoable`). `InHand` follows its documents: what it embedded was copied,
and leaves the new collection and tables only with its row or by an ingestion that
`overtaken` records. Until the switch nobody else has the collection (`Fresh`);
after it, a request or a step of an ingestion takes nothing out that is not recorded
(`Harmless`). For the streams, the latest event is always of the rebuild that runs
(`LatestOwn`), and rebuilds follow one another (`InTurn`).

`AgentLoopProofs` also proves both properties of the answer cache (`AnswerCache`)
from one invariant (`Sound`) about answers in the cache and
answers that turns are still making, document by document: where its own change did
not overtake the turn and was bumped for, the text the answer was made from is the
current text, or the document is being changed and its bump is still to come. What
happens to the other documents meanwhile does not matter.

`StorageProofs` proves what is kept on disk beside the database. Of `SourceStore`:
whoever is about to insert a row has its file in place, and the
loser of the unique index still sees the winner's row when it looks again
(`OnlyUploads`); `NoOrphanFile` is inductive with the types, as `lost` takes exactly
the contents whose removal fails, is cut off or is never begun. Of `Restore`: for each
of the three stores, how far a restore must have come before it may be changed, that
it is live or copied at every step before that, and back at its generation after its
step of the rollback (`DbSafe`, `UpSafe`, `PtrSafe`); and what a restore that goes
ahead has checked and switched (`Switched`). One lemma (`WorksOn`) says that these
sets of positions are closed under the order of the steps.

`ChatStreamProofs` proves all invariants of `ChatStream`. `PageInv`: while the page
watches a turn no other is under way, and a stream that is over ends with an event
that says so. `StoreInv`: a stored result has the id of its call, and a tool message
finds its own assistant message behind it, which what is stored later cannot change.
For the text, the page and the server are never at the same point; so `Mirror`
speaks of the bubble that the events under way will produce (`Reaches`), and says
that this bubble ends the answer that the server holds. A step of the server appends
to both (`ReachMore`), an event shown takes away from the front (`ReachLess`). Only
the suffix is true: see `ShownSaved` in section 5.

What the proofs found. `AllOrNothing` was stated without its condition on the uploads
and TLC agreed, with one fault; the induction did not go through, and with two
faults TLC shows why: a rollback that breaks off leaves no uploads directory, the next
restore then has no copy to take, and when it fails its own uploads stay in place
(section 5). `ShownEndsSaved` spoke of one stored answer of a turn and now speaks of
all of them.

Model-checked only. Out of the prover's reach: the liveness properties
`SettlesUnlessPaused`, `TypedSettles`, `Terminates`, `MaintenanceEnds`,
`LockReleased`. Not proved yet: the properties of `TermStats`.

## 5. Where the code disagrees with what it says

`ready_unindexed` is a run. The others are kept as configurations to run by hand
(`tlc -config X.cfg M`); TLC finds each property below violated. Where one configuration
names two, TLC stops at the first; take it out to see the other.

| Configuration (module) | Property | What happens |
|---|---|---|
| `ReadyUnindexed` (`MCIngestion`) | `ReadyIsIndexed` | reprocessing has emptied the stores, the process dies, the rescan queues the document, the idempotency guard (`pipeline.py:349-369`) sees the old committed generation and declares it ready |
| `ReadyUnprocessed` (`MCIngestion`) | `ReadyIsProcessed` | the same guard ends the resumed task of a document that was reprocessed and waited for OCR |
| `FirstIndex` (`MCIngestion`) | `OnlyCommittedVisible` | on a first indexing `active_generation_id` is NULL, which the search filter (`retriever.py:432`) takes for an old document: its points are found before the commit |
| `FirstIndex` (`MCIngestion`) | `ClearAllLeavesNothing` | a document uploaded between the listing and the `DELETE` of clear-all loses its row while its task runs |
| `PauseStrands` (`MCIngestion`) | `Settles` | the pause of a restore cancels an ingestion task; nothing restarts its document |
| `UntypedStrands` (`MCTaskQueue`) | `AllSettle` | the row of a crashed task without a type becomes pending and stays so |
| `LosesSource` (`MCSourceStore`) | `DeletesKeepSources` | a content is uploaded again after its row was deleted and before its file is |
| `LosesSource` (`MCSourceStore`) | `CleanupSparesReferenced` | a failed insert finds its file unreferenced; another upload of that content inserts its row; the file is removed |
| `SearchEvidence` (`MCToolTurn`) | `SearchKeepsEvidence` | "each query keeps evidence" (`loop_tools.py:341-343`): a source pruned in an earlier turn is not put back when a later search finds it |
| `FallbackCached` (`MCAgentLoop`) | `FallbackNotCached` | the text that asks to send the question again (`loop.py:1346`) is put in the cache (`loop.py:1392`) and answers the next time |
| `RestoreOverwrites` (`MCRestore`) | `LiveUntouched` | "live data is never modified before the atomic switch" (`backup.py:543`): a restore that fails while it takes its protective copies rolls back to damaged or missing ones. Not a configuration of its own: "Rollback … uploads … to pre-restore state" (`backup.py:736`) does nothing where there was no uploads directory (`backup.py:753`) |
| `ShownSaved` (`MCChatStream`) | `ShownIsSaved` | the page resets its text at each tool call that finds no earlier one unanswered (`chatStore.ts:205-213`), the server only at the first (`chat.py:404-408`): of a second round of tools the stored answer keeps text that the page dropped |
| `StaleAnswer` (`MCAnswerCache`) | `InvalidatedByChange` | "invalidation on every document add/delete/reprocess" (`answer_cache.py:9`): a turn overtaken by a change stores its answer under the version of put time (`loop.py:1392`); chunk ids are stable and the key holds no text |
| `StatsDrift` (`MCTermStats`) | `StatsNeverDrift` | two deletions of one document, or one that is cut off and repeated, subtract twice (`bm25_search.py:507`) |

## 6. What the models leave out

Ranking, query rewriting, prompts, verification heuristics, metrics and logging
are data transformations. Authentication handles each request over one table.
Database sessions are taken as atomic statements. The remaining front-end stores
hold no state the server does not have.

Left out of the modelled components, or set apart by a history variable:

- `Ingestion`: failures of single status `UPDATE`s of `documents` outside the listed
  ones; an upsert in a worker thread that lands after the cancellation of its task;
  foreground ingestion; exponential back-off (only that a retry happens later).
- `TaskQueue`: which terminal rows pruning keeps (left open).
- `SourceStore`: legacy flat uploads, `clear()`. A file whose removal raised stays for
  good; `NoOrphanFile` sets it apart (`lost`), as it does what a crash, clear-all or
  an unreachable vector store cut off.
- `AgentLoop`: a turn whose last draft is blank may end without text (`loop.py:1447`),
  which no property excludes. With repair off, late or broken off, the original draft
  is sent and cached with the faults the check found (`loop.py:1665-1687`);
  `DraftsAreChecked` allows it. An answer the model repaired is not cached; a refusal
  that took its place is.
- `Restore`: when pausing the task manager raises, lock and phase stay taken
  (`backup.py:558`); `MaintenanceEnds` exempts it as `stuck`. `AllOrNothing` speaks of
  whole protective copies and an existing uploads directory only.
- `Rebuild`: the bounded queue of a subscriber; an interruption or a clear-all between
  the two switches is set apart by `torn`. Stage 1 of an ingestion after the switch
  empties the new collection of its document (`pipeline.py:646-651`), and the rebuild
  may then mark the row ready from its snapshot (`settings.py:544`) while the index
  holds nothing of it: `overtaken` sets such documents apart. So is a document that
  had failed and failed again in the rebuild, whose status is not written and may be
  that of an ingestion. Binding the collection and the first deletion are one step, as
  are the row and the clean-up of a deletion; waiting for OCR is in `Ingestion`. A
  task that is cancelled before it starts leaves the lock set (`settings.py:599`),
  which `LockReleased` does not speak of.
- `Memory`: memories are facts; name, role, preferences and decisions go the same way.
  An index build that takes no lock (`main.py:209-211`, `settings.py:516-520`) and
  overlaps a write, and a cancellation between commit and mark (`profile.py:92`,
  `160`), leave a stale index: `suspect` sets them apart. A restore (`backup.py:631`)
  replaces the profile without marking its index and is not in the module. A backlog
  larger than `memory_extract_max_tokens` (`session_extract.py:160-165`) loses its
  oldest messages to the prompt, and the cursor passes over them (`Covered`). Ids of
  memories are positions (`profile.py:529`), and a stale page deletes the neighbour.
- `AnswerCache`: a restore (`backup.py:628-659`), a deletion that cannot reach the
  vector store (`documents.py:385`) and a failed clean-up after a failed ingestion
  (`pipeline.py:737-744`) change what searches find and do not bump: answers made
  before are served after. So is an answer whose turn was overtaken by a change of one
  of its documents. Both are modelled, and the properties set apart that one document
  in that one answer (`since`). A crash empties the cache.
- `TermStats`: terms are counted apart from each other; a request that deletes while
  the pipeline writes is set apart (`crossed`).
- `ChatStream`: listing and renaming conversations; a stop after the first event that
  cannot abort (`chatStore.ts:278`), a history that loads late (`chatStore.ts:131`)
  and events that go to whatever message is last (`chatStore.ts:189`) appear as a page
  that was left (`left`).

## 7. What is left to do

1. `OptionalModels`: the monitor's flags and the documents that wait.
2. Refresh tokens and credential versions; the document store of the front end.
3. The bounded queue of the progress streams, with `Ingestion`'s phases as events.
4. Proofs: `TermStats`, and an abstract queue (at least once, bounded) that `TaskQueue`
   implements.
