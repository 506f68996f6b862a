--------------------------- MODULE IngestionProofs ---------------------------
(***************************************************************************)
(* Proofs about Ingestion for any documents, slots, bounds and budgets:    *)
(* types, the task that has a document's claim, the life cycle Ingestion   *)
(* implements, and then what the two stores hold.                          *)
(***************************************************************************)
EXTENDS Ingestion, TLAPS

JobTable == [Docs -> [Slots -> JobRec]]

\* From the creation of its generation on, a task holds one: without it, the
\* points it stores would carry no generation at all.
IndexPc == {"delvec", "delbm", "writevec", "writebm", "verify", "commit",
            "switch", "final", "undovec", "undobm", "undogen"}

GenHeld == \A d \in Docs, s \in Slots :
             job[d][s].pc \in IndexPc => job[d][s].gen \in Gens

(***************************************************************************)
(* Type correctness                                                        *)
(***************************************************************************)

\* A task record keeps its type when its pc, generation or chunk ids change.
LEMMA PcType ==
  ASSUME NEW r \in JobRec, NEW p \in JobPc
  PROVE  [r EXCEPT !.pc = p] \in JobRec
BY DEF JobRec

\* The same with new chunk ids.
LEMMA IdsType ==
  ASSUME NEW r \in JobRec, NEW p \in JobPc, NEW c \in SUBSET Chunk
  PROVE  [r EXCEPT !.pc = p, !.ids = c] \in JobRec
BY DEF JobRec

\* The same with a new generation.
LEMMA GenType ==
  ASSUME NEW r \in JobRec, NEW p \in JobPc, NEW g \in 0..MaxGens
  PROVE  [r EXCEPT !.pc = p, !.gen = g] \in JobRec
BY DEF JobRec

\* The same with a new attempt number.
LEMMA AttType ==
  ASSUME NEW r \in JobRec, NEW p \in JobPc, NEW a \in Nat
  PROVE  [r EXCEPT !.pc = p, !.att = a] \in JobRec
BY DEF JobRec

\* The records a purge request goes through are well typed.
LEMMA PurgeType ==
  ASSUME NEW r \in PurgeRec, NEW p \in {"rows", "store", "vec", "bm"},
         NEW todo \in SUBSET Docs, NEW cur \in SUBSET Docs
  PROVE  /\ NoPurge \in PurgeRec
         /\ [r EXCEPT !.pc = p] \in PurgeRec
         /\ [r EXCEPT !.pc = p, !.cur = cur] \in PurgeRec
         /\ [r EXCEPT !.pc = p, !.todo = todo, !.cur = cur] \in PurgeRec
BY DEF PurgeRec, NoPurge

\* The empty slot is a task record.
LEMMA IdleType == IdleJob \in JobRec
BY IngestionAssumption DEF JobRec, IdleJob, JobPc

\* So is a task that was just started.
LEMMA NewJobType ==
  ASSUME NEW kind \in {"ingest", "reprocess"}
  PROVE  NewJob(kind) \in JobRec
<1>1. ASSUME NEW r \in JobRec, NEW p \in JobPc
      PROVE  [r EXCEPT !.pc = p, !.kind = kind] \in JobRec
  BY DEF JobRec
<1>2. "queued" \in JobPc /\ "parse" \in JobPc
  BY DEF JobPc
<1>3. QED
  BY <1>1, <1>2, IdleType DEF NewJob

\* Replacing one task keeps the table of tasks well typed.
LEMMA TableType ==
  ASSUME job \in JobTable, NEW d \in Docs, NEW s \in Slots, NEW r \in JobRec
  PROVE  [job EXCEPT ![d][s] = r] \in JobTable
<1>1. [job[d] EXCEPT ![s] = r] \in [Slots -> JobRec]
  BY DEF JobTable
<1>2. QED
  BY <1>1 DEF JobTable

\* Moving a task to another step keeps the table well typed.
LEMMA GotoType ==
  ASSUME job \in JobTable, NEW d \in Docs, NEW s \in Slots, NEW p \in JobPc, Goto(d, s, p)
  PROVE  job' \in JobTable
<1>1. [job[d][s] EXCEPT !.pc = p] \in JobRec
  BY PcType DEF JobTable
<1>2. job' = [job EXCEPT ![d][s] = [job[d][s] EXCEPT !.pc = p]]
  BY DEF Goto
<1>3. QED
  BY <1>1, <1>2, TableType

\* So does ending it.
LEMMA EndType ==
  ASSUME job \in JobTable, NEW d \in Docs, NEW s \in Slots, End(d, s)
  PROVE  job' \in JobTable
<1>1. IdleJob \in JobRec
  BY IdleType
<1>2. QED
  BY <1>1, TableType DEF End

\* So does starting tasks.
LEMMA LaunchType ==
  ASSUME job \in JobTable, NEW S \in SUBSET Docs, NEW kind \in {"ingest", "reprocess"},
         Launch(S, kind)
  PROVE  job' \in JobTable
<1>1. NewJob(kind) \in JobRec
  BY NewJobType
<1>2. ASSUME NEW d \in Docs
      PROVE  /\ job[d] \in [Slots -> JobRec]
             /\ [job[d] EXCEPT ![FreeSlot(d)] = NewJob(kind)] \in [Slots -> JobRec]
  BY <1>1 DEF JobTable
<1>3. QED
  BY <1>2 DEF JobTable, Launch

\* Spending a budget keeps the counters natural numbers.
LEMMA SpendType ==
  ASSUME used \in [BudgetKinds -> Nat], NEW k \in BudgetKinds, Spend(k)
  PROVE  used' \in [BudgetKinds -> Nat]
BY DEF Spend

\* A status write keeps the documents table well typed.
LEMMA StatusType ==
  ASSUME row \in [Docs -> Settled \cup Busy \cup Absent],
         NEW d \in Docs, NEW st \in Settled \cup Busy
  PROVE  /\ SetStatus(d, st) \in [Docs -> Settled \cup Busy \cup Absent]
         /\ [row EXCEPT ![d] = st] \in [Docs -> Settled \cup Busy \cup Absent]
BY DEF SetStatus

\* Deleting a document's data keeps both stores well typed.
LEMMA EmptiedType ==
  ASSUME TypeOK, NEW d \in Docs
  PROVE  /\ Emptied(vec, d) \in [Docs -> SUBSET (Chunk \X Gens)]
         /\ Emptied(bm, d) \in [Docs -> SUBSET Chunk]
BY DEF TypeOK, Emptied

\* So does a stage of the pipeline that only writes the status.
LEMMA AdvanceType ==
  ASSUME TypeOK, NEW d \in Docs, NEW s \in Slots, NEW from \in JobPc,
         NEW st \in Busy, NEW to \in JobPc, Advance(d, s, from, st, to)
  PROVE  TypeOK'
<1>1. job' \in JobTable
  <2>1. "permanent" \in JobPc
    BY DEF JobPc
  <2>2. Goto(d, s, to) \/ Goto(d, s, "permanent")
    BY DEF Advance
  <2>3. QED
    BY <2>1, <2>2, GotoType DEF TypeOK, JobTable
<1>2. row' \in [Docs -> Settled \cup Busy \cup Absent]
  BY StatusType DEF TypeOK, Advance
<1>3. QED
  BY <1>1, <1>2 DEF TypeOK, JobTable, Advance, genVars, idxVars, ctlVars

\* So does a rescan, which fails the lost documents and restarts the others.
LEMMA RescanType ==
  ASSUME TypeOK, NEW S \in SUBSET Docs, NEW lost \in SUBSET Docs, Rescan(S, lost)
  PROVE  /\ row' \in [Docs -> Settled \cup Busy \cup Absent]
         /\ job' \in JobTable
         /\ owed' \in SUBSET Docs
<1>1. job' \in JobTable
  BY LaunchType DEF TypeOK, JobTable, Rescan
<1>2. QED
  BY <1>1 DEF TypeOK, Rescan, Settled, Busy

\* A generation status write keeps the generations table well typed.
LEMMA StageType ==
  ASSUME TypeOK, NEW d \in Docs, NEW s \in Slots, NEW st \in GenStatus, Stage(d, s, st)
  PROVE  gen' \in [Gens -> GenRec]
<1>1. ASSUME NEW r \in GenRec
      PROVE  [r EXCEPT !.st = st] \in GenRec
  BY DEF GenRec
<1>2. QED
  BY <1>1 DEF TypeOK, Stage

\* So does the commit of a generation.
LEMMA SealedType ==
  ASSUME TypeOK, NEW d \in Docs, NEW s \in Slots, job[d][s].gen \in Gens
  PROVE  Sealed(d, s) \in [Gens -> GenRec]
<1> DEFINE g == job[d][s].gen
<1> DEFINE r == [gen[g] EXCEPT !.st = "committed", !.ids = job[d][s].ids]
<1>1. gen[g] \in GenRec /\ job[d][s].ids \in SUBSET Chunk
  BY DEF TypeOK, JobRec
<1>2. r \in GenRec
  BY <1>1 DEF GenRec, GenStatus
<1>3. Sealed(d, s) = [gen EXCEPT ![g] = r]
  BY DEF Sealed, TypeOK
<1>4. QED
  BY <1>2, <1>3 DEF TypeOK

\* A write stores points of the task's own generation: it must have one.
LEMMA UpsertedType ==
  ASSUME TypeOK, NEW d \in Docs, NEW s \in Slots, job[d][s].gen \in Gens
  PROVE  Upserted(d, s) \in [Docs -> SUBSET (Chunk \X Gens)]
BY DEF TypeOK, Upserted, JobRec

\* Every step keeps every variable in its type.
LEMMA TypeStep == TypeOK /\ GenHeld /\ [Next]_vars => TypeOK'
<1> SUFFICES ASSUME TypeOK, GenHeld, [Next]_vars
             PROVE  TypeOK'
  OBVIOUS
<1> USE DEF JobTable
<1>0. /\ job \in JobTable
      /\ {"ready", "failed", "waiting_for_ocr", "uploaded", "chunking"}
           \subseteq Settled \cup Busy
      /\ {"crash", "fault", "claim", "pause"} \subseteq BudgetKinds
  BY DEF TypeOK, Settled, Busy, BudgetKinds
<1>1. CASE UNCHANGED vars
  BY <1>1 DEF TypeOK, vars
<1>2. ASSUME NEW d \in Docs, Upload(d)
      PROVE  TypeOK'
  <2>1. job' \in JobTable
    BY <1>2, <1>0, LaunchType DEF Upload, Settled
  <2>2. QED
    BY <1>2, <1>0, <2>1, StatusType, SpendType, EmptiedType DEF TypeOK, Upload, rowVars, genVars, idxVars, ctlVars
<1>3. ASSUME NEW d \in Docs, Reprocess(d)
      PROVE  TypeOK'
  <2>1. job' \in JobTable
    BY <1>3, <1>0, LaunchType DEF Reprocess, Settled
  <2>2. QED
    BY <1>3, <1>0, <2>1, StatusType, SpendType, EmptiedType DEF TypeOK, Reprocess, rowVars, genVars, idxVars, ctlVars
<1>4. ASSUME NEW lost \in SUBSET Docs, ResumeOcr(lost)
      PROVE  TypeOK'
  BY <1>4, <1>0, RescanType, SpendType DEF TypeOK, ResumeOcr, rowVars, genVars, idxVars, ctlVars
<1>5. ASSUME NEW d \in Docs, DeleteRead(d)
      PROVE  TypeOK'
  <2>1. purge' \in PurgeRec
    BY <1>5 DEF DeleteRead, NoPurge, PurgeRec
  <2>2. QED
    BY <1>5, <2>1 DEF TypeOK, DeleteRead, rowVars, genVars, idxVars, ctlVars
<1>6. ASSUME ClearRead
      PROVE  TypeOK'
  <2>1. purge' \in PurgeRec
    BY <1>6 DEF ClearRead, NoPurge, PurgeRec
  <2>2. QED
    BY <1>6, <2>1 DEF TypeOK, ClearRead, rowVars, genVars, idxVars, ctlVars
<1>7. ASSUME PurgeRows
      PROVE  TypeOK'
  <2>1. purge' \in PurgeRec
    BY <1>7, PurgeType DEF TypeOK, PurgeRows
  <2>2. row' \in [Docs -> Settled \cup Busy \cup Absent]
    BY <1>7 DEF TypeOK, PurgeRows, Absent, Deleted
  <2>3. active' \in [Docs -> 0..MaxGens] /\ owed' \in SUBSET Docs
    BY <1>7, IngestionAssumption DEF TypeOK, PurgeRows
  <2>4. QED
    BY <1>7, <2>1, <2>2, <2>3 DEF TypeOK, PurgeRows, rowVars, genVars, idxVars, ctlVars
<1>8. ASSUME PurgeOpenStore
      PROVE  TypeOK'
  <2>1. purge' \in PurgeRec
    BY <1>8, PurgeType DEF TypeOK, PurgeOpenStore
  <2>2. QED
    BY <1>8, <1>0, <2>1, SpendType DEF TypeOK, PurgeOpenStore, rowVars, genVars, idxVars, ctlVars
<1>9. ASSUME NEW d \in Docs, PurgeVec(d)
      PROVE  TypeOK'
  <2>1. purge.todo \ {d} \in SUBSET Docs /\ {d} \in SUBSET Docs
    BY DEF TypeOK, PurgeRec
  <2>2. purge' \in PurgeRec
    BY <1>9, <2>1, PurgeType DEF TypeOK, PurgeVec
  <2>3. QED
    BY <1>9, <1>0, <2>2, SpendType, EmptiedType DEF TypeOK, PurgeVec, rowVars, genVars, idxVars, ctlVars
<1>10. ASSUME NEW d \in Docs, PurgeBm(d)
      PROVE  TypeOK'
  <2>1. purge' \in PurgeRec
    BY <1>10, PurgeType DEF TypeOK, PurgeBm
  <2>2. QED
    BY <1>10, <1>0, <2>1, SpendType, EmptiedType DEF TypeOK, PurgeBm, rowVars, genVars, idxVars, ctlVars
<1>11. ASSUME NEW d \in Docs, NEW s \in Slots, GuardHit(d, s)
      PROVE  TypeOK'
  <2>1. job' \in JobTable
    BY <1>11, <1>0, EndType DEF GuardHit, Settled
  <2>2. QED
    BY <1>11, <1>0, <2>1, StatusType, SpendType, EmptiedType DEF TypeOK, GuardHit, rowVars, genVars, idxVars, ctlVars
<1>12. ASSUME NEW d \in Docs, NEW s \in Slots, GuardMiss(d, s)
      PROVE  TypeOK'
  <2>1. job' \in JobTable
    BY <1>12, <1>0, EndType, GotoType DEF GuardMiss, JobPc
  <2>2. QED
    BY <1>12, <1>0, <2>1, StatusType, SpendType, EmptiedType DEF TypeOK, GuardMiss, rowVars, genVars, idxVars, ctlVars
<1>13. ASSUME NEW d \in Docs, NEW s \in Slots, Retry(d, s)
      PROVE  TypeOK'
  <2> DEFINE j == [NewJob("ingest") EXCEPT !.pc = "parse", !.att = job[d][s].att + 1]
  <2>1. job[d][s].att \in Nat
    BY <1>0 DEF JobRec
  <2>2. NewJob("ingest") \in JobRec
    BY NewJobType
  <2>3. "parse" \in JobPc /\ job[d][s].att + 1 \in Nat
    BY <2>1 DEF JobPc
  <2>4. j \in JobRec
    BY <2>2, <2>3, AttType
  <2>5. job' \in JobTable
    BY <1>13, <1>0, <2>4, TableType DEF Retry
  <2>6. QED
    BY <1>13, <2>5 DEF TypeOK, Retry, rowVars, genVars, idxVars, ctlVars
<1>14. ASSUME NEW d \in Docs, NEW s \in Slots, GiveUp(d, s)
      PROVE  TypeOK'
  <2>1. job' \in JobTable
    BY <1>14, <1>0, EndType DEF GiveUp, Settled
  <2>2. QED
    BY <1>14, <1>0, <2>1, StatusType, SpendType, EmptiedType DEF TypeOK, GiveUp, rowVars, genVars, idxVars, ctlVars
<1>15. ASSUME NEW d \in Docs, NEW s \in Slots, Parse(d, s)
      PROVE  TypeOK'
  BY <1>15, AdvanceType DEF Parse, JobPc, Busy
<1>16. ASSUME NEW d \in Docs, NEW s \in Slots, Embed(d, s)
      PROVE  TypeOK'
  BY <1>16, AdvanceType DEF Embed, JobPc, Busy
<1>17. ASSUME NEW d \in Docs, NEW s \in Slots, StartIndexing(d, s)
      PROVE  TypeOK'
  BY <1>17, AdvanceType DEF StartIndexing, JobPc, Busy
<1>18. ASSUME NEW d \in Docs, NEW s \in Slots, OcrNotReady(d, s)
      PROVE  TypeOK'
  <2>1. job' \in JobTable
    BY <1>18, <1>0, GotoType DEF OcrNotReady, JobPc
  <2>2. QED
    BY <1>18, <1>0, <2>1, StatusType, SpendType, EmptiedType DEF TypeOK, OcrNotReady, rowVars, genVars, idxVars, ctlVars
<1>19. ASSUME NEW d \in Docs, NEW s \in Slots, MarkWaiting(d, s)
      PROVE  TypeOK'
  <2>1. job' \in JobTable
    BY <1>19, <1>0, EndType DEF MarkWaiting, Settled
  <2>2. QED
    BY <1>19, <1>0, <2>1, StatusType, SpendType, EmptiedType DEF TypeOK, MarkWaiting, rowVars, genVars, idxVars, ctlVars
<1>20. ASSUME NEW d \in Docs, NEW s \in Slots, ChunkText(d, s)
      PROVE  TypeOK'
  <2>1. CASE Goto(d, s, "permanent") /\ UNCHANGED row
    <3>1. job' \in JobTable
      BY <1>0, <2>1, GotoType DEF JobPc
    <3>2. QED
      BY <1>20, <2>1, <3>1 DEF TypeOK, ChunkText, rowVars, genVars, idxVars, ctlVars
  <2>2. ASSUME NEW n \in 0..MaxChunks, row' = [row EXCEPT ![d] = "chunking"],
               job' = [job EXCEPT ![d][s].pc = IF n = 0 THEN "permanent" ELSE "embed",
                                  ![d][s].ids = Split(n)]
        PROVE  TypeOK'
    <3> DEFINE to == IF n = 0 THEN "permanent" ELSE "embed"
    <3> DEFINE j == [job[d][s] EXCEPT !.pc = to, !.ids = Split(n)]
    <3>1. to \in JobPc /\ Split(n) \in SUBSET Chunk /\ job[d][s] \in JobRec
      BY <1>0, IngestionAssumption DEF JobPc, Split, Chunk
    <3>2. j \in JobRec
      BY <3>1, IdsType
    <3>3. job' = [job EXCEPT ![d][s] = j]
      BY <2>2, <1>0
    <3>4. job' \in JobTable
      BY <1>0, <3>2, <3>3, TableType
    <3>5. QED
      BY <1>20, <1>0, <2>2, <3>4, StatusType DEF TypeOK, ChunkText, rowVars, genVars, idxVars, ctlVars
  <2>3. QED
    BY <1>20, <2>1, <2>2 DEF ChunkText
<1>21. ASSUME NEW d \in Docs, NEW s \in Slots, Embedded(d, s)
      PROVE  TypeOK'
  <2>1. PICK n \in 1..MaxChunks :
           job' = [job EXCEPT ![d][s].pc = "index", ![d][s].ids = Split(n)]
    BY <1>21 DEF Embedded
  <2> DEFINE j == [job[d][s] EXCEPT !.pc = "index", !.ids = Split(n)]
  <2>2. "index" \in JobPc /\ Split(n) \in SUBSET Chunk /\ job[d][s] \in JobRec
    BY <1>0, IngestionAssumption DEF JobPc, Split, Chunk
  <2>3. j \in JobRec
    BY <2>2, IdsType
  <2>4. job' = [job EXCEPT ![d][s] = j]
    BY <2>1, <1>0
  <2>5. job' \in JobTable
    BY <1>0, <2>3, <2>4, TableType
  <2>6. QED
    BY <1>21, <2>5 DEF TypeOK, Embedded, rowVars, genVars, idxVars, ctlVars
<1>22. ASSUME NEW d \in Docs, NEW s \in Slots, CreateGeneration(d, s)
      PROVE  TypeOK'
  <2> DEFINE j == [job[d][s] EXCEPT !.pc = "delvec", !.gen = nextGen]
  <2>1. "delvec" \in JobPc /\ nextGen \in 0..MaxGens /\ job[d][s] \in JobRec
    BY <1>22, <1>0, IngestionAssumption DEF JobPc, CreateGeneration, Gens
  <2>2. j \in JobRec
    BY <2>1, GenType
  <2>3. job' = [job EXCEPT ![d][s] = j]
    BY <1>22, <1>0 DEF CreateGeneration
  <2>4. job' \in JobTable
    BY <1>0, <2>2, <2>3, TableType
  <2>5. nextGen' \in 1..(MaxGens + 1)
    BY <1>22, IngestionAssumption DEF CreateGeneration, Gens
  <2>6. gen' \in [Gens -> GenRec]
    BY <1>22 DEF TypeOK, CreateGeneration, GenStatus, Staging, GenRec
  <2>7. QED
    BY <1>22, <2>4, <2>5, <2>6 DEF TypeOK, CreateGeneration, rowVars, genVars, idxVars, ctlVars
<1>23. ASSUME NEW d \in Docs, NEW s \in Slots, DeleteOldVectors(d, s)
      PROVE  TypeOK'
  <2>1. job' \in JobTable
    BY <1>23, <1>0, GotoType DEF DeleteOldVectors, JobPc
  <2>2. QED
    BY <1>23, <2>1, EmptiedType DEF TypeOK, DeleteOldVectors, rowVars, genVars, idxVars, ctlVars
<1>24. ASSUME NEW d \in Docs, NEW s \in Slots, DeleteOldBm25(d, s)
      PROVE  TypeOK'
  <2>1. job' \in JobTable
    BY <1>24, <1>0, GotoType DEF DeleteOldBm25, JobPc
  <2>2. QED
    BY <1>24, <2>1, EmptiedType DEF TypeOK, DeleteOldBm25, rowVars, genVars, idxVars, ctlVars
<1>25. ASSUME NEW d \in Docs, NEW s \in Slots, WriteVectors(d, s)
      PROVE  TypeOK'
  <2>1. job' \in JobTable
    BY <1>25, <1>0, GotoType DEF WriteVectors, JobPc
  <2>2. gen' \in [Gens -> GenRec]
    BY <1>25, StageType DEF TypeOK, WriteVectors, GenStatus, Staging, GenRec
  <2>3. Upserted(d, s) \in [Docs -> SUBSET (Chunk \X Gens)]
    BY <1>25, UpsertedType DEF WriteVectors, GenHeld, IndexPc, At
  <2>4. QED
    BY <1>25, <1>0, <2>1, <2>2, <2>3, SpendType DEF TypeOK, WriteVectors, rowVars, genVars, idxVars, ctlVars
<1>26. ASSUME NEW d \in Docs, NEW s \in Slots, WriteBm25(d, s)
      PROVE  TypeOK'
  <2>1. job' \in JobTable
    BY <1>26, <1>0, GotoType DEF WriteBm25, JobPc
  <2>2. gen' \in [Gens -> GenRec]
    BY <1>26, StageType DEF TypeOK, WriteBm25, GenStatus, Staging, GenRec
  <2>3. [bm EXCEPT ![d] = @ \cup job[d][s].ids] \in [Docs -> SUBSET Chunk]
    BY <1>0 DEF TypeOK, JobRec
  <2>4. QED
    BY <1>26, <1>0, <2>1, <2>2, <2>3, SpendType DEF TypeOK, WriteBm25, rowVars, genVars, idxVars, ctlVars
<1>27. ASSUME NEW d \in Docs, NEW s \in Slots, Verify(d, s)
      PROVE  TypeOK'
  <2>1. job' \in JobTable
    BY <1>27, <1>0, GotoType DEF Verify, JobPc
  <2>2. gen' \in [Gens -> GenRec]
    BY <1>27, StageType DEF TypeOK, Verify, GenStatus, Staging, GenRec
  <2>3. QED
    BY <1>27, <1>0, <2>1, <2>2, SpendType DEF TypeOK, Verify, rowVars, genVars, idxVars, ctlVars
<1>28. ASSUME NEW d \in Docs, NEW s \in Slots, FailGeneration(d, s)
      PROVE  TypeOK'
  <2>1. job' \in JobTable
    BY <1>28, <1>0, GotoType DEF FailGeneration, JobPc
  <2>2. gen' \in [Gens -> GenRec]
    BY <1>28, StageType DEF TypeOK, FailGeneration, GenStatus, Staging, GenRec
  <2>3. QED
    BY <1>28, <1>0, <2>1, <2>2, SpendType DEF TypeOK, FailGeneration, rowVars, genVars, idxVars, ctlVars
<1>29. ASSUME NEW d \in Docs, NEW s \in Slots, CommitGeneration(d, s)
      PROVE  TypeOK'
  <2>1. job' \in JobTable
    BY <1>29, <1>0, GotoType DEF CommitGeneration, JobPc
  <2>2. Sealed(d, s) \in [Gens -> GenRec]
    BY <1>29, <1>0, SealedType DEF CommitGeneration, GenHeld, IndexPc, At
  <2>3. QED
    BY <1>29, <1>0, <2>1, <2>2, SpendType DEF TypeOK, CommitGeneration, rowVars, genVars, idxVars, ctlVars
<1>30. ASSUME NEW d \in Docs, NEW s \in Slots, SwitchActive(d, s)
      PROVE  TypeOK'
  <2>1. job' \in JobTable
    BY <1>30, <1>0, GotoType DEF SwitchActive, JobPc
  <2>2. job[d][s].gen \in 0..MaxGens
    BY <1>0 DEF JobRec
  <2>3. active' \in [Docs -> 0..MaxGens] /\ owed' \in SUBSET Docs
    BY <1>30, <2>2 DEF TypeOK, SwitchActive
  <2>4. QED
    BY <1>30, <1>0, <2>1, <2>3, SpendType DEF TypeOK, SwitchActive, rowVars, genVars, idxVars, ctlVars
<1>31. ASSUME NEW d \in Docs, NEW s \in Slots, Finalize(d, s)
      PROVE  TypeOK'
  <2>1. job' \in JobTable
    BY <1>31, <1>0, GotoType, EndType DEF Finalize, JobPc
  <2>2. "ready" \in Settled
    BY DEF Settled
  <2>3. row' \in [Docs -> Settled \cup Busy \cup Absent]
    BY <1>31, <2>2, StatusType DEF TypeOK, Finalize
  <2>4. used' \in [BudgetKinds -> Nat]
    BY <1>31, <1>0, SpendType DEF TypeOK, Finalize
  <2>5. QED
    BY <1>31, <2>1, <2>3, <2>4 DEF TypeOK, Finalize, rowVars, genVars, idxVars, ctlVars
<1>32. ASSUME NEW d \in Docs, NEW s \in Slots, UndoVectors(d, s)
      PROVE  TypeOK'
  <2>1. job' \in JobTable
    BY <1>32, <1>0, GotoType DEF UndoVectors, JobPc
  <2>2. QED
    BY <1>32, <1>0, <2>1, EmptiedType, SpendType DEF TypeOK, UndoVectors, rowVars, genVars, idxVars, ctlVars
<1>33. ASSUME NEW d \in Docs, NEW s \in Slots, UndoBm25(d, s)
      PROVE  TypeOK'
  <2>1. job' \in JobTable
    BY <1>33, <1>0, GotoType DEF UndoBm25, JobPc
  <2>2. QED
    BY <1>33, <1>0, <2>1, EmptiedType, SpendType DEF TypeOK, UndoBm25, rowVars, genVars, idxVars, ctlVars
<1>34. ASSUME NEW d \in Docs, NEW s \in Slots, NEW from \in JobPc, Raise(d, s, from)
      PROVE  TypeOK'
  <2>1. job' \in JobTable
    BY <1>34, <1>0, GotoType DEF Raise, JobPc
  <2>2. QED
    BY <1>34, <1>0, <2>1, SpendType DEF TypeOK, Raise, rowVars, genVars, idxVars, ctlVars
<1>35. ASSUME Crash
      PROVE  TypeOK'
  <2>1. job' \in JobTable
    BY <1>35, IdleType DEF Crash
  <2>2. purge' \in PurgeRec
    BY <1>35 DEF Crash, NoPurge, PurgeRec
  <2>3. used' \in [BudgetKinds -> Nat]
    BY <1>35, <1>0, SpendType DEF TypeOK, Crash
  <2>4. QED
    BY <1>35, <2>1, <2>2, <2>3 DEF TypeOK, Crash, rowVars, genVars, idxVars, ctlVars
<1>36. ASSUME Pause
      PROVE  TypeOK'
  <2>1. job' \in JobTable
    BY <1>36, IdleType DEF Pause
  <2>2. QED
    BY <1>36, <1>0, <2>1, SpendType DEF TypeOK, Pause, rowVars, genVars, idxVars, ctlVars
<1>37. ASSUME NEW g \in Gens, CleanGeneration(g)
      PROVE  TypeOK'
  <2>1. gen' \in [Gens -> GenRec]
    <3>1. gen \in [Gens -> GenRec]
      BY DEF TypeOK
    <3>2. gen' = [gen EXCEPT ![g].st = "failed"]
      BY <1>37 DEF CleanGeneration
    <3>3. QED
      BY <3>1, <3>2 DEF GenStatus, GenRec
  <2>2. vec' \in [Docs -> SUBSET (Chunk \X Gens)] /\ bm' \in [Docs -> SUBSET Chunk]
    BY <1>37 DEF TypeOK, CleanGeneration
  <2>3. QED
    BY <1>37, <2>1, <2>2 DEF TypeOK, CleanGeneration, rowVars, genVars, idxVars, ctlVars
<1>38. ASSUME NEW lost \in SUBSET Docs, Recover(lost)
      PROVE  TypeOK'
  <2>1. Interrupted \in SUBSET Docs
    BY DEF Interrupted
  <2>2. QED
    BY <1>38, <1>0, <2>1, RescanType, SpendType DEF TypeOK, Recover, rowVars, genVars, idxVars, ctlVars
<1>39. ASSUME Resume
      PROVE  TypeOK'
  BY <1>39 DEF TypeOK, Resume, rowVars, genVars, idxVars, ctlVars
<1>40. QED
  BY <1>1, <1>2, <1>3, <1>4, <1>5, <1>6, <1>7, <1>8, <1>9, <1>10,
     <1>11, <1>12, <1>13, <1>14, <1>15, <1>16, <1>17, <1>18, <1>19,
     <1>20, <1>21, <1>22, <1>23, <1>24, <1>25, <1>26, <1>27, <1>28,
     <1>29, <1>30, <1>31, <1>32, <1>33, <1>34, <1>35, <1>36, <1>37,
     <1>38, <1>39
  DEF Next, JobStep, ProcessDocument, Purging, Startup, JobPc

(***************************************************************************)
(* What a step of a task may touch                                         *)
(***************************************************************************)

\* A task acts only while live, changes its own document only, and gives it a
\* settled status only in the step that ends it.
JobLocal(d, s) ==
  /\ mode = "up" /\ Live(d, s)
  /\ UNCHANGED <<mode, purge, paused>>
  /\ \A e \in Docs, t \in Slots : <<e, t>> # <<d, s>> => job'[e][t] = job[e][t]
  /\ \A e \in Docs : e # d =>
       row'[e] = row[e] /\ active'[e] = active[e] /\ vec'[e] = vec[e] /\ bm'[e] = bm[e]
  /\ \/ row'[d] = row[d]
     \/ Exists(d) /\ row'[d] \in Busy
     \/ Exists(d) /\ row'[d] \in Settled /\ job'[d][s].pc = "idle"

\* Moving a task to another step changes that task only.
LEMMA GotoLocal ==
  ASSUME TypeOK, NEW d \in Docs, NEW s \in Slots, NEW p, Goto(d, s, p)
  PROVE  \A e \in Docs, t \in Slots : <<e, t>> # <<d, s>> => job'[e][t] = job[e][t]
BY DEF TypeOK, Goto

\* Ending a task changes that task only.
LEMMA EndLocal ==
  ASSUME TypeOK, NEW d \in Docs, NEW s \in Slots, End(d, s)
  PROVE  /\ \A e \in Docs, t \in Slots : <<e, t>> # <<d, s>> => job'[e][t] = job[e][t]
         /\ job'[d][s].pc = "idle"
BY DEF TypeOK, End, IdleJob

\* A status write changes one row at most, and never an absent one.
LEMMA StatusLocal ==
  ASSUME TypeOK, NEW d \in Docs, NEW st
  PROVE  /\ \A e \in Docs : e # d => SetStatus(d, st)[e] = row[e] /\ [row EXCEPT ![d] = st][e] = row[e]
         /\ SetStatus(d, st)[d] = row[d] \/ (Exists(d) /\ SetStatus(d, st)[d] = st)
         /\ [row EXCEPT ![d] = st][d] = st
BY DEF TypeOK, SetStatus

\* Deleting the data of a document spares the other documents.
LEMMA EmptiedLocal ==
  ASSUME TypeOK, NEW d \in Docs, NEW e \in Docs, e # d
  PROVE  Emptied(vec, d)[e] = vec[e] /\ Emptied(bm, d)[e] = bm[e]
BY DEF TypeOK, Emptied

\* A stage that only writes the status is local to its document.
LEMMA AdvanceLocal ==
  ASSUME TypeOK, NEW d \in Docs, NEW s \in Slots, NEW from \in JobPc \ {"idle"},
         NEW st \in Busy, NEW to, Advance(d, s, from, st, to)
  PROVE  JobLocal(d, s)
<1>1. \A e \in Docs, t \in Slots : <<e, t>> # <<d, s>> => job'[e][t] = job[e][t]
  BY GotoLocal DEF Advance
<1>2. /\ \A e \in Docs : e # d => row'[e] = row[e]
      /\ row'[d] = row[d] \/ (Exists(d) /\ row'[d] \in Busy)
  <2>1. (Exists(d) /\ row' = [row EXCEPT ![d] = st]) \/ row' = row
    BY DEF Advance
  <2>2. row \in [Docs -> Settled \cup Busy \cup Absent]
    BY DEF TypeOK
  <2>3. CASE Exists(d) /\ row' = [row EXCEPT ![d] = st]
    BY <2>2, <2>3
  <2>4. QED
    BY <2>1, <2>3
<1>3. QED
  BY <1>1, <1>2 DEF Advance, JobLocal, At, Live, ctlVars, idxVars

\* Every step of a task is local: see JobLocal.
LEMMA StepLocal ==
  ASSUME TypeOK, NEW d \in Docs, NEW s \in Slots, JobStep(d, s)
  PROVE  JobLocal(d, s)
<1> DEFINE Others == \A e \in Docs, t \in Slots : <<e, t>> # <<d, s>> => job'[e][t] = job[e][t]
<1>1. ASSUME Parse(d, s)
      PROVE  JobLocal(d, s)
  BY <1>1, AdvanceLocal DEF Parse, JobPc, Busy
<1>2. ASSUME Embed(d, s)
      PROVE  JobLocal(d, s)
  BY <1>2, AdvanceLocal DEF Embed, JobPc, Busy
<1>3. ASSUME StartIndexing(d, s)
      PROVE  JobLocal(d, s)
  BY <1>3, AdvanceLocal DEF StartIndexing, JobPc, Busy
<1>4. ASSUME GuardHit(d, s)
      PROVE  JobLocal(d, s)
  <2>1. Others
    BY <1>4, EndLocal DEF GuardHit
  <2>2. \A e \in Docs : e # d => row'[e] = row[e]
    BY <1>4, StatusLocal DEF GuardHit
  <2>3. \/ row'[d] = row[d]
        \/ Exists(d) /\ row'[d] \in Settled /\ job'[d][s].pc = "idle"
    BY <1>4, StatusLocal, EndLocal DEF GuardHit, Settled
  <2>4. QED
    BY <1>4, <2>1, <2>2, <2>3 DEF GuardHit, JobLocal, At, Live, ctlVars, idxVars
<1>5. ASSUME GiveUp(d, s)
      PROVE  JobLocal(d, s)
  <2>1. Others
    BY <1>5, EndLocal DEF GiveUp
  <2>2. \A e \in Docs : e # d => row'[e] = row[e]
    BY <1>5, StatusLocal DEF GiveUp
  <2>3. \/ row'[d] = row[d]
        \/ Exists(d) /\ row'[d] \in Settled /\ job'[d][s].pc = "idle"
    BY <1>5, StatusLocal, EndLocal DEF GiveUp, Settled
  <2>4. QED
    BY <1>5, <2>1, <2>2, <2>3 DEF GiveUp, JobLocal, At, Live, ctlVars, idxVars
<1>6. ASSUME MarkWaiting(d, s)
      PROVE  JobLocal(d, s)
  <2>1. Others
    BY <1>6, EndLocal DEF MarkWaiting
  <2>2. \A e \in Docs : e # d => row'[e] = row[e]
    BY <1>6, StatusLocal DEF MarkWaiting
  <2>3. \/ row'[d] = row[d]
        \/ Exists(d) /\ row'[d] \in Settled /\ job'[d][s].pc = "idle"
    BY <1>6, StatusLocal, EndLocal DEF MarkWaiting, Settled
  <2>4. QED
    BY <1>6, <2>1, <2>2, <2>3 DEF MarkWaiting, JobLocal, At, Live, ctlVars, idxVars
<1>7. ASSUME Finalize(d, s)
      PROVE  JobLocal(d, s)
  <2>1. Others
    <3>1. End(d, s) \/ Goto(d, s, "undovec")
      BY <1>7 DEF Finalize
    <3>2. QED
      BY <3>1, EndLocal, GotoLocal
  <2>2. \A e \in Docs : e # d => row'[e] = row[e]
    <3>1. row' = row \/ row' = [row EXCEPT ![d] = "ready"]
      BY <1>7 DEF Finalize
    <3>2. QED
      BY <3>1, StatusLocal
  <2>3. \/ row'[d] = row[d]
        \/ Exists(d) /\ row'[d] \in Settled /\ job'[d][s].pc = "idle"
    BY SMTT(30), <1>7, StatusLocal, EndLocal DEF Finalize, Settled
  <2>4. QED
    BY <1>7, <2>1, <2>2, <2>3 DEF Finalize, JobLocal, At, Live, ctlVars, idxVars
<1>8. ASSUME GuardMiss(d, s)
      PROVE  JobLocal(d, s)
  <2>1. Others
    BY <1>8, GotoLocal, EndLocal DEF GuardMiss
  <2>3. QED
    BY <1>8, <2>1 DEF GuardMiss, JobLocal, At, Live, rowVars, genVars, idxVars, ctlVars
<1>9. ASSUME OcrNotReady(d, s)
      PROVE  JobLocal(d, s)
  <2>1. Others
    BY <1>9, GotoLocal DEF OcrNotReady
  <2>3. QED
    BY <1>9, <2>1 DEF OcrNotReady, JobLocal, At, Live, rowVars, genVars, idxVars, ctlVars
<1>10. ASSUME WriteBm25(d, s)
      PROVE  JobLocal(d, s)
  <2>1. Others
    BY <1>10, GotoLocal DEF WriteBm25
  <2>2. \A e \in Docs : e # d => bm'[e] = bm[e]
    BY <1>10 DEF WriteBm25, TypeOK
  <2>3. QED
    BY <1>10, <2>1, <2>2 DEF WriteBm25, JobLocal, At, Live, rowVars, genVars, idxVars, ctlVars
<1>11. ASSUME Verify(d, s)
      PROVE  JobLocal(d, s)
  <2>1. Others
    BY <1>11, GotoLocal DEF Verify
  <2>3. QED
    BY <1>11, <2>1 DEF Verify, JobLocal, At, Live, rowVars, genVars, idxVars, ctlVars
<1>12. ASSUME CommitGeneration(d, s)
      PROVE  JobLocal(d, s)
  <2>1. Others
    BY <1>12, GotoLocal DEF CommitGeneration
  <2>3. QED
    BY <1>12, <2>1 DEF CommitGeneration, JobLocal, At, Live, rowVars, genVars, idxVars, ctlVars
<1>13. ASSUME FailGeneration(d, s)
      PROVE  JobLocal(d, s)
  <2>1. Others
    BY <1>13, GotoLocal DEF FailGeneration
  <2>3. QED
    BY <1>13, <2>1 DEF FailGeneration, JobLocal, At, Live, rowVars, genVars, idxVars, ctlVars
<1>14. ASSUME WriteVectors(d, s)
      PROVE  JobLocal(d, s)
  <2>1. Others
    BY <1>14, GotoLocal DEF WriteVectors
  <2>2. \A e \in Docs : e # d => Upserted(d, s)[e] = vec[e]
    BY DEF Upserted, TypeOK
  <2>3. QED
    BY <1>14, <2>1, <2>2 DEF WriteVectors, JobLocal, At, Live, rowVars, genVars, idxVars, ctlVars
<1>15. ASSUME DeleteOldVectors(d, s)
      PROVE  JobLocal(d, s)
  <2>1. Others
    BY <1>15, GotoLocal DEF DeleteOldVectors
  <2>2. QED
    BY <1>15, <2>1, EmptiedLocal DEF DeleteOldVectors, JobLocal, At, Live, rowVars, genVars, idxVars, ctlVars
<1>16. ASSUME DeleteOldBm25(d, s)
      PROVE  JobLocal(d, s)
  <2>1. Others
    BY <1>16, GotoLocal DEF DeleteOldBm25
  <2>2. QED
    BY <1>16, <2>1, EmptiedLocal DEF DeleteOldBm25, JobLocal, At, Live, rowVars, genVars, idxVars, ctlVars
<1>17. ASSUME UndoVectors(d, s)
      PROVE  JobLocal(d, s)
  <2>1. Others
    BY <1>17, GotoLocal DEF UndoVectors
  <2>2. QED
    BY <1>17, <2>1, EmptiedLocal DEF UndoVectors, JobLocal, At, Live, rowVars, genVars, idxVars, ctlVars
<1>18. ASSUME UndoBm25(d, s)
      PROVE  JobLocal(d, s)
  <2>1. Others
    BY <1>18, GotoLocal DEF UndoBm25
  <2>2. QED
    BY <1>18, <2>1, EmptiedLocal DEF UndoBm25, JobLocal, At, Live, rowVars, genVars, idxVars, ctlVars
<1>19. ASSUME SwitchActive(d, s)
      PROVE  JobLocal(d, s)
  <2>1. Others
    BY <1>19, GotoLocal DEF SwitchActive
  <2>2. \A e \in Docs : e # d => active'[e] = active[e]
    BY <1>19 DEF SwitchActive, TypeOK
  <2>3. QED
    BY <1>19, <2>1, <2>2 DEF SwitchActive, JobLocal, At, Live, rowVars, genVars, idxVars, ctlVars
<1>20. ASSUME Retry(d, s)
      PROVE  JobLocal(d, s)
  <2>1. Others
    BY <1>20 DEF Retry, TypeOK
  <2>2. QED
    BY <1>20, <2>1 DEF Retry, JobLocal, At, Live, rowVars, genVars, idxVars, ctlVars
<1>21. ASSUME Embedded(d, s)
      PROVE  JobLocal(d, s)
  <2>1. Others
    BY <1>21 DEF Embedded, TypeOK
  <2>2. QED
    BY <1>21, <2>1 DEF Embedded, JobLocal, At, Live, rowVars, genVars, idxVars, ctlVars
<1>22. ASSUME CreateGeneration(d, s)
      PROVE  JobLocal(d, s)
  <2>1. Others
    BY <1>22 DEF CreateGeneration, TypeOK
  <2>2. QED
    BY <1>22, <2>1 DEF CreateGeneration, JobLocal, At, Live, rowVars, genVars, idxVars, ctlVars
<1>23. ASSUME ChunkText(d, s)
      PROVE  JobLocal(d, s)
  <2>1. CASE Goto(d, s, "permanent") /\ UNCHANGED row
    <3>1. Others
      BY <2>1, GotoLocal
    <3>2. QED
      BY <1>23, <2>1, <3>1 DEF ChunkText, JobLocal, At, Live, rowVars, genVars, idxVars, ctlVars
  <2>2. ASSUME NEW n \in 0..MaxChunks, Exists(d), row' = [row EXCEPT ![d] = "chunking"],
               job' = [job EXCEPT ![d][s].pc = IF n = 0 THEN "permanent" ELSE "embed",
                                  ![d][s].ids = Split(n)]
        PROVE  JobLocal(d, s)
    <3>1. Others
      BY <2>2 DEF TypeOK
    <3>2. /\ \A e \in Docs : e # d => row'[e] = row[e]
          /\ Exists(d) /\ row'[d] \in Busy
      BY <2>2 DEF TypeOK, Busy
    <3>3. QED
      BY <1>23, <3>1, <3>2 DEF ChunkText, JobLocal, At, Live, rowVars, genVars, idxVars, ctlVars
  <2>3. QED
    BY <1>23, <2>1, <2>2 DEF ChunkText
<1>24. ASSUME NEW from \in {"parse", "embedding", "generation", "delvec", "delbm"}, Raise(d, s, from)
      PROVE  JobLocal(d, s)
  <2>1. Others
    BY <1>24, GotoLocal DEF Raise
  <2>2. QED
    BY <1>24, <2>1 DEF Raise, JobLocal, At, Live, rowVars, genVars, idxVars, ctlVars
<1>25. QED
  BY <1>1, <1>2, <1>3, <1>4, <1>5, <1>6, <1>7, <1>8, <1>9, <1>10,
     <1>11, <1>12, <1>13, <1>14, <1>15, <1>16, <1>17, <1>18, <1>19,
     <1>20, <1>21, <1>22, <1>23, <1>24
  DEF JobStep, ProcessDocument

(***************************************************************************)
(* The claim on a document                                                 *)
(***************************************************************************)

\* No task runs while the start-up recovers: what it finds is at rest.
QuietStartup == mode = "cleanup" => \A d \in Docs, s \in Slots : ~Live(d, s)

ClaimInv == OneJobPerDocument /\ LiveJobHoldsClaim /\ QuietStartup

\* Tasks are started only on documents that have none, and whose row the same
\* step puts in a processing status.
LEMMA LaunchClaims ==
  ASSUME TypeOK, ClaimInv, NEW S \in SUBSET Docs, NEW kind \in {"ingest", "reprocess"},
         Launch(S, kind), mode' = "up",
         \A d \in S : row'[d] \in Busy /\ (\A s \in Slots : ~Live(d, s)),
         \A d \in Docs \ S : row'[d] = row[d] \/ (\A s \in Slots : ~Live(d, s))
  PROVE  ClaimInv'
<1>1. ASSUME NEW d \in Docs \ S, NEW s \in Slots
      PROVE  job'[d][s] = job[d][s]
  BY DEF Launch
<1>2. ASSUME NEW d \in S, NEW s \in Slots, s # FreeSlot(d)
      PROVE  job'[d][s] = job[d][s]
  <2>1. job[d] \in [Slots -> JobRec]
    BY DEF TypeOK
  <2>2. job'[d] = job[d] \/ job'[d] = [job[d] EXCEPT ![FreeSlot(d)] = NewJob(kind)]
    BY DEF Launch
  <2>3. QED
    BY <1>2, <2>1, <2>2
<1>3. ASSUME NEW d \in S, NEW s \in Slots, Live(d, s)'
      PROVE  s = FreeSlot(d)
  <2>1. ~Live(d, s)
    OBVIOUS
  <2>2. QED
    BY <1>2, <1>3, <2>1 DEF Live
<1>4. OneJobPerDocument'
  BY <1>1, <1>3 DEF ClaimInv, OneJobPerDocument, Live
<1>5. LiveJobHoldsClaim'
  BY <1>1 DEF ClaimInv, LiveJobHoldsClaim, Live
<1>6. QED
  BY <1>4, <1>5 DEF ClaimInv, QuietStartup

\* A rescan restarts only documents it has put in a processing status.
LEMMA RescanClaims ==
  ASSUME TypeOK, ClaimInv, NEW S \in SUBSET Docs, NEW lost \in SUBSET S,
         Rescan(S, lost), mode' = "up",
         \A d \in S, s \in Slots : ~Live(d, s)
  PROVE  ClaimInv'
<1>1. \A d \in S \ lost : row'[d] \in Busy
  BY DEF Rescan, Busy
<1>2. \A d \in Docs \ S : row'[d] = row[d]
  BY DEF Rescan
<1>3. QED
  BY <1>1, <1>2, LaunchClaims DEF Rescan

\* Deletions touch no task and only ever take a document out of the others' reach.
LEMMA QuietClaims ==
  ASSUME ClaimInv, UNCHANGED <<job, mode>>,
         \A d \in Docs : row'[d] = row[d] \/ row'[d] \in Deleted
  PROVE  ClaimInv'
BY DEF ClaimInv, OneJobPerDocument, LiveJobHoldsClaim, QuietStartup, Live

\* Crashes and pauses leave no task at all.
LEMMA IdleClaims ==
  ASSUME \A d \in Docs, s \in Slots : ~Live(d, s)'
  PROVE  ClaimInv'
BY DEF ClaimInv, OneJobPerDocument, LiveJobHoldsClaim, QuietStartup

\* The steps of a task itself keep the claim.
LEMMA JobClaims ==
  ASSUME TypeOK, ClaimInv, NEW d \in Docs, NEW s \in Slots, JobStep(d, s)
  PROVE  ClaimInv'
<1>1. JobLocal(d, s)
  BY StepLocal
<1>2. ASSUME NEW e \in Docs, NEW t \in Slots, Live(e, t)'
      PROVE  Live(e, t)
  <2>1. CASE <<e, t>> = <<d, s>>
    BY <1>1, <2>1 DEF JobLocal
  <2>2. CASE <<e, t>> # <<d, s>>
    BY <1>1, <1>2, <2>2 DEF JobLocal, Live
  <2>3. QED
    BY <2>1, <2>2
<1>3. OneJobPerDocument'
  BY <1>2 DEF ClaimInv, OneJobPerDocument
<1>4. ASSUME NEW e \in Docs, NEW t \in Slots, Live(e, t)'
      PROVE  row'[e] \in Busy \cup Deleted
  <2>1. row[e] \in Busy \cup Deleted
    BY <1>2, <1>4 DEF ClaimInv, LiveJobHoldsClaim
  <2>2. CASE e # d
    BY <1>1, <2>1, <2>2 DEF JobLocal
  <2>3. CASE e = d
    <3>1. t = s
      BY <1>1, <1>2, <1>4, <2>3 DEF JobLocal, ClaimInv, OneJobPerDocument
    <3>2. job'[d][s].pc # "idle"
      BY <1>4, <2>3, <3>1 DEF Live
    <3>3. QED
      BY <1>1, <2>1, <2>3, <3>2 DEF JobLocal
  <2>4. QED
    BY <2>2, <2>3
<1>5. LiveJobHoldsClaim'
  BY <1>4 DEF LiveJobHoldsClaim
<1>6. QED
  BY <1>1, <1>3, <1>5 DEF ClaimInv, QuietStartup, JobLocal

\* Settled, processing and absent statuses are disjoint.
LEMMA Statuses ==
  /\ Settled \cap (Busy \cup Absent) = {}
  /\ Busy \cap Absent = {}
BY DEF Settled, Busy, Absent, Deleted

\* Every step keeps the claim invariant.
LEMMA ClaimStep == TypeOK /\ ClaimInv /\ [Next]_vars => ClaimInv'
<1> SUFFICES ASSUME TypeOK, ClaimInv, [Next]_vars
             PROVE  ClaimInv'
  OBVIOUS
<1>0. \A d \in Docs : row[d] \in Settled \cup {"unborn"} =>
                       \A s \in Slots : ~Live(d, s)
  BY DEF ClaimInv, LiveJobHoldsClaim, Settled, Busy, Deleted
<1>1. CASE UNCHANGED vars
  BY <1>1, QuietClaims DEF vars
<1>2. ASSUME NEW d \in Docs, Upload(d)
      PROVE  ClaimInv'
  <2>1. /\ row'[d] \in Busy
        /\ \A e \in Docs \ {d} : row'[e] = row[e]
    BY <1>2 DEF Upload, TypeOK, Busy
  <2>2. QED
    BY <1>0, <1>2, <2>1, LaunchClaims DEF Upload, ctlVars
<1>3. ASSUME NEW d \in Docs, Reprocess(d)
      PROVE  ClaimInv'
  <2>1. /\ row'[d] \in Busy
        /\ \A e \in Docs \ {d} : row'[e] = row[e]
    BY <1>3 DEF Reprocess, TypeOK, Busy
  <2>2. QED
    BY <1>0, <1>3, <2>1, LaunchClaims DEF Reprocess, ClaimGuard, ctlVars
<1>4. ASSUME NEW lost \in SUBSET Docs, ResumeOcr(lost)
      PROVE  ClaimInv'
  <2> DEFINE waiting == {d \in Docs : row[d] = "waiting_for_ocr"}
  <2>1. \A d \in waiting, s \in Slots : ~Live(d, s)
    BY <1>0 DEF Settled
  <2>2. QED
    BY <1>4, <2>1, RescanClaims DEF ResumeOcr, ctlVars
<1>5. ASSUME NEW d \in Docs, DeleteRead(d)
      PROVE  ClaimInv'
  BY <1>5, QuietClaims DEF DeleteRead, rowVars
<1>6. ASSUME ClearRead
      PROVE  ClaimInv'
  BY <1>6, QuietClaims DEF ClearRead, rowVars
<1>7. ASSUME Purging
      PROVE  ClaimInv'
  <2>1. UNCHANGED <<job, mode>>
    BY <1>7 DEF Purging, PurgeRows, PurgeOpenStore, PurgeVec, PurgeBm
  <2>2. \A d \in Docs : row'[d] = row[d] \/ row'[d] \in Deleted
    BY <1>7 DEF Purging, PurgeRows, PurgeOpenStore, PurgeVec, PurgeBm, Deleted, rowVars
  <2>3. QED
    BY <2>1, <2>2, QuietClaims
<1>8. ASSUME NEW d \in Docs, NEW s \in Slots, JobStep(d, s)
      PROVE  ClaimInv'
  BY <1>8, JobClaims
<1>9. ASSUME Crash \/ Pause
      PROVE  ClaimInv'
  BY <1>9, IdleClaims DEF Crash, Pause, Live, IdleJob
<1>10. ASSUME NEW g \in Gens, CleanGeneration(g)
       PROVE  ClaimInv'
  BY <1>10, QuietClaims DEF CleanGeneration, rowVars, ctlVars
<1>11. ASSUME NEW lost \in SUBSET Docs, Recover(lost)
       PROVE  ClaimInv'
  <2>1. \A d \in Docs, s \in Slots : ~Live(d, s)
    BY <1>11 DEF ClaimInv, QuietStartup, Recover
  <2>2. Interrupted \in SUBSET Docs
    BY DEF Interrupted
  <2>3. QED
    BY <1>11, <2>1, <2>2, RescanClaims DEF Recover
<1>12. ASSUME Resume
       PROVE  ClaimInv'
  BY <1>12, QuietClaims DEF Resume, rowVars
<1>13. QED
  BY <1>1, <1>2, <1>3, <1>4, <1>5, <1>6, <1>7, <1>8, <1>9, <1>10, <1>11, <1>12
  DEF Next, Startup

(***************************************************************************)
(* Generations                                                             *)
(***************************************************************************)

WritePc == {"delvec", "delbm", "writevec", "writebm", "verify", "commit"}

\* A task's generation is an allocated one of its own document.
GenOwned == \A d \in Docs, s \in Slots : job[d][s].pc \in IndexPc =>
  /\ job[d][s].gen \in Gens /\ job[d][s].gen < nextGen
  /\ gen[job[d][s].gen].doc = {d}

\* While a generation is being written, no row points at it.
Unpublished == \A d \in Docs, s \in Slots :
  job[d][s].pc \in WritePc => active[d] # job[d][s].gen

\* The row is switched to a generation only after its commit.
CommitFirst == \A d \in Docs, s \in Slots :
  job[d][s].pc = "switch" => gen[job[d][s].gen].st = "committed"

ActiveOld == \A d \in Docs : active[d] < nextGen

GenInv == GenOwned /\ Unpublished /\ CommitFirst /\ ActiveOld /\ ActiveIsSealed

\* A step that creates no generation, moves no task into the index stages and
\* at most clears the rows' pointers keeps the generation invariant.
LEMMA GenFrame ==
  ASSUME TypeOK, GenInv, UNCHANGED genVars,
         \A d \in Docs : active'[d] = active[d] \/ active'[d] = 0,
         \A d \in Docs, s \in Slots : job'[d][s].pc \in IndexPc =>
           /\ job[d][s].pc \in IndexPc /\ job'[d][s].gen = job[d][s].gen
           /\ job'[d][s].pc \in WritePc => job[d][s].pc \in WritePc
           /\ job'[d][s].pc = "switch" => job[d][s].pc = "switch"
  PROVE  GenInv'
<1>0. WritePc \subseteq IndexPc /\ "switch" \in IndexPc
  BY DEF WritePc, IndexPc
<1>1. GenOwned'
  BY DEF GenInv, GenOwned, genVars
<1>2. Unpublished'
  <2>1. ASSUME NEW d \in Docs, NEW s \in Slots, job'[d][s].pc \in WritePc
        PROVE  active'[d] # job'[d][s].gen
    <3>1. /\ job'[d][s].gen = job[d][s].gen /\ active[d] # job[d][s].gen
          /\ job[d][s].gen \in Gens
      BY <1>0, <2>1 DEF GenInv, Unpublished, GenOwned
    <3>2. 0 \notin Gens
      BY IngestionAssumption DEF Gens
    <3>3. QED
      BY <3>1, <3>2
  <2>2. QED
    BY <2>1 DEF Unpublished
<1>3. CommitFirst'
  BY <1>0 DEF GenInv, CommitFirst, genVars
<1>4. ActiveOld'
  <2>1. 0 < nextGen
    BY IngestionAssumption DEF TypeOK
  <2>2. nextGen' = nextGen
    BY DEF genVars
  <2>3. QED
    BY <2>1, <2>2 DEF GenInv, ActiveOld
<1>5. ActiveIsSealed'
  BY DEF GenInv, ActiveIsSealed, genVars
<1>6. QED
  BY <1>1, <1>2, <1>3, <1>4, <1>5 DEF GenInv

\* A task that writes the record of its generation disturbs no other task and
\* no other row.
LEMMA StageFrame ==
  ASSUME TypeOK, ClaimInv, GenInv, NEW d \in Docs, NEW s \in Slots,
         job[d][s].pc \in IndexPc,
         UNCHANGED <<active, nextGen>>,
         \A e \in Docs, t \in Slots : <<e, t>> # <<d, s>> => job'[e][t] = job[e][t],
         \A h \in Gens : h # job[d][s].gen => gen'[h] = gen[h],
         gen'[job[d][s].gen].doc = gen[job[d][s].gen].doc,
         job'[d][s].gen = job[d][s].gen,
         active[d] # job[d][s].gen \/ gen'[job[d][s].gen].st \in {"committed", "failed"},
         job'[d][s].pc \in WritePc => active[d] # job[d][s].gen,
         job'[d][s].pc = "switch" => gen'[job[d][s].gen].st = "committed"
  PROVE  GenInv'
<1> DEFINE g == job[d][s].gen
<1>0. /\ WritePc \subseteq IndexPc /\ "switch" \in IndexPc /\ "idle" \notin IndexPc
      /\ g \in Gens /\ g < nextGen /\ gen[g].doc = {d}
  BY DEF WritePc, IndexPc, GenInv, GenOwned
<1>1. ASSUME NEW e \in Docs, NEW t \in Slots, <<e, t>> # <<d, s>>, job[e][t].pc \in IndexPc
      PROVE  job[e][t].gen # g
  <2>1. SUFFICES ASSUME job[e][t].gen = g PROVE FALSE
    OBVIOUS
  <2>2. e = d
    BY <1>0, <1>1, <2>1 DEF GenInv, GenOwned
  <2>3. Live(d, s) /\ Live(d, t)
    BY <1>0, <1>1, <2>2 DEF Live
  <2>4. QED
    BY <1>1, <2>2, <2>3 DEF ClaimInv, OneJobPerDocument
<1>2. \A h \in Gens : gen'[h].doc = gen[h].doc
  BY <1>0
<1>3. GenOwned'
  <2>1. ASSUME NEW e \in Docs, NEW t \in Slots, job'[e][t].pc \in IndexPc
        PROVE  /\ job'[e][t].gen \in Gens /\ job'[e][t].gen < nextGen'
               /\ gen'[job'[e][t].gen].doc = {e}
    <3>1. CASE <<e, t>> = <<d, s>>
      BY <1>0, <1>2, <3>1
    <3>2. CASE <<e, t>> # <<d, s>>
      BY SMTT(30), <1>2, <2>1, <3>2 DEF GenInv, GenOwned
    <3>3. QED
      BY <3>1, <3>2
  <2>2. QED
    BY <2>1 DEF GenOwned
<1>4. Unpublished'
  BY <1>0 DEF GenInv, Unpublished
<1>5. CommitFirst'
  <2>1. ASSUME NEW e \in Docs, NEW t \in Slots, job'[e][t].pc = "switch"
        PROVE  gen'[job'[e][t].gen].st = "committed"
    <3>1. CASE <<e, t>> = <<d, s>>
      BY <2>1, <3>1
    <3>2. CASE <<e, t>> # <<d, s>>
      <4>1. job[e][t].pc = "switch" /\ job'[e][t].gen = job[e][t].gen
        BY <2>1, <3>2
      <4>2. job[e][t].gen # g /\ job[e][t].gen \in Gens
        BY <1>0, <1>1, <3>2, <4>1 DEF GenInv, GenOwned
      <4>3. QED
        BY <4>1, <4>2 DEF GenInv, CommitFirst
    <3>3. QED
      BY <3>1, <3>2
  <2>2. QED
    BY <2>1 DEF CommitFirst
<1>6. ActiveOld'
  <2>1. active' = active /\ nextGen' = nextGen
    OBVIOUS
  <2>2. QED
    BY <2>1 DEF GenInv, ActiveOld
<1>7. ActiveIsSealed'
  <2>1. ASSUME NEW e \in Docs, active[e] # 0
        PROVE  gen'[active[e]].st \in {"committed", "failed"} /\ gen'[active[e]].doc = {e}
    <3>1. active[e] \in Gens
      BY <2>1, IngestionAssumption DEF TypeOK, Gens
    <3>2. gen[active[e]].st \in {"committed", "failed"} /\ gen[active[e]].doc = {e}
      BY <2>1 DEF GenInv, ActiveIsSealed
    <3>3. CASE active[e] = g
      BY <1>0, <3>2, <3>3
    <3>4. CASE active[e] # g
      BY <3>1, <3>2, <3>4
    <3>5. QED
      BY <3>3, <3>4
  <2>2. QED
    BY <2>1 DEF ActiveIsSealed
<1>8. QED
  BY <1>3, <1>4, <1>5, <1>6, <1>7 DEF GenInv

\* Steps of a task that leave the generations and the row's pointer alone.
LEMMA KeepStep ==
  ASSUME TypeOK, GenInv, NEW d \in Docs, NEW s \in Slots, JobStep(d, s),
         UNCHANGED <<active, gen, nextGen>>,
         job'[d][s].pc \in IndexPc =>
           /\ job[d][s].pc \in IndexPc /\ job'[d][s].gen = job[d][s].gen
           /\ job'[d][s].pc \in WritePc => job[d][s].pc \in WritePc
           /\ job'[d][s].pc = "switch" => job[d][s].pc = "switch"
  PROVE  GenInv'
<1>1. JobLocal(d, s)
  BY StepLocal
<1>2. ASSUME NEW e \in Docs, NEW t \in Slots, job'[e][t].pc \in IndexPc
      PROVE  /\ job[e][t].pc \in IndexPc /\ job'[e][t].gen = job[e][t].gen
             /\ job'[e][t].pc \in WritePc => job[e][t].pc \in WritePc
             /\ job'[e][t].pc = "switch" => job[e][t].pc = "switch"
  <2>1. CASE <<e, t>> = <<d, s>>
    BY <1>2, <2>1
  <2>2. CASE <<e, t>> # <<d, s>>
    BY <1>1, <1>2, <2>2 DEF JobLocal
  <2>3. QED
    BY <2>1, <2>2
<1>3. QED
  BY <1>2, GenFrame DEF genVars

\* The moved task is where it was sent, with the generation it had.
LEMMA GotoPost ==
  ASSUME TypeOK, NEW d \in Docs, NEW s \in Slots, NEW p, Goto(d, s, p)
  PROVE  job'[d][s].pc = p /\ job'[d][s].gen = job[d][s].gen
<1>1. job \in [Docs -> [Slots -> JobRec]] /\ job[d][s] \in JobRec
  BY DEF TypeOK
<1>2. job'[d][s] = [job[d][s] EXCEPT !.pc = p]
  BY <1>1 DEF Goto
<1>3. QED
  BY <1>1, <1>2 DEF JobRec

\* The steps of a task keep the generation invariant: only the owner of a
\* generation writes its record, and the row is switched to it after its commit.
LEMMA JobGen ==
  ASSUME TypeOK, ClaimInv, GenInv, NEW d \in Docs, NEW s \in Slots, JobStep(d, s)
  PROVE  GenInv'
<1> DEFINE g == job[d][s].gen
<1> USE DEF At
<1>0. /\ JobLocal(d, s)
      /\ job \in [Docs -> [Slots -> JobRec]] /\ gen \in [Gens -> GenRec]
  BY StepLocal DEF TypeOK
<1>1. ASSUME Parse(d, s) \/ Embed(d, s) \/ StartIndexing(d, s)
      PROVE  GenInv'
  <2>1. job'[d][s].pc \in {"permanent", "chunk", "embedding", "generation"}
    BY <1>1, GotoPost DEF Parse, Embed, StartIndexing, Advance
  <2>2. UNCHANGED <<active, gen, nextGen>>
    BY <1>1 DEF Parse, Embed, StartIndexing, Advance, genVars
  <2>3. QED
    BY <2>1, <2>2, KeepStep DEF IndexPc
<1>2. ASSUME GuardHit(d, s) \/ GuardMiss(d, s) \/ GiveUp(d, s) \/ OcrNotReady(d, s) \/ MarkWaiting(d, s)
      PROVE  GenInv'
  <2>1. job'[d][s].pc \in {"idle", "parse", "ocr"}
    BY <1>2, GotoPost, EndLocal DEF GuardHit, GuardMiss, GiveUp, OcrNotReady, MarkWaiting
  <2>2. UNCHANGED <<active, gen, nextGen>>
    BY <1>2 DEF GuardHit, GuardMiss, GiveUp, OcrNotReady, MarkWaiting, genVars, rowVars
  <2>3. QED
    BY <2>1, <2>2, KeepStep DEF IndexPc
<1>3. ASSUME Retry(d, s)
      PROVE  GenInv'
  <2>1. job'[d][s].pc = "parse"
    BY <1>0, <1>3 DEF Retry, NewJob
  <2>2. QED
    BY <1>3, <2>1, KeepStep DEF IndexPc, Retry, genVars, rowVars
<1>4. ASSUME ChunkText(d, s) \/ Embedded(d, s)
      PROVE  GenInv'
  <2>1. job'[d][s].pc \in {"permanent", "embed", "index"}
    <3>1. \A p, c : job' = [job EXCEPT ![d][s].pc = p, ![d][s].ids = c] => job'[d][s].pc = p
      <4>1. job[d][s] \in JobRec
        BY <1>0
      <4>2. QED
        BY <1>0, <4>1 DEF JobRec
    <3>2. CASE ChunkText(d, s)
      <4>1. CASE Goto(d, s, "permanent")
        BY <4>1, GotoPost
      <4>2. ASSUME NEW n \in 0..MaxChunks,
                   job' = [job EXCEPT ![d][s].pc = IF n = 0 THEN "permanent" ELSE "embed",
                                      ![d][s].ids = Split(n)]
            PROVE  job'[d][s].pc \in {"permanent", "embed"}
        <5>1. job'[d][s].pc = IF n = 0 THEN "permanent" ELSE "embed"
          BY <3>1, <4>2
        <5>2. QED
          BY <5>1
      <4>3. QED
        BY <3>2, <4>1, <4>2 DEF ChunkText
    <3>3. CASE Embedded(d, s)
      BY <3>1, <3>3 DEF Embedded
    <3>4. QED
      BY <1>4, <3>2, <3>3
  <2>2. UNCHANGED <<active, gen, nextGen>>
    BY <1>4 DEF ChunkText, Embedded, genVars, rowVars
  <2>3. QED
    BY <2>1, <2>2, KeepStep DEF IndexPc
<1>5. ASSUME NEW from \in {"parse", "embedding", "generation", "delvec", "delbm"}, Raise(d, s, from)
      PROVE  GenInv'
  <2>1. job'[d][s].pc = "transient"
    BY <1>5, GotoPost DEF Raise
  <2>2. QED
    BY <1>5, <2>1, KeepStep DEF IndexPc, Raise, genVars, rowVars
<1>6. ASSUME DeleteOldVectors(d, s) \/ DeleteOldBm25(d, s)
      PROVE  GenInv'
  <2>1. /\ job[d][s].pc \in {"delvec", "delbm"} /\ job'[d][s].gen = g
        /\ job'[d][s].pc \in {"delbm", "writevec"}
    BY <1>6, GotoPost DEF DeleteOldVectors, DeleteOldBm25
  <2>2. UNCHANGED <<active, gen, nextGen>>
    BY <1>6 DEF DeleteOldVectors, DeleteOldBm25, genVars, rowVars
  <2>3. QED
    BY <2>1, <2>2, KeepStep DEF IndexPc, WritePc
<1>7. ASSUME Finalize(d, s) \/ UndoVectors(d, s) \/ UndoBm25(d, s)
      PROVE  GenInv'
  <2>1. /\ job[d][s].pc \in {"final", "undovec", "undobm"}
        /\ \/ job'[d][s].gen = g /\ job'[d][s].pc \in {"undovec", "undobm", "undogen"}
           \/ job'[d][s].pc = "idle"
    <3>1. /\ job[d][s].pc \in {"final", "undovec", "undobm"}
          /\ \/ \E p \in {"undovec", "undobm", "undogen"} : Goto(d, s, p)
             \/ End(d, s)
      BY <1>7 DEF Finalize, UndoVectors, UndoBm25
    <3>2. QED
      BY <3>1, GotoPost, EndLocal
  <2>2. UNCHANGED <<active, gen, nextGen>>
    BY <1>7 DEF Finalize, UndoVectors, UndoBm25, genVars, rowVars
  <2>3. QED
    BY <2>1, <2>2, KeepStep DEF IndexPc, WritePc
<1>8. ASSUME WriteVectors(d, s) \/ WriteBm25(d, s) \/ Verify(d, s)
      PROVE  GenInv'
  <2>1. /\ job[d][s].pc \in {"writevec", "writebm", "verify"} /\ job'[d][s].gen = g
        /\ job'[d][s].pc \in {"writebm", "verify", "commit", "undovec"}
    <3>1. /\ job[d][s].pc \in {"writevec", "writebm", "verify"}
          /\ \E p \in {"writebm", "verify", "commit", "undovec"} : Goto(d, s, p)
      BY <1>8 DEF WriteVectors, WriteBm25, Verify
    <3>2. QED
      BY <3>1, GotoPost
  <2>2. /\ \A h \in Gens : h # g => gen'[h] = gen[h]
        /\ gen'[g].doc = gen[g].doc
        /\ UNCHANGED <<active, nextGen>>
    <3>1. g \in Gens
      BY <2>1 DEF GenInv, GenOwned, IndexPc
    <3>2. QED
      BY <1>0, <1>8, <3>1 DEF WriteVectors, WriteBm25, Verify, Stage, rowVars, GenRec
  <2>3. active[d] # g
    BY <2>1 DEF GenInv, Unpublished, WritePc
  <2>4. QED
    BY <1>0, <2>1, <2>2, <2>3, StageFrame DEF JobLocal, IndexPc
<1>9. ASSUME CommitGeneration(d, s)
      PROVE  GenInv'
  <2>1. /\ job[d][s].pc = "commit" /\ job'[d][s].gen = g
        /\ \/ job'[d][s].pc = "switch" /\ gen' = Sealed(d, s)
           \/ job'[d][s].pc = "undovec" /\ gen' = gen
    BY <1>9, GotoPost DEF CommitGeneration
  <2>2. g \in Gens /\ active[d] # g
    BY <2>1 DEF GenInv, GenOwned, Unpublished, IndexPc, WritePc
  <2>3. /\ \A h \in Gens : h # g => gen'[h] = gen[h]
        /\ gen'[g].doc = gen[g].doc
        /\ job'[d][s].pc = "switch" => gen'[g].st = "committed"
    BY <1>0, <2>1, <2>2 DEF Sealed, GenRec
  <2>4. UNCHANGED <<active, nextGen>>
    BY <1>9 DEF CommitGeneration, rowVars
  <2>5. job[d][s].pc \in IndexPc /\ job'[d][s].pc \notin WritePc
    BY <2>1 DEF IndexPc, WritePc
  <2>6. QED
    BY <1>0, <2>1, <2>2, <2>3, <2>4, <2>5, StageFrame DEF JobLocal
<1>10. ASSUME FailGeneration(d, s)
       PROVE  GenInv'
  <2>1. /\ job[d][s].pc = "undogen" /\ job'[d][s].gen = g /\ job'[d][s].pc = "transient"
        /\ UNCHANGED <<active, nextGen>>
    BY <1>10, GotoPost DEF FailGeneration, rowVars
  <2>2. g \in Gens
    BY <2>1 DEF GenInv, GenOwned, IndexPc
  <2>3. /\ \A h \in Gens : h # g => gen'[h] = gen[h]
        /\ gen'[g].doc = gen[g].doc
        /\ gen'[g].st = "failed" \/ gen' = gen
    BY <1>0, <1>10, <2>2 DEF FailGeneration, Stage, GenRec
  <2>4. CASE gen' = gen
    BY <2>1, <2>4, KeepStep DEF IndexPc
  <2>5. CASE gen'[g].st = "failed"
    BY <1>0, <2>1, <2>2, <2>3, <2>5, StageFrame DEF JobLocal, IndexPc, WritePc
  <2>6. QED
    BY <2>3, <2>4, <2>5
<1>11. ASSUME CreateGeneration(d, s)
       PROVE  GenInv'
  <2>1. /\ nextGen \in Gens /\ nextGen' = nextGen + 1 /\ UNCHANGED active
        /\ job'[d][s].pc = "delvec" /\ job'[d][s].gen = nextGen
        /\ gen' = [gen EXCEPT ![nextGen] = [st |-> "preparing", doc |-> {d}, ids |-> {}]]
    BY <1>0, <1>11 DEF CreateGeneration, rowVars
  <2>2. gen'[nextGen].doc = {d} /\ \A h \in Gens : h # nextGen => gen'[h] = gen[h]
    BY <1>0, <2>1
  <2>3. ASSUME NEW e \in Docs, NEW t \in Slots, job'[e][t].pc \in IndexPc
        PROVE  \/ <<e, t>> = <<d, s>>
               \/ /\ job'[e][t] = job[e][t] /\ job[e][t].gen \in Gens
                  /\ job[e][t].gen < nextGen /\ gen[job[e][t].gen].doc = {e}
    BY <1>0, <2>3 DEF JobLocal, GenInv, GenOwned
  <2>4. \A h \in Gens : h < nextGen => h # nextGen /\ h < nextGen'
    BY <2>1, IngestionAssumption DEF Gens
  <2>5. nextGen < nextGen'
    BY <2>1, IngestionAssumption DEF Gens
  <2>6. GenOwned'
    BY <2>1, <2>2, <2>3, <2>4, <2>5 DEF GenOwned
  <2>7. Unpublished'
    <3>1. active[d] # nextGen
      BY <2>1, IngestionAssumption DEF GenInv, ActiveOld, TypeOK, Gens
    <3>2. \A e \in Docs, t \in Slots : <<e, t>> # <<d, s>> => job'[e][t] = job[e][t]
      BY <1>0 DEF JobLocal
    <3>3. QED
      BY <2>1, <3>1, <3>2 DEF GenInv, Unpublished
  <2>8. CommitFirst'
    <3>1. ASSUME NEW e \in Docs, NEW t \in Slots, job'[e][t].pc = "switch"
          PROVE  gen'[job'[e][t].gen].st = "committed"
      BY <2>1, <2>2, <2>3, <2>4, <3>1 DEF GenInv, CommitFirst, IndexPc
    <3>2. QED
      BY <3>1 DEF CommitFirst
  <2>9. ActiveOld'
    BY <2>1, IngestionAssumption DEF GenInv, ActiveOld, TypeOK, Gens
  <2>10. ActiveIsSealed'
    <3>1. \A e \in Docs : active[e] # 0 => active[e] \in Gens /\ active[e] # nextGen
      BY <2>1, IngestionAssumption DEF GenInv, ActiveOld, TypeOK, Gens
    <3>2. QED
      BY <2>1, <2>2, <3>1 DEF GenInv, ActiveIsSealed
  <2>11. QED
    BY <2>6, <2>7, <2>8, <2>9, <2>10 DEF GenInv
<1>12. ASSUME SwitchActive(d, s)
       PROVE  GenInv'
  <2>1. /\ job[d][s].pc = "switch" /\ job'[d][s].gen = g
        /\ job'[d][s].pc \in {"final", "undovec"} /\ UNCHANGED <<gen, nextGen>>
        /\ active' = active \/ active' = [active EXCEPT ![d] = g]
    BY <1>12, GotoPost DEF SwitchActive, genVars
  <2>2. /\ g \in Gens /\ g < nextGen /\ gen[g].doc = {d} /\ gen[g].st = "committed"
    BY <2>1 DEF GenInv, GenOwned, CommitFirst, IndexPc
  <2>3. \A e \in Docs : active'[e] = active[e] \/ (e = d /\ active'[e] = g)
    BY <2>1 DEF TypeOK
  <2>4. \A e \in Docs, t \in Slots : <<e, t>> # <<d, s>> => job'[e][t] = job[e][t]
    BY <1>0 DEF JobLocal
  <2>5. GenOwned'
    BY <2>1, <2>2, <2>4 DEF GenInv, GenOwned, IndexPc
  <2>6. Unpublished'
    <3>1. ASSUME NEW e \in Docs, NEW t \in Slots, job'[e][t].pc \in WritePc
          PROVE  active'[e] # job'[e][t].gen
      <4>1. <<e, t>> # <<d, s>>
        BY <2>1, <3>1 DEF WritePc
      <4>2. job[e][t].pc \in WritePc /\ job'[e][t] = job[e][t]
        BY <2>4, <3>1, <4>1
      <4>3. e # d
        BY <2>1, <4>1, <4>2 DEF ClaimInv, OneJobPerDocument, Live, WritePc
      <4>4. QED
        BY <2>3, <4>2, <4>3 DEF GenInv, Unpublished
    <3>2. QED
      BY <3>1 DEF Unpublished
  <2>7. CommitFirst'
    BY <2>1, <2>4 DEF GenInv, CommitFirst
  <2>8. ActiveOld'
    BY <2>1, <2>2, <2>3 DEF GenInv, ActiveOld
  <2>9. ActiveIsSealed'
    BY <2>1, <2>2, <2>3 DEF GenInv, ActiveIsSealed
  <2>10. QED
    BY <2>5, <2>6, <2>7, <2>8, <2>9 DEF GenInv
<1>13. QED
  BY <1>1, <1>2, <1>3, <1>4, <1>5, <1>6, <1>7, <1>8, <1>9, <1>10, <1>11, <1>12
  DEF JobStep, ProcessDocument

\* Starting tasks gives none of them a generation yet.
LEMMA LaunchKeeps ==
  ASSUME TypeOK, NEW S \in SUBSET Docs, NEW kind \in {"ingest", "reprocess"},
         Launch(S, kind), NEW d \in Docs, NEW s \in Slots, job'[d][s].pc \in IndexPc
  PROVE  job'[d][s] = job[d][s]
<1>1. job[d] \in [Slots -> JobRec]
  BY DEF TypeOK
<1>2. job'[d] = job[d] \/ job'[d] = [job[d] EXCEPT ![FreeSlot(d)] = NewJob(kind)]
  BY DEF Launch
<1>3. NewJob(kind).pc \notin IndexPc
  BY DEF NewJob, IdleJob, IndexPc
<1>4. QED
  BY <1>1, <1>2, <1>3

\* Every step keeps the generation invariant.
LEMMA GenStep == TypeOK /\ ClaimInv /\ GenInv /\ [Next]_vars => GenInv'
<1> SUFFICES ASSUME TypeOK, ClaimInv, GenInv, [Next]_vars
             PROVE  GenInv'
  OBVIOUS
<1>1. CASE UNCHANGED vars
  BY <1>1, GenFrame DEF vars, genVars
<1>2. ASSUME NEW d \in Docs, Upload(d) \/ Reprocess(d)
      PROVE  GenInv'
  <2>1. UNCHANGED genVars /\ UNCHANGED active
    BY <1>2 DEF Upload, Reprocess
  <2>2. \A e \in Docs, t \in Slots : job'[e][t].pc \in IndexPc => job'[e][t] = job[e][t]
    BY <1>2, LaunchKeeps DEF Upload, Reprocess
  <2>3. QED
    BY <2>1, <2>2, GenFrame
<1>3. ASSUME NEW lost \in SUBSET Docs, ResumeOcr(lost) \/ Recover(lost)
      PROVE  GenInv'
  <2>1. UNCHANGED genVars /\ UNCHANGED active
    BY <1>3 DEF ResumeOcr, Recover
  <2>2. \A e \in Docs, t \in Slots : job'[e][t].pc \in IndexPc => job'[e][t] = job[e][t]
    <3>1. PICK S \in SUBSET Docs : Launch(S, "ingest")
      BY <1>3 DEF ResumeOcr, Recover, Rescan, Interrupted
    <3>2. QED
      BY <3>1, LaunchKeeps
  <2>3. QED
    BY <2>1, <2>2, GenFrame
<1>4. ASSUME (\E d \in Docs : DeleteRead(d)) \/ ClearRead \/ Resume
      PROVE  GenInv'
  <2>1. UNCHANGED <<genVars, active, job>>
    BY <1>4 DEF DeleteRead, ClearRead, Resume, rowVars
  <2>2. QED
    BY <2>1, GenFrame
<1>5. ASSUME Purging
      PROVE  GenInv'
  <2>1. UNCHANGED <<genVars, job>>
    BY <1>5 DEF Purging, PurgeRows, PurgeOpenStore, PurgeVec, PurgeBm
  <2>2. \A d \in Docs : active'[d] = active[d] \/ active'[d] = 0
    BY <1>5 DEF Purging, PurgeRows, PurgeOpenStore, PurgeVec, PurgeBm, rowVars
  <2>3. QED
    BY <2>1, <2>2, GenFrame
<1>6. ASSUME NEW d \in Docs, NEW s \in Slots, JobStep(d, s)
      PROVE  GenInv'
  BY <1>6, JobGen
<1>7. ASSUME Crash \/ Pause
      PROVE  GenInv'
  <2>1. UNCHANGED genVars /\ UNCHANGED active
    BY <1>7 DEF Crash, Pause, rowVars
  <2>2. \A e \in Docs, t \in Slots : job'[e][t].pc \notin IndexPc
    BY <1>7 DEF Crash, Pause, IdleJob, IndexPc
  <2>3. QED
    BY <2>1, <2>2, GenFrame
<1>8. ASSUME NEW g \in Gens, CleanGeneration(g)
      PROVE  GenInv'
  <2>1. /\ UNCHANGED <<active, nextGen, job>>
        /\ \A h \in Gens : h # g => gen'[h] = gen[h]
        /\ gen'[g].doc = gen[g].doc /\ gen'[g].st = "failed"
    <3>1. gen \in [Gens -> GenRec]
      BY DEF TypeOK
    <3>2. QED
      BY <1>8, <3>1 DEF CleanGeneration, rowVars, GenRec
  <2>2. \A d \in Docs, s \in Slots : job[d][s].pc = "idle"
    BY <1>8 DEF CleanGeneration, ClaimInv, QuietStartup, Live
  <2>3. GenOwned' /\ Unpublished' /\ CommitFirst'
    BY <2>1, <2>2 DEF GenOwned, Unpublished, CommitFirst, IndexPc, WritePc
  <2>4. ActiveOld'
    BY <2>1 DEF GenInv, ActiveOld
  <2>5. ActiveIsSealed'
    <3>1. \A d \in Docs : active[d] # 0 => active[d] \in Gens
      BY IngestionAssumption DEF TypeOK, Gens
    <3>2. QED
      BY <2>1, <3>1 DEF GenInv, ActiveIsSealed
  <2>6. QED
    BY <2>3, <2>4, <2>5 DEF GenInv
<1>9. QED
  BY <1>1, <1>2, <1>3, <1>4, <1>5, <1>6, <1>7, <1>8 DEF Next, Startup

(***************************************************************************)
(* Deletions                                                               *)
(***************************************************************************)

\* A deletion cleans the stores only of documents whose row is gone by then.
PurgeInv ==
  /\ purge.pc = "rows" => \A d \in purge.todo : row[d] # "unborn"
  /\ purge.pc \in {"store", "vec", "bm"} => \A d \in purge.todo : row[d] \in Deleted
  /\ purge.pc = "bm" => \A d \in purge.cur : row[d] \in Deleted

\* A row once inserted never becomes uninserted, a deleted one never comes back.
LEMMA RowMoves ==
  ASSUME TypeOK, ClaimInv, [Next]_vars, NEW d \in Docs
  PROVE  /\ row[d] # "unborn" => row'[d] # "unborn"
         /\ row[d] \in Deleted => row'[d] \in Deleted
<1> USE DEF Settled, Busy, Deleted, Absent, Exists
<1>1. CASE UNCHANGED vars
  BY <1>1 DEF vars
<1>2. ASSUME NEW e \in Docs, Upload(e) \/ Reprocess(e) \/ DeleteRead(e)
      PROVE  /\ row[d] # "unborn" => row'[d] # "unborn"
             /\ row[d] \in Deleted => row'[d] \in Deleted
  BY <1>2 DEF Upload, Reprocess, DeleteRead, ClaimGuard, rowVars, TypeOK
<1>3. ASSUME NEW lost \in SUBSET Docs, ResumeOcr(lost) \/ Recover(lost)
      PROVE  /\ row[d] # "unborn" => row'[d] # "unborn"
             /\ row[d] \in Deleted => row'[d] \in Deleted
  BY <1>3 DEF ResumeOcr, Recover, Rescan, Interrupted
<1>4. ASSUME ClearRead \/ Purging \/ Crash \/ Pause \/ Resume
      PROVE  /\ row[d] # "unborn" => row'[d] # "unborn"
             /\ row[d] \in Deleted => row'[d] \in Deleted
  BY <1>4 DEF ClearRead, Purging, PurgeRows, PurgeOpenStore, PurgeVec, PurgeBm,
              Crash, Pause, Resume, rowVars
<1>5. ASSUME NEW e \in Docs, NEW s \in Slots, JobStep(e, s)
      PROVE  /\ row[d] # "unborn" => row'[d] # "unborn"
             /\ row[d] \in Deleted => row'[d] \in Deleted
  <2>1. JobLocal(e, s)
    BY <1>5, StepLocal
  <2>2. QED
    BY <2>1 DEF JobLocal
<1>6. ASSUME NEW g \in Gens, CleanGeneration(g)
      PROVE  /\ row[d] # "unborn" => row'[d] # "unborn"
             /\ row[d] \in Deleted => row'[d] \in Deleted
  BY <1>6 DEF CleanGeneration, rowVars
<1>7. QED
  BY <1>1, <1>2, <1>3, <1>4, <1>5, <1>6 DEF Next, Startup

\* Every step keeps the invariant of the purge request.
LEMMA PurgeStep == TypeOK /\ ClaimInv /\ PurgeInv /\ [Next]_vars => PurgeInv'
<1> SUFFICES ASSUME TypeOK, ClaimInv, PurgeInv, [Next]_vars
             PROVE  PurgeInv'
  OBVIOUS
<1>0. /\ \A d \in Docs : row[d] # "unborn" => row'[d] # "unborn"
      /\ \A d \in Docs : row[d] \in Deleted => row'[d] \in Deleted
      /\ purge \in PurgeRec
  BY RowMoves DEF TypeOK
<1>1. CASE UNCHANGED purge
  BY <1>0, <1>1 DEF PurgeInv, PurgeRec
<1>2. CASE purge' = NoPurge
  BY <1>2 DEF PurgeInv, NoPurge
<1>3. ASSUME NEW d \in Docs, DeleteRead(d)
      PROVE  PurgeInv'
  <2>1. purge'.pc = "rows" /\ purge'.todo = {d}
    BY <1>3 DEF DeleteRead, NoPurge
  <2>2. row'[d] # "unborn"
    BY <1>3 DEF DeleteRead, rowVars, Settled
  <2>3. QED
    BY <2>1, <2>2 DEF PurgeInv
<1>4. ASSUME ClearRead
      PROVE  PurgeInv'
  <2>1. purge'.pc = "rows" /\ purge'.todo = {d \in Docs : Exists(d)}
    BY <1>4 DEF ClearRead, NoPurge
  <2>2. \A d \in purge'.todo : row'[d] # "unborn"
    BY <1>4, <2>1 DEF ClearRead, rowVars, Exists, Absent
  <2>3. QED
    BY <2>1, <2>2 DEF PurgeInv
<1>5. ASSUME PurgeRows
      PROVE  PurgeInv'
  <2>1. purge.pc = "rows" /\ purge'.pc = "store" /\ purge'.todo = purge.todo
    BY <1>0, <1>5 DEF PurgeRows, PurgeRec
  <2>2. ASSUME NEW d \in purge.todo
        PROVE  row'[d] \in Deleted
    <3>1. d \in Docs /\ row[d] # "unborn"
      BY <1>0, <2>1, <2>2 DEF PurgeInv, PurgeRec
    <3>2. QED
      BY <1>0, <1>5, <2>2, <3>1 DEF PurgeRows, Exists, Absent, Deleted
  <2>3. QED
    BY <2>1, <2>2 DEF PurgeInv
<1>6. ASSUME purge.pc = "store", purge' = [purge EXCEPT !.pc = "vec"]
      PROVE  PurgeInv'
  <2>1. purge'.pc = "vec" /\ purge'.todo = purge.todo /\ purge.todo \subseteq Docs
    BY <1>0, <1>6 DEF PurgeRec
  <2>2. QED
    BY <1>0, <1>6, <2>1 DEF PurgeInv
<1>7. ASSUME NEW d \in Docs, PurgeVec(d)
      PROVE  PurgeInv'
  <2>1. /\ purge.pc = "vec" /\ d \in purge.todo /\ purge.todo \subseteq Docs
        /\ purge'.pc = "bm" /\ purge'.todo = purge.todo \ {d} /\ purge'.cur = {d}
    BY <1>0, <1>7 DEF PurgeVec, PurgeRec
  <2>2. QED
    BY <1>0, <2>1 DEF PurgeInv
<1>8. ASSUME NEW d \in Docs, PurgeBm(d), purge' = [purge EXCEPT !.pc = "vec", !.cur = {}]
      PROVE  PurgeInv'
  <2>1. /\ purge.pc = "bm" /\ purge.todo \subseteq Docs
        /\ purge'.pc = "vec" /\ purge'.todo = purge.todo
    BY <1>0, <1>8 DEF PurgeBm, PurgeRec
  <2>2. QED
    BY <1>0, <2>1 DEF PurgeInv
<1>9. ASSUME Purging
      PROVE  PurgeInv'
  <2>1. CASE PurgeRows
    BY <1>5, <2>1
  <2>2. CASE PurgeOpenStore
    BY <1>2, <1>6, <2>2 DEF PurgeOpenStore
  <2>3. ASSUME NEW d \in Docs, PurgeBm(d)
        PROVE  PurgeInv'
    BY <1>2, <1>8, <2>3 DEF PurgeBm
  <2>4. QED
    BY <1>7, <1>9, <2>1, <2>2, <2>3 DEF Purging
<1>10. ASSUME NEW d \in Docs, NEW s \in Slots, JobStep(d, s)
       PROVE  PurgeInv'
  <2>1. JobLocal(d, s)
    BY <1>10, StepLocal
  <2>2. QED
    BY <1>1, <2>1 DEF JobLocal
<1>11. QED
  BY <1>1, <1>2, <1>3, <1>4, <1>9, <1>10
  DEF Next, Startup, Upload, Reprocess, ResumeOcr, Crash, CleanGeneration, Recover,
      Pause, Resume, ctlVars, vars

(***************************************************************************)
(* The invariant and the theorems                                          *)
(***************************************************************************)

IInv == TypeOK /\ ClaimInv /\ GenInv /\ PurgeInv

\* The inductive invariant holds initially,
LEMMA InitIInv == Init => IInv
<1> SUFFICES ASSUME Init PROVE IInv
  OBVIOUS
<1>1. TypeOK
  <2>1. job \in [Docs -> [Slots -> JobRec]]
    BY IdleType DEF Init
  <2>2. gen \in [Gens -> GenRec]
    BY DEF Init, GenRec, GenStatus
  <2>3. purge \in PurgeRec
    BY DEF Init, NoPurge, PurgeRec
  <2>4. nextGen \in 1..(MaxGens + 1) /\ active \in [Docs -> 0..MaxGens]
    BY IngestionAssumption DEF Init
  <2>5. QED
    BY <2>1, <2>2, <2>3, <2>4 DEF Init, TypeOK, Absent
<1>2. \A d \in Docs, s \in Slots : job[d][s].pc = "idle"
  BY DEF Init, IdleJob
<1>3. ClaimInv
  BY <1>2 DEF ClaimInv, OneJobPerDocument, LiveJobHoldsClaim, QuietStartup, Live
<1>4. GenInv
  BY <1>2 DEF Init, GenInv, GenOwned, Unpublished, CommitFirst, ActiveOld,
              ActiveIsSealed, IndexPc, WritePc
<1>5. PurgeInv
  BY DEF Init, NoPurge, PurgeInv
<1>6. QED
  BY <1>1, <1>3, <1>4, <1>5 DEF IInv

\* every step keeps it,
LEMMA NextIInv == IInv /\ [Next]_vars => IInv'
<1>1. GenInv => GenHeld
  BY DEF GenInv, GenOwned, GenHeld
<1>2. QED
  BY <1>1, TypeStep, ClaimStep, GenStep, PurgeStep DEF IInv

\* and so it always holds.
LEMMA Inductive == Spec => []IInv
<1>1. QED
  BY InitIInv, NextIInv, PTL DEF Spec

\* Every variable keeps its type, whatever documents, tasks and faults there are.
THEOREM TypeCorrect == Spec => []TypeOK
<1>1. IInv => TypeOK
  BY DEF IInv
<1>2. QED
  BY <1>1, Inductive, PTL

\* The claim on documents.status excludes a second task for a document, and a
\* claimed row stays out of reach of other requests until its task ends.
THEOREM ClaimExcludes == Spec => [](OneJobPerDocument /\ LiveJobHoldsClaim)
<1>1. IInv => OneJobPerDocument /\ LiveJobHoldsClaim
  BY DEF IInv, ClaimInv
<1>2. QED
  BY <1>1, Inductive, PTL

\* A row's active generation is committed, or failed after its commit, and is
\* the document's own: never one that a crash can leave half written.
THEOREM ActiveSealed == Spec => []ActiveIsSealed
<1>1. IInv => ActiveIsSealed
  BY DEF IInv, GenInv
<1>2. QED
  BY <1>1, Inductive, PTL

\* A step from a state where the document is ready leaves its stores alone: no
\* task works on it, and a deletion has it on its list only once its row is gone.
LEMMA StableStep ==
  ASSUME IInv, [Next]_vars, NEW d \in Docs, row[d] = "ready"
  PROVE  vec'[d] = vec[d] /\ bm'[d] = bm[d]
<1>0. TypeOK /\ ClaimInv /\ GenInv /\ PurgeInv
  BY DEF IInv
<1>1. CASE UNCHANGED idxVars
  BY <1>1 DEF idxVars
<1>2. ASSUME Purging
      PROVE  vec'[d] = vec[d] /\ bm'[d] = bm[d]
  <2>1. row[d] \notin Deleted
    BY DEF Deleted
  <2>2. ASSUME NEW e \in Docs, PurgeVec(e)
        PROVE  vec'[d] = vec[d] /\ bm'[d] = bm[d]
    <3>1. e # d
      BY <1>0, <2>1, <2>2 DEF PurgeVec, PurgeInv
    <3>2. QED
      BY <1>0, <2>2, <3>1, EmptiedLocal DEF PurgeVec
  <2>3. ASSUME NEW e \in Docs, PurgeBm(e)
        PROVE  vec'[d] = vec[d] /\ bm'[d] = bm[d]
    <3>1. e # d
      BY <1>0, <2>1, <2>3 DEF PurgeBm, PurgeInv
    <3>2. QED
      BY <1>0, <2>3, <3>1, EmptiedLocal DEF PurgeBm
  <2>4. QED
    BY <1>1, <1>2, <2>2, <2>3 DEF Purging, PurgeRows, PurgeOpenStore
<1>3. ASSUME NEW e \in Docs, NEW s \in Slots, JobStep(e, s)
      PROVE  vec'[d] = vec[d] /\ bm'[d] = bm[d]
  <2>1. JobLocal(e, s)
    BY <1>0, <1>3, StepLocal
  <2>2. e # d
    BY <1>0, <2>1 DEF JobLocal, ClaimInv, LiveJobHoldsClaim, Busy, Deleted
  <2>3. QED
    BY <2>1, <2>2 DEF JobLocal
<1>4. ASSUME NEW g \in Gens, CleanGeneration(g)
      PROVE  vec'[d] = vec[d] /\ bm'[d] = bm[d]
  <2>1. active[d] # g
    <3>1. g # 0
      BY IngestionAssumption DEF Gens
    <3>2. QED
      BY <1>0, <1>4, <3>1 DEF CleanGeneration, GenInv, ActiveIsSealed, Staging
  <2>2. d \notin CleanupHits(g)
    BY <2>1 DEF CleanupHits
  <2>3. QED
    BY <1>4, <2>2 DEF CleanGeneration
<1>5. QED
  BY <1>1, <1>2, <1>3, <1>4
  DEF Next, Startup, Upload, Reprocess, ResumeOcr, DeleteRead, ClearRead, Crash,
      Recover, Pause, Resume, vars, idxVars

\* No step changes the stores of a document that is ready and stays ready: no
\* task works on it, no deletion has it on its list, and the start-up cleanup
\* of an interrupted generation never has the data of another to delete.
THEOREM ReadyStable == Spec => ReadyIndexStable
<1>1. IInv /\ [Next]_vars =>
        [\A d \in Docs : row[d] = "ready" /\ row'[d] = "ready" =>
           vec'[d] = vec[d] /\ bm'[d] = bm[d]]_vars
  BY StableStep
<1>2. QED
  BY <1>1, Inductive, PTL DEF Spec, ReadyIndexStable

(***************************************************************************)
(* The document life cycle                                                 *)
(***************************************************************************)

\* The refinement mapping yields phases of the life cycle.
LEMMA PhaseType ==
  ASSUME NEW st \in Settled \cup Busy \cup Absent
  PROVE  PhaseOf(st) \in {"ready", "failed", "waiting", "absent", "pending", "gone"}
BY DEF PhaseOf, Settled, Busy, Absent, Deleted

\* The moves of a row that the life cycle allows, seen as statuses.
Allowed(old, new) ==
  \/ new = old
  \/ old = "unborn" /\ new \in Busy
  \/ old \in Busy /\ new \in Busy \cup Settled
  \/ old \in Settled /\ new \in Busy
  \/ old = "waiting_for_ocr" /\ new = "failed"
  \/ old \in Busy \cup Settled \cup Deleted /\ new \in Deleted

\* The status changes of RowAllowed are moves of the life cycle.
LEMMA AllowedMoves ==
  ASSUME NEW old \in Settled \cup Busy \cup Absent,
         NEW new \in Settled \cup Busy \cup Absent, Allowed(old, new)
  PROVE  \/ PhaseOf(new) = PhaseOf(old)
         \/ <<PhaseOf(old), PhaseOf(new)>> \in Lifecycle!Moves
BY DEF Allowed, PhaseOf, Settled, Busy, Absent, Deleted, Lifecycle!Moves, Lifecycle!Outcome

\* Every step changes each row only in a way the life cycle allows.
LEMMA RowAllowed ==
  ASSUME IInv, [Next]_vars, NEW d \in Docs
  PROVE  Allowed(row[d], row'[d])
<1> USE DEF Allowed
<1>0. TypeOK /\ ClaimInv /\ row[d] \in Settled \cup Busy \cup Absent
  BY DEF IInv, TypeOK
<1>1. CASE row' = row
  BY <1>1
<1>2. ASSUME NEW e \in Docs, Upload(e) \/ Reprocess(e)
      PROVE  Allowed(row[d], row'[d])
  BY <1>0, <1>2 DEF Upload, Reprocess, ClaimGuard, TypeOK, Busy
<1>3. ASSUME NEW lost \in SUBSET Docs, ResumeOcr(lost) \/ Recover(lost)
      PROVE  Allowed(row[d], row'[d])
  BY <1>3 DEF ResumeOcr, Recover, Rescan, Interrupted, Settled, Busy
<1>4. ASSUME PurgeRows
      PROVE  Allowed(row[d], row'[d])
  BY <1>0, <1>4 DEF PurgeRows, Exists, Absent, Deleted
<1>5. ASSUME NEW e \in Docs, NEW s \in Slots, JobStep(e, s)
      PROVE  Allowed(row[d], row'[d])
  <2>1. JobLocal(e, s)
    BY <1>0, <1>5, StepLocal
  <2>2. CASE e # d
    BY <2>1, <2>2 DEF JobLocal
  <2>3. CASE e = d
    <3>1. row[d] \in Busy \cup Deleted
      BY <1>0, <2>1, <2>3 DEF JobLocal, ClaimInv, LiveJobHoldsClaim
    <3>2. QED
      BY <2>1, <2>3, <3>1 DEF JobLocal, Exists, Absent
  <2>4. QED
    BY <2>2, <2>3
<1>6. QED
  BY <1>1, <1>2, <1>3, <1>4, <1>5
  DEF Next, Startup, Purging, PurgeOpenStore, PurgeVec, PurgeBm, DeleteRead,
      ClearRead, Crash, CleanGeneration, Pause, Resume, vars, rowVars

\* The pipeline, with its tasks, stores, crashes and races, shows clients only
\* the life cycle of DocLifecycle.
THEOREM Refines == Spec => ImplementsLifecycle
<1> DEFINE p == [d \in Docs |-> PhaseOf(row[d])]
<1>1. Init => Lifecycle!Init
  <2> SUFFICES ASSUME Init PROVE p = [d \in Docs |-> "absent"]
    BY DEF Lifecycle!Init
  <2>1. \A d \in Docs : row[d] = "unborn"
    BY DEF Init
  <2>2. PhaseOf("unborn") = "absent"
    BY DEF PhaseOf, Deleted, Busy
  <2>3. QED
    BY <2>1, <2>2
<1>2. IInv /\ IInv' /\ [Next]_vars => [Lifecycle!Next]_p
  <2> SUFFICES ASSUME IInv, IInv', [Next]_vars
               PROVE  Lifecycle!Next
    OBVIOUS
  <2>1. \A d \in Docs : /\ row[d] \in Settled \cup Busy \cup Absent
                         /\ row'[d] \in Settled \cup Busy \cup Absent
    BY DEF IInv, TypeOK
  <2>2. p' \in [Docs -> Lifecycle!Outcome \cup {"absent", "pending", "gone"}]
    BY <2>1, PhaseType DEF Lifecycle!Outcome
  <2>3. ASSUME NEW d \in Docs
        PROVE  p'[d] = p[d] \/ <<p[d], p'[d]>> \in Lifecycle!Moves
    BY <2>1, AllowedMoves, RowAllowed
  <2>4. QED
    BY <2>2, <2>3 DEF Lifecycle!Next, Lifecycle!Step
<1>3. QED
  BY <1>1, <1>2, Inductive, PTL DEF Spec, Lifecycle!Spec, ImplementsLifecycle

-----------------------------------------------------------------------------
(***************************************************************************)
(* The two stores: no document is left in processing without a task, a     *)
(* deletion leaves nothing behind, and what is published is complete.      *)
(*                                                                         *)
(* All three rest on the claim above, by which one task works on a         *)
(* document, and on what each step of that task does to the stores         *)
(* (Effect).  StageInv says what the stores hold at each stage, as long as *)
(* the row exists; DeleteInv says who will clean up once it does not.      *)
(***************************************************************************)

\* A pause or a crash that happened was counted.
Counted ==
  /\ paused => used["pause"] > 0
  /\ mode = "cleanup" => used["crash"] > 0

\* A purge request that deletes full text does so for one document.
OneCurrent == purge.pc = "bm" => \E e \in Docs : purge.cur = {e}

\* A deleted document whose vectors are still there has a request that will
\* delete them, or a task that will find its row gone and undo its work.
VecWillGo(d) ==
  \/ vec[d] = {}
  \/ purge.pc \in {"store", "vec", "bm"} /\ d \in purge.todo
  \/ \E s \in Slots :
       job[d][s].pc \in {"writebm", "verify", "commit", "switch", "final", "undovec"}

BmWillGo(d) ==
  \/ bm[d] = {}
  \/ purge.pc \in {"store", "vec", "bm"} /\ d \in purge.todo
  \/ purge.pc = "bm" /\ d \in purge.cur
  \/ \E s \in Slots :
       job[d][s].pc \in {"verify", "commit", "switch", "final", "undovec", "undobm"}

DeleteInv == Undisturbed => \A d \in Docs : row[d] = "gone" => VecWillGo(d) /\ BmWillGo(d)

\* What the stores hold of a document that was not deleted, at each stage of
\* its task.
Written(d, s) == vec[d] = job[d][s].ids \X {job[d][s].gen} /\ bm[d] = job[d][s].ids

StageHolds(d, s) ==
  LET j == job[d][s] IN
  /\ j.pc = "queued" => row[d] = "uploaded"
  /\ j.pc = "delbm" => vec[d] = {}
  /\ j.pc = "writevec" => vec[d] = {} /\ bm[d] = {}
  /\ j.pc = "writebm" => vec[d] = j.ids \X {j.gen} /\ bm[d] = {}
  /\ j.pc \in {"verify", "commit", "switch", "final"} => Written(d, s)
  /\ j.pc \in {"switch", "final"} => gen[j.gen].st = "committed" /\ gen[j.gen].ids = j.ids
  /\ j.pc = "final" => active[d] = j.gen

Filled == {"index", "generation"} \cup (IndexPc \ {"undovec", "undobm", "undogen"})

StageInv == \A d \in Docs, s \in Slots :
  /\ job[d][s].pc \in Filled => job[d][s].ids # {}
  /\ Exists(d) => StageHolds(d, s)

-----------------------------------------------------------------------------
(* What a step of a task does                                                *)

Faulty == used'["fault"] > 0

Quiet(d) == vec'[d] = vec[d] /\ bm'[d] = bm[d]

\* From stage p to stage q with the same generation and chunks.
Moves(d, s, p, q) ==
  /\ job[d][s].pc = p /\ job'[d][s].pc = q
  /\ job'[d][s].gen = job[d][s].gen /\ job'[d][s].ids = job[d][s].ids

Ended(d, s) ==
  /\ job'[d][s].pc = "idle" /\ Quiet(d) /\ row'[d] \notin Busy
  /\ job[d][s].pc \in {"queued", "transient", "permanent", "ocr", "final"}
  /\ row'[d] = "ready" => job[d][s].pc \in {"queued", "final"}
  /\ job[d][s].pc = "final" => Exists(d)

\* Before the stores are touched, or after they were cleaned.
Outside(d, s) ==
  /\ job'[d][s].pc \notin IndexPc \cup {"idle", "queued"} /\ Quiet(d)
  /\ job[d][s].pc \notin IndexPc \ {"delvec", "delbm", "undogen"}
  /\ row'[d] = "ready" => row[d] = "ready"
  /\ job'[d][s].pc \in Filled => job'[d][s].ids # {}

Writes(d, s) ==
  \/ /\ job[d][s].pc = "generation" /\ job'[d][s].pc = "delvec" /\ Quiet(d)
     /\ job'[d][s].ids = job[d][s].ids
  \/ Moves(d, s, "delvec", "delbm") /\ vec'[d] = {} /\ bm'[d] = bm[d]
  \/ Moves(d, s, "delbm", "writevec") /\ vec'[d] = vec[d] /\ bm'[d] = {}
  \/ Moves(d, s, "writevec", "writebm") /\ vec'[d] = Upserted(d, s)[d] /\ bm'[d] = bm[d]
  \/ Moves(d, s, "writebm", "verify") /\ vec'[d] = vec[d] /\ bm'[d] = bm[d] \cup job[d][s].ids
  \/ Moves(d, s, "verify", "commit") /\ Quiet(d)
  \/ Moves(d, s, "commit", "switch") /\ Quiet(d) /\ gen' = Sealed(d, s)
  \/ Moves(d, s, "switch", "final") /\ Quiet(d) /\ gen' = gen
       /\ (Exists(d) => active'[d] = job[d][s].gen)

Undoes(d, s) ==
  \/ /\ \E p \in {"writevec", "writebm", "verify", "commit", "switch", "final"} :
          Moves(d, s, p, "undovec") /\ (p = "writevec" => Faulty)
     /\ job[d][s].pc # "writevec" => vec'[d] = vec[d]
     /\ bm'[d] = bm[d]
  \/ Moves(d, s, "undovec", "undobm") /\ (vec'[d] = {} \/ Faulty) /\ bm'[d] = bm[d]
  \/ Moves(d, s, "undobm", "undogen") /\ vec'[d] = vec[d] /\ (bm'[d] = {} \/ Faulty)

Effect(d, s) ==
  \/ Ended(d, s) \/ Outside(d, s)
  \/ (Writes(d, s) \/ Undoes(d, s)) /\ row'[d] = row[d]

\* The fields of a task that moves to another step.
LEMMA GotoMoves ==
  ASSUME TypeOK, NEW d \in Docs, NEW s \in Slots, NEW p, Goto(d, s, p)
  PROVE  /\ job'[d][s].pc = p
         /\ job'[d][s].gen = job[d][s].gen /\ job'[d][s].ids = job[d][s].ids
<1>1. job \in [Docs -> [Slots -> JobRec]] /\ job[d][s] \in JobRec
  BY DEF TypeOK
<1>2. job'[d][s] = [job[d][s] EXCEPT !.pc = p]
  BY <1>1 DEF Goto
<1> QED BY <1>1, <1>2 DEF JobRec

\* A fault that strikes was counted.
LEMMA FaultShows == TypeOK /\ Spend("fault") => Faulty
BY DEF TypeOK, Spend, Faulty, BudgetKinds

\* A stage that only writes the status moves on, or gives up on a deleted row.
LEMMA AdvanceMoves ==
  ASSUME TypeOK, NEW d \in Docs, NEW s \in Slots, NEW from, NEW st \in Busy, NEW to,
         Advance(d, s, from, st, to)
  PROVE  /\ Moves(d, s, from, to) \/ Moves(d, s, from, "permanent")
         /\ Quiet(d) /\ row'[d] \in Busy \cup {row[d]}
<1>1. job[d][s].pc = from /\ UNCHANGED idxVars
  BY DEF Advance, At
<1>2. CASE Goto(d, s, to) /\ row' = [row EXCEPT ![d] = st]
  BY <1>1, <1>2, GotoMoves DEF Moves, Quiet, idxVars, TypeOK
<1>3. CASE Goto(d, s, "permanent") /\ UNCHANGED row
  BY <1>1, <1>3, GotoMoves DEF Moves, Quiet, idxVars
<1> QED BY <1>2, <1>3 DEF Advance

\* Up to the creation of a generation, and between attempts, the stores are left
\* alone.
LEMMA Early ==
  ASSUME TypeOK, NEW d \in Docs, NEW s \in Slots,
         \/ GuardMiss(d, s) \/ Retry(d, s) \/ Parse(d, s) \/ OcrNotReady(d, s)
         \/ ChunkText(d, s) \/ Embed(d, s) \/ Embedded(d, s)
         \/ (StartIndexing(d, s) /\ job[d][s].ids # {})
         \/ (\E from \in {"parse", "embedding", "generation", "delvec", "delbm"} :
               Raise(d, s, from))
  PROVE  Ended(d, s) \/ Outside(d, s)
<1> USE DEF At
<1>0. job \in [Docs -> [Slots -> JobRec]] /\ job[d][s] \in JobRec
  BY DEF TypeOK
<1>1. CASE GuardMiss(d, s)
  <2>1. job[d][s].pc = "queued" /\ UNCHANGED <<row, vec, bm>>
    BY <1>1 DEF GuardMiss, rowVars, idxVars
  <2>2. CASE Goto(d, s, "parse")
    BY <2>1, <2>2, GotoMoves DEF Outside, Quiet, IndexPc, Filled
  <2>3. CASE ~Exists(d) /\ End(d, s)
    BY <2>1, <2>3, EndLocal, Statuses DEF Ended, Quiet, Exists, Busy, Absent, Deleted
  <2> QED BY <1>1, <2>2, <2>3 DEF GuardMiss
<1>2. CASE Retry(d, s)
  <2>1. /\ job[d][s].pc = "transient" /\ UNCHANGED <<row, vec, bm>>
        /\ job' = [job EXCEPT ![d][s] =
             [NewJob("ingest") EXCEPT !.pc = "parse", !.att = job[d][s].att + 1]]
    BY <1>2 DEF Retry, rowVars, idxVars
  <2>2. job'[d][s].pc = "parse"
    BY <1>0, <2>1 DEF NewJob, IdleJob
  <2> QED BY <2>1, <2>2 DEF Outside, Quiet, IndexPc, Filled
<1>3. CASE Parse(d, s) \/ Embed(d, s)
  <2>1. PICK from \in {"parse", "embed"}, to \in {"chunk", "embedding"} :
          (Moves(d, s, from, to) \/ Moves(d, s, from, "permanent"))
          /\ Quiet(d) /\ row'[d] \in Busy \cup {row[d]}
    BY <1>3, AdvanceMoves DEF Parse, Embed, Busy
  <2> QED BY <2>1 DEF Moves, Outside, IndexPc, Filled, Busy
<1>4. CASE StartIndexing(d, s) /\ job[d][s].ids # {}
  <2>1. (Moves(d, s, "index", "generation") \/ Moves(d, s, "index", "permanent"))
        /\ Quiet(d) /\ row'[d] \in Busy \cup {row[d]}
    BY <1>4, AdvanceMoves DEF StartIndexing, Busy
  <2> QED BY <1>4, <2>1 DEF Moves, Outside, IndexPc, Filled, Busy
<1>5. CASE OcrNotReady(d, s)
  BY <1>5, GotoMoves DEF OcrNotReady, rowVars, idxVars, Outside, Quiet, IndexPc, Filled
<1>6. CASE ChunkText(d, s)
  <2>1. job[d][s].pc = "chunk" /\ UNCHANGED <<vec, bm>>
    BY <1>6 DEF ChunkText, idxVars
  <2>2. job'[d][s].pc \in {"permanent", "embed"} /\ (row'[d] = "chunking" \/ row'[d] = row[d])
    <3>1. CASE Goto(d, s, "permanent") /\ UNCHANGED row
      BY <3>1, GotoMoves
    <3>2. ASSUME NEW n \in 0..MaxChunks, row' = [row EXCEPT ![d] = "chunking"],
                 job' = [job EXCEPT ![d][s].pc = IF n = 0 THEN "permanent" ELSE "embed",
                                    ![d][s].ids = Split(n)]
          PROVE  job'[d][s].pc \in {"permanent", "embed"} /\ row'[d] = "chunking"
      <4>1. job'[d][s] = [job[d][s] EXCEPT !.pc = IF n = 0 THEN "permanent" ELSE "embed",
                                           !.ids = Split(n)]
        BY <1>0, <3>2
      <4>2. row'[d] = "chunking"
        BY <3>2 DEF TypeOK
      <4> QED BY <1>0, <4>1, <4>2 DEF JobRec
    <3> QED BY <1>6, <3>1, <3>2 DEF ChunkText
  <2> QED BY <2>1, <2>2 DEF Outside, Quiet, IndexPc, Filled
<1>7. CASE Embedded(d, s)
  <2>1. PICK n \in 1..MaxChunks :
          job' = [job EXCEPT ![d][s].pc = "index", ![d][s].ids = Split(n)]
    BY <1>7 DEF Embedded
  <2>2. job'[d][s] = [job[d][s] EXCEPT !.pc = "index", !.ids = Split(n)]
    BY <1>0, <2>1
  <2>3. job'[d][s].pc = "index" /\ job'[d][s].ids = Split(n)
    BY <1>0, <2>2 DEF JobRec
  <2>4. 1 \in Split(n)
    BY IngestionAssumption DEF Split
  <2>5. job[d][s].pc = "embedding" /\ UNCHANGED <<row, vec, bm>>
    BY <1>7 DEF Embedded, rowVars, idxVars
  <2> QED BY <2>3, <2>4, <2>5 DEF Outside, Quiet, IndexPc
<1>8. ASSUME NEW from \in {"parse", "embedding", "generation", "delvec", "delbm"},
             Raise(d, s, from)
      PROVE  Outside(d, s)
  <2>1. job[d][s].pc = from /\ job'[d][s].pc = "transient" /\ UNCHANGED <<row, vec, bm>>
    BY <1>8, GotoMoves DEF Raise, rowVars, idxVars
  <2> QED BY <2>1 DEF Outside, Quiet, IndexPc, Filled
<1> QED BY <1>1, <1>2, <1>3, <1>4, <1>5, <1>6, <1>7, <1>8

\* A task ends after its document has settled.
LEMMA Endings ==
  ASSUME TypeOK, NEW d \in Docs, NEW s \in Slots,
         \/ GuardHit(d, s) \/ GiveUp(d, s) \/ MarkWaiting(d, s)
         \/ (Finalize(d, s) /\ End(d, s) /\ Exists(d))
  PROVE  Ended(d, s)
<1> USE DEF At
<1>1. End(d, s) /\ UNCHANGED <<vec, bm>>
  BY DEF GuardHit, GiveUp, MarkWaiting, Finalize, idxVars
<1>2. job'[d][s].pc = "idle" /\ Quiet(d)
  BY <1>1, EndLocal DEF Quiet
<1>3. CASE GuardHit(d, s)
  <2>1. job[d][s].pc = "queued" /\ row'[d] = "ready"
    BY <1>3 DEF GuardHit, TypeOK
  <2> QED BY <1>2, <2>1 DEF Ended, Busy
<1>4. CASE GiveUp(d, s)
  <2>1. job[d][s].pc \in {"transient", "permanent"} /\ row' = SetStatus(d, "failed")
    BY <1>4 DEF GiveUp
  <2>2. row'[d] = "failed" \/ row'[d] \in Absent
    BY <2>1 DEF SetStatus, TypeOK, Exists
  <2> QED BY <1>2, <2>1, <2>2 DEF Ended, Busy, Absent, Deleted
<1>5. CASE MarkWaiting(d, s)
  <2>1. job[d][s].pc = "ocr" /\ row' = SetStatus(d, "waiting_for_ocr")
    BY <1>5 DEF MarkWaiting
  <2>2. row'[d] = "waiting_for_ocr" \/ row'[d] \in Absent
    BY <2>1 DEF SetStatus, TypeOK, Exists
  <2> QED BY <1>2, <2>1, <2>2 DEF Ended, Busy, Absent, Deleted
<1>6. CASE Finalize(d, s) /\ End(d, s) /\ Exists(d)
  <2>1. job[d][s].pc = "final"
    BY <1>6 DEF Finalize
  <2>2. ~Goto(d, s, "undovec")
    BY <1>2, GotoMoves
  <2>3. row'[d] = "ready"
    BY <1>6, <2>2 DEF Finalize, TypeOK
  <2> QED BY <1>2, <1>6, <2>1, <2>3 DEF Ended, Busy
<1> QED BY <1>3, <1>4, <1>5, <1>6

\* Each stage of indexing writes one store, or is undone.
LEMMA Stages ==
  ASSUME TypeOK, GenOwned, NEW d \in Docs, NEW s \in Slots,
         \/ CreateGeneration(d, s) \/ DeleteOldVectors(d, s) \/ DeleteOldBm25(d, s)
         \/ WriteVectors(d, s) \/ WriteBm25(d, s) \/ Verify(d, s)
         \/ CommitGeneration(d, s) \/ SwitchActive(d, s)
         \/ (Finalize(d, s) /\ Goto(d, s, "undovec"))
         \/ UndoVectors(d, s) \/ UndoBm25(d, s)
  PROVE  (Writes(d, s) \/ Undoes(d, s)) /\ row'[d] = row[d]
<1> USE DEF At
<1>0. job \in [Docs -> [Slots -> JobRec]] /\ job[d][s] \in JobRec
  BY DEF TypeOK
<1>1. CASE CreateGeneration(d, s)
  <2>1. job' = [job EXCEPT ![d][s].pc = "delvec", ![d][s].gen = nextGen]
        /\ job[d][s].pc = "generation" /\ UNCHANGED <<row, vec, bm>>
    BY <1>1 DEF CreateGeneration, rowVars, idxVars
  <2>2. job'[d][s] = [job[d][s] EXCEPT !.pc = "delvec", !.gen = nextGen]
    BY <1>0, <2>1
  <2>3. job'[d][s].pc = "delvec" /\ job'[d][s].ids = job[d][s].ids
    BY <1>0, <2>2 DEF JobRec
  <2> QED BY <2>1, <2>3 DEF Writes, Quiet
<1>2. CASE DeleteOldVectors(d, s)
  <2>1. Moves(d, s, "delvec", "delbm") /\ row' = row /\ bm' = bm /\ vec' = Emptied(vec, d)
    BY <1>2, GotoMoves DEF DeleteOldVectors, rowVars, Moves
  <2>2. vec'[d] = {}
    BY <2>1 DEF Emptied, TypeOK
  <2> QED BY <2>1, <2>2 DEF Writes
<1>3. CASE DeleteOldBm25(d, s)
  <2>1. Moves(d, s, "delbm", "writevec") /\ row' = row /\ vec' = vec /\ bm' = Emptied(bm, d)
    BY <1>3, GotoMoves DEF DeleteOldBm25, rowVars, Moves
  <2>2. bm'[d] = {}
    BY <2>1 DEF Emptied, TypeOK
  <2> QED BY <2>1, <2>2 DEF Writes
<1>4. CASE WriteVectors(d, s)
  <2>1. job[d][s].pc = "writevec" /\ row' = row /\ bm' = bm
    BY <1>4 DEF WriteVectors, rowVars
  <2>2. CASE vec' = Upserted(d, s) /\ Goto(d, s, "writebm")
    BY <2>1, <2>2, GotoMoves DEF Writes, Moves
  <2>3. CASE Goto(d, s, "undovec") /\ Spend("fault")
    <3>1. Moves(d, s, "writevec", "undovec") /\ Faulty
      BY <2>1, <2>3, GotoMoves, FaultShows DEF Moves
    <3> QED BY <2>1, <3>1 DEF Undoes
  <2> QED BY <1>4, <2>2, <2>3 DEF WriteVectors
<1>5. CASE WriteBm25(d, s)
  <2>1. job[d][s].pc = "writebm" /\ row' = row /\ vec' = vec
    BY <1>5 DEF WriteBm25, rowVars
  <2>2. CASE bm' = [bm EXCEPT ![d] = @ \cup job[d][s].ids] /\ Goto(d, s, "verify")
    <3>1. Moves(d, s, "writebm", "verify")
      BY <2>1, <2>2, GotoMoves DEF Moves
    <3>2. bm'[d] = bm[d] \cup job[d][s].ids
      BY <2>2 DEF TypeOK
    <3> QED BY <2>1, <3>1, <3>2 DEF Writes
  <2>3. CASE Goto(d, s, "undovec") /\ UNCHANGED bm
    <3>1. Moves(d, s, "writebm", "undovec")
      BY <2>1, <2>3, GotoMoves DEF Moves
    <3> QED BY <2>1, <2>3, <3>1 DEF Undoes
  <2> QED BY <1>5, <2>2, <2>3 DEF WriteBm25
<1>6. CASE Verify(d, s)
  <2>1. job[d][s].pc = "verify" /\ row' = row /\ vec' = vec /\ bm' = bm
    BY <1>6 DEF Verify, rowVars, idxVars
  <2>2. Goto(d, s, "commit") \/ Goto(d, s, "undovec")
    BY <1>6 DEF Verify
  <2>3. Moves(d, s, "verify", "commit") \/ Moves(d, s, "verify", "undovec")
    BY <2>1, <2>2, GotoMoves DEF Moves
  <2> QED BY <2>1, <2>3 DEF Writes, Undoes, Quiet
<1>7. CASE CommitGeneration(d, s)
  <2>1. job[d][s].pc = "commit" /\ row' = row /\ vec' = vec /\ bm' = bm
    BY <1>7 DEF CommitGeneration, rowVars, idxVars
  <2>2. (gen' = Sealed(d, s) /\ Goto(d, s, "switch")) \/ Goto(d, s, "undovec")
    BY <1>7 DEF CommitGeneration
  <2>3. (gen' = Sealed(d, s) /\ Moves(d, s, "commit", "switch")) \/ Moves(d, s, "commit", "undovec")
    BY <2>1, <2>2, GotoMoves DEF Moves
  <2> QED BY <2>1, <2>3 DEF Writes, Undoes, Quiet
<1>8. CASE SwitchActive(d, s)
  <2>1. job[d][s].pc = "switch" /\ row' = row /\ vec' = vec /\ bm' = bm /\ gen' = gen
    BY <1>8 DEF SwitchActive, genVars, idxVars
  <2>2. \/ /\ active' = IF Exists(d) THEN [active EXCEPT ![d] = job[d][s].gen] ELSE active
           /\ Goto(d, s, "final")
        \/ Goto(d, s, "undovec")
    BY <1>8 DEF SwitchActive
  <2>3. \/ (Exists(d) => active'[d] = job[d][s].gen) /\ Moves(d, s, "switch", "final")
        \/ Moves(d, s, "switch", "undovec")
    BY <2>1, <2>2, GotoMoves DEF Moves, TypeOK
  <2> QED BY <2>1, <2>3 DEF Writes, Undoes, Quiet
<1>9. CASE Finalize(d, s) /\ Goto(d, s, "undovec")
  <2>1. job[d][s].pc = "final" /\ vec' = vec /\ bm' = bm
    BY <1>9 DEF Finalize, idxVars
  <2>2. Moves(d, s, "final", "undovec")
    BY <1>9, <2>1, GotoMoves DEF Moves
  <2>3. ~End(d, s)
    BY <2>2, EndLocal DEF Moves
  <2>4. row' = row
    BY <1>9, <2>3 DEF Finalize
  <2> QED BY <2>1, <2>2, <2>4 DEF Undoes
<1>10. CASE UndoVectors(d, s)
  <2>1. Moves(d, s, "undovec", "undobm") /\ row' = row /\ bm' = bm
    BY <1>10, GotoMoves DEF UndoVectors, rowVars, Moves
  <2>2. vec'[d] = {} \/ Faulty
    BY <1>10, FaultShows DEF UndoVectors, Emptied, TypeOK
  <2> QED BY <2>1, <2>2 DEF Undoes
<1>11. CASE UndoBm25(d, s)
  <2>1. Moves(d, s, "undobm", "undogen") /\ row' = row /\ vec' = vec
    BY <1>11, GotoMoves DEF UndoBm25, rowVars, Moves
  <2>2. bm'[d] = {} \/ Faulty
    BY <1>11, FaultShows DEF UndoBm25, Emptied, TypeOK
  <2> QED BY <2>1, <2>2 DEF Undoes
<1> QED BY <1>1, <1>2, <1>3, <1>4, <1>5, <1>6, <1>7, <1>8, <1>9, <1>10, <1>11

\* Every step of a task is one of these.
LEMMA StepEffect ==
  ASSUME TypeOK, GenOwned, NEW d \in Docs, NEW s \in Slots, JobStep(d, s),
         job[d][s].pc \in Filled => job[d][s].ids # {}
  PROVE  Effect(d, s)
<1> USE DEF At
<1>1. CASE FailGeneration(d, s)
  <2>1. job[d][s].pc = "undogen" /\ UNCHANGED <<row, vec, bm>> /\ job'[d][s].pc = "transient"
    BY <1>1, GotoMoves DEF FailGeneration, rowVars, idxVars
  <2> QED BY <2>1 DEF Effect, Outside, Quiet, IndexPc, Filled
<1>2. CASE StartIndexing(d, s)
  <2>1. job[d][s].ids # {}
    BY <1>2 DEF StartIndexing, Advance, Filled
  <2> QED BY <1>2, <2>1, Early DEF Effect
<1>3. CASE Finalize(d, s)
  <2>1. (End(d, s) /\ Exists(d)) \/ Goto(d, s, "undovec")
    BY <1>3 DEF Finalize
  <2> QED BY <1>3, <2>1, Endings, Stages DEF Effect
<1>4. CASE GuardHit(d, s) \/ GiveUp(d, s) \/ MarkWaiting(d, s)
  BY <1>4, Endings DEF Effect
<1>5. CASE \/ GuardMiss(d, s) \/ Retry(d, s) \/ Parse(d, s) \/ OcrNotReady(d, s)
           \/ ChunkText(d, s) \/ Embed(d, s) \/ Embedded(d, s)
           \/ (\E from \in {"parse", "embedding", "generation", "delvec", "delbm"} :
                 Raise(d, s, from))
  BY <1>5, Early DEF Effect
<1>6. CASE \/ CreateGeneration(d, s) \/ DeleteOldVectors(d, s) \/ DeleteOldBm25(d, s)
           \/ WriteVectors(d, s) \/ WriteBm25(d, s) \/ Verify(d, s)
           \/ CommitGeneration(d, s) \/ SwitchActive(d, s)
           \/ UndoVectors(d, s) \/ UndoBm25(d, s)
  BY <1>6, Stages DEF Effect
<1> QED BY <1>1, <1>2, <1>3, <1>4, <1>5, <1>6 DEF JobStep, ProcessDocument

-----------------------------------------------------------------------------
(* What the other steps do                                                   *)

\* What was spent stays spent.
LEMMA UsedGrows ==
  ASSUME TypeOK, [Next]_vars
  PROVE  \A k \in BudgetKinds : used[k] <= used'[k]
<1>0. used \in [BudgetKinds -> Nat]
  BY DEF TypeOK
<1>1. ASSUME NEW k \in BudgetKinds, Spend(k)
      PROVE  \A b \in BudgetKinds : used[b] <= used'[b]
  BY <1>0, <1>1 DEF Spend
<1>2. ASSUME UNCHANGED used
      PROVE  \A b \in BudgetKinds : used[b] <= used'[b]
  BY <1>0, <1>2
<1>3. ASSUME NEW d \in Docs, NEW s \in Slots, JobStep(d, s)
      PROVE  UNCHANGED used \/ Spend("fault")
  BY <1>3 DEF JobStep, GuardHit, GuardMiss, Retry, GiveUp, ProcessDocument, Parse, OcrNotReady,
              MarkWaiting, ChunkText, Embed, Embedded, StartIndexing, Advance, CreateGeneration,
              DeleteOldVectors, DeleteOldBm25, WriteVectors, WriteBm25, Verify,
              CommitGeneration, SwitchActive, Finalize, UndoVectors, UndoBm25, FailGeneration,
              Raise
<1>4. \/ UNCHANGED used \/ \E k \in BudgetKinds : Spend(k)
  BY <1>3 DEF Next, Startup, Upload, Reprocess, DeleteRead, ResumeOcr, ClearRead, Purging,
              PurgeRows, PurgeOpenStore, PurgeVec, PurgeBm, Crash, CleanGeneration, Recover,
              Pause, Resume, vars, BudgetKinds
<1> QED BY <1>1, <1>2, <1>4

\* A started task takes a slot that was empty, unless the manager is paused.
LEMMA LaunchEffect ==
  ASSUME TypeOK, NEW S \in SUBSET Docs, NEW kind \in {"ingest", "reprocess"}, Launch(S, kind)
  PROVE  /\ \A d \in Docs \ S : job'[d] = job[d]
         /\ \A d \in S, s \in Slots :
              job'[d][s] = job[d][s] \/ (~Live(d, s) /\ job'[d][s] = NewJob(kind))
         /\ ~paused => \A d \in S : \E s \in Slots : Live(d, s)'
<1>1. ASSUME NEW d \in S
      PROVE  FreeSlot(d) \in Slots /\ ~Live(d, FreeSlot(d))
  BY DEF Launch, CanLaunch, FreeSlot, Live
<1>2. ASSUME NEW d \in S
      PROVE  /\ job[d] \in [Slots -> JobRec]
             /\ job'[d] = job[d] \/ job'[d] = [job[d] EXCEPT ![FreeSlot(d)] = NewJob(kind)]
             /\ ~paused => job'[d] = [job[d] EXCEPT ![FreeSlot(d)] = NewJob(kind)]
  BY DEF Launch, TypeOK
<1>3. NewJob(kind).pc # "idle"
  BY DEF NewJob, IdleJob
<1>4. \A d \in Docs \ S : job'[d] = job[d]
  BY DEF Launch
<1>5. ASSUME NEW d \in S, NEW s \in Slots
      PROVE  job'[d][s] = job[d][s] \/ (~Live(d, s) /\ job'[d][s] = NewJob(kind))
  BY <1>1, <1>2
<1>6. ASSUME ~paused, NEW d \in S
      PROVE  \E s \in Slots : Live(d, s)'
  <2>1. job'[d][FreeSlot(d)] = NewJob(kind)
    BY <1>1, <1>2, <1>6
  <2> QED BY <1>1, <1>3, <2>1 DEF Live
<1> QED BY <1>4, <1>5, <1>6

\* Upload, reprocess, the end of the wait for OCR and the rescan at start-up put
\* documents without a task back to work.
Starts(S, kind) ==
  /\ Launch(S, kind) /\ UNCHANGED <<active, genVars, idxVars, purge, paused>>
  /\ \A d \in S : row'[d] = "uploaded" /\ row[d] # "gone" /\ \A s \in Slots : ~Live(d, s)
  /\ \A d \in Docs \ S :
       \/ row'[d] = row[d]
       \/ row'[d] = "failed" /\ row[d] # "gone" /\ \A s \in Slots : ~Live(d, s)
  /\ mode = "up" \/ \A d \in Docs : row[d] \in Busy => d \in S \/ row'[d] = "failed"

Starting ==
  \/ \E d \in Docs : Upload(d) \/ Reprocess(d)
  \/ \E lost \in SUBSET Docs : ResumeOcr(lost) \/ Recover(lost)

\* Each of the four finds the documents it takes without a task.
LEMMA StartingStarts ==
  ASSUME TypeOK, ClaimInv, Starting
  PROVE  \E S \in SUBSET Docs, kind \in {"ingest", "reprocess"} : Starts(S, kind)
<1>0. \A d \in Docs : row[d] \in Settled \cup {"unborn"} => \A s \in Slots : ~Live(d, s)
  BY DEF ClaimInv, LiveJobHoldsClaim, Settled, Busy, Deleted
<1>1. ASSUME NEW d \in Docs, Upload(d)
      PROVE  Starts({d}, "ingest")
  BY <1>0, <1>1 DEF Upload, Starts, TypeOK, ctlVars
<1>2. ASSUME NEW d \in Docs, Reprocess(d)
      PROVE  Starts({d}, "reprocess")
  BY <1>0, <1>2 DEF Reprocess, ClaimGuard, Starts, TypeOK, ctlVars, Settled
<1>3. ASSUME NEW lost \in SUBSET Docs, ResumeOcr(lost)
      PROVE  \E S \in SUBSET Docs : Starts(S, "ingest")
  <2> DEFINE waiting == {d \in Docs : row[d] = "waiting_for_ocr"}
  <2>1. \A d \in waiting : row[d] # "gone" /\ \A s \in Slots : ~Live(d, s)
    BY <1>0 DEF Settled
  <2>2. lost \subseteq waiting /\ mode = "up" /\ Rescan(waiting, lost)
        /\ UNCHANGED <<active, genVars, idxVars, purge, paused>>
    BY <1>3 DEF ResumeOcr, ctlVars
  <2>3. Starts(waiting \ lost, "ingest")
    BY <2>1, <2>2 DEF Starts, Rescan
  <2> QED BY <2>3
<1>4. ASSUME NEW lost \in SUBSET Docs, Recover(lost)
      PROVE  \E S \in SUBSET Docs : Starts(S, "ingest")
  <2>1. \A d \in Docs, s \in Slots : ~Live(d, s)
    BY <1>4 DEF Recover, ClaimInv, QuietStartup
  <2>2. \A d \in Interrupted : row[d] # "gone"
    BY DEF Interrupted, Busy
  <2>3. lost \subseteq Interrupted /\ Rescan(Interrupted, lost)
        /\ UNCHANGED <<active, genVars, idxVars, purge, paused>>
    BY <1>4 DEF Recover
  <2>4. Starts(Interrupted \ lost, "ingest")
    BY <2>1, <2>2, <2>3 DEF Starts, Rescan, Interrupted
  <2>5. Interrupted \ lost \in SUBSET Docs
    BY DEF Interrupted
  <2> QED BY <2>4, <2>5
<1> QED BY <1>1, <1>2, <1>3, <1>4 DEF Starting

\* A task writes no generation record but its own.
LEMMA OwnRecord ==
  ASSUME TypeOK, NEW d \in Docs, NEW s \in Slots, JobStep(d, s), NEW h \in Gens,
         gen'[h] # gen[h]
  PROVE  h = nextGen \/ (job[d][s].pc \in IndexPc /\ h = job[d][s].gen)
<1>0. gen \in [Gens -> GenRec]
  BY DEF TypeOK
<1>1. CASE UNCHANGED gen
  BY <1>1
<1>2. CASE CreateGeneration(d, s)
  BY <1>0, <1>2 DEF CreateGeneration
<1>3. ASSUME job[d][s].pc \in IndexPc, NEW st, Stage(d, s, st) \/ gen' = Sealed(d, s)
      PROVE  h = job[d][s].gen
  BY <1>0, <1>3 DEF Stage, Sealed
<1>4. \/ UNCHANGED gen \/ CreateGeneration(d, s)
      \/ job[d][s].pc \in IndexPc /\ (gen' = Sealed(d, s) \/ \E st \in GenStatus : Stage(d, s, st))
  BY DEF JobStep, GuardHit, GuardMiss, Retry, GiveUp, ProcessDocument, Parse, OcrNotReady,
         MarkWaiting, ChunkText, Embed, Embedded, StartIndexing, Advance, DeleteOldVectors,
         DeleteOldBm25, WriteVectors, WriteBm25, Verify, CommitGeneration, SwitchActive,
         Finalize, UndoVectors, UndoBm25, FailGeneration, Raise, genVars, At, IndexPc,
         GenStatus, Staging
<1> QED BY <1>1, <1>2, <1>3, <1>4

\* The steps that are neither a task's nor start one: nothing but the request
\* being read, all tasks lost, or nothing of the documents touched.
Still == UNCHANGED <<row, active, gen, vec, bm, job, purge, mode>> /\ (paused' => paused)
Halt == Crash \/ Pause
Asking == ClearRead \/ \E d \in Docs : DeleteRead(d)

\* These are all the steps there are.
LEMMA Kinds ==
  ASSUME [Next]_vars
  PROVE  \/ \E d \in Docs, s \in Slots : JobStep(d, s)
         \/ Starting \/ Purging \/ Asking \/ Halt \/ Still
         \/ \E g \in Gens : CleanGeneration(g)
BY DEF Next, Startup, Starting, Asking, Halt, Still, Resume, vars, rowVars, genVars, idxVars

-----------------------------------------------------------------------------
(* No document is left in processing without a task                          *)

CountInv == Counted /\ OneCurrent

\* Pauses and crashes are counted, and a request purges one document at a time.
LEMMA CountStep == IInv /\ CountInv /\ [Next]_vars => CountInv'
<1> SUFFICES ASSUME IInv, CountInv, [Next]_vars PROVE CountInv'
  OBVIOUS
<1>0. TypeOK /\ used \in [BudgetKinds -> Nat] /\ used' \in [BudgetKinds -> Nat]
      /\ purge \in PurgeRec
  BY NextIInv DEF IInv, TypeOK
<1>1. ASSUME NEW k \in BudgetKinds, used[k] > 0
      PROVE  used'[k] > 0
  BY <1>0, <1>1, UsedGrows
<1>2. Counted'
  <2>1. CASE Crash
    BY <1>0, <2>1 DEF Crash, Spend, Counted, BudgetKinds
  <2>2. CASE Pause
    BY <1>0, <2>2 DEF Pause, Spend, Counted, BudgetKinds
  <2>3. CASE (paused' => paused) /\ (mode' = "cleanup" => mode = "cleanup")
    BY <1>1, <2>3 DEF CountInv, Counted, BudgetKinds
  <2>4. ASSUME NEW d \in Docs, NEW s \in Slots, JobStep(d, s)
        PROVE  UNCHANGED <<paused, mode>>
    BY <1>0, <2>4, StepLocal DEF JobLocal
  <2>5. Starting => paused' = paused /\ (mode' = mode \/ mode' = "up")
    BY DEF Starting, Upload, Reprocess, ResumeOcr, Recover, ctlVars
  <2>6. Purging \/ Asking => UNCHANGED <<paused, mode>>
    BY DEF Purging, PurgeRows, PurgeOpenStore, PurgeVec, PurgeBm, Asking, ClearRead, DeleteRead
  <2>7. (\E g \in Gens : CleanGeneration(g)) => UNCHANGED <<paused, mode>>
    BY DEF CleanGeneration, ctlVars
  <2> QED BY <2>1, <2>2, <2>3, <2>4, <2>5, <2>6, <2>7, Kinds DEF Halt, Still
<1>3. OneCurrent'
  <2>1. ASSUME NEW d \in Docs, PurgeVec(d)
        PROVE  purge'.cur = {d}
    BY <1>0, <2>1 DEF PurgeVec, PurgeRec
  <2>2. ASSUME NEW d \in Docs, PurgeBm(d)
        PROVE  purge'.pc # "bm"
    BY <1>0, <2>2 DEF PurgeBm, PurgeRec, NoPurge
  <2>3. CASE PurgeRows \/ PurgeOpenStore \/ Asking \/ Crash
    <3>1. CASE PurgeRows \/ PurgeOpenStore
      BY <1>0, <3>1 DEF PurgeRows, PurgeOpenStore, PurgeRec, NoPurge, OneCurrent
    <3>2. CASE Asking
      BY <3>2 DEF Asking, ClearRead, DeleteRead, NoPurge, OneCurrent
    <3>3. CASE Crash
      BY <3>3 DEF Crash, NoPurge, OneCurrent
    <3> QED BY <2>3, <3>1, <3>2, <3>3
  <2>4. CASE UNCHANGED purge
    BY <2>4 DEF CountInv, OneCurrent
  <2>5. ASSUME NEW d \in Docs, NEW s \in Slots, JobStep(d, s)
        PROVE  UNCHANGED purge
    BY <1>0, <2>5, StepLocal DEF JobLocal
  <2>6. CASE Starting
    BY <2>4, <2>6 DEF Starting, Upload, Reprocess, ResumeOcr, Recover, ctlVars
  <2>7. ASSUME NEW g \in Gens, CleanGeneration(g)
        PROVE  UNCHANGED purge
    BY <2>7 DEF CleanGeneration, ctlVars
  <2>8. Pause => UNCHANGED purge
    BY DEF Pause
  <2> QED
    BY <2>1, <2>2, <2>3, <2>4, <2>5, <2>6, <2>7, <2>8, Kinds
    DEF Purging, OneCurrent, Still, Halt
<1> QED BY <1>2, <1>3 DEF CountInv

\* The step that ends a task settles its document, and every restart starts one.
LEMMA BusyStep ==
  ASSUME IInv, CountInv, StageInv, BusyHasJob, [Next]_vars
  PROVE  BusyHasJob'
<1> SUFFICES ASSUME mode' = "up", used'["pause"] = 0, NEW d \in Docs, row'[d] \in Busy
             PROVE  \E s \in Slots : Live(d, s)'
  BY DEF BusyHasJob
<1>0. TypeOK /\ ClaimInv /\ GenInv /\ PurgeInv
  BY DEF IInv
<1>1. used["pause"] = 0 /\ ~paused
  BY <1>0, UsedGrows DEF TypeOK, BudgetKinds, CountInv, Counted
<1>2. ASSUME mode = "up", row[d] \in Busy
      PROVE  \E s \in Slots : Live(d, s)
  BY <1>1, <1>2 DEF BusyHasJob
<1>3. ASSUME NEW e \in Docs, NEW s \in Slots, JobStep(e, s)
      PROVE  \E t \in Slots : Live(d, t)'
  <2>1. JobLocal(e, s)
    BY <1>0, <1>3, StepLocal
  <2>2. CASE d # e
    <3>1. row'[d] = row[d] /\ \A t \in Slots : job'[d][t] = job[d][t]
      BY <2>1, <2>2 DEF JobLocal
    <3> QED BY <1>2, <2>1, <3>1 DEF JobLocal, Live
  <2>3. CASE d = e
    <3>1. Effect(d, s)
      BY <1>0, <1>3, <2>3, StepEffect DEF GenInv, StageInv
    <3>2. job'[d][s].pc # "idle"
      BY <3>1 DEF Effect, Ended, Outside, Writes, Undoes, Moves
    <3> QED BY <3>2 DEF Live
  <2> QED BY <2>2, <2>3
<1>4. CASE Starting
  <2>1. PICK S \in SUBSET Docs, kind \in {"ingest", "reprocess"} : Starts(S, kind)
    BY <1>0, <1>4, StartingStarts
  <2>2. Launch(S, kind)
    BY <2>1 DEF Starts
  <2>3. CASE d \in S
    BY <1>0, <1>1, <2>2, <2>3, LaunchEffect
  <2>4. CASE d \notin S
    <3>1. row'[d] # "failed"
      BY DEF Busy
    <3>2. row'[d] = row[d] /\ mode = "up"
      BY <2>1, <2>4, <3>1 DEF Starts, TypeOK
    <3>3. job'[d] = job[d]
      BY <1>0, <2>2, <2>4, LaunchEffect
    <3> QED BY <1>2, <3>2, <3>3 DEF Live
  <2> QED BY <2>3, <2>4
<1>5. CASE Purging \/ Asking
  <2>1. UNCHANGED <<job, mode>>
    BY <1>5 DEF Purging, PurgeRows, PurgeOpenStore, PurgeVec, PurgeBm, Asking, ClearRead, DeleteRead
  <2>2. row'[d] = row[d] \/ row'[d] \in Deleted
    BY <1>5 DEF Purging, PurgeRows, PurgeOpenStore, PurgeVec, PurgeBm, Asking, ClearRead,
                DeleteRead, Deleted, rowVars
  <2>3. row'[d] \notin Deleted
    BY DEF Busy, Deleted
  <2> QED BY <1>2, <2>1, <2>2, <2>3 DEF Live
<1>6. CASE Halt
  <2>1. ~Crash
    BY DEF Crash
  <2>2. ~Pause
    BY <1>0 DEF Pause, Spend, TypeOK, BudgetKinds
  <2> QED BY <1>6, <2>1, <2>2 DEF Halt
<1>7. CASE Still
  BY <1>2, <1>7 DEF Still, Live
<1>8. ASSUME NEW g \in Gens, CleanGeneration(g)
      PROVE  FALSE
  BY <1>8 DEF CleanGeneration, ctlVars
<1> QED BY <1>3, <1>4, <1>5, <1>6, <1>7, <1>8, Kinds

-----------------------------------------------------------------------------
(* A deletion leaves nothing behind                                          *)

\* A task that meets the deletion of its document leaves to itself what the
\* request will not clean.
LEMMA DeleteTask ==
  ASSUME TypeOK, OneJobPerDocument, NEW d \in Docs, NEW s \in Slots,
         JobLocal(d, s), Effect(d, s), ~Faulty, ~Exists(d), VecWillGo(d), BmWillGo(d)
  PROVE  (VecWillGo(d) /\ BmWillGo(d))'
<1>0. /\ \A t \in Slots : t # s => job[d][t].pc = "idle"
      /\ purge' = purge
  BY DEF OneJobPerDocument, JobLocal, Live
<1> DEFINE InVec(p) == p \in {"writebm", "verify", "commit", "switch", "final", "undovec"}
           InBm(p)  == p \in {"verify", "commit", "switch", "final", "undovec", "undobm"}
<1>1. ASSUME vec'[d] = {} \/ InVec(job'[d][s].pc) \/ (vec'[d] = vec[d] /\ ~InVec(job[d][s].pc))
      PROVE  VecWillGo(d)'
  BY <1>0, <1>1 DEF VecWillGo
<1>2. ASSUME bm'[d] = {} \/ InBm(job'[d][s].pc) \/ (bm'[d] = bm[d] /\ ~InBm(job[d][s].pc))
      PROVE  BmWillGo(d)'
  BY <1>0, <1>2 DEF BmWillGo
<1>3. CASE Ended(d, s)
  BY <1>1, <1>2, <1>3 DEF Ended, Quiet
<1>4. CASE Outside(d, s)
  BY <1>1, <1>2, <1>4 DEF Outside, Quiet, IndexPc
<1>5. CASE Writes(d, s)
  BY <1>1, <1>2, <1>5 DEF Writes, Moves, Quiet
<1>6. CASE Undoes(d, s)
  BY <1>1, <1>2, <1>6 DEF Undoes, Moves
<1> QED BY <1>3, <1>4, <1>5, <1>6 DEF Effect

\* Every step keeps the promise that a deleted document's data will go.
LEMMA DeleteStep ==
  ASSUME IInv, CountInv, StageInv, DeleteInv, [Next]_vars
  PROVE  DeleteInv'
<1> SUFFICES ASSUME Undisturbed', NEW d \in Docs, row'[d] = "gone"
             PROVE  (VecWillGo(d) /\ BmWillGo(d))'
  BY DEF DeleteInv
<1>0. TypeOK /\ ClaimInv /\ GenInv /\ PurgeInv /\ TypeOK'
  BY NextIInv DEF IInv
<1>1. /\ \A k \in {"fault", "crash", "pause"} : used[k] = 0 /\ used'[k] = 0
      /\ Undisturbed /\ ~Faulty /\ mode = "up"
  <2>1. /\ used["fault"] \in Nat /\ used["crash"] \in Nat /\ used["pause"] \in Nat
        /\ used'["fault"] \in Nat /\ used'["crash"] \in Nat /\ used'["pause"] \in Nat
    BY <1>0 DEF TypeOK, BudgetKinds
  <2>2. used'["fault"] = 0 /\ used'["crash"] = 0 /\ used'["pause"] = 0
    BY <2>1 DEF Undisturbed
  <2>3. used["fault"] <= 0 /\ used["crash"] <= 0 /\ used["pause"] <= 0
    BY <1>0, <2>2, UsedGrows DEF BudgetKinds
  <2>4. used["fault"] = 0 /\ used["crash"] = 0 /\ used["pause"] = 0
    BY <2>1, <2>3
  <2>5. mode = "up"
    BY <1>0, <2>4 DEF CountInv, Counted, TypeOK
  <2> QED BY <2>2, <2>4, <2>5 DEF Undisturbed, Faulty
<1>2. row[d] = "gone" => VecWillGo(d) /\ BmWillGo(d)
  BY <1>1 DEF DeleteInv
<1>3. ASSUME UNCHANGED <<vec, bm, purge>>, job'[d] = job[d], row[d] = "gone"
      PROVE  (VecWillGo(d) /\ BmWillGo(d))'
  BY <1>2, <1>3 DEF VecWillGo, BmWillGo
<1>4. ~Spend("fault") /\ ~Halt
  BY <1>0, <1>1 DEF Spend, Halt, Crash, Pause, TypeOK, BudgetKinds
<1>5. ASSUME NEW e \in Docs, NEW s \in Slots, JobStep(e, s)
      PROVE  (VecWillGo(d) /\ BmWillGo(d))'
  <2>1. JobLocal(e, s)
    BY <1>0, <1>5, StepLocal
  <2>2. row[d] = "gone"
    BY <2>1 DEF JobLocal, Busy, Settled
  <2>3. CASE d # e
    <3>1. /\ vec'[d] = vec[d] /\ bm'[d] = bm[d] /\ purge' = purge
          /\ \A t \in Slots : job'[d][t] = job[d][t]
      BY <2>1, <2>3 DEF JobLocal
    <3> QED BY <1>2, <2>2, <3>1 DEF VecWillGo, BmWillGo
  <2>4. CASE d = e
    <3>1. Effect(d, s)
      BY <1>0, <1>5, <2>4, StepEffect DEF GenInv, StageInv
    <3>2. ~Exists(d)
      BY <2>2 DEF Exists, Absent, Deleted
    <3> QED BY <1>0, <1>1, <1>2, <2>1, <2>2, <2>4, <3>1, <3>2, DeleteTask DEF ClaimInv
  <2> QED BY <2>3, <2>4
<1>6. CASE Starting
  <2>1. PICK S \in SUBSET Docs, kind \in {"ingest", "reprocess"} : Starts(S, kind)
    BY <1>0, <1>6, StartingStarts
  <2>2. d \notin S /\ row[d] = "gone"
    BY <2>1 DEF Starts
  <2>3. job'[d] = job[d]
    BY <1>0, <2>1, <2>2, LaunchEffect DEF Starts
  <2> QED BY <1>3, <2>1, <2>2, <2>3 DEF Starts, idxVars
<1>7. CASE Asking
  <2>1. purge.pc = "none" /\ UNCHANGED <<row, vec, bm, job>>
    BY <1>7 DEF Asking, ClearRead, DeleteRead, rowVars, idxVars
  <2> QED BY <1>2, <2>1 DEF VecWillGo, BmWillGo
<1>8. CASE Purging
  <2>0. purge \in PurgeRec /\ job' = job
    BY <1>0, <1>8 DEF TypeOK, Purging, PurgeRows, PurgeOpenStore, PurgeVec, PurgeBm
  <2>1. CASE PurgeRows
    <3>1. purge.pc = "rows" /\ purge'.pc = "store" /\ purge'.todo = purge.todo
          /\ UNCHANGED <<vec, bm>>
      BY <2>0, <2>1 DEF PurgeRows, PurgeRec, idxVars
    <3>2. CASE row[d] = "gone"
      BY <1>2, <2>0, <3>1, <3>2 DEF VecWillGo, BmWillGo
    <3>3. CASE row[d] # "gone"
      <4>1. d \in purge.todo
        BY <2>1, <3>3 DEF PurgeRows
      <4> QED BY <3>1, <4>1 DEF VecWillGo, BmWillGo
    <3> QED BY <3>2, <3>3
  <2>2. CASE PurgeOpenStore
    <3>1. purge.pc = "store" /\ purge' = [purge EXCEPT !.pc = "vec"]
          /\ UNCHANGED <<row, vec, bm>>
      BY <1>4, <2>2 DEF PurgeOpenStore, rowVars, idxVars
    <3>2. purge'.pc = "vec" /\ purge'.todo = purge.todo
      BY <2>0, <3>1 DEF PurgeRec
    <3> QED BY <1>2, <2>0, <3>1, <3>2 DEF VecWillGo, BmWillGo
  <2>3. ASSUME NEW e \in Docs, PurgeVec(e)
        PROVE  (VecWillGo(d) /\ BmWillGo(d))'
    <3>1. /\ purge.pc = "vec" /\ vec' = Emptied(vec, e) /\ UNCHANGED <<row, bm>>
          /\ purge' = [purge EXCEPT !.pc = "bm", !.todo = purge.todo \ {e}, !.cur = {e}]
      BY <1>4, <2>3 DEF PurgeVec, rowVars
    <3>2. purge'.pc = "bm" /\ purge'.todo = purge.todo \ {e} /\ purge'.cur = {e}
      BY <2>0, <3>1 DEF PurgeRec
    <3>3. CASE d = e
      <4>1. vec'[d] = {}
        BY <1>0, <3>1, <3>3 DEF Emptied, TypeOK
      <4> QED BY <3>2, <3>3, <4>1 DEF VecWillGo, BmWillGo
    <3>4. CASE d # e
      <4>1. vec'[d] = vec[d]
        BY <1>0, <3>1, <3>4, EmptiedLocal
      <4> QED BY <1>2, <2>0, <3>1, <3>2, <3>4, <4>1 DEF VecWillGo, BmWillGo
    <3> QED BY <3>3, <3>4
  <2>4. ASSUME NEW e \in Docs, PurgeBm(e)
        PROVE  (VecWillGo(d) /\ BmWillGo(d))'
    <3>1. /\ purge.pc = "bm" /\ e \in purge.cur /\ bm' = Emptied(bm, e) /\ UNCHANGED <<row, vec>>
          /\ purge.todo # {} => purge' = [purge EXCEPT !.pc = "vec", !.cur = {}]
      BY <1>4, <2>4 DEF PurgeBm, rowVars
    <3>2. purge.todo # {} => purge'.pc = "vec" /\ purge'.todo = purge.todo
      BY <2>0, <3>1 DEF PurgeRec
    <3>3. purge.cur = {e}
      BY <3>1 DEF CountInv, OneCurrent
    <3>4. VecWillGo(d)'
      BY <1>2, <2>0, <3>1, <3>2 DEF VecWillGo
    <3>5. CASE d = e
      <4>1. bm'[d] = {}
        BY <1>0, <3>1, <3>5 DEF Emptied, TypeOK
      <4> QED BY <3>4, <4>1 DEF BmWillGo
    <3>6. CASE d # e
      <4>1. bm'[d] = bm[d]
        BY <1>0, <3>1, <3>6, EmptiedLocal
      <4> QED BY <1>2, <2>0, <3>1, <3>2, <3>3, <3>4, <3>6, <4>1 DEF BmWillGo
    <3> QED BY <3>5, <3>6
  <2> QED BY <1>8, <2>1, <2>2, <2>3, <2>4 DEF Purging
<1>9. CASE Still
  BY <1>3, <1>9 DEF Still
<1>10. ASSUME NEW g \in Gens, CleanGeneration(g)
       PROVE  FALSE
  BY <1>1, <1>10 DEF CleanGeneration
<1> QED BY <1>4, <1>5, <1>6, <1>7, <1>8, <1>9, <1>10, Kinds

-----------------------------------------------------------------------------
(* What is published is complete                                             *)

\* The stages hold for the task that takes a step,
LEMMA StageTask ==
  ASSUME TypeOK, GenOwned, NEW d \in Docs, NEW s \in Slots, Effect(d, s),
         StageHolds(d, s), Exists(d)
  PROVE  StageHolds(d, s)'
<1> DEFINE j == job[d][s]
<1>1. CASE Ended(d, s)
  BY <1>1 DEF Ended, StageHolds
<1>2. CASE Outside(d, s)
  BY <1>2 DEF Outside, StageHolds, IndexPc
<1>3. CASE Undoes(d, s)
  BY <1>3 DEF Undoes, Moves, StageHolds
<1>4. CASE Moves(d, s, "delvec", "delbm") /\ vec'[d] = {}
  BY <1>4 DEF Moves, StageHolds
<1>5. CASE Moves(d, s, "delbm", "writevec") /\ vec'[d] = vec[d] /\ bm'[d] = {}
  BY <1>5 DEF Moves, StageHolds
<1>6. CASE Moves(d, s, "writevec", "writebm") /\ vec'[d] = Upserted(d, s)[d] /\ bm'[d] = bm[d]
  <2>1. vec[d] = {} /\ bm[d] = {}
    BY <1>6 DEF Moves, StageHolds
  <2>2. vec'[d] = j.ids \X {j.gen}
    BY <1>6, <2>1 DEF Upserted, TypeOK
  <2> QED BY <1>6, <2>1, <2>2 DEF Moves, StageHolds
<1>7. CASE Moves(d, s, "writebm", "verify") /\ vec'[d] = vec[d] /\ bm'[d] = bm[d] \cup j.ids
  BY <1>7 DEF Moves, StageHolds, Written
<1>8. CASE Moves(d, s, "verify", "commit") /\ Quiet(d)
  BY <1>8 DEF Moves, StageHolds, Written, Quiet
<1>9. CASE Moves(d, s, "commit", "switch") /\ Quiet(d) /\ gen' = Sealed(d, s)
  <2>1. j.gen \in Gens /\ gen \in [Gens -> GenRec] /\ gen[j.gen] \in GenRec
    BY <1>9 DEF Moves, GenOwned, IndexPc, TypeOK
  <2>2. gen'[j.gen] = [gen[j.gen] EXCEPT !.st = "committed", !.ids = j.ids]
    BY <1>9, <2>1 DEF Sealed
  <2>3. gen'[j.gen].st = "committed" /\ gen'[j.gen].ids = j.ids
    BY <2>1, <2>2 DEF GenRec
  <2> QED BY <1>9, <2>3 DEF Moves, StageHolds, Written, Quiet
<1>10. CASE Moves(d, s, "switch", "final") /\ Quiet(d) /\ gen' = gen /\ active'[d] = j.gen
  BY <1>10 DEF Moves, StageHolds, Written, Quiet
<1>11. CASE job'[d][s].pc = "delvec"
  BY <1>11 DEF StageHolds
<1> QED BY <1>1, <1>2, <1>3, <1>4, <1>5, <1>6, <1>7, <1>8, <1>9, <1>10, <1>11 DEF Effect, Writes

\* and for a task whose row, stores and generation are left alone.
LEMMA StageUntouched ==
  ASSUME NEW d \in Docs, NEW s \in Slots, job'[d][s] = job[d][s], StageHolds(d, s),
         row'[d] = row[d], active'[d] = active[d], vec'[d] = vec[d], bm'[d] = bm[d],
         gen'[job[d][s].gen] = gen[job[d][s].gen]
  PROVE  StageHolds(d, s)'
BY DEF StageHolds, Written

\* so for all, whatever the step.
LEMMA StageStep ==
  ASSUME IInv, StageInv, [Next]_vars
  PROVE  StageInv'
<1> DEFINE Ids(d, s) == job[d][s].pc \in Filled => job[d][s].ids # {}
<1> SUFFICES ASSUME NEW d \in Docs, NEW s \in Slots
             PROVE  /\ job'[d][s].pc \in Filled => job'[d][s].ids # {}
                    /\ Exists(d)' => StageHolds(d, s)'
  BY DEF StageInv
<1>0. TypeOK /\ ClaimInv /\ GenInv /\ PurgeInv
  BY DEF IInv
<1>1. Ids(d, s) /\ (Exists(d) => StageHolds(d, s))
  BY DEF StageInv
<1>2. row[d] \in Deleted => row'[d] \in Deleted
  BY <1>0, RowMoves
<1>3. ASSUME job'[d][s].pc = "idle" \/ job'[d][s].pc = "parse"
      PROVE  Ids(d, s)' /\ StageHolds(d, s)'
  BY <1>3 DEF StageHolds, Filled, IndexPc
<1>4. ASSUME NEW e \in Docs, NEW t \in Slots, JobStep(e, t)
      PROVE  Ids(d, s)' /\ (Exists(d)' => StageHolds(d, s)')
  <2>1. JobLocal(e, t)
    BY <1>0, <1>4, StepLocal
  <2>2. CASE e # d
    <3>1. /\ row'[d] = row[d] /\ active'[d] = active[d] /\ vec'[d] = vec[d] /\ bm'[d] = bm[d]
          /\ job'[d][s] = job[d][s]
      BY <2>1, <2>2 DEF JobLocal
    <3>2. CASE job[d][s].pc \in IndexPc
      <4>1. /\ job[d][s].gen \in Gens /\ job[d][s].gen < nextGen
            /\ gen[job[d][s].gen].doc = {d} /\ nextGen \in Nat
        BY <1>0, <3>2 DEF GenInv, GenOwned, TypeOK
      <4>2. job[e][t].pc \in IndexPc => job[e][t].gen # job[d][s].gen
        BY <1>0, <2>2, <4>1 DEF GenInv, GenOwned
      <4>3. job[d][s].gen # nextGen
        BY <4>1 DEF Gens
      <4>4. gen'[job[d][s].gen] = gen[job[d][s].gen]
        BY <1>0, <1>4, <4>1, <4>2, <4>3, OwnRecord
      <4>5. Exists(d)' => StageHolds(d, s)'
        BY <1>1, <3>1, <4>4, StageUntouched DEF Exists
      <4> QED BY <1>1, <3>1, <4>5
    <3>3. CASE job[d][s].pc \notin IndexPc
      BY <1>1, <3>1, <3>3 DEF StageHolds, IndexPc, Exists
    <3> QED BY <3>2, <3>3
  <2>3. CASE e = d /\ s # t
    <3>1. job'[d][s] = job[d][s] /\ ~Live(d, s)
      BY <1>0, <2>1, <2>3 DEF JobLocal, ClaimInv, OneJobPerDocument
    <3> QED BY <1>3, <3>1 DEF Live
  <2>4. CASE e = d /\ s = t
    <3>1. Effect(d, s)
      BY <1>0, <1>1, <1>4, <2>4, StepEffect DEF GenInv
    <3>2. Exists(d)' => Exists(d)
      BY <2>1, <2>4 DEF JobLocal, Exists
    <3>3. Exists(d)' => StageHolds(d, s)'
      BY <1>0, <1>1, <3>1, <3>2, StageTask DEF GenInv
    <3>4. Ids(d, s)'
      BY <1>1, <3>1 DEF Effect, Ended, Outside, Writes, Undoes, Moves, Filled, IndexPc
    <3> QED BY <3>3, <3>4
  <2> QED BY <2>2, <2>3, <2>4
<1>5. CASE Starting
  <2>1. PICK S \in SUBSET Docs, kind \in {"ingest", "reprocess"} : Starts(S, kind)
    BY <1>0, <1>5, StartingStarts
  <2>2. /\ UNCHANGED <<active, gen, vec, bm>>
        /\ \A e \in Docs \ S : job'[e] = job[e]
        /\ \A e \in S, t \in Slots : job'[e][t] = job[e][t] \/ job'[e][t] = NewJob(kind)
    BY <1>0, <2>1, LaunchEffect DEF Starts, genVars, idxVars
  <2>3. CASE d \in S
    <3>1. row'[d] = "uploaded" /\ ~Live(d, s)
      BY <2>1, <2>3 DEF Starts
    <3>2. NewJob(kind).pc \in {"queued", "parse"}
      BY DEF NewJob, IdleJob
    <3>3. job'[d][s].pc \in {"idle", "queued", "parse"}
      BY <2>2, <2>3, <3>1, <3>2 DEF Live
    <3> QED BY <3>1, <3>3 DEF StageHolds, Filled, IndexPc
  <2>4. CASE d \notin S /\ row'[d] = row[d]
    <3>1. Exists(d)' => StageHolds(d, s)'
      BY <1>1, <2>2, <2>4, StageUntouched DEF Exists
    <3> QED BY <1>1, <2>2, <2>4, <3>1
  <2>5. CASE d \notin S /\ row'[d] # row[d]
    <3>1. ~Live(d, s) /\ job'[d] = job[d]
      BY <2>1, <2>2, <2>5 DEF Starts
    <3> QED BY <1>3, <3>1 DEF Live
  <2> QED BY <2>3, <2>4, <2>5
<1>6. CASE Purging \/ Asking
  <2>1. UNCHANGED <<job, gen>>
    BY <1>6 DEF Purging, PurgeRows, PurgeOpenStore, PurgeVec, PurgeBm, Asking, ClearRead,
                DeleteRead, genVars
  <2>2. ASSUME Exists(d)'
        PROVE  row'[d] = row[d] /\ active'[d] = active[d] /\ vec'[d] = vec[d] /\ bm'[d] = bm[d]
    <3>1. row[d] \notin Deleted /\ row'[d] \notin Deleted
      BY <1>2, <2>2 DEF Exists, Absent
    <3>2. CASE PurgeRows
      BY <3>1, <3>2 DEF PurgeRows, Deleted, idxVars
    <3>3. CASE PurgeOpenStore \/ Asking
      BY <3>3 DEF PurgeOpenStore, Asking, ClearRead, DeleteRead, rowVars, idxVars
    <3>4. ASSUME NEW e \in Docs, PurgeVec(e)
          PROVE  UNCHANGED <<row, active, bm>> /\ vec'[d] = vec[d]
      <4>1. e # d /\ UNCHANGED <<row, active, bm>> /\ (vec' = Emptied(vec, e) \/ vec' = vec)
        BY <1>0, <3>1, <3>4 DEF PurgeVec, PurgeInv, rowVars
      <4> QED BY <1>0, <4>1, EmptiedLocal
    <3>5. ASSUME NEW e \in Docs, PurgeBm(e)
          PROVE  UNCHANGED <<row, active, vec>> /\ bm'[d] = bm[d]
      <4>1. e # d /\ UNCHANGED <<row, active, vec>> /\ (bm' = Emptied(bm, e) \/ bm' = bm)
        BY <1>0, <3>1, <3>5 DEF PurgeBm, PurgeInv, rowVars
      <4> QED BY <1>0, <4>1, EmptiedLocal
    <3> QED BY <1>6, <3>2, <3>3, <3>4, <3>5 DEF Purging
  <2>3. Exists(d)' => StageHolds(d, s)'
    BY <1>1, <2>1, <2>2, StageUntouched DEF Exists
  <2> QED BY <1>1, <2>1, <2>3
<1>7. CASE Halt
  <2>1. job'[d][s].pc = "idle"
    BY <1>7 DEF Halt, Crash, Pause, IdleJob
  <2> QED BY <1>3, <2>1
<1>8. CASE Still
  <2>1. Exists(d)' => StageHolds(d, s)'
    BY <1>1, <1>8, StageUntouched DEF Exists, Still
  <2> QED BY <1>1, <1>8, <2>1 DEF Still
<1>9. ASSUME NEW g \in Gens, CleanGeneration(g)
      PROVE  job'[d][s].pc = "idle"
  BY <1>0, <1>9 DEF CleanGeneration, ClaimInv, QuietStartup, Live
<1> QED BY <1>3, <1>4, <1>5, <1>6, <1>7, <1>8, <1>9, Kinds

\* A row turns ready in the last step of its task, whose stage says what is stored.
LEMMA PublishStep ==
  ASSUME IInv, StageInv, [Next]_vars, NEW d \in Docs, row[d] = "indexing", row'[d] = "ready"
  PROVE  IndexComplete(d)
<1>0. TypeOK /\ ClaimInv /\ GenInv
  BY DEF IInv
<1>1. ASSUME NEW e \in Docs, NEW s \in Slots, JobStep(e, s)
      PROVE  IndexComplete(d)
  <2>1. e = d
    BY <1>0, <1>1, StepLocal DEF JobLocal
  <2>2. /\ Effect(d, s) /\ Exists(d) /\ StageHolds(d, s)
        /\ job[d][s].pc \in Filled => job[d][s].ids # {}
    BY <1>0, <1>1, <2>1, StepEffect DEF GenInv, StageInv, Exists, Absent, Deleted
  <2>3. job[d][s].pc = "final"
    BY <2>2 DEF Effect, Ended, Outside, StageHolds
  <2>4. job[d][s].gen \in Gens /\ job[d][s].gen # 0
    BY <1>0, <2>3, IngestionAssumption DEF GenInv, GenOwned, IndexPc, Gens
  <2> QED BY <2>2, <2>3, <2>4 DEF StageHolds, Written, IndexComplete, Filled, IndexPc
<1>2. CASE Starting
  <2>1. PICK S \in SUBSET Docs, kind \in {"ingest", "reprocess"} : Starts(S, kind)
    BY <1>0, <1>2, StartingStarts
  <2> QED BY <2>1 DEF Starts
<1>3. CASE Purging \/ Asking \/ Halt \/ Still \/ \E g \in Gens : CleanGeneration(g)
  BY <1>3 DEF Purging, PurgeRows, PurgeOpenStore, PurgeVec, PurgeBm, Asking, ClearRead,
              DeleteRead, Halt, Crash, Pause, Still, CleanGeneration, rowVars
<1> QED BY <1>1, <1>2, <1>3, Kinds

-----------------------------------------------------------------------------
(* The invariant and the theorems                                            *)

XInv == IInv /\ CountInv /\ StageInv /\ DeleteInv /\ BusyHasJob

\* The invariant holds initially,
LEMMA InitXInv == Init => XInv
<1> SUFFICES ASSUME Init PROVE XInv
  OBVIOUS
<1>1. \A d \in Docs, s \in Slots : job[d][s].pc = "idle"
  BY DEF Init, IdleJob
<1>2. CountInv
  BY DEF Init, CountInv, Counted, OneCurrent, NoPurge
<1>3. StageInv
  BY <1>1 DEF StageInv, StageHolds, Filled, IndexPc
<1>4. DeleteInv /\ BusyHasJob
  BY DEF Init, DeleteInv, BusyHasJob, Busy
<1> QED BY <1>2, <1>3, <1>4, InitIInv DEF XInv

\* every step keeps it,
LEMMA NextXInv == XInv /\ [Next]_vars => XInv'
BY NextIInv, CountStep, StageStep, DeleteStep, BusyStep DEF XInv, IInv

\* and so it always holds.
LEMMA AlwaysXInv == Spec => []XInv
BY InitXInv, NextXInv, PTL DEF Spec

\* A document in a processing status has a task, through every error path, crash
\* and recovery, unless a maintenance pause came.
THEOREM NoneAbandoned == Spec => []BusyHasJob
<1>1. XInv => BusyHasJob
  BY DEF XInv
<1> QED BY <1>1, AlwaysXInv, PTL

\* Without a fault, crash or pause, whatever task it raced with, a deletion of
\* listed documents leaves nothing in either store.
THEOREM DeletionComplete == Spec => []DeletedLeavesNothing
<1>1. XInv => DeletedLeavesNothing
  <2> SUFFICES ASSUME XInv, Undisturbed, NEW d \in Docs, row[d] = "gone", Leftover(d)
               PROVE  FALSE
    BY DEF DeletedLeavesNothing
  <2>1. VecWillGo(d) /\ BmWillGo(d)
    BY DEF XInv, DeleteInv
  <2> QED BY <2>1 DEF Leftover, Live, VecWillGo, BmWillGo
<1> QED BY <1>1, AlwaysXInv, PTL

\* A document is published only when both stores hold exactly the chunks of its
\* committed generation.
THEOREM PublishedComplete == Spec => PublishComplete
<1>1. XInv /\ [Next]_vars =>
        [\A d \in Docs : row[d] = "indexing" /\ row'[d] = "ready" => IndexComplete(d)]_vars
  BY PublishStep DEF XInv
<1> QED BY <1>1, AlwaysXInv, PTL DEF Spec, PublishComplete
=============================================================================
