------------------------------- MODULE Restore -------------------------------
(***************************************************************************)
(* Backup and staged restore (api/backup.py), the maintenance lock         *)
(* (maintenance.py) and what start-up does with the leftovers of a restore *)
(* that was cut off.  A backup is three snapshots taken one after another  *)
(* while documents come and go; a restore replaces the database, the       *)
(* collection pointer and the uploads directory one after another, and     *)
(* rolls all three back when a step raises.                                *)
(*                                                                         *)
(* A store is its generation, telling where its content came from (0: the  *)
(* content before any restore, r: restored by r), and the set of documents *)
(* in it: ready rows, stored files or indexed documents.                   *)
(***************************************************************************)
EXTENDS Integers, FiniteSets

CONSTANTS
  Docs,      \* documents
  Initial,   \* those present at the beginning
  Restores,  \* bound: restores, numbered from 1; also their collections
  Budget     \* bound: backups, added and deleted documents, faults of each kind

BudgetKinds == {"backup", "write", "fault", "rollback", "pause", "crash"}

ASSUME RestoreAssumption ==
  /\ Initial \subseteq Docs
  /\ Restores \in Nat
  /\ Budget \in [BudgetKinds -> Nat]

VARIABLES
  db,        \* SQLite: generation and ready documents
  up,        \* the uploads directory: generation and files, or NoStore
  colls,     \* what each existing collection holds
  ptr,       \* collection named by active_collections.json
  run,       \* settings.qdrant_active_collection, or the default
  previous,  \* uploads.previous.*, or NoStore
  candidate, \* uploads.candidate.*, or NoStore
  lock,      \* holder of the maintenance lock, 0 when it is free
  paused,    \* the task manager is paused
  pc,        \* where each restore is
  saved,     \* rollback_dir of each restore: database, uploads, old pointer
  arch,      \* the archive each restore was given
  backup,    \* the archive on disk or in the making: database, manifest, tar
  making,    \* step of the backup in the making
  writer,    \* a document being added or deleted by a request
  hit,       \* documents whose deletion was completed during maintenance
  before,    \* what was live when each restore took the lock (history)
  used       \* how much of each Budget was spent

vars == <<db, up, colls, ptr, run, previous, candidate, lock, paused, pc, saved, arch,
          backup, making, writer, hit, before, used>>

RestoreIds == 1..Restores
CollIds    == 0..Restores
Damaged    == Restores + 1                     \* generation of an incomplete copy
NoStore    == [gen |-> -1, docs |-> {}]
Stores     == {NoStore} \cup [gen : 0..Damaged, docs : SUBSET Docs]
Archives   == [db : SUBSET Docs, man : SUBSET Docs, tar : SUBSET Docs]
NoArchive  == [db |-> {}, man |-> {}, tar |-> {}]
NothingSaved == [db |-> NoStore, up |-> NoStore, ptr |-> 0]

Forward == {"pause", "verify", "snapDb", "snapUp", "build", "check", "switchDb",
            "switchRun", "switchPtr", "move", "verifyUp", "demote", "promote", "tidy",
            "health", "retain", "audit"}
Back    == {"rbDb", "rbUpDrop", "rbUpTidy", "rbUpCopy", "rbRun", "rbPtr", "rbColl", "rbInit"}
Pcs     == Forward \cup Back \cup
           {"idle", "okResume", "failedResume", "tornResume", "ok", "failed", "torn", "stuck", "cut"}

diskVars == <<db, up, colls, ptr, previous, candidate>>
ramVars  == <<run, lock, paused>>
aside    == <<backup, making, writer, hit>>

Init ==
  /\ db = [gen |-> 0, docs |-> Initial]
  /\ up = [gen |-> 0, docs |-> Initial]
  /\ colls = [c \in {0} |-> Initial]
  /\ ptr = 0 /\ run = 0
  /\ previous = NoStore /\ candidate = NoStore
  /\ lock = 0 /\ paused = FALSE
  /\ pc = [r \in RestoreIds |-> "idle"]
  /\ saved = [r \in RestoreIds |-> NothingSaved]
  /\ arch = [r \in RestoreIds |-> NoArchive]
  /\ backup = NoArchive /\ making = "none"
  /\ writer = [op |-> "none"] /\ hit = {}
  /\ before = [r \in RestoreIds |-> [db |-> 0, up |-> 0, ptr |-> 0, switched |-> FALSE]]
  /\ used = [b \in BudgetKinds |-> 0]

Spend(b) == used[b] < Budget[b] /\ used' = [used EXCEPT ![b] = @ + 1]
Active == lock # 0

-----------------------------------------------------------------------------
(* Documents that come and go.  The middleware turns writes away during      *)
(* maintenance, but a request it let through before goes on.                 *)

BeginAdd(d) ==
  /\ ~Active /\ writer.op = "none" /\ Spend("write")
  /\ up # NoStore /\ d \notin up.docs /\ d \notin db.docs
  /\ up' = [up EXCEPT !.docs = @ \cup {d}]
  /\ writer' = [op |-> "add", doc |-> d]
  /\ UNCHANGED <<db, colls, ptr, previous, candidate, ramVars, pc, saved, arch, backup,
                 making, hit, before>>

\* The ingestion task makes the document ready, unless the pause cancels it.
FinishAdd ==
  /\ writer.op = "add" /\ ~paused
  /\ db' = [db EXCEPT !.docs = @ \cup {writer.doc}]
  /\ colls' = [colls EXCEPT ![run] = @ \cup {writer.doc}]
  /\ writer' = [op |-> "none"]
  /\ UNCHANGED <<up, ptr, previous, candidate, ramVars, pc, saved, arch, backup,
                 making, hit, before, used>>

\* delete_document: the row first, the clean-up of index and file afterwards.
BeginDelete(d) ==
  /\ ~Active /\ writer.op = "none" /\ d \in db.docs /\ Spend("write")
  /\ db' = [db EXCEPT !.docs = @ \ {d}]
  /\ writer' = [op |-> "delete", doc |-> d]
  /\ UNCHANGED <<up, colls, ptr, previous, candidate, ramVars, pc, saved, arch, backup,
                 making, hit, before>>

FinishDelete ==
  /\ writer.op = "delete"
  /\ colls' = [colls EXCEPT ![run] = @ \ {writer.doc}]
  /\ up' = [up EXCEPT !.docs = @ \ {writer.doc}]
  /\ hit' = IF Active THEN hit \cup {writer.doc} ELSE hit
  /\ writer' = [op |-> "none"]
  /\ UNCHANGED <<db, ptr, previous, candidate, ramVars, pc, saved, arch, backup, making,
                 before, used>>

Write == (\E d \in Docs : BeginAdd(d) \/ BeginDelete(d)) \/ FinishAdd \/ FinishDelete

-----------------------------------------------------------------------------
(* create_backup.  A GET, so maintenance does not turn it away.              *)

MakeBackup ==
  /\ \/ /\ making = "none" /\ Spend("backup")
        /\ making' = "manifest"
        /\ backup' = [NoArchive EXCEPT !.db = db.docs]      \* VACUUM INTO
     \/ /\ making = "manifest" /\ making' = "tar"
        /\ backup' = [backup EXCEPT !.man = up.docs]
        /\ UNCHANGED used
     \/ /\ making = "tar" /\ making' = "done"
        /\ backup' = [backup EXCEPT !.tar = up.docs]
        /\ UNCHANGED used
  /\ UNCHANGED <<diskVars, ramVars, pc, saved, arch, writer, hit, before>>

-----------------------------------------------------------------------------
(* restore_backup *)

Step(r, from, to) == pc[r] = from /\ pc' = [pc EXCEPT ![r] = to]

\* A second restore is answered 503 while the lock is held.
Acquire(r) ==
  /\ making = "done" /\ ~Active
  /\ Step(r, "idle", "pause")
  /\ lock' = r /\ paused' = TRUE /\ hit' = {}
  /\ before' = [before EXCEPT ![r] =
       [db |-> db.gen, up |-> up.gen, ptr |-> run, switched |-> FALSE]]
  /\ saved' = [saved EXCEPT ![r].ptr = run]
  /\ UNCHANGED <<diskVars, run, arch, backup, making, writer, used>>

\* pause_for_maintenance cancels the tasks and awaits them.
Pause(r) ==
  /\ Step(r, "pause", "verify")
  /\ writer' = IF writer.op = "add" THEN [op |-> "none"] ELSE writer
  /\ UNCHANGED <<diskVars, ramVars, saved, arch, backup, making, hit, before, used>>

\* An exception out of it passes by the finally clause that ends maintenance.
PauseRaises(r) ==
  /\ Step(r, "pause", "stuck") /\ Spend("pause")
  /\ UNCHANGED <<diskVars, ramVars, saved, arch, aside, before>>

\* Every file of the manifest has to be in the archive.
Complete(a) == a.man \subseteq a.tar

Verify(r) ==
  /\ arch' = [arch EXCEPT ![r] = backup]
  /\ \/ Step(r, "verify", "snapDb") /\ Complete(backup)
     \/ Step(r, "verify", "rbDb") /\ ~Complete(backup)
  /\ UNCHANGED <<diskVars, ramVars, saved, aside, before, used>>

\* The protective copies.  One that breaks off stays in rollback_dir.
SnapDb(r) ==
  /\ \/ /\ Step(r, "snapDb", "snapUp")
        /\ saved' = [saved EXCEPT ![r].db = db] /\ UNCHANGED used
     \/ /\ Step(r, "snapDb", "rbDb") /\ Spend("fault")
        /\ saved' = [saved EXCEPT ![r].db = [gen |-> Damaged, docs |-> {}]]
  /\ UNCHANGED <<diskVars, ramVars, arch, aside, before>>

SnapUp(r) ==
  /\ \/ /\ Step(r, "snapUp", "build")
        /\ saved' = [saved EXCEPT ![r].up = up] /\ UNCHANGED used
     \/ /\ Step(r, "snapUp", "rbDb") /\ Spend("fault")
        /\ \E part \in SUBSET up.docs :
             saved' = [saved EXCEPT ![r].up = [gen |-> Damaged, docs |-> part]]
  /\ UNCHANGED <<diskVars, ramVars, arch, aside, before>>

\* _build_restore_qdrant: documents without a file are left out, and so is one
\* whose parsing or embedding fails.
Indexable(a) == a.db \cap a.tar

Build(r) ==
  /\ Step(r, "build", "check")
  /\ \E docs \in SUBSET Indexable(arch[r]) :
       /\ IF docs = Indexable(arch[r]) THEN UNCHANGED used ELSE Spend("fault")
       /\ colls' = [c \in DOMAIN colls \cup {r} |-> IF c = r THEN docs ELSE colls[c]]
  /\ UNCHANGED <<db, up, ptr, previous, candidate, ramVars, saved, arch, aside, before>>

\* _cross_consistency_check on the staged copies and the new collection.
ConsistentFiles(r) == arch[r].db \subseteq arch[r].tar                 \* mutant
Consistent(r) == arch[r].db \subseteq arch[r].tar /\ arch[r].db \subseteq colls[r]

Check(r) ==
  /\ \/ Step(r, "check", "switchDb") /\ Consistent(r)
     \/ Step(r, "check", "rbDb") /\ ~Consistent(r)
  /\ UNCHANGED <<diskVars, ramVars, saved, arch, aside, before, used>>

SwitchDb(r) ==
  /\ Step(r, "switchDb", "switchRun")
  /\ db' = [gen |-> r, docs |-> arch[r].db]
  /\ before' = [before EXCEPT ![r].switched = TRUE]
  /\ UNCHANGED <<up, colls, ptr, previous, candidate, ramVars, saved, arch, aside, used>>

SwitchRun(r) ==
  /\ Step(r, "switchRun", "switchPtr") /\ run' = r
  /\ UNCHANGED <<diskVars, lock, paused, saved, arch, aside, before, used>>

\* Uploads are switched only when the archive has some.
SwitchPtr(r) ==
  /\ \/ Step(r, "switchPtr", "move") /\ arch[r].tar # {}
     \/ Step(r, "switchPtr", "health") /\ arch[r].tar = {}
  /\ ptr' = r
  /\ UNCHANGED <<db, up, colls, previous, candidate, ramVars, saved, arch, aside, before, used>>

Move(r) ==
  /\ Step(r, "move", "verifyUp") /\ candidate' = [gen |-> r, docs |-> arch[r].tar]
  /\ UNCHANGED <<db, up, colls, ptr, previous, ramVars, saved, arch, aside, before, used>>

\* _verify_uploads_candidate: nothing missing, nothing extra.
Matches(a) == a.man = {} \/ a.man = a.tar

VerifyUp(r) ==
  /\ \/ Step(r, "verifyUp", "demote") /\ Matches(arch[r])
     \/ Step(r, "verifyUp", "rbDb") /\ ~Matches(arch[r])
  /\ UNCHANGED <<diskVars, ramVars, saved, arch, aside, before, used>>

Demote(r) ==
  /\ Step(r, "demote", "promote") /\ previous' = up /\ up' = NoStore
  /\ UNCHANGED <<db, colls, ptr, candidate, ramVars, saved, arch, aside, before, used>>

\* When the second rename fails the first one is undone.
Promote(r) ==
  /\ \/ /\ Step(r, "promote", "tidy") /\ UNCHANGED <<used, previous>>
        /\ up' = candidate /\ candidate' = NoStore
     \/ /\ Step(r, "promote", "rbDb") /\ Spend("fault") /\ UNCHANGED candidate
        /\ up' = previous /\ previous' = NoStore
  /\ UNCHANGED <<db, colls, ptr, ramVars, saved, arch, aside, before>>

Tidy(r) ==
  /\ Step(r, "tidy", "health") /\ previous' = NoStore
  /\ UNCHANGED <<db, up, colls, ptr, candidate, ramVars, saved, arch, aside, before, used>>

\* The integrity check and init_db.
Health(r) ==
  /\ Step(r, "health", "retain")
  /\ UNCHANGED <<diskVars, ramVars, saved, arch, aside, before, used>>

\* _retain_collections_after_restore: the new collection, the one before and
\* the default one stay; deleting another may fail.
Kept(r) == {r, saved[r].ptr, 0}

Retain(r) ==
  /\ Step(r, "retain", "audit")
  /\ \E gone \in SUBSET (DOMAIN colls \ Kept(r)) :
       colls' = [c \in DOMAIN colls \ gone |-> colls[c]]
  /\ UNCHANGED <<db, up, ptr, previous, candidate, ramVars, saved, arch, aside, before, used>>

Audit(r) ==
  /\ Step(r, "audit", "okResume")
  /\ UNCHANGED <<diskVars, ramVars, saved, arch, aside, before, used>>

RaisesUndone(r) ==                                                     \* mutant
  /\ pc[r] \in Forward \ {"pause", "snapDb", "snapUp", "promote"} /\ Spend("fault")
  /\ pc' = [pc EXCEPT ![r] = "failedResume"]
  /\ UNCHANGED <<diskVars, ramVars, saved, arch, aside, before>>

\* Any other step may raise before it has an effect.
Raises(r) ==
  /\ pc[r] \in Forward \ {"pause", "snapDb", "snapUp", "promote"} /\ Spend("fault")
  /\ pc' = [pc EXCEPT ![r] = "rbDb"]
  /\ UNCHANGED <<diskVars, ramVars, saved, arch, aside, before>>

-----------------------------------------------------------------------------
(* _do_rollback *)

RollbackDb(r) ==
  /\ Step(r, "rbDb", "rbUpDrop")
  /\ db' = IF saved[r].db = NoStore THEN db ELSE saved[r].db
  /\ UNCHANGED <<up, colls, ptr, previous, candidate, ramVars, saved, arch, aside, before, used>>

RollbackUploads(r) ==
  /\ \/ /\ Step(r, "rbUpDrop", "rbRun") /\ saved[r].up = NoStore
        /\ UNCHANGED <<up, candidate, previous>>
     \/ /\ Step(r, "rbUpDrop", "rbUpTidy") /\ saved[r].up # NoStore
        /\ up' = NoStore /\ UNCHANGED <<candidate, previous>>
     \/ /\ Step(r, "rbUpTidy", "rbUpCopy")
        /\ candidate' = NoStore /\ previous' = NoStore /\ UNCHANGED up
     \/ /\ Step(r, "rbUpCopy", "rbRun")
        /\ up' = saved[r].up /\ UNCHANGED <<candidate, previous>>
  /\ UNCHANGED <<db, colls, ptr, ramVars, saved, arch, aside, before, used>>

\* The old collection is active again before the new one is deleted.
RollbackCollection(r) ==
  /\ \/ /\ Step(r, "rbRun", "rbPtr") /\ run' = saved[r].ptr /\ UNCHANGED <<ptr, colls>>
     \/ /\ Step(r, "rbPtr", "rbColl") /\ ptr' = saved[r].ptr /\ UNCHANGED <<run, colls>>
     \/ /\ Step(r, "rbColl", "rbInit")
        /\ \E gone \in SUBSET (DOMAIN colls \cap {r}) :           \* a failure is logged
             colls' = [c \in DOMAIN colls \ gone |-> colls[c]]
        /\ UNCHANGED <<run, ptr>>
     \/ Step(r, "rbInit", "failedResume") /\ UNCHANGED <<run, ptr, colls>>    \* init_db
  /\ UNCHANGED <<db, up, previous, candidate, lock, paused, saved, arch, aside, before, used>>

RollbackRaises(r) ==
  /\ pc[r] \in Back /\ Spend("rollback")
  /\ pc' = [pc EXCEPT ![r] = "tornResume"]
  /\ UNCHANGED <<diskVars, ramVars, saved, arch, aside, before>>

EndingsExpected == [okResume |-> "ok", failedResume |-> "failed"]      \* mutant
\* The finally clause, whichever way the body ended: tasks resume, the lock is
\* released, temporary directories go.
Endings == [okResume |-> "ok", failedResume |-> "failed", tornResume |-> "torn"]

Finish(r) ==
  /\ pc[r] \in DOMAIN Endings
  /\ pc' = [pc EXCEPT ![r] = Endings[pc[r]]]
  /\ paused' = FALSE /\ lock' = 0
  /\ saved' = [saved EXCEPT ![r] = NothingSaved]
  /\ arch' = [arch EXCEPT ![r] = NoArchive]
  /\ UNCHANGED <<diskVars, run, aside, before, used>>

\* A crash and the start after it: the uploads directory is created when it is
\* missing, leftovers of a restore are removed, the pointer is read.
Crash ==
  /\ Spend("crash")
  /\ lock' = 0 /\ paused' = FALSE /\ run' = ptr
  /\ up' = IF up = NoStore THEN [gen |-> Damaged, docs |-> {}] ELSE up
  /\ previous' = NoStore /\ candidate' = NoStore
  /\ pc' = [r \in RestoreIds |-> IF pc[r] \in {"idle", "ok", "failed", "torn"} THEN pc[r] ELSE "cut"]
  /\ saved' = [r \in RestoreIds |-> NothingSaved]
  /\ arch' = [r \in RestoreIds |-> NoArchive]
  /\ writer' = [op |-> "none"]
  /\ IF making = "done" THEN UNCHANGED <<backup, making>>
     ELSE backup' = NoArchive /\ making' = "none"
  /\ UNCHANGED <<db, colls, ptr, hit, before>>

-----------------------------------------------------------------------------
Proceed(r) ==
  \/ Pause(r) \/ Verify(r) \/ SnapDb(r) \/ SnapUp(r) \/ Build(r) \/ Check(r)
  \/ SwitchDb(r) \/ SwitchRun(r) \/ SwitchPtr(r) \/ Move(r) \/ VerifyUp(r) \/ Demote(r)
  \/ Promote(r) \/ Tidy(r) \/ Health(r) \/ Retain(r) \/ Audit(r)
  \/ RollbackDb(r) \/ RollbackUploads(r) \/ RollbackCollection(r) \/ Finish(r)

Next ==
  \/ Write \/ MakeBackup \/ Crash
  \/ \E r \in RestoreIds :
       Acquire(r) \/ Proceed(r) \/ PauseRaises(r) \/ Raises(r) \/ RollbackRaises(r)

\* The steps of a restore that was begun go on as long as the process runs.
Spec == Init /\ [][Next]_vars /\ \A r \in RestoreIds : WF_vars(Proceed(r))

-----------------------------------------------------------------------------
TypeOK ==
  /\ db \in Stores /\ up \in Stores /\ previous \in Stores /\ candidate \in Stores
  /\ DOMAIN colls \subseteq CollIds /\ \A c \in DOMAIN colls : colls[c] \subseteq Docs
  /\ ptr \in CollIds /\ run \in CollIds
  /\ lock \in 0..Restores /\ paused \in BOOLEAN
  /\ pc \in [RestoreIds -> Pcs]
  /\ arch \in [RestoreIds -> Archives] /\ backup \in Archives
  /\ making \in {"none", "manifest", "tar", "done"}
  /\ writer.op \in {"none", "add", "delete"} /\ hit \subseteq Docs
  /\ used \in [BudgetKinds -> Nat]

\* A restore that reports success has every ready document of the backup stored
\* and indexed, though backups are taken while documents change and documents
\* may fail to be indexed; a deletion that was already under way when
\* maintenance began may have taken its own document's file and index.
RestoredIsComplete ==
  \A r \in RestoreIds : pc[r] = "okResume" =>
    /\ db.gen = r /\ ptr = r /\ run = r
    /\ \A d \in db.docs \ hit : d \in up.docs /\ d \in colls[r]

\* The generations that were live when restore r took the lock are live again.
Unchanged(r) == db.gen = before[r].db /\ up.gen = before[r].up
                /\ ptr = before[r].ptr /\ run = before[r].ptr

\* A restore that fails, in whichever step, and rolls back, leaves database,
\* uploads and pointer as they were, provided its protective copies are whole and
\* there was an uploads directory: of a missing one there is no copy, and the
\* rollback leaves alone what has taken its place.
AllOrNothing ==
  \A r \in RestoreIds :
    (/\ pc[r] = "failedResume" /\ before[r].up # NoStore.gen
     /\ saved[r].db.gen # Damaged /\ saved[r].up.gen # Damaged)
      => Unchanged(r)

\* Maintenance ends, except when pausing the task manager raises.
MaintenanceEnds ==
  \A r \in RestoreIds : (lock = r) ~> (lock # r \/ pc[r] = "stuck")

\* backup.py:543 promises that "Live data is never modified before the atomic
\* switch": a restore that failed before it leaves everything as it was.
LiveUntouched ==
  \A r \in RestoreIds :
    (pc[r] = "failedResume" /\ ~before[r].switched) => Unchanged(r)
=============================================================================
