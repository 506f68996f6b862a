----------------------------- MODULE SourceStore -----------------------------
(***************************************************************************)
(* The uploaded source files.  LocalFileStorage keeps one file per content *)
(* under its SHA-256, so uploads of one content share it; the documents    *)
(* table holds at most one row per content (file_hash is UNIQUE).  Nothing *)
(* counts references: upload, delete and clear-all each decide on their    *)
(* own when the file may go, and each awaits the database in between.      *)
(***************************************************************************)
EXTENDS Naturals, FiniteSets

CONSTANTS
  Upload,       \* upload requests; one that succeeds is also the new document
  Content,      \* file contents, standing for their SHA-256 and storage key
  ContentOf,    \* the content of each upload
  SourceBudget  \* bound: crashes, failing inserts or commits, failing vector
                \* store connections, failing removals of a file, delete
                \* requests, clear-all requests

SourceBudgetKinds == {"crash", "fault", "vector", "removal", "delete", "clear"}

ASSUME SourceStoreAssumption ==
  /\ ContentOf \in [Upload -> Content]
  /\ SourceBudget \in [SourceBudgetKinds -> Nat]

VARIABLES
  row,       \* documents table: "busy" while in process, "settled" when deletable
  files,     \* contents that have a stored file
  staging,   \* uploads that have a staging file
  upload,    \* where each upload request is
  del,       \* the delete request of a document
  clear,     \* the clear-all request
  listed,    \* documents whose sources clear-all still has to remove
  lost,      \* history: contents whose last removal failed or was never begun
  spent      \* how much of each SourceBudget was spent

sourceVars == <<row, files, staging, upload, del, clear, listed, lost, spent>>

UpPc == {"idle", "stream", "select", "commit", "insert", "recheck", "unlink", "over"}

SourceInit ==
  /\ row = [u \in Upload |-> "none"]
  /\ files = {} /\ staging = {}
  /\ upload = [u \in Upload |-> "idle"]
  /\ del = [u \in Upload |-> "none"]
  /\ clear = "idle" /\ listed = {} /\ lost = {}
  /\ spent = [b \in SourceBudgetKinds |-> 0]

SourceSpend(b) == spent[b] < SourceBudget[b] /\ spent' = [spent EXCEPT ![b] = @ + 1]

HasRow(u) == row[u] \in {"busy", "settled"}
Referenced(c) == \E u \in Upload : HasRow(u) /\ ContentOf[u] = c

ContentsOf(us) == {ContentOf[u] : u \in us}

deletion == <<del, clear, listed>>

\* storage.delete: the file goes, or the removal raises.  Every caller logs that
\* or answers with an error, and leaves the file where it is.
Remove(c) ==
  \/ files' = files \ {c} /\ lost' = lost \ {c} /\ UNCHANGED spent
  \/ SourceSpend("removal") /\ lost' = lost \cup {c} /\ UNCHANGED files

(***************************************************************************)
(* Upload: ingest_document_from_staged                                     *)
(***************************************************************************)
UploadMoves(u, from, to) == upload[u] = from /\ upload' = [upload EXCEPT ![u] = to]

Begin(u) ==
  /\ UploadMoves(u, "idle", "stream") /\ staging' = staging \cup {u}
  /\ UNCHANGED <<row, files, deletion, lost, spent>>

\* The body arrives, or is too large, empty or broken off.
Stream(u) ==
  /\ \/ UploadMoves(u, "stream", "select") /\ UNCHANGED staging
     \/ UploadMoves(u, "stream", "over") /\ staging' = staging \ {u}
  /\ UNCHANGED <<row, files, deletion, lost, spent>>

\* A content that has a row is refused.
Select(u) ==
  /\ \/ Referenced(ContentOf[u]) /\ UploadMoves(u, "select", "over") /\ staging' = staging \ {u}
     \/ ~Referenced(ContentOf[u]) /\ UploadMoves(u, "select", "commit") /\ UNCHANGED staging
  /\ UNCHANGED <<row, files, deletion, lost, spent>>

Committed(u) == staging \ {u}

\* Renamed into place, or dropped when the content is stored already.
Commit(u) ==
  /\ \/ UploadMoves(u, "commit", "insert") /\ files' = files \cup {ContentOf[u]}
        /\ staging' = Committed(u) /\ UNCHANGED spent
     \/ UploadMoves(u, "commit", "over") /\ SourceSpend("fault")
        /\ staging' = staging \ {u} /\ UNCHANGED files
  /\ UNCHANGED <<row, deletion, lost>>

\* The unique index on file_hash refuses a second row for a content.
Insert(u) ==
  /\ \/ ~Referenced(ContentOf[u]) /\ UploadMoves(u, "insert", "over")
        /\ row' = [row EXCEPT ![u] = "busy"] /\ UNCHANGED spent
     \/ Referenced(ContentOf[u]) /\ UploadMoves(u, "insert", "recheck") /\ UNCHANGED <<row, spent>>
     \/ UploadMoves(u, "insert", "recheck") /\ SourceSpend("fault") /\ UNCHANGED row
  /\ UNCHANGED <<files, staging, deletion, lost>>

KeepBlind(u) == FALSE     \* mutant: the file of a failed insert is always removed
KeepAlways(u) == TRUE     \* mutant: it is never removed
Keep(u) == Referenced(ContentOf[u])

\* _delete_storage_if_unreferenced: the query, which may raise, and then the
\* removal.
Recheck(u) ==
  /\ \/ UploadMoves(u, "recheck", IF Keep(u) THEN "over" ELSE "unlink")
        /\ UNCHANGED <<lost, spent>>
     \/ UploadMoves(u, "recheck", "over") /\ SourceSpend("fault")
        /\ lost' = lost \cup {ContentOf[u]}
  /\ UNCHANGED <<row, files, staging, deletion>>

Unlink(u) ==
  /\ UploadMoves(u, "unlink", "over") /\ Remove(ContentOf[u])
  /\ UNCHANGED <<row, staging, deletion>>

\* Processing ends: ready, failed or waiting for OCR.
Settle(u) ==
  /\ row[u] = "busy" /\ row' = [row EXCEPT ![u] = "settled"]
  /\ UNCHANGED <<files, staging, upload, deletion, lost, spent>>

(***************************************************************************)
(* Delete: the row first, then vectors, postings and the file              *)
(***************************************************************************)
\* The guard is read in the same step; a reprocess slipping in between is in
\* module Ingestion.
DeleteRow(u) ==
  /\ row[u] = "settled" /\ SourceSpend("delete")
  /\ row' = [row EXCEPT ![u] = "gone"] /\ del' = [del EXCEPT ![u] = "source"]
  /\ UNCHANGED <<files, staging, upload, clear, listed, lost>>

\* The file goes without a look at the table; when the vector store cannot be
\* opened the request fails before it gets here.
DeleteSource(u) ==
  /\ del[u] = "source" /\ del' = [del EXCEPT ![u] = "over"]
  /\ \/ Remove(ContentOf[u])
     \/ SourceSpend("vector") /\ lost' = lost \cup {ContentOf[u]} /\ UNCHANGED files
  /\ UNCHANGED <<row, staging, upload, clear, listed>>

(***************************************************************************)
(* Clear-all: list, delete every row, then the files of the listed ones    *)
(***************************************************************************)
NoClear == clear' = "idle" /\ listed' = {}

ClearList ==
  /\ clear = "idle" /\ SourceSpend("clear")
  /\ \A u \in Upload : row[u] # "busy"
  /\ clear' = "listed" /\ listed' = {u \in Upload : HasRow(u)} /\ listed' # {}
  /\ UNCHANGED <<row, files, staging, upload, del, lost>>

\* Every row goes, listed or not; then the vector store may not open.
ClearRows ==
  /\ clear = "listed"
  /\ row' = [u \in Upload |-> IF HasRow(u) THEN "gone" ELSE row[u]]
  /\ LET all == {u \in Upload : HasRow(u)} IN
     \/ /\ clear' = "cleanup" /\ lost' = lost \cup ContentsOf(all \ listed)
        /\ UNCHANGED <<listed, spent>>
     \/ NoClear /\ SourceSpend("vector") /\ lost' = lost \cup ContentsOf(all \cup listed)
  /\ UNCHANGED <<files, staging, upload, del>>

ClearSource(u) ==
  /\ clear = "cleanup" /\ u \in listed
  /\ Remove(ContentOf[u]) /\ listed' = listed \ {u}
  /\ clear' = IF listed' = {} THEN "idle" ELSE clear
  /\ UNCHANGED <<row, staging, upload, del>>

\* Those who are about to insert a row for their content or to remove its file.
Working == {u \in Upload : \/ upload[u] \in {"insert", "recheck", "unlink"}
                           \/ del[u] = "source"
                           \/ clear = "cleanup" /\ u \in listed}

\* Requests die with the process; files and rows stay, staging files too.
SourceCrash ==
  /\ SourceSpend("crash")
  /\ upload' = [u \in Upload |-> IF upload[u] = "idle" THEN "idle" ELSE "over"]
  /\ del' = [u \in Upload |-> IF del[u] = "source" THEN "over" ELSE del[u]]
  /\ NoClear /\ lost' = lost \cup ContentsOf(Working)
  /\ UNCHANGED <<row, files, staging>>

UploadStep(u) ==
  Begin(u) \/ Stream(u) \/ Select(u) \/ Commit(u) \/ Insert(u) \/ Recheck(u) \/ Unlink(u)

SourceNext ==
  \/ \E u \in Upload : UploadStep(u) \/ Settle(u) \/ DeleteRow(u) \/ DeleteSource(u)
                       \/ ClearSource(u)
  \/ ClearList \/ ClearRows \/ SourceCrash

SourceSpec == SourceInit /\ [][SourceNext]_sourceVars

(***************************************************************************)
(* Properties                                                              *)
(***************************************************************************)
\* Types, and that a list of sources to remove exists only during a clear-all.
SourceTypeOK ==
  /\ row \in [Upload -> {"none", "busy", "settled", "gone"}]
  /\ files \subseteq Content
  /\ staging \subseteq Upload
  /\ upload \in [Upload -> UpPc]
  /\ del \in [Upload -> {"none", "source", "over"}]
  /\ clear \in {"idle", "listed", "cleanup"}
  /\ listed \subseteq Upload
  /\ clear = "idle" => listed = {}
  /\ lost \subseteq Content
  /\ spent \in [SourceBudgetKinds -> Nat]

SourceOf(u) == HasRow(u) => ContentOf[u] \in files

\* Uploads alone never cost a document its file: however many uploads of one
\* content run at once, the losers of the unique index leave the winner's file,
\* also across a crash.
UploadsKeepSources ==
  spent["delete"] = 0 /\ spent["clear"] = 0 /\ spent["fault"] = 0 =>
    \A u \in Upload : SourceOf(u)

\* No file outlives its document: once the requests for a content are over its
\* file is stored only if a row refers to it, with failing inserts, deletes and
\* clear-alls in any order, also across a crash.  A file that is left over is one
\* whose own removal was the last to fail or was cut off before it began: the
\* callers do not try again (delete_document, _delete_storage_if_unreferenced).
NoOrphanFile ==
  \A c \in files \ lost : c \in ContentsOf(Working) \/ Referenced(c)

\* The clean-up of a failed insert never removes a file that some row refers
\* to at that moment (docstring of _delete_storage_if_unreferenced).
CleanupSparesReferenced ==
  [][\A u \in Upload : upload[u] = "unlink" /\ upload'[u] = "over" /\ spent["crash"]' = spent["crash"]
       => ~Referenced(ContentOf[u])]_sourceVars

\* Deleting a document keeps files and rows consistent: every row has its file.
DeletesKeepSources == \A u \in Upload : SourceOf(u)
==============================================================================
