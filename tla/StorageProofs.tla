---------------------------- MODULE StorageProofs ----------------------------
(***************************************************************************)
(* The two modules about what is kept on disk beside the database: the     *)
(* source files of uploads (SourceStore) and the staged restore, which     *)
(* replaces them together with the database (Restore).                     *)
(***************************************************************************)
EXTENDS Restore, SourceStore, TLAPS

-----------------------------------------------------------------------------
(* Source files                                                              *)

SourceTypes ==
  /\ row \in [Upload -> {"none", "busy", "settled", "gone"}]
  /\ upload \in [Upload -> UpPc]
  /\ del \in [Upload -> {"none", "source", "over"}]
  /\ spent \in [SourceBudgetKinds -> Nat]
  /\ clear \in {"idle", "listed", "cleanup"}
  /\ clear # "idle" => spent["clear"] # 0

\* Without deletions and failures, whoever is about to insert a row has its file
\* in place, a loser of the unique index still sees the winner's row when it
\* looks again, and nobody removes a file.
OnlyUploads ==
  spent["delete"] = 0 /\ spent["clear"] = 0 /\ spent["fault"] = 0 =>
    \A u \in Upload :
      /\ SourceOf(u)
      /\ upload[u] = "insert" => ContentOf[u] \in files
      /\ upload[u] = "recheck" => Referenced(ContentOf[u])
      /\ upload[u] # "unlink"
      /\ del[u] # "source"

LEMMA SourceInitInv ==
  ASSUME SourceInit
  PROVE  SourceTypes /\ OnlyUploads /\ NoOrphanFile
<1>1. SourceTypes
  BY DEF SourceInit, SourceTypes, UpPc, SourceBudgetKinds
<1>2. OnlyUploads
  BY DEF SourceInit, OnlyUploads, SourceOf, HasRow
<1>3. NoOrphanFile
  BY DEF SourceInit, NoOrphanFile
<1> QED BY <1>1, <1>2, <1>3

\* A budget that is untouched after a step was untouched before it.
LEMMA SpendRises ==
  ASSUME SourceTypes, NEW b \in SourceBudgetKinds, SourceSpend(b)
  PROVE  /\ spent' \in [SourceBudgetKinds -> Nat]
         /\ spent'[b] # 0
         /\ \A d \in SourceBudgetKinds \ {b} : spent'[d] = spent[d]
BY DEF SourceTypes, SourceSpend

LEMMA SourceTypesStep ==
  ASSUME SourceTypes, SourceNext
  PROVE  SourceTypes'
<1>0. ASSUME spent' = spent \/ \E b \in SourceBudgetKinds : SourceSpend(b)
      PROVE  /\ spent' \in [SourceBudgetKinds -> Nat]
             /\ spent["clear"] # 0 => spent'["clear"] # 0
  BY <1>0 DEF SourceTypes, SourceSpend, SourceBudgetKinds
<1>1. ASSUME NEW u \in Upload, UploadStep(u) PROVE SourceTypes'
  <2>1. ASSUME NEW from, NEW to \in UpPc, UploadMoves(u, from, to)
        PROVE  upload' \in [Upload -> UpPc]
    BY <2>1 DEF UploadMoves, SourceTypes
  <2>2. upload' \in [Upload -> UpPc] /\ UNCHANGED <<del, clear>>
    BY <1>1, <2>1 DEF UploadStep, Begin, Stream, Select, Commit, Insert, Recheck, Unlink,
                      deletion, UpPc
  <2>3. spent' = spent \/ \E b \in SourceBudgetKinds : SourceSpend(b)
    BY <1>1 DEF UploadStep, Begin, Stream, Select, Commit, Insert, Recheck, Unlink, Remove,
                SourceBudgetKinds
  <2>4. row' = row \/ row' = [row EXCEPT ![u] = "busy"]
    BY <1>1 DEF UploadStep, Begin, Stream, Select, Commit, Insert, Recheck, Unlink
  <2> QED BY <1>0, <2>2, <2>3, <2>4 DEF SourceTypes
<1>2. ASSUME NEW u \in Upload, Settle(u) PROVE SourceTypes'
  BY <1>2 DEF Settle, deletion, SourceTypes
<1>3. ASSUME NEW u \in Upload, DeleteRow(u) PROVE SourceTypes'
  BY <1>3, SpendRises DEF DeleteRow, SourceTypes, SourceBudgetKinds
<1>4. ASSUME NEW u \in Upload, DeleteSource(u) PROVE SourceTypes'
  <2>1. spent' = spent \/ \E b \in SourceBudgetKinds : SourceSpend(b)
    BY <1>4 DEF DeleteSource, Remove, SourceBudgetKinds
  <2>2. del' = [del EXCEPT ![u] = "over"] /\ UNCHANGED <<row, upload, clear>>
    BY <1>4 DEF DeleteSource
  <2> QED BY <1>0, <2>1, <2>2 DEF SourceTypes
<1>5. ASSUME NEW u \in Upload, ClearSource(u) PROVE SourceTypes'
  <2>1. spent' = spent \/ \E b \in SourceBudgetKinds : SourceSpend(b)
    BY <1>5 DEF ClearSource, Remove, SourceBudgetKinds
  <2>2. clear = "cleanup" /\ clear' \in {"idle", "cleanup"} /\ UNCHANGED <<row, upload, del>>
    BY <1>5 DEF ClearSource
  <2> QED BY <1>0, <2>1, <2>2 DEF SourceTypes
<1>6. CASE ClearList
  BY <1>6, SpendRises DEF ClearList, SourceTypes, SourceBudgetKinds
<1>7. CASE ClearRows
  <2>1. /\ clear = "listed" /\ clear' \in {"idle", "cleanup"} /\ UNCHANGED <<upload, del>>
        /\ row' = [u \in Upload |-> IF HasRow(u) THEN "gone" ELSE row[u]]
        /\ UNCHANGED spent \/ (SourceSpend("vector") /\ clear' = "idle")
    BY <1>7 DEF ClearRows, NoClear
  <2> QED BY <2>1, SpendRises DEF SourceTypes, SourceBudgetKinds
<1>8. CASE SourceCrash
  <2>1. /\ UNCHANGED row /\ clear' = "idle" /\ SourceSpend("crash")
        /\ upload' = [u \in Upload |-> IF upload[u] = "idle" THEN "idle" ELSE "over"]
        /\ del' = [u \in Upload |-> IF del[u] = "source" THEN "over" ELSE del[u]]
    BY <1>8 DEF SourceCrash, NoClear
  <2> QED BY <2>1, SpendRises DEF SourceTypes, SourceBudgetKinds, UpPc
<1> QED BY <1>1, <1>2, <1>3, <1>4, <1>5, <1>6, <1>7, <1>8 DEF SourceNext

\* The winner's row stays, so no loser ever reaches the removal.
LEMMA OnlyUploadsStep ==
  ASSUME SourceTypes, OnlyUploads, SourceNext, SourceTypes'
  PROVE  OnlyUploads'
<1> SUFFICES ASSUME spent'["delete"] = 0, spent'["clear"] = 0, spent'["fault"] = 0,
                    NEW v \in Upload
             PROVE  /\ SourceOf(v)'
                    /\ upload'[v] = "insert" => ContentOf[v] \in files'
                    /\ upload'[v] = "recheck" => Referenced(ContentOf[v])'
                    /\ upload'[v] # "unlink"
                    /\ del'[v] # "source"
  BY DEF OnlyUploads
<1> USE DEF SourceOf, HasRow, Referenced
<1>0. \A b \in {"delete", "clear", "fault"} : b \in SourceBudgetKinds
  BY DEF SourceBudgetKinds
<1>1. ~ SourceSpend("delete") /\ ~ SourceSpend("clear") /\ ~ SourceSpend("fault")
  BY <1>0, SpendRises
<1>2. /\ spent["delete"] = 0 /\ spent["clear"] = 0 /\ spent["fault"] = 0
  <2>1. spent' = spent \/ \E b \in SourceBudgetKinds : SourceSpend(b)
    BY DEF SourceNext, UploadStep, Begin, Stream, Select,
           Commit, Insert, Recheck, Unlink, Settle,
           DeleteRow, DeleteSource, ClearSource, ClearList,
           ClearRows, SourceCrash, Remove, SourceBudgetKinds
  <2> QED BY <2>1, <1>0, <1>1, SpendRises
<1>3. /\ clear = "idle"
      /\ \A u \in Upload :
           /\ SourceOf(u)
           /\ upload[u] = "insert" => ContentOf[u] \in files
           /\ upload[u] = "recheck" => Referenced(ContentOf[u])
           /\ upload[u] # "unlink"
           /\ del[u] # "source"
  BY <1>2 DEF OnlyUploads, SourceTypes
<1>4. ASSUME NEW u \in Upload, Begin(u) \/ Stream(u) \/ Select(u)
      PROVE  /\ UNCHANGED <<row, files, del>>
             /\ upload'[v] \in {upload[v], "stream", "select", "commit", "over"}
  BY <1>4 DEF Begin, Stream, Select, deletion, UploadMoves, SourceTypes
<1>5. ASSUME NEW u \in Upload, Commit(u)
      PROVE  /\ UNCHANGED <<row, del>> /\ files' = files \cup {ContentOf[u]}
             /\ upload'[v] = IF u = v THEN "insert" ELSE upload[v]
  BY <1>1, <1>5 DEF Commit, deletion, UploadMoves, SourceTypes
<1>6. ASSUME NEW u \in Upload, Insert(u)
      PROVE  /\ UNCHANGED <<files, del>> /\ upload[u] = "insert"
             /\ \/ /\ row' = [row EXCEPT ![u] = "busy"]
                   /\ upload'[v] = IF u = v THEN "over" ELSE upload[v]
                \/ /\ UNCHANGED row /\ Referenced(ContentOf[u])
                   /\ upload'[v] = IF u = v THEN "recheck" ELSE upload[v]
  BY <1>1, <1>6 DEF Insert, deletion, UploadMoves, SourceTypes
<1>7. ASSUME NEW u \in Upload, Recheck(u)
      PROVE  /\ UNCHANGED <<row, files, del>>
             /\ upload'[v] = IF u = v THEN "over" ELSE upload[v]
  BY <1>1, <1>3, <1>7 DEF Recheck, Keep, deletion, UploadMoves, SourceTypes
<1>8. ASSUME NEW u \in Upload, Unlink(u) PROVE FALSE
  BY <1>3, <1>8 DEF Unlink, UploadMoves
<1>9. ASSUME NEW u \in Upload, Settle(u)
      PROVE  /\ UNCHANGED <<files, upload, del>> /\ row[u] = "busy"
             /\ row' = [row EXCEPT ![u] = "settled"]
  BY <1>9 DEF Settle, deletion
<1>10. ASSUME NEW u \in Upload,
              DeleteRow(u) \/ DeleteSource(u) \/ ClearSource(u)
                \/ ClearList \/ ClearRows
       PROVE  FALSE
  BY <1>1, <1>3, <1>10 DEF DeleteRow, DeleteSource, ClearSource,
                           ClearList, ClearRows
<1>11. CASE SourceCrash
  <2>1. /\ UNCHANGED <<row, files>>
        /\ upload'[v] \in {"idle", "over"} /\ del'[v] \in {del[v], "over"}
    BY <1>11 DEF SourceCrash
  <2> QED BY <1>3, <2>1
<1> QED
  BY <1>3, <1>4, <1>5, <1>6, <1>7, <1>8, <1>9, <1>10, <1>11
  DEF SourceNext, UploadStep, SourceTypes

\* A file without a row has someone who will still deal with it, or its last
\* removal failed: the property is inductive as it stands.
LEMMA NoOrphanStep ==
  ASSUME SourceTypes, NoOrphanFile, SourceNext, SourceTypes'
  PROVE  NoOrphanFile'
<1> DEFINE Cared(u) == HasRow(u) \/ u \in Working
<1> SUFFICES ASSUME NEW c \in files', c \notin lost'
             PROVE  \E u \in Upload : ContentOf[u] = c /\ Cared(u)'
  BY DEF NoOrphanFile, Referenced, ContentsOf, Working
<1>1. c \in files /\ c \notin lost => \E u \in Upload : ContentOf[u] = c /\ Cared(u)
  BY DEF NoOrphanFile, Referenced, ContentsOf, Working
<1> USE DEF HasRow, Working
<1>2. ASSUME NEW d, Remove(d) PROVE c # d /\ c \in files /\ c \notin lost
  BY <1>2 DEF Remove
<1>3. ASSUME NEW u \in Upload, UploadStep(u)
      PROVE  \E v \in Upload : ContentOf[v] = c /\ Cared(v)'
  <2>1. CASE Begin(u) \/ Stream(u) \/ Select(u)
    <3>1. /\ UNCHANGED <<row, files, del, clear, listed, lost>>
          /\ ~ (upload[u] \in {"insert", "recheck", "unlink"})
          /\ \A v \in Upload \ {u} : upload'[v] = upload[v]
      BY <2>1 DEF Begin, Stream, Select, deletion, UploadMoves, SourceTypes
    <3> QED BY <1>1, <3>1
  <2>2. CASE Commit(u)
    <3>1. /\ UNCHANGED <<row, del, clear, listed, lost>> /\ upload[u] = "commit"
          /\ \A v \in Upload \ {u} : upload'[v] = upload[v]
          /\ \/ files' = files \cup {ContentOf[u]} /\ upload'[u] = "insert"
             \/ UNCHANGED files
      BY <2>2 DEF Commit, deletion, UploadMoves, SourceTypes
    <3> QED BY <1>1, <3>1
  <2>3. CASE Insert(u)
    <3>1. /\ UNCHANGED <<files, del, clear, listed, lost>>
          /\ \A v \in Upload \ {u} : upload'[v] = upload[v]
          /\ \/ row' = [row EXCEPT ![u] = "busy"]
             \/ UNCHANGED row /\ upload'[u] = "recheck"
      BY <2>3 DEF Insert, deletion, UploadMoves, SourceTypes
    <3> QED BY <1>1, <3>1 DEF SourceTypes
  <2>4. CASE Recheck(u)
    <3>1. /\ UNCHANGED <<row, files, del, clear, listed>>
          /\ \A v \in Upload \ {u} : upload'[v] = upload[v]
          /\ \/ upload'[u] = "unlink" /\ UNCHANGED lost
             \/ Referenced(ContentOf[u]) /\ UNCHANGED lost
             \/ lost' = lost \cup {ContentOf[u]}
      BY <2>4 DEF Recheck, Keep, deletion, UploadMoves, SourceTypes
    <3> QED BY <1>1, <3>1 DEF Referenced
  <2>5. CASE Unlink(u)
    <3>1. /\ UNCHANGED <<row, del, clear, listed>>
          /\ \A v \in Upload \ {u} : upload'[v] = upload[v]
          /\ Remove(ContentOf[u])
      BY <2>5 DEF Unlink, deletion, UploadMoves, SourceTypes
    <3> QED BY <1>1, <1>2, <3>1
  <2> QED BY <1>3, <2>1, <2>2, <2>3, <2>4, <2>5 DEF UploadStep
<1>4. ASSUME NEW u \in Upload, Settle(u) \/ DeleteRow(u)
      PROVE  \E v \in Upload : ContentOf[v] = c /\ Cared(v)'
  <2>1. CASE Settle(u)
    <3>1. UNCHANGED <<files, upload, del, clear, listed, lost>> /\ row' = [row EXCEPT ![u] = "settled"]
      BY <2>1 DEF Settle, deletion
    <3> QED BY <1>1, <3>1 DEF SourceTypes
  <2>2. CASE DeleteRow(u)
    BY <1>1, <2>2 DEF DeleteRow, SourceTypes
  <2> QED BY <1>4, <2>1, <2>2
<1>5. ASSUME NEW u \in Upload, DeleteSource(u)
      PROVE  \E v \in Upload : ContentOf[v] = c /\ Cared(v)'
  <2>1. /\ UNCHANGED <<row, upload, clear, listed>> /\ del' = [del EXCEPT ![u] = "over"]
        /\ Remove(ContentOf[u]) \/ (lost' = lost \cup {ContentOf[u]} /\ UNCHANGED files)
    BY <1>5 DEF DeleteSource
  <2>2. ContentOf[u] # c /\ c \in files /\ c \notin lost
    BY <1>2, <2>1
  <2> QED BY <1>1, <2>1, <2>2 DEF SourceTypes
<1>6. CASE ClearList
  BY <1>1, <1>6 DEF ClearList
<1>7. CASE ClearRows
  <2>1. /\ clear = "listed" /\ UNCHANGED <<files, upload, del>> /\ lost \subseteq lost'
        /\ \A v \in Upload : HasRow(v) =>
             \/ ContentOf[v] \in lost'
             \/ clear' = "cleanup" /\ v \in listed'
    BY <1>7 DEF ClearRows, NoClear, ContentsOf
  <2> QED BY <1>1, <2>1
<1>8. ASSUME NEW u \in Upload, ClearSource(u)
      PROVE  \E v \in Upload : ContentOf[v] = c /\ Cared(v)'
  <2>1. /\ UNCHANGED <<row, upload, del>> /\ Remove(ContentOf[u]) /\ listed' = listed \ {u}
        /\ clear' = IF listed' = {} THEN "idle" ELSE clear
    BY <1>8 DEF ClearSource
  <2> QED BY <1>1, <1>2, <2>1
<1>9. CASE SourceCrash
  <2>1. UNCHANGED <<row, files>> /\ lost' = lost \cup ContentsOf(Working)
    BY <1>9 DEF SourceCrash
  <2>2. \A v \in Working : ContentOf[v] \in lost'
    BY <2>1 DEF ContentsOf
  <2> QED BY <1>1, <2>1, <2>2
<1> HIDE DEF HasRow, Working
<1> QED BY <1>3, <1>4, <1>5, <1>6, <1>7, <1>8, <1>9 DEF SourceNext

LEMMA SourceInvariant == SourceSpec => [](SourceTypes /\ OnlyUploads /\ NoOrphanFile)
<1> DEFINE Inv == SourceTypes /\ OnlyUploads /\ NoOrphanFile
<1>1. SourceInit => Inv
  BY SourceInitInv
<1>2. Inv /\ [SourceNext]_sourceVars => Inv'
  <2>1. ASSUME Inv, SourceNext PROVE Inv'
    BY <2>1, SourceTypesStep, OnlyUploadsStep, NoOrphanStep
  <2>2. ASSUME Inv, UNCHANGED sourceVars PROVE Inv'
    BY <2>2 DEF sourceVars, SourceTypes, OnlyUploads, NoOrphanFile, ContentsOf, Working,
                Referenced, SourceOf, HasRow
  <2> QED BY <2>1, <2>2
<1> QED BY <1>1, <1>2, PTL DEF SourceSpec

\* However many uploads of however many contents run at once, no document loses
\* its file to them (ingest_document_from_staged of rag/pipeline.py,
\* LocalFileStorage).
THEOREM UploadsSafe == SourceSpec => []UploadsKeepSources
<1>1. OnlyUploads => UploadsKeepSources
  BY DEF OnlyUploads, UploadsKeepSources
<1> QED BY <1>1, SourceInvariant, PTL

\* A file that is stored has a row or a request that still deals with it, unless
\* its own last removal failed or was cut off, for any uploads, deletes, clear-alls,
\* failures and crashes (_delete_storage_if_unreferenced, delete_document).
THEOREM NoOrphans == SourceSpec => []NoOrphanFile
BY SourceInvariant, PTL

-----------------------------------------------------------------------------
(* Restore                                                                   *)

Writers == [op : {"none"}] \cup [op : {"add", "delete"}, doc : Docs]
Copies  == [db : Stores, up : Stores, ptr : CollIds]
Records == [db : Int, up : Int, ptr : CollIds, switched : BOOLEAN]

\* TypeOK with the types of what it leaves out.
RestoreTypes ==
  /\ db \in Stores \ {NoStore} /\ up \in Stores /\ previous \in Stores /\ candidate \in Stores
  /\ DOMAIN colls \subseteq CollIds /\ \A c \in DOMAIN colls : colls[c] \subseteq Docs
  /\ ptr \in CollIds /\ run \in CollIds
  /\ lock \in 0..Restores /\ paused \in BOOLEAN
  /\ pc \in [RestoreIds -> Pcs]
  /\ saved \in [RestoreIds -> Copies]
  /\ before \in [RestoreIds -> Records]
  /\ arch \in [RestoreIds -> Archives] /\ backup \in Archives
  /\ making \in {"none", "manifest", "tar", "done"}
  /\ writer \in Writers /\ hit \subseteq Docs
  /\ used \in [BudgetKinds -> Nat]

\* Taking documents out of a store, or putting some in, leaves its generation.
LEMMA StoreShrinks ==
  ASSUME NEW s \in Stores, NEW d
  PROVE  /\ [s EXCEPT !.docs = @ \ {d}] \in Stores
         /\ [s EXCEPT !.docs = @ \ {d}].gen = s.gen
         /\ [s EXCEPT !.docs = @ \ {d}].docs = s.docs \ {d}
<1>1. CASE s = NoStore
  <2>1. s.docs \ {d} = s.docs
    BY <1>1 DEF NoStore
  <2> QED BY <1>1, <2>1 DEF Stores, NoStore
<1>2. CASE s \in [gen : 0..Damaged, docs : SUBSET Docs]
  BY <1>2 DEF Stores
<1> QED BY <1>1, <1>2 DEF Stores

LEMMA StoreGrows ==
  ASSUME NEW s \in Stores, s # NoStore, NEW d \in Docs
  PROVE  /\ [s EXCEPT !.docs = @ \cup {d}] \in Stores
         /\ [s EXCEPT !.docs = @ \cup {d}].gen = s.gen
         /\ [s EXCEPT !.docs = @ \cup {d}].docs = s.docs \cup {d}
BY DEF Stores

LEMMA StoreNumbers ==
  /\ NoStore \in Stores /\ NoStore.gen = -1 /\ NoStore.docs = {}
  /\ \A g \in 0..Damaged, docs \in SUBSET Docs : [gen |-> g, docs |-> docs] \in Stores
  /\ \A s \in Stores : s.gen \in Int /\ s.docs \in SUBSET Docs /\ (s # NoStore <=> s.gen # -1)
  /\ Damaged \in 0..Damaged /\ 0 \in 0..Damaged /\ \A r \in RestoreIds : r \in 0..Damaged /\ r # 0
  /\ 0 \in CollIds /\ \A r \in RestoreIds : r \in CollIds /\ r \in 0..Restores
BY RestoreAssumption DEF Stores, NoStore, Damaged, RestoreIds, CollIds

LEMMA RestoreInitTypes == Init => RestoreTypes
<1> SUFFICES ASSUME Init PROVE RestoreTypes
  OBVIOUS
<1>1. db \in Stores \ {NoStore} /\ up \in Stores /\ previous \in Stores /\ candidate \in Stores
  BY StoreNumbers, RestoreAssumption DEF Init
<1>2. saved \in [RestoreIds -> Copies] /\ before \in [RestoreIds -> Records]
  BY StoreNumbers DEF Init, NothingSaved, Copies, Records
<1>3. arch \in [RestoreIds -> Archives] /\ backup \in Archives
  BY DEF Init, NoArchive, Archives
<1>4. pc \in [RestoreIds -> Pcs] /\ writer \in Writers /\ used \in [BudgetKinds -> Nat]
  BY DEF Init, Pcs, Writers
<1> QED BY <1>1, <1>2, <1>3, <1>4, StoreNumbers, RestoreAssumption DEF Init, RestoreTypes, CollIds

LEMMA PcTyped ==
  ASSUME RestoreTypes, NEW r \in RestoreIds, NEW from, NEW to \in Pcs, Step(r, from, to)
  PROVE  pc' \in [RestoreIds -> Pcs]
BY DEF RestoreTypes, Step

LEMMA UsedTyped ==
  ASSUME RestoreTypes, NEW b \in BudgetKinds, Spend(b)
  PROVE  used' \in [BudgetKinds -> Nat]
BY DEF RestoreTypes, Spend

LEMMA WriteTypes == ASSUME RestoreTypes, Write PROVE RestoreTypes'
<1> USE DEF ramVars, BudgetKinds
<1>1. ASSUME NEW d \in Docs, BeginAdd(d) PROVE RestoreTypes'
  <2>1. up' \in Stores
    BY <1>1, StoreGrows DEF BeginAdd, RestoreTypes
  <2>2. used' \in [BudgetKinds -> Nat]
    BY <1>1, UsedTyped DEF BeginAdd
  <2> QED BY <1>1, <2>1, <2>2 DEF BeginAdd, RestoreTypes, Writers
<1>2. CASE FinishAdd
  <2>1. writer.doc \in Docs
    BY <1>2 DEF FinishAdd, RestoreTypes, Writers
  <2>2. db' \in Stores \ {NoStore}
    BY <1>2, <2>1, StoreGrows, StoreNumbers DEF FinishAdd, RestoreTypes
  <2>3. DOMAIN colls' \subseteq CollIds /\ \A c \in DOMAIN colls' : colls'[c] \subseteq Docs
    BY <1>2, <2>1 DEF FinishAdd, RestoreTypes
  <2> QED BY <1>2, <2>2, <2>3 DEF FinishAdd, RestoreTypes, Writers
<1>3. ASSUME NEW d \in Docs, BeginDelete(d) PROVE RestoreTypes'
  <2>1. db' \in Stores \ {NoStore}
    <3>1. db' = [db EXCEPT !.docs = @ \ {d}] /\ db \in Stores /\ db # NoStore
      BY <1>3 DEF BeginDelete, RestoreTypes
    <3>2. db' \in Stores /\ db'.gen = db.gen
      BY <3>1, StoreShrinks
    <3> QED BY <3>1, <3>2, StoreNumbers
  <2>2. used' \in [BudgetKinds -> Nat]
    BY <1>3, UsedTyped DEF BeginDelete
  <2> QED BY <1>3, <2>1, <2>2 DEF BeginDelete, RestoreTypes, Writers
<1>4. CASE FinishDelete
  <2>1. writer.doc \in Docs
    BY <1>4 DEF FinishDelete, RestoreTypes, Writers
  <2>2. up' \in Stores
    BY <1>4, StoreShrinks DEF FinishDelete, RestoreTypes
  <2>3. DOMAIN colls' \subseteq CollIds /\ \A c \in DOMAIN colls' : colls'[c] \subseteq Docs
    BY <1>4 DEF FinishDelete, RestoreTypes
  <2> QED BY <1>4, <2>1, <2>2, <2>3 DEF FinishDelete, RestoreTypes, Writers
<1> QED BY <1>1, <1>2, <1>3, <1>4 DEF Write

LEMMA BackupTypes == ASSUME RestoreTypes, MakeBackup PROVE RestoreTypes'
<1>1. \A s \in Stores : s.docs \in SUBSET Docs
  BY StoreNumbers
<1>2. backup' \in Archives
  BY <1>1 DEF MakeBackup, RestoreTypes, Archives, NoArchive
<1>3. used' \in [BudgetKinds -> Nat]
  BY UsedTyped DEF MakeBackup, BudgetKinds, RestoreTypes
<1>4. making' \in {"manifest", "tar", "done"} /\ UNCHANGED <<diskVars, ramVars, pc, saved, arch, writer, hit, before>>
  BY DEF MakeBackup
<1> QED BY <1>2, <1>3, <1>4 DEF RestoreTypes, diskVars, ramVars

LEMMA AcquireTypes ==
  ASSUME RestoreTypes, NEW r \in RestoreIds, Acquire(r)
  PROVE  RestoreTypes'
<1>1. pc' \in [RestoreIds -> Pcs]
  BY PcTyped DEF Acquire, Pcs, Forward
<1>2. before' \in [RestoreIds -> Records]
  <2>1. [db |-> db.gen, up |-> up.gen, ptr |-> run, switched |-> FALSE] \in Records
    BY StoreNumbers DEF RestoreTypes, Records
  <2> QED BY <2>1 DEF Acquire, RestoreTypes
<1>3. saved' \in [RestoreIds -> Copies]
  BY DEF Acquire, RestoreTypes, Copies
<1> QED BY <1>1, <1>2, <1>3, StoreNumbers DEF Acquire, RestoreTypes, diskVars

\* The steps of a restore that only move it on.
LEMMA MovedTypes ==
  ASSUME RestoreTypes, pc' \in [RestoreIds -> Pcs], used' \in [BudgetKinds -> Nat],
         UNCHANGED <<diskVars, ramVars, saved, arch, aside, before>>
  PROVE  RestoreTypes'
BY DEF RestoreTypes, diskVars, ramVars, aside

LEMMA CopyTypes ==
  ASSUME RestoreTypes, NEW r \in RestoreIds,
         SnapDb(r) \/ SnapUp(r)
  PROVE  RestoreTypes'
<1>1. pc' \in [RestoreIds -> Pcs]
  BY PcTyped DEF SnapDb, SnapUp, Pcs, Forward, Back
<1>2. used' \in [BudgetKinds -> Nat]
  BY UsedTyped DEF SnapDb, SnapUp, BudgetKinds, RestoreTypes
<1>3. saved' \in [RestoreIds -> Copies]
  <2>1. ASSUME NEW s \in Stores
        PROVE  /\ [saved EXCEPT ![r].db = s] \in [RestoreIds -> Copies]
               /\ [saved EXCEPT ![r].up = s] \in [RestoreIds -> Copies]
    BY <2>1 DEF RestoreTypes, Copies
  <2>2. \A part \in SUBSET up.docs : [gen |-> Damaged, docs |-> part] \in Stores
    BY StoreNumbers DEF RestoreTypes
  <2>3. [gen |-> Damaged, docs |-> {}] \in Stores
    BY StoreNumbers
  <2>4. CASE SnapDb(r)
    <3>1. \E s \in Stores : saved' = [saved EXCEPT ![r].db = s]
      BY <2>3, <2>4 DEF SnapDb, RestoreTypes
    <3> QED BY <2>1, <3>1
  <2>5. CASE SnapUp(r)
    <3>1. \E s \in Stores : saved' = [saved EXCEPT ![r].up = s]
      BY <2>2, <2>5 DEF SnapUp, RestoreTypes
    <3> QED BY <2>1, <3>1
  <2> QED BY <2>4, <2>5
<1>4. UNCHANGED <<diskVars, ramVars, arch, aside, before>>
  BY DEF SnapDb, SnapUp
<1> QED BY <1>1, <1>2, <1>3, <1>4 DEF RestoreTypes, diskVars, ramVars, aside

LEMMA BuildTypes ==
  ASSUME RestoreTypes, NEW r \in RestoreIds, Build(r) \/ Retain(r)
  PROVE  RestoreTypes'
<1>1. pc' \in [RestoreIds -> Pcs]
  BY PcTyped DEF Build, Retain, Pcs, Forward, Back
<1>2. used' \in [BudgetKinds -> Nat]
  BY UsedTyped DEF Build, Retain, BudgetKinds, RestoreTypes
<1>3. DOMAIN colls' \subseteq CollIds /\ \A c \in DOMAIN colls' : colls'[c] \subseteq Docs
  <2>1. CASE Build(r)
    <3>1. Indexable(arch[r]) \subseteq Docs
      BY DEF RestoreTypes, Archives, Indexable
    <3> QED BY <2>1, <3>1, StoreNumbers DEF Build, RestoreTypes
  <2>2. CASE Retain(r)
    BY <2>2 DEF Retain, RestoreTypes
  <2> QED BY <2>1, <2>2
<1>4. UNCHANGED <<db, up, ptr, previous, candidate, ramVars, saved, arch, aside, before>>
  BY DEF Build, Retain
<1> QED BY <1>1, <1>2, <1>3, <1>4 DEF RestoreTypes, ramVars, aside

\* The switches of database, run time setting, pointer and uploads.
LEMMA SwitchTypes ==
  ASSUME RestoreTypes, NEW r \in RestoreIds,
         SwitchDb(r) \/ SwitchRun(r) \/ SwitchPtr(r) \/ Move(r) \/ Demote(r) \/ Promote(r) \/ Tidy(r)
  PROVE  RestoreTypes'
<1>1. pc' \in [RestoreIds -> Pcs]
  BY PcTyped DEF SwitchDb, SwitchRun, SwitchPtr, Move, Demote, Promote, Tidy, Pcs, Forward, Back
<1>2. used' \in [BudgetKinds -> Nat]
  BY UsedTyped DEF SwitchDb, SwitchRun, SwitchPtr, Move, Demote, Promote, Tidy, BudgetKinds, RestoreTypes
<1>3. /\ [gen |-> r, docs |-> arch[r].db] \in Stores \ {NoStore}
      /\ [gen |-> r, docs |-> arch[r].tar] \in Stores
  <2>1. arch[r].db \in SUBSET Docs /\ arch[r].tar \in SUBSET Docs
    BY DEF RestoreTypes, Archives
  <2> QED BY <2>1, StoreNumbers DEF NoStore, RestoreIds
<1>4. before' \in [RestoreIds -> Records]
  <2>1. before' = before \/ before' = [before EXCEPT ![r].switched = TRUE]
    BY DEF SwitchDb, SwitchRun, SwitchPtr, Move, Demote, Promote, Tidy
  <2>2. \A b \in Records : [b EXCEPT !.switched = TRUE] \in Records
    BY DEF Records
  <2> QED BY <2>1, <2>2 DEF RestoreTypes
<1>5. db' \in Stores \ {NoStore} /\ up' \in Stores /\ previous' \in Stores /\ candidate' \in Stores
  <2>1. CASE SwitchDb(r)
    BY <1>3, <2>1 DEF SwitchDb, RestoreTypes
  <2>2. CASE SwitchRun(r) \/ SwitchPtr(r)
    BY <2>2 DEF SwitchRun, SwitchPtr, diskVars, RestoreTypes
  <2>3. CASE Move(r)
    BY <1>3, <2>3 DEF Move, RestoreTypes
  <2>4. CASE Demote(r) \/ Promote(r) \/ Tidy(r)
    <3>1. db' = db /\ {up', previous', candidate'} \subseteq {up, previous, candidate, NoStore}
      BY <2>4 DEF Demote, Promote, Tidy
    <3> QED BY <3>1, StoreNumbers DEF RestoreTypes
  <2> QED BY <2>1, <2>2, <2>3, <2>4
<1>6. ptr' \in CollIds /\ run' \in CollIds
  <2>1. ptr' \in {ptr, r} /\ run' \in {run, r}
    BY DEF SwitchDb, SwitchRun, SwitchPtr, Move, Demote, Promote, Tidy, ramVars, diskVars
  <2> QED BY <2>1, StoreNumbers DEF RestoreTypes
<1>7. UNCHANGED <<colls, lock, paused, saved, arch, aside>>
  BY DEF SwitchDb, SwitchRun, SwitchPtr, Move, Demote, Promote, Tidy, ramVars, diskVars
<1> QED BY <1>1, <1>2, <1>4, <1>5, <1>6, <1>7 DEF RestoreTypes, aside

LEMMA RollbackTypes ==
  ASSUME RestoreTypes, NEW r \in RestoreIds,
         RollbackDb(r) \/ RollbackUploads(r) \/ RollbackCollection(r)
  PROVE  RestoreTypes'
<1>1. pc' \in [RestoreIds -> Pcs]
  BY PcTyped DEF RollbackDb, RollbackUploads, RollbackCollection, Pcs, Forward, Back
<1>2. saved[r].db \in Stores /\ saved[r].up \in Stores /\ saved[r].ptr \in CollIds
  BY DEF RestoreTypes, Copies
<1>3. db' \in Stores \ {NoStore} /\ up' \in Stores /\ previous' \in Stores /\ candidate' \in Stores
  BY <1>2, StoreNumbers DEF RollbackDb, RollbackUploads, RollbackCollection, RestoreTypes
<1>4. ptr' \in CollIds /\ run' \in CollIds
  BY <1>2 DEF RollbackDb, RollbackUploads, RollbackCollection, RestoreTypes, ramVars
<1>5. DOMAIN colls' \subseteq CollIds /\ \A c \in DOMAIN colls' : colls'[c] \subseteq Docs
  BY DEF RollbackDb, RollbackUploads, RollbackCollection, RestoreTypes
<1>6. UNCHANGED <<lock, paused, saved, arch, aside, before, used>>
  BY DEF RollbackDb, RollbackUploads, RollbackCollection, ramVars
<1> QED BY <1>1, <1>3, <1>4, <1>5, <1>6 DEF RestoreTypes, aside

LEMMA FinishTypes ==
  ASSUME RestoreTypes, NEW r \in RestoreIds, Finish(r)
  PROVE  RestoreTypes'
<1>1. pc' \in [RestoreIds -> Pcs]
  BY DEF Finish, Endings, RestoreTypes, Pcs
<1>2. NothingSaved \in Copies /\ NoArchive \in Archives
  BY StoreNumbers DEF NothingSaved, NoArchive, Copies, Archives
<1>3. /\ saved' \in [RestoreIds -> Copies] /\ arch' \in [RestoreIds -> Archives]
      /\ lock' = 0 /\ paused' = FALSE
      /\ UNCHANGED <<diskVars, run, aside, before, used>>
  BY <1>2 DEF Finish, RestoreTypes
<1>4. 0 \in 0..Restores
  BY RestoreAssumption
<1> QED BY <1>1, <1>3, <1>4 DEF RestoreTypes, diskVars, aside

LEMMA CrashTypes == ASSUME RestoreTypes, Crash PROVE RestoreTypes'
<1>1. pc' \in [RestoreIds -> Pcs]
  BY DEF Crash, RestoreTypes, Pcs
<1>2. NothingSaved \in Copies /\ NoArchive \in Archives
  BY StoreNumbers DEF NothingSaved, NoArchive, Copies, Archives
<1>3. used' \in [BudgetKinds -> Nat]
  BY UsedTyped DEF Crash, BudgetKinds
<1>4. up' \in Stores
  BY StoreNumbers DEF Crash, RestoreTypes
<1>5. backup' \in Archives /\ making' \in {"none", "manifest", "tar", "done"}
  BY <1>2 DEF Crash, RestoreTypes
<1>6. /\ lock' = 0 /\ paused' = FALSE /\ run' = ptr
      /\ previous' = NoStore /\ candidate' = NoStore
      /\ saved' = [r \in RestoreIds |-> NothingSaved]
      /\ arch' = [r \in RestoreIds |-> NoArchive]
      /\ writer' = [op |-> "none"]
      /\ UNCHANGED <<db, colls, ptr, hit, before>>
  BY DEF Crash
<1>7. saved' \in [RestoreIds -> Copies] /\ arch' \in [RestoreIds -> Archives] /\ writer' \in Writers
  BY <1>2, <1>6 DEF Writers
<1>8. 0 \in 0..Restores /\ NoStore \in Stores
  BY RestoreAssumption, StoreNumbers
<1> QED BY <1>1, <1>3, <1>4, <1>5, <1>6, <1>7, <1>8 DEF RestoreTypes

LEMMA RestoreTypesStep == RestoreTypes /\ [Next]_vars => RestoreTypes'
<1> SUFFICES ASSUME RestoreTypes, Next PROVE RestoreTypes'
  BY DEF vars, RestoreTypes
<1>1. ASSUME NEW r \in RestoreIds, Pause(r) PROVE RestoreTypes'
  <2>1. pc' \in [RestoreIds -> Pcs]
    BY <1>1, PcTyped DEF Pause, Pcs, Forward
  <2> QED BY <1>1, <2>1 DEF Pause, RestoreTypes, diskVars, ramVars, Writers
<1>2. ASSUME NEW r \in RestoreIds, Verify(r) PROVE RestoreTypes'
  <2>1. pc' \in [RestoreIds -> Pcs]
    BY <1>2, PcTyped DEF Verify, Pcs, Forward, Back
  <2> QED BY <1>2, <2>1 DEF Verify, RestoreTypes, diskVars, ramVars, aside
<1>3. ASSUME NEW r \in RestoreIds, Check(r) \/ VerifyUp(r) \/ Health(r) \/ Audit(r)
      PROVE  RestoreTypes'
  <2>1. pc' \in [RestoreIds -> Pcs]
    BY <1>3, PcTyped DEF Check, VerifyUp, Health, Audit, Pcs, Forward, Back
  <2>2. UNCHANGED <<diskVars, ramVars, saved, arch, aside, before, used>>
    BY <1>3 DEF Check, VerifyUp, Health, Audit
  <2> QED BY <2>1, <2>2, MovedTypes DEF RestoreTypes
<1>4. ASSUME NEW r \in RestoreIds, PauseRaises(r) \/ Raises(r) \/ RollbackRaises(r)
      PROVE  RestoreTypes'
  <2>1. pc' \in [RestoreIds -> Pcs]
    BY <1>4 DEF PauseRaises, Raises, RollbackRaises, Step, Pcs, Forward, Back, RestoreTypes
  <2>2. used' \in [BudgetKinds -> Nat]
    BY <1>4, UsedTyped DEF PauseRaises, Raises, RollbackRaises, BudgetKinds
  <2>3. UNCHANGED <<diskVars, ramVars, saved, arch, aside, before>>
    BY <1>4 DEF PauseRaises, Raises, RollbackRaises
  <2> QED BY <2>1, <2>2, <2>3, MovedTypes
<1>5. ASSUME NEW r \in RestoreIds, Proceed(r) PROVE RestoreTypes'
  BY <1>1, <1>2, <1>3, <1>5, CopyTypes, BuildTypes, SwitchTypes, RollbackTypes, FinishTypes
  DEF Proceed
<1> QED BY <1>4, <1>5, WriteTypes, BackupTypes, AcquireTypes, CrashTypes DEF Next

\* The type invariant of a restore and what surrounds it (api/backup.py).
THEOREM RestoreTypeCorrect == Spec => []TypeOK
<1>1. RestoreTypes => TypeOK
  BY DEF RestoreTypes, TypeOK, Writers
<1> QED BY <1>1, RestoreInitTypes, RestoreTypesStep, PTL DEF Spec

-----------------------------------------------------------------------------
(* How far a restore has come: each set is closed under the order in which   *)
(* its steps follow one another.                                             *)

Held         == Forward \cup Back \cup {"okResume", "failedResume", "tornResume", "stuck"}
Ahead        == Forward \cup {"okResume"}
BeforeCopies == {"pause", "verify", "snapDb"}
BeforeDb     == BeforeCopies \cup {"snapUp", "build", "check", "switchDb"}
BeforeUp     == BeforeDb \cup {"switchRun", "switchPtr", "move", "verifyUp", "demote"}
UpCopied     == (Ahead \ (BeforeCopies \cup {"snapUp"})) \cup {"rbUpTidy", "rbUpCopy"}
DbBack       == (Back \ {"rbDb"}) \cup {"failedResume"}
UpBack       == {"rbRun", "rbPtr", "rbColl", "rbInit", "failedResume"}
RunBack      == {"rbPtr", "rbColl", "rbInit", "failedResume"}
PtrBack      == {"rbColl", "rbInit", "failedResume"}

\* A restore at work holds the lock, and the tasks are paused.
HoldsLock(r) ==
  /\ pc[r] \in Held => lock = r /\ paused
  /\ pc[r] = "idle" => saved[r] = NothingSaved

\* The database: what was live, or a copy of it, is at hand all the time.
DbSafe(r) == pc[r] \in Held =>
  /\ saved[r].db = NoStore => db.gen = before[r].db
  /\ saved[r].db = NoStore \/ saved[r].db.gen \in {before[r].db, Damaged}
  /\ pc[r] \in BeforeDb => db.gen = before[r].db
  /\ pc[r] \in Ahead \ BeforeCopies => saved[r].db # NoStore
  /\ pc[r] \in DbBack => saved[r].db = NoStore \/ db.gen = saved[r].db.gen

\* The same for the uploads, when there were any.
UpSafe(r) == pc[r] \in Held /\ before[r].up # -1 =>
  /\ saved[r].up = NoStore => up.gen = before[r].up
  /\ saved[r].up = NoStore \/ saved[r].up.gen \in {before[r].up, Damaged}
  /\ pc[r] \in BeforeUp => up.gen = before[r].up
  /\ pc[r] \in UpCopied => saved[r].up # NoStore
  /\ pc[r] \in UpBack => saved[r].up = NoStore \/ up.gen = saved[r].up.gen

PtrSafe(r) == pc[r] \in Held =>
  /\ saved[r].ptr = before[r].ptr
  /\ pc[r] \in RunBack => run = before[r].ptr
  /\ pc[r] \in PtrBack => ptr = before[r].ptr

\* What a restore that goes ahead has checked and switched so far.
Switched(r) ==
  /\ pc[r] \in Ahead \ (BeforeCopies \cup {"snapUp", "build"}) => r \in DOMAIN colls
  /\ pc[r] \in Ahead \ (BeforeCopies \cup {"snapUp", "build", "check"}) =>
       arch[r].db \subseteq arch[r].tar /\ arch[r].db \ hit \subseteq colls[r]
  /\ pc[r] \in Ahead \ BeforeDb => db.gen = r /\ db.docs = arch[r].db
  /\ pc[r] \in Ahead \ (BeforeDb \cup {"switchRun"}) => run = r
  /\ pc[r] \in Ahead \ (BeforeDb \cup {"switchRun", "switchPtr"}) => ptr = r
  /\ pc[r] \in {"verifyUp", "demote", "promote"} => candidate.docs = arch[r].tar
  /\ pc[r] \in {"tidy", "health", "retain", "audit", "okResume"} => arch[r].db \ hit \subseteq up.docs

RestoreInv ==
  /\ RestoreTypes
  /\ \A r \in RestoreIds : HoldsLock(r) /\ DbSafe(r) /\ UpSafe(r) /\ PtrSafe(r) /\ Switched(r)

LEMMA RestoreInitInv == Init => RestoreInv
<1> SUFFICES ASSUME Init PROVE RestoreInv
  OBVIOUS
<1>1. \A r \in RestoreIds : pc[r] = "idle" /\ saved[r] = NothingSaved
  BY DEF Init
<1> QED
  BY <1>1, RestoreInitTypes
  DEF RestoreInv, HoldsLock, DbSafe, UpSafe, PtrSafe, Switched, Held, Ahead, Forward, Back

\* What a restore does while it holds the lock.
Works(r) == Proceed(r) \/ PauseRaises(r) \/ Raises(r) \/ RollbackRaises(r)

LEMMA WorksHeld ==
  ASSUME RestoreTypes, NEW r \in RestoreIds, Works(r)
  PROVE  /\ pc[r] \in Held
         /\ \A q \in RestoreIds \ {r} : pc'[q] = pc[q]
<1> USE DEF Held, Forward, Back, RestoreTypes, Step
<1>1. CASE PauseRaises(r) \/ Raises(r) \/ RollbackRaises(r)
  BY <1>1 DEF PauseRaises, Raises, RollbackRaises
<1>2. CASE Pause(r) \/ Verify(r) \/ SnapDb(r) \/ SnapUp(r) \/ Build(r) \/ Check(r)
  BY <1>2 DEF Pause, Verify, SnapDb, SnapUp, Build, Check
<1>3. CASE SwitchDb(r) \/ SwitchRun(r) \/ SwitchPtr(r) \/ Move(r) \/ VerifyUp(r) \/ Demote(r)
  BY <1>3 DEF SwitchDb, SwitchRun, SwitchPtr, Move, VerifyUp, Demote
<1>4. CASE Promote(r) \/ Tidy(r) \/ Health(r) \/ Retain(r) \/ Audit(r)
  BY <1>4 DEF Promote, Tidy, Health, Retain, Audit
<1>5. CASE RollbackDb(r) \/ RollbackUploads(r) \/ RollbackCollection(r) \/ Finish(r)
  BY <1>5 DEF RollbackDb, RollbackUploads, RollbackCollection, Finish, Endings
<1> QED BY <1>1, <1>2, <1>3, <1>4, <1>5 DEF Works, Proceed

\* Nobody else works meanwhile, and the lock stays until Finish.
LEMMA WorksAlone ==
  ASSUME RestoreInv, NEW r \in RestoreIds, NEW q \in RestoreIds, q # r, Works(q)
  PROVE  pc[r] \notin Held /\ pc'[r] = pc[r]
BY WorksHeld DEF RestoreInv, HoldsLock

LEMMA WorksLock ==
  ASSUME RestoreInv, NEW r \in RestoreIds, Works(r)
  PROVE  \A q \in RestoreIds : HoldsLock(q)'
<1>1. /\ pc[r] \in Held
      /\ lock = r /\ paused
      /\ \A q \in RestoreIds \ {r} : pc[q] \notin Held /\ pc'[q] = pc[q]
  BY WorksHeld DEF RestoreInv, HoldsLock
<1>2. \A q \in RestoreIds \ {r} : saved'[q] = saved[q]
  <2>1. UNCHANGED saved \/ \E c : saved' = [saved EXCEPT ![r] = c] \/ saved' = [saved EXCEPT ![r].db = c]
                                  \/ saved' = [saved EXCEPT ![r].up = c]
    BY DEF Works, Proceed, PauseRaises, Raises, RollbackRaises, Pause, Verify, SnapDb, SnapUp,
       Build, Check, SwitchDb, SwitchRun, SwitchPtr, Move, VerifyUp, Demote, Promote, Tidy,
       Health, Retain, Audit, RollbackDb, RollbackUploads, RollbackCollection, Finish
  <2> QED BY <2>1 DEF RestoreInv, RestoreTypes
<1>3. pc'[r] \in Held => UNCHANGED <<lock, paused>>
  <2>1. CASE Finish(r)
    BY <2>1 DEF Finish, Endings, Held, Forward, Back, RestoreInv, RestoreTypes
  <2>2. CASE ~ Finish(r)
    BY <2>2 DEF Works, Proceed, PauseRaises, Raises, RollbackRaises, Pause, Verify, SnapDb, SnapUp,
       Build, Check, SwitchDb, SwitchRun, SwitchPtr, Move, VerifyUp, Demote, Promote, Tidy,
       Health, Retain, Audit, RollbackDb, RollbackUploads, RollbackCollection, ramVars
  <2> QED BY <2>1, <2>2
<1>4. pc'[r] # "idle"
  <2> USE DEF RestoreInv, RestoreTypes, Step
  <2>1. CASE PauseRaises(r) \/ Raises(r) \/ RollbackRaises(r)
    BY <2>1 DEF PauseRaises, Raises, RollbackRaises
  <2>2. CASE Pause(r) \/ Verify(r) \/ SnapDb(r) \/ SnapUp(r) \/ Build(r) \/ Check(r)
    BY <2>2 DEF Pause, Verify, SnapDb, SnapUp, Build, Check
  <2>3. CASE SwitchDb(r) \/ SwitchRun(r) \/ SwitchPtr(r) \/ Move(r) \/ VerifyUp(r) \/ Demote(r)
    BY <2>3 DEF SwitchDb, SwitchRun, SwitchPtr, Move, VerifyUp, Demote
  <2>4. CASE Promote(r) \/ Tidy(r) \/ Health(r) \/ Retain(r) \/ Audit(r)
    BY <2>4 DEF Promote, Tidy, Health, Retain, Audit
  <2>5. CASE RollbackDb(r) \/ RollbackUploads(r) \/ RollbackCollection(r) \/ Finish(r)
    BY <2>5 DEF RollbackDb, RollbackUploads, RollbackCollection, Finish, Endings
  <2> QED BY <2>1, <2>2, <2>3, <2>4, <2>5 DEF Works, Proceed
<1> QED BY <1>1, <1>2, <1>3, <1>4, WorksHeld DEF RestoreInv, HoldsLock

\* Requests and backups beside a restore: no generation changes, and what a
\* deletion takes away is in hit.
LEMMA BesideRestore ==
  ASSUME RestoreInv, Write \/ MakeBackup, NEW r \in RestoreIds
  PROVE  HoldsLock(r)' /\ DbSafe(r)' /\ UpSafe(r)' /\ PtrSafe(r)' /\ Switched(r)'
<1>1. UNCHANGED <<pc, saved, before, arch, ptr, run, candidate, lock, paused>>
  BY DEF Write, BeginAdd, FinishAdd, BeginDelete, FinishDelete, MakeBackup, ramVars, diskVars
<1>2. db'.gen = db.gen /\ (lock # 0 /\ paused => db' = db)
  <2>1. db \in Stores /\ db # NoStore
    BY DEF RestoreInv, RestoreTypes
  <2>2. ASSUME NEW d \in Docs, BeginDelete(d) PROVE db'.gen = db.gen /\ lock = 0
    BY <2>1, <2>2, StoreShrinks DEF BeginDelete, Active
  <2>3. CASE FinishAdd
    <3>1. writer.doc \in Docs
      BY <2>3 DEF FinishAdd, RestoreInv, RestoreTypes, Writers
    <3> QED BY <2>1, <2>3, <3>1, StoreGrows DEF FinishAdd
  <2>4. CASE UNCHANGED db
    BY <2>4
  <2> QED BY <2>2, <2>3, <2>4 DEF Write, BeginAdd, FinishDelete, MakeBackup, diskVars
<1>3. up'.gen = up.gen /\ (lock # 0 => up.docs \ hit' \subseteq up'.docs)
  <2>1. up \in Stores
    BY DEF RestoreInv, RestoreTypes
  <2>2. ASSUME NEW d \in Docs, BeginAdd(d) PROVE up'.gen = up.gen /\ lock = 0
    BY <2>1, <2>2, StoreGrows DEF BeginAdd, Active
  <2>3. CASE FinishDelete
    <3>1. up'.gen = up.gen /\ up'.docs = up.docs \ {writer.doc}
      BY <2>1, <2>3, StoreShrinks DEF FinishDelete
    <3> QED BY <2>3, <3>1 DEF FinishDelete, Active
  <2>4. CASE UNCHANGED up
    BY <2>4
  <2> QED BY <2>2, <2>3, <2>4 DEF Write, BeginDelete, FinishAdd, MakeBackup, diskVars
<1>4. lock # 0 => hit \subseteq hit'
  BY DEF Write, BeginAdd, FinishAdd, BeginDelete, FinishDelete, MakeBackup, Active
<1>5. /\ DOMAIN colls' = DOMAIN colls
      /\ r \in DOMAIN colls /\ lock # 0 => colls[r] \ hit' \subseteq colls'[r]
  <2>1. CASE FinishDelete
    BY <2>1 DEF FinishDelete, Active
  <2>2. CASE FinishAdd
    BY <2>2 DEF FinishAdd
  <2>3. CASE UNCHANGED colls
    BY <2>3
  <2> QED BY <2>1, <2>2, <2>3 DEF Write, BeginAdd, BeginDelete, MakeBackup, diskVars
<1>6. pc[r] \in Held => lock # 0 /\ paused
  BY StoreNumbers DEF RestoreInv, HoldsLock
<1>7. HoldsLock(r) /\ DbSafe(r) /\ UpSafe(r) /\ PtrSafe(r) /\ Switched(r)
  BY DEF RestoreInv
<1>8. HoldsLock(r)' /\ PtrSafe(r)'
  BY <1>1, <1>7 DEF HoldsLock, PtrSafe
<1>9. DbSafe(r)'
  BY <1>1, <1>2, <1>7 DEF DbSafe
<1>10. UpSafe(r)'
  BY <1>1, <1>3, <1>7 DEF UpSafe
<1>11. Switched(r)'
  <2>1. CASE pc[r] \in Ahead
    <3>1. lock # 0 /\ paused
      BY <1>6, <2>1 DEF Held, Ahead
    <3> HIDE DEF Ahead, BeforeDb, BeforeCopies
    <3> QED BY <1>1, <1>2, <1>3, <1>4, <1>5, <1>7, <3>1 DEF Switched
  <2>2. CASE pc[r] \notin Ahead
    BY <1>1, <2>2 DEF Switched, Ahead, Forward
  <2> QED BY <2>1, <2>2
<1> QED BY <1>8, <1>9, <1>10, <1>11

LEMMA AcquireSafe ==
  ASSUME RestoreInv, NEW r \in RestoreIds, Acquire(r), NEW q \in RestoreIds
  PROVE  HoldsLock(q)' /\ DbSafe(q)' /\ UpSafe(q)' /\ PtrSafe(q)' /\ Switched(q)'
<1>1. /\ pc[r] = "idle" /\ lock = 0 /\ saved[r] = NothingSaved
      /\ pc' = [pc EXCEPT ![r] = "pause"]
      /\ lock' = r /\ paused' = TRUE
      /\ UNCHANGED <<db, up>>
  BY DEF Acquire, Step, Active, diskVars, RestoreInv, HoldsLock
<1>2. pc[q] \notin Held
  BY <1>1, StoreNumbers DEF RestoreInv, HoldsLock
<1>3. CASE q # r
  <2>1. pc'[q] = pc[q] /\ saved'[q] = saved[q]
    BY <1>3, <1>1 DEF Acquire, RestoreInv, RestoreTypes
  <2> QED
    BY <1>2, <2>1 DEF RestoreInv, HoldsLock, DbSafe, UpSafe, PtrSafe, Switched, Held, Ahead, Forward
<1>4. CASE q = r
  <2>1. pc'[r] = "pause"
    BY <1>1 DEF RestoreInv, RestoreTypes
  <2>2. before'[r].db = db.gen /\ before'[r].up = up.gen /\ before'[r].ptr = run
    BY DEF Acquire, RestoreInv, RestoreTypes
  <2>3. saved'[r].db = NoStore /\ saved'[r].up = NoStore /\ saved'[r].ptr = run
    BY <1>1 DEF Acquire, RestoreInv, RestoreTypes, Copies, NothingSaved
  <2>4. HoldsLock(r)' /\ PtrSafe(r)' /\ Switched(r)'
    BY <1>1, <2>1, <2>2, <2>3 DEF HoldsLock, PtrSafe, Switched, Ahead, BeforeCopies, BeforeDb, RunBack, PtrBack
  <2>5. DbSafe(r)' /\ UpSafe(r)'
    BY <1>1, <2>1, <2>2, <2>3
    DEF DbSafe, UpSafe, Ahead, BeforeCopies, BeforeDb, BeforeUp, UpCopied, DbBack, UpBack, Back
  <2> QED BY <1>4, <2>4, <2>5
<1> QED BY <1>3, <1>4

\* The steps of a restore that leave database and uploads alone, and in a rollback
\* the pointers too.
Leads(from, to) ==
  \/ <<from, to>> \in {<<"pause", "verify">>, <<"pause", "stuck">>, <<"verify", "snapDb">>,
                       <<"build", "check">>, <<"check", "switchDb">>, <<"switchRun", "switchPtr">>,
                       <<"switchPtr", "move">>, <<"switchPtr", "health">>,
                       <<"move", "verifyUp">>, <<"verifyUp", "demote">>,
                       <<"tidy", "health">>, <<"health", "retain">>, <<"retain", "audit">>,
                       <<"audit", "okResume">>, <<"rbColl", "rbInit">>, <<"rbInit", "failedResume">>,
                       <<"rbUpTidy", "rbUpCopy">>}
  \/ from \in Forward /\ to = "rbDb"
  \/ from \in Back /\ to = "tornResume"

LEMMA LeadsOn ==
  ASSUME NEW from, NEW to, Leads(from, to)
  PROVE  /\ from \in Held
         /\ to \in BeforeDb => from \in BeforeDb
         /\ to \in Ahead \ BeforeCopies => from \in Ahead \ BeforeCopies
         /\ to \in DbBack => from \in DbBack
         /\ to \in BeforeUp => from \in BeforeUp
         /\ to \in UpCopied => from \in UpCopied
         /\ to \in UpBack => from \in UpBack
         /\ to \in RunBack => from \in RunBack
         /\ to \in PtrBack => from \in PtrBack
BY DEF Leads, Held, Forward, Back, BeforeDb, BeforeCopies, Ahead, DbBack, BeforeUp, UpCopied,
       UpBack, RunBack, PtrBack

LEMMA WorksOn ==
  ASSUME RestoreInv, NEW r \in RestoreIds, Leads(pc[r], pc'[r]),
         saved'[r] = saved[r], before'[r].db = before[r].db, before'[r].up = before[r].up,
         before'[r].ptr = before[r].ptr, UNCHANGED <<db, up>>,
         pc'[r] \in RunBack => run' = run, pc'[r] \in PtrBack => ptr' = ptr
  PROVE  DbSafe(r)' /\ UpSafe(r)' /\ PtrSafe(r)'
<1>1. DbSafe(r) /\ UpSafe(r) /\ PtrSafe(r)
  BY DEF RestoreInv
<1>2. DbSafe(r)'
  BY <1>1, LeadsOn DEF DbSafe
<1>3. UpSafe(r)'
  BY <1>1, LeadsOn DEF UpSafe
<1>4. PtrSafe(r)'
  BY <1>1, LeadsOn DEF PtrSafe
<1> QED BY <1>2, <1>3, <1>4

\* In the order of the code: protective copies, switches, rollback.
LEMMA WorksSafe ==
  ASSUME RestoreInv, NEW r \in RestoreIds, Works(r), ~ Finish(r)
  PROVE  DbSafe(r)' /\ UpSafe(r)' /\ PtrSafe(r)'
<1>0. /\ pc \in [RestoreIds -> Pcs] /\ saved \in [RestoreIds -> Copies]
      /\ before \in [RestoreIds -> Records]
      /\ db \in Stores /\ db # NoStore /\ up \in Stores
      /\ DbSafe(r) /\ UpSafe(r) /\ PtrSafe(r)
      /\ saved[r].db \in Stores /\ saved[r].up \in Stores
  BY DEF RestoreInv, RestoreTypes, Copies
<1> USE DEF Step
<1>1. CASE PauseRaises(r) \/ Raises(r) \/ RollbackRaises(r)
  <2>1. Leads(pc[r], pc'[r])
    BY <1>0, <1>1 DEF PauseRaises, Raises, RollbackRaises, Leads, Forward
  <2>2. UNCHANGED <<db, up, saved, before, run, ptr>>
    BY <1>1 DEF PauseRaises, Raises, RollbackRaises, diskVars, ramVars
  <2> QED BY <2>1, <2>2, WorksOn
<1>2. CASE Pause(r) \/ Verify(r) \/ Build(r) \/ Check(r) \/ SwitchRun(r) \/ SwitchPtr(r)
  <2>1. Leads(pc[r], pc'[r])
    BY <1>0, <1>2 DEF Pause, Verify, Build, Check, SwitchRun, SwitchPtr, Leads, Forward
  <2>2. UNCHANGED <<db, up, saved, before>>
    BY <1>2 DEF Pause, Verify, Build, Check, SwitchRun, SwitchPtr, diskVars, ramVars
  <2>3. pc'[r] \notin RunBack
    BY <1>0, <1>2 DEF Pause, Verify, Build, Check, SwitchRun, SwitchPtr, RunBack
  <2> QED BY <2>1, <2>2, <2>3, WorksOn DEF RunBack, PtrBack
<1>3. CASE Move(r) \/ VerifyUp(r) \/ Tidy(r) \/ Health(r) \/ Retain(r) \/ Audit(r)
  <2>1. Leads(pc[r], pc'[r])
    BY <1>0, <1>3 DEF Move, VerifyUp, Tidy, Health, Retain, Audit, Leads, Forward
  <2>2. UNCHANGED <<db, up, saved, before, run, ptr>>
    BY <1>3 DEF Move, VerifyUp, Tidy, Health, Retain, Audit, diskVars, ramVars
  <2> QED BY <2>1, <2>2, WorksOn
<1>4. CASE SnapDb(r)
  <2>1. /\ pc[r] = "snapDb" /\ UNCHANGED <<db, up, run, ptr, before>>
        /\ \/ pc'[r] = "snapUp" /\ saved'[r].db = db
           \/ pc'[r] = "rbDb" /\ saved'[r].db = [gen |-> Damaged, docs |-> {}]
        /\ saved'[r].up = saved[r].up /\ saved'[r].ptr = saved[r].ptr
    <3>1. PICK c \in Stores :
            /\ saved' = [saved EXCEPT ![r].db = c]
            /\ \/ pc'[r] = "snapUp" /\ c = db
               \/ pc'[r] = "rbDb" /\ c = [gen |-> Damaged, docs |-> {}]
      BY <1>0, <1>4, StoreNumbers DEF SnapDb
    <3>2. saved'[r].db = c /\ saved'[r].up = saved[r].up /\ saved'[r].ptr = saved[r].ptr
      BY <1>0, <3>1 DEF Copies
    <3> QED BY <1>0, <1>4, <3>1, <3>2 DEF SnapDb, diskVars, ramVars
  <2>2. [gen |-> Damaged, docs |-> {}] # NoStore
    BY StoreNumbers DEF NoStore
  <2> QED
    BY <1>0, <2>1, <2>2 DEF DbSafe, UpSafe, PtrSafe, Held, Ahead, BeforeCopies, BeforeDb, BeforeUp,
       DbBack, UpCopied, UpBack, RunBack, PtrBack, Forward, Back
<1>5. CASE SnapUp(r)
  <2>1. /\ pc[r] = "snapUp" /\ UNCHANGED <<db, up, run, ptr, before>>
        /\ \/ pc'[r] = "build" /\ saved'[r].up = up
           \/ pc'[r] = "rbDb" /\ saved'[r].up.gen = Damaged
        /\ saved'[r].db = saved[r].db /\ saved'[r].ptr = saved[r].ptr
    BY <1>0, <1>5 DEF SnapUp, diskVars, ramVars, Copies
  <2>2. Damaged # -1 /\ NoStore.gen = -1 /\ (up # NoStore <=> up.gen # -1)
    BY <1>0, StoreNumbers
  <2>3. DbSafe(r)'
    BY <1>0, <2>1 DEF DbSafe, Held, Ahead, BeforeCopies, BeforeDb, DbBack, Forward, Back
  <2>4. PtrSafe(r)'
    BY <1>0, <2>1 DEF PtrSafe, Held, RunBack, PtrBack, Forward, Back
  <2>5. ASSUME before[r].up # -1
        PROVE  saved'[r].up # NoStore /\ saved'[r].up.gen \in {before[r].up, Damaged}
    BY <1>0, <2>1, <2>2, <2>5 DEF UpSafe, Held, BeforeUp, BeforeDb, Forward
  <2>6. before[r].up # -1 => up.gen = before[r].up
    BY <1>0, <2>1 DEF UpSafe, Held, BeforeUp, BeforeDb, Forward
  <2>7. UpSafe(r)'
    BY <2>1, <2>5, <2>6 DEF UpSafe, UpBack
  <2> QED BY <2>3, <2>4, <2>7
<1>6. CASE SwitchDb(r)
  <2>1. /\ pc[r] = "switchDb" /\ pc'[r] = "switchRun" /\ UNCHANGED <<up, run, ptr, saved>>
        /\ before'[r].db = before[r].db /\ before'[r].up = before[r].up
        /\ before'[r].ptr = before[r].ptr
    BY <1>0, <1>6 DEF SwitchDb, ramVars, Records
  <2> QED
    BY <1>0, <2>1 DEF DbSafe, UpSafe, PtrSafe, Held, Ahead, BeforeCopies, BeforeDb, BeforeUp,
       DbBack, UpCopied, UpBack, RunBack, PtrBack, Forward, Back
<1>7. CASE Demote(r) \/ Promote(r)
  <2>1. /\ pc[r] \in {"demote", "promote"} /\ pc'[r] \in {"promote", "tidy", "rbDb"}
        /\ UNCHANGED <<db, run, ptr, saved, before>>
    BY <1>0, <1>7 DEF Demote, Promote, ramVars
  <2> QED
    BY <1>0, <2>1 DEF DbSafe, UpSafe, PtrSafe, Held, Ahead, BeforeCopies, BeforeDb, BeforeUp,
       DbBack, UpCopied, UpBack, RunBack, PtrBack, Forward, Back
<1>8. CASE RollbackDb(r)
  <2>1. /\ pc[r] = "rbDb" /\ pc'[r] = "rbUpDrop" /\ UNCHANGED <<up, run, ptr, saved, before>>
        /\ db' = IF saved[r].db = NoStore THEN db ELSE saved[r].db
    BY <1>0, <1>8 DEF RollbackDb, ramVars
  <2> QED
    BY <1>0, <2>1 DEF DbSafe, UpSafe, PtrSafe, Held, Ahead, BeforeCopies, BeforeDb, BeforeUp,
       DbBack, UpCopied, UpBack, RunBack, PtrBack, Forward, Back
<1>9. CASE RollbackUploads(r)
  <2>1. /\ UNCHANGED <<db, run, ptr, saved, before>>
        /\ \/ pc[r] = "rbUpDrop" /\ pc'[r] = "rbRun" /\ saved[r].up = NoStore /\ up' = up
           \/ pc[r] = "rbUpDrop" /\ pc'[r] = "rbUpTidy" /\ saved[r].up # NoStore
           \/ pc[r] = "rbUpTidy" /\ pc'[r] = "rbUpCopy" /\ up' = up
           \/ pc[r] = "rbUpCopy" /\ pc'[r] = "rbRun" /\ up' = saved[r].up
    BY <1>0, <1>9 DEF RollbackUploads, ramVars
  <2>2. DbSafe(r)' /\ PtrSafe(r)'
    BY <1>0, <2>1 DEF DbSafe, PtrSafe, Held, Ahead, BeforeCopies, BeforeDb, DbBack, RunBack, PtrBack,
       Forward, Back
  <2>3. pc[r] \in Held /\ pc'[r] \notin BeforeUp /\ pc'[r] \notin Ahead
    BY <2>1 DEF Held, BeforeUp, BeforeDb, BeforeCopies, Ahead, Forward, Back
  <2>4. CASE pc'[r] = "rbRun"
    <3>1. pc'[r] \notin UpCopied
      BY <2>3, <2>4 DEF UpCopied
    <3>2. up' = up \/ (before[r].up # -1 => saved[r].up # NoStore)
      BY <1>0, <2>1, <2>3, <2>4 DEF UpSafe, UpCopied
    <3>3. UNCHANGED <<saved, before>> /\ (up' = saved[r].up \/ (saved[r].up = NoStore /\ up' = up))
      BY <2>1, <2>4
    <3> QED BY <1>0, <2>2, <2>3, <3>1, <3>2, <3>3 DEF UpSafe
  <2>5. CASE pc'[r] \in {"rbUpTidy", "rbUpCopy"}
    <3>1. pc'[r] \notin UpBack
      BY <2>5 DEF UpBack
    <3>2. before[r].up # -1 => saved[r].up # NoStore
      BY <1>0, <2>1, <2>3, <2>5 DEF UpSafe, UpCopied
    <3>3. UNCHANGED <<saved, before>>
      BY <2>1
    <3> QED BY <1>0, <2>2, <2>3, <3>1, <3>2, <3>3 DEF UpSafe
  <2> QED BY <2>1, <2>2, <2>4, <2>5
<1>10. CASE RollbackCollection(r)
  <2>1. /\ UNCHANGED <<db, up, saved, before>>
        /\ \/ pc[r] = "rbRun" /\ pc'[r] = "rbPtr" /\ run' = saved[r].ptr
           \/ pc[r] = "rbPtr" /\ pc'[r] = "rbColl" /\ ptr' = saved[r].ptr /\ run' = run
           \/ pc[r] = "rbColl" /\ pc'[r] = "rbInit" /\ UNCHANGED <<run, ptr>>
           \/ pc[r] = "rbInit" /\ pc'[r] = "failedResume" /\ UNCHANGED <<run, ptr>>
    BY <1>0, <1>10 DEF RollbackCollection
  <2> QED
    BY <1>0, <2>1 DEF DbSafe, UpSafe, PtrSafe, Held, Ahead, BeforeCopies, BeforeDb, BeforeUp,
       DbBack, UpCopied, UpBack, RunBack, PtrBack, Forward, Back
<1> QED
  BY <1>1, <1>2, <1>3, <1>4, <1>5, <1>6, <1>7, <1>8, <1>9, <1>10 DEF Works, Proceed

\* A restore goes ahead only with what it has checked and switched so far.
LEMMA WorksSwitched ==
  ASSUME RestoreInv, NEW r \in RestoreIds, Works(r)
  PROVE  Switched(r)'
<1>0. pc \in [RestoreIds -> Pcs] /\ arch \in [RestoreIds -> Archives] /\ Switched(r)
  BY DEF RestoreInv, RestoreTypes
<1>1. ASSUME pc'[r] \notin Ahead \ (BeforeCopies \cup {"snapUp", "build"}) PROVE Switched(r)'
  BY <1>1 DEF Switched, Ahead, Forward, BeforeDb, BeforeCopies
<1> USE DEF Step
<1>2. CASE PauseRaises(r) \/ Raises(r) \/ RollbackRaises(r) \/ Finish(r)
  BY <1>0, <1>1, <1>2 DEF PauseRaises, Raises, RollbackRaises, Finish, Endings, Ahead, Forward
<1>3. CASE RollbackDb(r) \/ RollbackUploads(r) \/ RollbackCollection(r)
  BY <1>0, <1>1, <1>3 DEF RollbackDb, RollbackUploads, RollbackCollection, Ahead, Forward
<1>4. CASE Pause(r) \/ Verify(r) \/ SnapDb(r) \/ SnapUp(r)
  BY <1>0, <1>1, <1>4 DEF Pause, Verify, SnapDb, SnapUp, Ahead, Forward, BeforeCopies
<1>5. CASE Build(r)
  <2>1. pc'[r] = "check" /\ r \in DOMAIN colls'
    BY <1>0, <1>5 DEF Build
  <2> QED BY <2>1 DEF Switched, BeforeDb
<1>6. CASE Check(r)
  <2>1. CASE pc'[r] = "rbDb"
    BY <1>1, <2>1 DEF Ahead, Forward
  <2>2. CASE pc'[r] # "rbDb"
    <3>1. /\ pc[r] = "check" /\ pc'[r] = "switchDb" /\ Consistent(r)
          /\ UNCHANGED <<colls, arch, hit>>
      BY <1>0, <1>6, <2>2 DEF Check, diskVars, aside
    <3>2. r \in DOMAIN colls
      BY <1>0, <3>1 DEF Switched, Ahead, Forward, BeforeCopies
    <3> QED BY <3>1, <3>2 DEF Switched, Consistent, BeforeDb
  <2> QED BY <2>1, <2>2
<1>7. CASE SwitchDb(r)
  <2>1. /\ pc[r] = "switchDb" /\ pc'[r] = "switchRun"
        /\ db' = [gen |-> r, docs |-> arch[r].db] /\ UNCHANGED <<colls, arch, hit>>
    BY <1>0, <1>7 DEF SwitchDb, aside
  <2> QED BY <1>0, <2>1 DEF Switched, Ahead, Forward, BeforeDb, BeforeCopies
<1>8. CASE SwitchRun(r)
  <2>1. /\ pc[r] = "switchRun" /\ pc'[r] = "switchPtr" /\ run' = r
        /\ UNCHANGED <<db, colls, arch, hit>>
    BY <1>0, <1>8 DEF SwitchRun, aside, diskVars
  <2> QED BY <1>0, <2>1 DEF Switched, Ahead, Forward, BeforeDb, BeforeCopies
<1>9. CASE SwitchPtr(r)
  <2>1. /\ pc[r] = "switchPtr" /\ ptr' = r
        /\ \/ pc'[r] = "move"
           \/ pc'[r] = "health" /\ arch[r].tar = {}
        /\ UNCHANGED <<db, run, colls, arch, hit>>
    BY <1>0, <1>9 DEF SwitchPtr, aside, ramVars
  <2>2. arch[r].db \subseteq arch[r].tar
    BY <1>0, <2>1 DEF Switched, Ahead, Forward, BeforeCopies
  <2> QED BY <1>0, <2>1, <2>2 DEF Switched, Ahead, Forward, BeforeDb, BeforeCopies
<1>10. CASE Move(r) \/ VerifyUp(r) \/ Demote(r)
  <2>1. /\ UNCHANGED <<db, run, ptr, colls, arch, hit>>
        /\ \/ pc[r] = "move" /\ pc'[r] = "verifyUp" /\ candidate'.docs = arch[r].tar
           \/ pc[r] = "verifyUp" /\ pc'[r] \in {"demote", "rbDb"} /\ candidate' = candidate
           \/ pc[r] = "demote" /\ pc'[r] = "promote" /\ candidate' = candidate
    BY <1>0, <1>10 DEF Move, VerifyUp, Demote, aside, ramVars, diskVars
  <2> QED BY <1>0, <2>1 DEF Switched, Ahead, Forward, BeforeDb, BeforeCopies
<1>11. CASE Promote(r)
  <2>1. /\ UNCHANGED <<db, run, ptr, colls, arch, hit>> /\ pc[r] = "promote"
        /\ pc'[r] = "rbDb" \/ (pc'[r] = "tidy" /\ up' = candidate)
    BY <1>0, <1>11 DEF Promote, aside, ramVars
  <2>2. candidate.docs = arch[r].tar /\ arch[r].db \subseteq arch[r].tar
    BY <1>0, <2>1 DEF Switched, Ahead, Forward, BeforeCopies
  <2> QED BY <1>0, <2>1, <2>2 DEF Switched, Ahead, Forward, BeforeDb, BeforeCopies
<1>12. CASE Tidy(r) \/ Health(r) \/ Audit(r)
  <2>1. /\ UNCHANGED <<db, up, run, ptr, colls, arch, hit>>
        /\ <<pc[r], pc'[r]>> \in {<<"tidy", "health">>, <<"health", "retain">>, <<"audit", "okResume">>}
    BY <1>0, <1>12 DEF Tidy, Health, Audit, aside, ramVars, diskVars
  <2> QED BY <1>0, <2>1 DEF Switched, Ahead, Forward, BeforeDb, BeforeCopies
<1>13. CASE Retain(r)
  <2>1. /\ UNCHANGED <<db, up, run, ptr, arch, hit>> /\ pc[r] = "retain" /\ pc'[r] = "audit"
    BY <1>0, <1>13 DEF Retain, aside, ramVars
  <2>2. PICK gone \in SUBSET (DOMAIN colls \ Kept(r)) : colls' = [c \in DOMAIN colls \ gone |-> colls[c]]
    BY <1>13 DEF Retain
  <2>3. r \in DOMAIN colls /\ r \notin gone
    BY <1>0, <2>1 DEF Switched, Ahead, Forward, BeforeCopies, Kept
  <2>4. r \in DOMAIN colls' /\ colls'[r] = colls[r]
    BY <2>2, <2>3
  <2> QED BY <1>0, <2>1, <2>4 DEF Switched, Ahead, Forward, BeforeDb, BeforeCopies
<1> QED
  BY <1>2, <1>3, <1>4, <1>5, <1>6, <1>7, <1>8, <1>9, <1>10, <1>11, <1>12, <1>13 DEF Works, Proceed

LEMMA RestoreInvStep == RestoreInv /\ [Next]_vars => RestoreInv'
<1> SUFFICES ASSUME RestoreInv, [Next]_vars, NEW q \in RestoreIds
             PROVE  HoldsLock(q)' /\ DbSafe(q)' /\ UpSafe(q)' /\ PtrSafe(q)' /\ Switched(q)'
  BY RestoreTypesStep DEF RestoreInv
<1>1. CASE Write \/ MakeBackup
  BY <1>1, BesideRestore
<1>2. CASE Crash
  <2>1. pc'[q] \in {"idle", "ok", "failed", "torn", "cut"} /\ saved'[q] = NothingSaved
    BY <1>2 DEF Crash
  <2> QED
    BY <2>1 DEF HoldsLock, DbSafe, UpSafe, PtrSafe, Switched, Held, Ahead, Forward, Back
<1>3. ASSUME NEW r \in RestoreIds, Acquire(r)
      PROVE  HoldsLock(q)' /\ DbSafe(q)' /\ UpSafe(q)' /\ PtrSafe(q)' /\ Switched(q)'
  BY <1>3, AcquireSafe
<1>4. ASSUME NEW r \in RestoreIds, Works(r)
      PROVE  HoldsLock(q)' /\ DbSafe(q)' /\ UpSafe(q)' /\ PtrSafe(q)' /\ Switched(q)'
  <2>1. HoldsLock(q)'
    BY <1>4, WorksLock
  <2>2. CASE pc'[q] \notin Held
    BY <2>1, <2>2 DEF DbSafe, UpSafe, PtrSafe, Switched, Held, Ahead, Forward
  <2>3. CASE q # r
    BY <1>4, <2>2, <2>3, WorksAlone
  <2>4. CASE q = r /\ ~ Finish(r)
    BY <1>4, <2>1, <2>4, WorksSafe, WorksSwitched
  <2>5. CASE q = r /\ Finish(r)
    BY <2>2, <2>5 DEF Finish, Endings, Held, Forward, Back, RestoreInv, RestoreTypes
  <2> QED BY <2>3, <2>4, <2>5
<1>5. CASE UNCHANGED vars
  BY <1>5 DEF vars, RestoreInv, HoldsLock, DbSafe, UpSafe, PtrSafe, Switched
<1> QED BY <1>1, <1>2, <1>3, <1>4, <1>5 DEF Next, Works

LEMMA RestoreInvariant == Spec => []RestoreInv
BY RestoreInitInv, RestoreInvStep, PTL DEF Spec

\* A restore that reports success has every ready document of the backup stored and
\* indexed, for any documents, restores, faults and requests beside it
\* (restore_backup, _cross_consistency_check).
THEOREM RestoreComplete == Spec => []RestoredIsComplete
<1>1. RestoreInv => RestoredIsComplete
  BY DEF RestoreInv, Switched, RestoredIsComplete, Ahead, Forward, BeforeDb, BeforeCopies
<1> QED BY <1>1, RestoreInvariant, PTL

\* A restore that fails in any step and rolls back leaves what was live, for any
\* number of restores and faults (_do_rollback).
THEOREM RollbackIsWhole == Spec => []AllOrNothing
<1>1. ASSUME RestoreInv, NEW r \in RestoreIds, pc[r] = "failedResume",
             before[r].up # NoStore.gen, saved[r].db.gen # Damaged, saved[r].up.gen # Damaged
      PROVE  Unchanged(r)
  <2>1. DbSafe(r) /\ UpSafe(r) /\ PtrSafe(r) /\ before[r].up # -1
    BY <1>1, StoreNumbers DEF RestoreInv
  <2>2. pc[r] \in Held /\ pc[r] \in DbBack /\ pc[r] \in UpBack /\ pc[r] \in RunBack /\ pc[r] \in PtrBack
    BY <1>1 DEF Held, DbBack, UpBack, RunBack, PtrBack
  <2>3. db.gen = before[r].db
    BY <1>1, <2>1, <2>2 DEF DbSafe
  <2>4. up.gen = before[r].up
    BY <1>1, <2>1, <2>2 DEF UpSafe
  <2>5. run = before[r].ptr /\ ptr = before[r].ptr
    BY <2>1, <2>2 DEF PtrSafe
  <2> QED BY <2>3, <2>4, <2>5 DEF Unchanged
<1>2. RestoreInv => AllOrNothing
  BY <1>1 DEF AllOrNothing
<1> QED BY <1>2, RestoreInvariant, PTL
=============================================================================
