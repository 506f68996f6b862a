----------------------------- MODULE AnswerCache -----------------------------
(***************************************************************************)
(* The answer cache (rag/answer_cache.py) between the turns that fill it   *)
(* (agent/loop.py) and the requests and tasks that change the documents    *)
(* under it.  A change bumps the collection version, which clears the      *)
(* cache; a turn retrieves, spends its time with the model, and stores its *)
(* answer under the version of that moment.                                *)
(*                                                                         *)
(* All turns ask the same question in the same words.  Chunks of a         *)
(* document keep their ids from one processing to the next while their     *)
(* texts may differ, so a source is a document and the number of its text. *)
(* The cache is in memory: a crash empties it, and is not modelled.        *)
(***************************************************************************)
EXTENDS Integers, FiniteSetsExt

CONSTANTS
  Docs,       \* documents
  Turns,      \* bound: questions
  KeyTop,     \* sources that go into the key (8 in the code)
  MaxEntries, \* rag_answer_cache_max_entries
  Texts,      \* bound: processings that produce a text
  Budget,     \* bound: failures of each kind, restores
  Total       \* bound: how many of these in all

BudgetKinds == {"fault", "leftover", "unreachable", "restore"}

ASSUME AnswerCacheAssumption ==
  /\ Texts \in Nat /\ KeyTop \in Nat \ {0} /\ MaxEntries \in Nat \ {0}
  /\ Budget \in [BudgetKinds -> Nat] /\ Total \in Nat

VARIABLES
  row,      \* documents.status: none yet, busy, settled, gone
  text,     \* the text of each document that a search finds, 0 when it finds none
  task,     \* where the processing of each document is
  purges,   \* delete and clear-all requests under way: what each deletes
  texts,    \* texts produced so far
  version,  \* _collection_version
  cache,    \* _store: at most one entry of each key
  turn,     \* each turn: where it is and what it retrieved
  archive,  \* the backup that will be restored: rows and texts
  since,    \* history: the version from which turns know each document's last change
  used      \* how much of each Budget was spent

answerVars == <<row, text, task, purges, texts, version, cache, turn, archive, since, used>>
docVars == <<row, text, task, purges, texts>>
cacheVars == <<version, cache, since>>

NewTurn == [pc |-> "idle", got |-> [d \in {} |-> 0], ids |-> {}, at |-> 0]
Spend(b) ==
  /\ used[b] < Budget[b]
  /\ used["fault"] + used["leftover"] + used["unreachable"] + used["restore"] < Total
  /\ used' = [used EXCEPT ![b] = @ + 1]

NoArchive == [row |-> [d \in Docs |-> "none"], text |-> [d \in Docs |-> 0]]

CacheInit ==
  /\ row = [d \in Docs |-> "none"] /\ text = [d \in Docs |-> 0]
  /\ task = [d \in Docs |-> "none"] /\ purges = {} /\ texts = 0
  /\ version = 0 /\ cache = {} /\ turn = [t \in Turns |-> NewTurn]
  /\ archive = NoArchive /\ since = [d \in Docs |-> 0]
  /\ used = [b \in BudgetKinds |-> 0]

Kept(changed) == UNCHANGED <<version, cache, since>>                   \* mutant
Noted(changed, v) == since' = [d \in Docs |-> IF d \in changed THEN v ELSE since[d]]

\* The documents that changed are named for the history only.
Bump(changed) == version' = version + 1 /\ cache' = {} /\ Noted(changed, version')

\* A change that bumps nothing is in no version.
Unbumped(changed) == Noted(changed, version + 1) /\ UNCHANGED <<version, cache>>

-----------------------------------------------------------------------------
(* Documents: each action ends where the code bumps, or does not              *)

\* A new document, or the guarded UPDATE of reprocess, after which it bumps.
Claim(d) ==
  /\ \/ row[d] = "none" /\ UNCHANGED cacheVars
     \/ row[d] = "settled" /\ Bump({d})
  /\ row' = [row EXCEPT ![d] = "busy"] /\ task' = [task EXCEPT ![d] = "claimed"]
  /\ UNCHANGED <<text, purges, texts, turn, archive, used>>

\* Stage 1 deletes the old index, and later stages show the new one.
Empty(d) ==
  /\ task[d] = "claimed"
  /\ task' = [task EXCEPT ![d] = "emptied"] /\ text' = [text EXCEPT ![d] = 0]
  /\ UNCHANGED <<row, purges, texts, cacheVars, turn, archive, used>>

Show(d) ==
  /\ task[d] = "emptied" /\ texts < Texts
  /\ texts' = texts + 1 /\ text' = [text EXCEPT ![d] = texts']
  /\ task' = [task EXCEPT ![d] = "shown"]
  /\ UNCHANGED <<row, purges, cacheVars, turn, archive, used>>

\* The document is ready, and the cache is invalidated in the same step.
BumpAtReady(changed) == Bump(changed)
Ready(d) ==
  /\ task[d] = "shown" /\ row' = [row EXCEPT ![d] = "settled"]
  /\ task' = [task EXCEPT ![d] = "none"] /\ BumpAtReady({d})
  /\ UNCHANGED <<text, purges, texts, turn, archive, used>>

\* What was written is deleted again, or is left and found by searches when that
\* fails as well: it is logged, and nothing is bumped.
CleanedUp(d) ==
  \/ /\ Spend("fault") /\ UNCHANGED cacheVars
     /\ text' = [text EXCEPT ![d] = IF task[d] = "claimed" THEN @ ELSE 0]
  \/ task[d] = "shown" /\ Spend("leftover") /\ UNCHANGED text /\ Unbumped({d})

\* The task fails for good, or starts over.
Undo(d) ==
  /\ task[d] # "none" /\ CleanedUp(d)
  /\ \/ task' = [task EXCEPT ![d] = "claimed"] /\ UNCHANGED row
     \/ task' = [task EXCEPT ![d] = "none"] /\ row' = [row EXCEPT ![d] = "settled"]
  /\ UNCHANGED <<purges, texts, turn, archive>>

Present == {d \in Docs : row[d] \in {"busy", "settled"}}

\* Rows first: from now on no search finds these documents.
DeleteRows(gone) ==
  /\ gone # {} /\ \A d \in gone : row[d] = "settled"
  /\ gone = Present \/ Cardinality(gone) = 1
  /\ row' = [d \in Docs |-> IF d \in gone THEN "gone" ELSE row[d]]
  /\ text' = [d \in Docs |-> IF d \in gone THEN 0 ELSE text[d]]
  /\ purges' = purges \cup {gone}
  /\ UNCHANGED <<task, texts, cacheVars, turn, archive, used>>

\* The stores are cleaned, whatever that yields, and then the cache is; when the
\* store cannot be opened the request ends with neither.
BumpAtPurge(changed) == Bump(changed)
PurgeDone(gone) ==
  /\ gone \in purges /\ purges' = purges \ {gone}
  /\ \/ BumpAtPurge(gone) /\ UNCHANGED used
     \/ Spend("unreachable") /\ Unbumped(gone)
  /\ UNCHANGED <<row, text, task, texts, turn, archive>>

Changing == purges # {} \/ \E d \in Docs : task[d] # "none"

Backup ==
  /\ ~Changing /\ archive = NoArchive /\ archive' = [row |-> row, text |-> text]
  /\ Spend("restore") /\ UNCHANGED <<docVars, cacheVars, turn>>

\* A restore brings rows and texts back and leaves the cache as it is.
Restore ==
  /\ ~Changing /\ archive # NoArchive
  /\ row' = archive.row /\ text' = archive.text /\ Unbumped(Docs)
  /\ archive' = NoArchive
  /\ UNCHANGED <<task, purges, texts, turn, used>>

-----------------------------------------------------------------------------
(* Turns                                                                     *)

\* Any documents with a text are found; the best of them go into the key.
Retrieve(t) ==
  /\ turn[t].pc = "idle"
  /\ \E found \in SUBSET {d \in Docs : text[d] # 0} \ {{}} :
     \E ids \in kSubset(IF Cardinality(found) < KeyTop THEN Cardinality(found) ELSE KeyTop, found) :
       turn' = [turn EXCEPT ![t] =
         [pc |-> "found", got |-> [d \in found |-> text[d]], ids |-> ids, at |-> version]]
  /\ UNCHANGED <<docVars, cacheVars, archive, used>>

\* The key: ids of the sources, not their texts, and the version of this moment.
Key(t) == [ids |-> turn[t].ids, version |-> version]
Hits(t) == {e \in cache : e.key = Key(t)}

\* A hit ends the turn: the cached answer and its sources are sent.
Hit(t) ==
  /\ turn[t].pc = "found" /\ Hits(t) # {}
  /\ turn' = [turn EXCEPT ![t] = [NewTurn EXCEPT !.pc = "over"]]
  /\ UNCHANGED <<docVars, cacheVars, archive, used>>

Generate(t) ==
  /\ turn[t].pc = "found" /\ Hits(t) = {}
  /\ turn' = [turn EXCEPT ![t].pc = "asked"]
  /\ UNCHANGED <<docVars, cacheVars, archive, used>>

\* What a full cache drops first: its oldest entry, and any here, since how old
\* an entry is says nothing of the documents.
Rooms == IF Cardinality(cache) < MaxEntries THEN {cache} ELSE {cache \ {e} : e \in cache}

\* The verified answer is stored, in place of one with the same key.
Put(t) ==
  /\ turn[t].pc = "asked"
  /\ \E room \in Rooms :
       cache' = {e \in room : e.key # Key(t)} \cup
                {[key |-> Key(t), made |-> turn[t].got, at |-> turn[t].at]}
  /\ turn' = [turn EXCEPT ![t] = [NewTurn EXCEPT !.pc = "over"]]
  /\ UNCHANGED <<docVars, version, since, archive, used>>

\* An entry that has outlived its ttl is dropped when it is looked up.
Expire ==
  /\ \E e \in cache : cache' = cache \ {e}
  /\ UNCHANGED <<docVars, version, since, turn, archive, used>>

-----------------------------------------------------------------------------
CacheNext ==
  \/ \E d \in Docs : Claim(d) \/ Empty(d) \/ Show(d) \/ Ready(d) \/ Undo(d)
  \/ \E gone \in SUBSET Docs : DeleteRows(gone) \/ PurgeDone(gone)
  \/ \E t \in Turns : Retrieve(t) \/ Hit(t) \/ Generate(t) \/ Put(t)
  \/ Backup \/ Restore \/ Expire

CacheSpec == CacheInit /\ [][CacheNext]_answerVars

-----------------------------------------------------------------------------
CacheTypeOK ==
  /\ row \in [Docs -> {"none", "busy", "settled", "gone"}]
  /\ text \in [Docs -> 0..Texts]
  /\ task \in [Docs -> {"none", "claimed", "emptied", "shown"}]
  /\ purges \subseteq SUBSET Docs /\ texts \in 0..Texts /\ version \in Nat
  /\ since \in [Docs -> Nat]
  /\ Cardinality(cache) <= MaxEntries
  /\ \A t \in Turns : turn[t].pc \in {"idle", "found", "asked", "over"}

\* What a turn can be answered with: its key is that of sources a search finds.
Findable(e) == e.key.version = version /\ \A d \in e.key.ids : text[d] # 0

Current(e) == \A d \in e.key.ids : e.made[d] = text[d]

\* A change of d, or one that bumps nothing, came after the turn had retrieved.
Overtaken(e, d) == e.at < since[d]

\* Once no document is being changed, a turn that finds an answer in the cache
\* finds one made from the texts it has itself retrieved, though the key does not
\* tell texts apart: the bumps come after the last step that can feed a stale
\* answer.  The answer is only behind on documents whose own change overtook the
\* turn that made it, or was not bumped for (see README).
FoundIsCurrent ==
  ~Changing =>
    \A e \in cache : Findable(e) =>
      \A d \in e.key.ids : ~Overtaken(e, d) => e.made[d] = text[d]

\* Nor does it find an answer that quotes a deleted document, also among the
\* sources that the key leaves out.
DeletedNotQuoted ==
  \A e \in cache : \A d \in DOMAIN e.made :
    row[d] = "gone" /\ ~Overtaken(e, d) => \E gone \in purges : d \in gone

\* "Cache invalidation on every document add/delete/reprocess" (answer_cache.py).
InvalidatedByChange ==
  ~Changing => \A e \in cache : Findable(e) => Current(e)
=============================================================================
