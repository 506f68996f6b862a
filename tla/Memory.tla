------------------------------- MODULE Memory -------------------------------
(***************************************************************************)
(* The user's profile, its search index, and what fills them.              *)
(*                                                                         *)
(* Writers keep memories in the profile under one lock: the extraction of  *)
(* a conversation, which then moves the conversation's cursor; a chat turn *)
(* or a background job with a candidate from a message; the user, who      *)
(* deletes one memory or all.  Each builds the index again in a new        *)
(* collection, switches the pointer and purges the other collections.  The *)
(* start of the application and the rebuild of the collections build it    *)
(* too, without the lock.  A step of a process ends where the code awaits. *)
(*                                                                         *)
(* The profile is a sequence of memories; a memory is the number of the    *)
(* message it was taken from, or Edited by the user.  A collection holds   *)
(* the memories it was filled with.                                        *)
(***************************************************************************)
EXTENDS Integers, SequencesExt, FiniteSetsExt

CONSTANTS
  Posts,   \* bound: messages of the conversation
  Cap,     \* MAX_FACTS
  Fit,     \* how many messages fit the prompt of an extraction in any case
  Budget,  \* bound: crashes, faults (failures and cancellations), and other
           \* events (candidates, edits, rebuilds)
  Total    \* bound: how many of these in all

BudgetKinds == {"crash", "fault", "event"}

ASSUME MemoryAssumption ==
  /\ Posts \in Nat /\ Cap \in Nat \ {0} /\ Fit \in Nat \ {0}
  /\ Budget \in [BudgetKinds -> Nat] /\ Total \in Nat

VARIABLES
  posted,    \* messages stored so far
  cursor,    \* last_extracted_at of the conversation
  profile,   \* profile_data of the newest UserProfile row
  lock,      \* who holds _PROFILE_WRITE_LOCK
  proc,      \* each process: where it is and its locals
  colls,     \* the profile collections of Qdrant
  ptr,       \* PROFILE_COLLECTION
  file,      \* the pointer in active_collections.json
  dirty,     \* PROFILE_INDEX_DIRTY
  serving,   \* the start of the application is over
  told,      \* history: memories saved and neither evicted nor deleted
  read,      \* history: messages that an extraction showed to the model and used up
  suspect,   \* history: the index may come from a run that the lock did not order
  used       \* how much of each Budget was spent

vars == <<posted, cursor, profile, lock, proc, colls, ptr, file, dirty, serving,
          told, read, suspect, used>>
index   == <<colls, ptr, file, dirty, suspect>>
history == <<told, read>>
chat    == <<posted, cursor>>

Edited   == 0                              \* a memory that the user worded
Writers  == {"extract", "candidate", "user"}
Builders == {"start", "rebuild"}
Procs    == Writers \cup Builders
Names    == 0..(Cardinality(Procs) + 2)    \* enough for one more than are in use
Idle     == [pc |-> "idle", seen |-> <<>>, new |-> {}, name |-> 0, first |-> 0, upto |-> 0]

Init ==
  /\ posted = 0 /\ cursor = 0 /\ profile = <<>> /\ lock = "none"
  /\ proc = [p \in Procs |-> Idle]
  /\ colls = [n \in {} |-> {}] /\ ptr = 0 /\ file = 0
  /\ dirty = FALSE /\ serving = TRUE
  /\ told = {} /\ read = {} /\ suspect = FALSE
  /\ used = [b \in BudgetKinds |-> 0]

Spend(b) ==
  /\ used[b] < Budget[b] /\ used["crash"] + used["fault"] + used["event"] < Total
  /\ used' = [used EXCEPT ![b] = @ + 1]
Goes(p, pc) == proc' = [proc EXCEPT ![p].pc = pc]

-----------------------------------------------------------------------------
(* The extraction of the conversation                                        *)

Post ==
  /\ serving /\ posted < Posts /\ posted' = posted + 1
  /\ UNCHANGED <<cursor, profile, lock, proc, index, serving, history, used>>

\* Reads the messages behind the cursor.  The prompt takes the newest of them, as
\* many as the token budget allows: at least Fit, the oldest perhaps in part.
Read ==
  /\ proc["extract"].pc = "idle" /\ cursor < posted
  /\ \E first \in cursor + 1 .. posted :
       /\ first = cursor + 1 \/ first + Fit <= posted + 1
       /\ proc' = [proc EXCEPT !["extract"] =
            [Idle EXCEPT !.pc = "asked", !.first = first, !.upto = posted]]
  /\ UNCHANGED <<chat, profile, lock, index, serving, history, used>>

\* The messages that the model sees.
Prompt == proc["extract"].first .. proc["extract"].upto

\* The model's answer: nothing that could be parsed, and the cursor stays; an
\* empty list; or memories of the messages it saw, to save.
Answer ==
  /\ proc["extract"].pc = "asked"
  /\ \/ /\ Spend("fault") /\ proc' = [proc EXCEPT !["extract"] = Idle]
        /\ UNCHANGED read
     \/ /\ proc' = [proc EXCEPT !["extract"].pc = "advance"]
        /\ read' = read \cup Prompt /\ UNCHANGED used
     \/ \E found \in SUBSET Prompt \ {{}} :
          /\ proc' = [proc EXCEPT !["extract"].pc = "want", !["extract"].new = found]
          /\ UNCHANGED <<read, used>>
  /\ UNCHANGED <<chat, profile, lock, index, serving, told>>

WatermarkAtEnd == posted                                               \* mutant
\* The watermark: the last message that was read, not the last there is by now.
Watermark == proc["extract"].upto

Advance ==
  /\ proc["extract"].pc = "advance"
  /\ cursor' = IF cursor < Watermark THEN Watermark ELSE cursor
  /\ proc' = [proc EXCEPT !["extract"] = Idle]
  /\ UNCHANGED <<posted, profile, lock, index, serving, history, used>>

-----------------------------------------------------------------------------
(* Other writers                                                             *)

\* A candidate that the model confirmed.
Confirmed == {{m} : m \in 1..posted}

\* handle_intercept with a candidate of the turn's message, or of one that was
\* dropped from a prompt.
Candidate ==
  /\ proc["candidate"].pc = "idle" /\ Spend("event")
  /\ \E new \in Confirmed :
       proc' = [proc EXCEPT !["candidate"] = [Idle EXCEPT !.pc = "want", !.new = new]]
  /\ UNCHANGED <<chat, profile, lock, index, serving, history>>

\* delete_item and update_item by position, and clear_all_memories (0).
Edit ==
  /\ serving /\ proc["user"].pc = "idle" /\ Spend("event")
  /\ \E i \in 0..Cap, new \in {{}, {Edited}} :
       /\ i = 0 => new = {}
       /\ proc' = [proc EXCEPT !["user"] = [Idle EXCEPT !.pc = "want", !.upto = i, !.new = new]]
  /\ UNCHANGED <<chat, profile, lock, index, serving, history>>

-----------------------------------------------------------------------------
(* A write of the profile, under the lock                                    *)

LockIgnored == TRUE                                                    \* mutant
LockFree == lock = "none"

Take(w) ==
  /\ proc[w].pc = "want" /\ LockFree
  /\ lock' = w
  /\ proc' = [proc EXCEPT ![w].pc = "loaded", ![w].seen = profile]
  /\ UNCHANGED <<chat, profile, index, serving, history, used>>

\* What a writer makes of the profile it loaded: what is not there yet is
\* appended in the order of the model's list.  The user's upto is a position.
Fresh(w)   == proc[w].new \ ToSet(proc[w].seen)
Orders(S)  == {s \in [1..Cardinality(S) -> S] : ToSet(s) = S}
Changed(w) == IF proc[w].upto = 0 THEN <<>>
              ELSE IF proc[w].new = {} THEN RemoveAt(proc[w].seen, proc[w].upto)
              ELSE ReplaceAt(proc[w].seen, proc[w].upto, Edited)

\* Beyond Cap the ones with the best score stay, best first.
Evicted(s) ==
  IF Len(s) <= Cap THEN {s}
  ELSE {[i \in 1..Cap |-> s[best[i]]] : best \in Injection(1..Cap, DOMAIN s)}

Results(w) == IF w = "user" THEN {Changed(w)}
              ELSE UNION {Evicted(proc[w].seen \o s) : s \in Orders(Fresh(w))}

Absent(w) == w = "user" /\ proc[w].upto > Len(proc[w].seen)

\* A builder that holds an older profile, and has not finished.
Overtaken == \E b \in Builders : proc[b].pc # "idle"

Save(w) ==
  /\ proc[w].pc = "loaded" /\ ~Absent(w)
  /\ profile' \in Results(w)
  /\ LET gone == (ToSet(proc[w].seen) \cup proc[w].new) \ ToSet(profile') IN
     told' = (told \cup proc[w].new) \ gone
  /\ read' = IF w = "extract" THEN read \cup Prompt ELSE read
  /\ suspect' = (suspect \/ Overtaken)
  /\ proc' = [proc EXCEPT ![w] =
       [Idle EXCEPT !.pc = "saved", !.seen = profile',
                    !.upto = IF w = "extract" THEN proc[w].upto ELSE 0]]
  /\ UNCHANGED <<chat, lock, colls, ptr, file, dirty, serving, used>>

After(w) == IF w = "extract" THEN [Idle EXCEPT !.pc = "advance", !.upto = proc[w].upto] ELSE Idle
Release(p) == IF lock = p THEN "none" ELSE lock

\* Nothing to do: a position that no longer exists, a memory that is similar.
Skip(w) ==
  /\ proc[w].pc = "loaded"
  /\ Absent(w) \/ (w = "candidate" /\ Fresh(w) = {})
  /\ lock' = Release(w) /\ proc' = [proc EXCEPT ![w] = Idle]
  /\ UNCHANGED <<chat, profile, index, serving, history, used>>

-----------------------------------------------------------------------------
(* The index: _index_profile                                                 *)

\* rebuild_index and the rebuild of the collections load without the lock.
LoadUnlocked(b) ==
  /\ proc[b].pc = "idle"
  /\ IF b = "start" THEN ~serving /\ UNCHANGED used ELSE serving /\ Spend("event")
  /\ proc' = [proc EXCEPT ![b].pc = "saved", ![b].seen = profile]
  /\ UNCHANGED <<chat, profile, lock, index, serving, history>>

Begin(p) ==
  /\ proc[p].pc = "saved" /\ Goes(p, "begun") /\ dirty' = TRUE
  /\ UNCHANGED <<chat, profile, lock, colls, ptr, file, serving, history, suspect, used>>

\* The name of a new collection, which carries a random number: the least that
\* nothing has.
Unused ==
  LET free == Names \ (DOMAIN colls \cup {ptr, file} \cup {proc[q].name : q \in Procs}) IN
  {n \in free : \A m \in free : n <= m}

Create(p) ==
  /\ proc[p].pc = "begun" /\ proc[p].seen # <<>>
  /\ \E n \in Unused :
       /\ colls' = [c \in DOMAIN colls \cup {n} |-> IF c = n THEN {} ELSE colls[c]]
       /\ proc' = [proc EXCEPT ![p].pc = "created", ![p].name = n]
  /\ UNCHANGED <<chat, profile, lock, ptr, file, dirty, serving, history, suspect, used>>

\* The upsert, and the switch of the pointer in the same step.
Fill(p) ==
  /\ proc[p].pc = "created" /\ proc[p].name \in DOMAIN colls
  /\ colls' = [colls EXCEPT ![proc[p].name] = ToSet(proc[p].seen)]
  /\ ptr' = proc[p].name /\ Goes(p, "filled")
  /\ UNCHANGED <<chat, profile, lock, file, dirty, serving, history, suspect, used>>

\* Where a process goes after its build: a writer releases the lock, the rebuild
\* of the collections checks the dimension, the start lets requests in.
Leaving(p) == IF p = "rebuild" THEN [Idle EXCEPT !.pc = "ensure"] ELSE After(p)
Left(p) ==
  /\ lock' = Release(p)
  /\ proc' = [proc EXCEPT ![p] = Leaving(p)]
  /\ serving' = (serving \/ p = "start")

\* Nothing that the lock did not order is behind the index that p leaves.
Settled(p) ==
  /\ proc[p].seen = profile
  /\ p \in Writers \/ lock = "none"
  /\ \A b \in Builders \ {p} : proc[b].pc = "idle"

\* The other collections are deleted and the pointer stored, which may fail
\* without a word.  For an empty profile every collection is deleted.
Purge(p) ==
  /\ \/ proc[p].pc = "filled"
        /\ colls' = [c \in DOMAIN colls \cap {proc[p].name} |-> colls[c]]
        /\ \/ file' = proc[p].name /\ UNCHANGED used
           \/ file' = file /\ Spend("fault")
     \/ proc[p].pc = "begun" /\ proc[p].seen = <<>>
        /\ colls' = [c \in {} |-> {}] /\ UNCHANGED <<file, used>>
  /\ dirty' = FALSE
  /\ suspect' = (suspect /\ ~Settled(p))
  /\ Left(p)
  /\ UNCHANGED <<chat, profile, ptr, history>>

StaleForgotten == FALSE                                                \* mutant
StaleAfterFailure == dirty

\* The embedding, Qdrant or a collection that another build deleted fails: the
\* error is logged, and whoever built goes on.
Fail(p) ==
  /\ proc[p].pc \in {"begun", "created", "filled"}
  /\ IF proc[p].pc = "created" /\ proc[p].name \notin DOMAIN colls
     THEN UNCHANGED used ELSE Spend("fault")
  /\ dirty' = StaleAfterFailure
  /\ Left(p)
  /\ UNCHANGED <<chat, profile, colls, ptr, file, history, suspect>>

\* _ensure_profile_collection_dim: a collection of the right dimension stays,
\* otherwise an empty one takes its place.
EnsureDim ==
  /\ proc["rebuild"].pc = "ensure" /\ proc' = [proc EXCEPT !["rebuild"] = Idle]
  /\ \/ ptr \in DOMAIN colls /\ UNCHANGED <<colls, ptr, file>>
     \/ \E n \in Unused : colls' = [c \in {n} |-> {}] /\ ptr' = n /\ file' = n
  /\ UNCHANGED <<chat, profile, lock, dirty, serving, history, suspect, used>>

-----------------------------------------------------------------------------
(* Faults                                                                    *)

\* The client disconnects, or maintenance stops the task, at an await: between
\* the commit and the mark on the index nothing says that it is out of date.
Cancel(w) ==
  /\ w \in Writers /\ proc[w].pc \notin {"idle", "advance"} /\ Spend("fault")
  /\ proc' = [proc EXCEPT ![w] = Idle] /\ lock' = Release(w)
  /\ suspect' = (suspect \/ proc[w].pc = "saved")
  /\ UNCHANGED <<chat, profile, colls, ptr, file, dirty, serving, history>>

Crash ==
  /\ Spend("crash")
  /\ proc' = [p \in Procs |-> Idle] /\ lock' = "none"
  /\ ptr' = file /\ dirty' = FALSE /\ serving' = FALSE /\ suspect' = FALSE
  /\ UNCHANGED <<chat, profile, colls, file, history>>

-----------------------------------------------------------------------------
Next ==
  \/ Post \/ Read \/ Answer \/ Advance \/ Candidate \/ Edit
  \/ \E w \in Writers : Take(w) \/ Save(w) \/ Skip(w) \/ Cancel(w)
  \/ \E b \in Builders : LoadUnlocked(b)
  \/ \E p \in Procs : Begin(p) \/ Create(p) \/ Fill(p) \/ Purge(p) \/ Fail(p)
  \/ EnsureDim \/ Crash

Spec == Init /\ [][Next]_vars

-----------------------------------------------------------------------------
\* search_profile: the index unless it is marked, missing or empty, and the
\* profile itself otherwise.
Recalled ==
  IF ~dirty /\ ptr \in DOMAIN colls /\ colls[ptr] # {} THEN colls[ptr] ELSE ToSet(profile)

\* Once no write is under way, a search of the memories finds exactly those in
\* the profile, whichever build failed, deleted another's collection or was lost
\* in a crash: one that was deleted is not recalled.  Runs that the lock does not
\* order, and a cancellation before the mark, are set apart (search_profile,
\* _index_profile).
RecallIsCurrent == serving /\ lock = "none" /\ ~suspect => Recalled = ToSet(profile)

\* No writer undoes another's write across the awaits between its load and its
\* save: what was saved is there until it is evicted or deleted, and what was
\* deleted is not there again (_serialized_write).
NothingLost == told = ToSet(profile)

\* A message was shown to the model, or Fit newer ones took its place.
Covered(m, upto) ==
  m \in read \/ \E n \in m .. upto - Fit : n + 1 .. n + Fit \subseteq read

\* Every message behind the cursor was in the prompt of an extraction that
\* succeeded, or left out of it for newer ones: none is passed over because it was
\* posted while the model was asked, or because the extraction failed, was
\* cancelled or crashed ("记忆提取失败不推进水位", docs/PROJECT_REFERENCE.md;
\* session_extract.py).
CursorCovers == \A m \in 1..cursor : Covered(m, cursor)
=============================================================================
