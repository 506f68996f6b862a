------------------------------ MODULE Compaction ------------------------------
(***************************************************************************)
(* The working context of a conversation: turns that run at the same time  *)
(* drop old user messages from their prompts (agent/context.py), pass on   *)
(* what the stored summary does not cover yet (agent/loop.py), and leave   *)
(* it to background jobs to merge that into the summary under an           *)
(* optimistic lock (agent/context_state.py).                               *)
(*                                                                         *)
(* User messages are numbered in the order of their time stamps.  Of the   *)
(* summary only which messages went into it is kept (folded, a history),   *)
(* and the bounded list of message ids that it stores itself.              *)
(***************************************************************************)
EXTENDS Integers, SequencesExt, FiniteSetsExt

CONSTANTS
  Old,       \* user messages in the conversation at the beginning
  Final,     \* bound: number of the last message; each after Old is a turn
  Requests,  \* bound: requests to the model in one turn, each may drop more
  Limit,     \* context_summary_max_items, for the list of message ids
  Tries,     \* attempts of one run of a job (3 in the code)
  Budget     \* bound: crashes, conversations deleted, runs again of a job

BudgetKinds == {"crash", "delete", "again"}

ASSUME CompactionAssumption ==
  /\ Old \in Nat /\ Final \in Nat /\ Old <= Final
  /\ Requests \in Nat /\ Limit \in Nat \ {0} /\ Tries \in Nat \ {0}
  /\ Budget \in [BudgetKinds -> Nat]

VARIABLES
  posted,   \* user messages in the database
  turn,     \* each turn: where it is, its history, the context it loaded, what it dropped
  stored,   \* the summary columns of the conversation
  alive,    \* the conversation exists
  job,      \* jobs by what they are to merge, which is also their idempotency key
  used      \* how much of each Budget was spent

vars == <<posted, turn, stored, alive, job, used>>

Messages == 1..Final
Turns    == (Old + 1)..Final
Keys     == (SUBSET Messages) \ {{}}
Nothing  == [ids |-> <<>>, folded |-> {}, through |-> 0, key |-> {}, version |-> 0]
NewTurn  == [pc |-> "idle", hist |-> {}, ctx |-> Nothing, drop |-> {}, pass |-> {}, asked |-> 0]
NoJob    == [pc |-> "none", seen |-> Nothing, tries |-> 0]

Init ==
  /\ posted = 1..Old
  /\ turn = [t \in Turns |-> NewTurn]
  /\ stored = Nothing /\ alive = TRUE
  /\ job = [k \in Keys |-> NoJob]
  /\ used = [b \in BudgetKinds |-> 0]

Spend(b) == used[b] < Budget[b] /\ used' = [used EXCEPT ![b] = @ + 1]

-----------------------------------------------------------------------------
(* A turn.  chat() reads the history before it stores the new message, and    *)
(* the loop loads the working context once.  A message is stamped when it is  *)
(* stored, so turns may read in any order and store in that of their numbers. *)

Ask(t) ==
  /\ alive /\ turn[t].pc = "idle"
  /\ turn' = [turn EXCEPT ![t].pc = "asked", ![t].hist = posted]
  /\ UNCHANGED <<posted, stored, alive, job, used>>

Store(t) ==
  /\ alive /\ turn[t].pc = "asked"
  /\ \A s \in Turns : s < t => turn[s].pc \notin {"idle", "asked"}
  /\ posted' = posted \cup {t} /\ turn' = [turn EXCEPT ![t].pc = "stored"]
  /\ UNCHANGED <<stored, alive, job, used>>

\* A turn goes on without the working context when loading it fails.
LoadContext(t) ==
  /\ turn[t].pc = "stored"
  /\ \E ctx \in {stored, Nothing} :
       turn' = [turn EXCEPT ![t].pc = "loop", ![t].ctx = ctx]
  /\ UNCHANGED <<posted, stored, alive, job, used>>

\* trim_messages keeps the newest complete groups that fit and the message of
\* the turn itself: of the other user messages the oldest go.
Dropped(t, n) == {i \in turn[t].hist : i <= n}

PendingSkipping(drop, ctx) ==                                          \* mutant
  IF ctx.through \in drop THEN {i \in drop : i > ctx.through + 1}
  ELSE drop \ ToSet(ctx.ids)

\* What was dropped and is newer than the summary's last message; when that one
\* was not dropped, what the summary does not list.
Pending(drop, ctx) ==
  IF ctx.through \in drop THEN {i \in drop : i > ctx.through}
  ELSE drop \ ToSet(ctx.ids)

\* A request to the model, with a job for what is pending: one that was scheduled
\* before with the same key is not scheduled again.
Request(t) ==
  /\ turn[t].pc = "loop" /\ turn[t].asked < Requests
  /\ \E n \in 0..Final :
       LET drop == Dropped(t, n)
           pass == Pending(drop, turn[t].ctx) IN
       /\ turn' = [turn EXCEPT ![t].drop = drop, ![t].pass = pass, ![t].asked = @ + 1]
       /\ job' = [k \in Keys |->
                    IF k = pass /\ job[k].pc = "none" THEN [NoJob EXCEPT !.pc = "queued"]
                    ELSE job[k]]
  /\ UNCHANGED <<posted, stored, alive, used>>

Finish(t) ==
  /\ turn[t].pc = "loop"
  /\ turn' = [turn EXCEPT ![t] = [NewTurn EXCEPT !.pc = "over"]]
  /\ UNCHANGED <<posted, stored, alive, job, used>>

-----------------------------------------------------------------------------
(* compact_working_context                                                   *)

Load(k) ==
  /\ job[k].pc = "queued"
  /\ job' = [job EXCEPT ![k] =
       IF ~alive \/ stored.key = k THEN [NoJob EXCEPT !.pc = "written"]
       ELSE [@ EXCEPT !.pc = "loaded", !.seen = stored]]
  /\ UNCHANGED <<posted, turn, stored, alive, used>>

\* _append_unique: the list keeps its last Limit entries.
AppendUnique(list, i) ==
  IF i \in ToSet(list) THEN list
  ELSE LET more == Append(list, i) IN IF Len(more) > Limit THEN Tail(more) ELSE more

\* The ids of k are appended in the order of their numbers.
Listed(ids, k) ==
  FoldLeft(LAMBDA list, i : IF i \in k THEN AppendUnique(list, i) ELSE list,
           ids, [i \in Messages |-> i])

Merged(k, seen) ==
  [ids |-> Listed(seen.ids, k), folded |-> seen.folded \cup k, through |-> Max(k),
   key |-> k, version |-> seen.version + 1]

VersionAny(seen) == TRUE                                               \* mutant
\* The update counts only when nobody else wrote since the load.
VersionHolds(seen) == stored.version = seen.version

Write(k) ==
  /\ job[k].pc = "loaded" /\ alive /\ VersionHolds(job[k].seen)
  /\ stored' = Merged(k, job[k].seen)
  /\ job' = [job EXCEPT ![k] = [NoJob EXCEPT !.pc = "written"]]
  /\ UNCHANGED <<posted, turn, alive, used>>

\* A conflict: load again, and give up after so many attempts.
Conflict(k) ==
  /\ job[k].pc = "loaded" /\ ~(alive /\ VersionHolds(job[k].seen))
  /\ job' = [job EXCEPT ![k] =
       IF @.tries + 1 < Tries
       THEN [NoJob EXCEPT !.pc = "queued", !.tries = job[k].tries + 1]
       ELSE [NoJob EXCEPT !.pc = "raised"]]
  /\ UNCHANGED <<posted, turn, stored, alive, used>>

\* The task manager records success, or runs a job that raised again later.
Record(k) ==
  /\ job[k].pc = "written" /\ job' = [job EXCEPT ![k] = [NoJob EXCEPT !.pc = "done"]]
  /\ UNCHANGED <<posted, turn, stored, alive, used>>

Again(k) ==
  /\ job[k].pc = "raised" /\ Spend("again")
  /\ job' = [job EXCEPT ![k] = [NoJob EXCEPT !.pc = "queued"]]
  /\ UNCHANGED <<posted, turn, stored, alive>>

-----------------------------------------------------------------------------
\* After a crash every job that was not recorded as done runs again.
Crash ==
  /\ Spend("crash")
  /\ turn' = [t \in Turns |-> IF turn[t].pc = "idle" THEN NewTurn
                              ELSE [NewTurn EXCEPT !.pc = "over"]]
  /\ job' = [k \in Keys |-> IF job[k].pc \in {"none", "done"} THEN job[k]
                            ELSE [NoJob EXCEPT !.pc = "queued"]]
  /\ UNCHANGED <<posted, stored, alive>>

DeleteConversation ==
  /\ alive /\ Spend("delete")
  /\ alive' = FALSE /\ posted' = {} /\ stored' = Nothing
  /\ UNCHANGED <<turn, job>>

-----------------------------------------------------------------------------
Next ==
  \/ \E t \in Turns : Ask(t) \/ Store(t) \/ LoadContext(t) \/ Request(t) \/ Finish(t)
  \/ \E k \in Keys : Load(k) \/ Write(k) \/ Conflict(k) \/ Record(k) \/ Again(k)
  \/ Crash \/ DeleteConversation

Spec == Init /\ [][Next]_vars

-----------------------------------------------------------------------------
TypeOK ==
  /\ posted \subseteq Messages /\ alive \in BOOLEAN
  /\ stored.through \in 0..Final /\ stored.version \in Nat
  /\ Len(stored.ids) <= Limit /\ ToSet(stored.ids) \subseteq stored.folded
  /\ \A t \in Turns : turn[t].pc \in {"idle", "asked", "stored", "loop", "over"}
  /\ \A k \in Keys : job[k].pc \in {"none", "queued", "loaded", "written", "raised", "done"}

\* In every request of every turn, a user message that was cut from the prompt is
\* in the summary the turn loaded or among those passed on as pending: the
\* watermark never runs ahead of what was merged, whichever jobs ran in
\* whichever order, twice or not at all (_pending_dropped_messages,
\* compact_working_context).
NothingForgotten ==
  \A t \in Turns : turn[t].pc = "loop" =>
    turn[t].drop \ turn[t].pass \subseteq turn[t].ctx.folded

\* Jobs that overlap never undo one another's merge: what went into the summary
\* stays part of it ("optimistic locking; bounded retries prevent stale
\* overwrite", context_state.py).
MergesKept ==
  [][alive' => stored.folded \subseteq stored'.folded]_stored
=============================================================================
