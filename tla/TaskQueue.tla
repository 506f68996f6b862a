------------------------------ MODULE TaskQueue ------------------------------
(***************************************************************************)
(* BackgroundTaskManager: background work with a row per task in the       *)
(* task_queue table.  A task is run by the asyncio task create() started   *)
(* (a fresh run) or, if it is durable, by one that recover_stale_tasks     *)
(* started from its row after a failure, a restart or a maintenance stop.  *)
(* Writes of the manager are best effort: one that fails is swallowed.     *)
(***************************************************************************)
EXTENDS Naturals, FiniteSets

CONSTANTS
  Task,         \* task ids; a created task always draws a fresh one
  Typed,        \* the durable ones: a registered task_type can run them again
  KeyOf,        \* their idempotency keys, or NoKey
  NoKey,
  MaxAttempts,  \* task_queue.max_attempts
  Keep,         \* max_persisted_history
  Budget        \* bound: crashes, stops, failing writes and heartbeat lapses

BudgetKinds == {"crash", "stop", "fault", "lapse"}

ASSUME TaskQueueAssumption ==
  /\ Typed \subseteq Task
  /\ MaxAttempts \in Nat \ {0}
  /\ Keep \in Nat \ {0}
  /\ Budget \in [BudgetKinds -> Nat]

VARIABLES
  row,       \* the task_queue table
  run,       \* the asyncio tasks of a row: the fresh run and the recovered run
  pass,      \* recovery pass: "idle", or "picked" between its SELECT and scheduling
  picked,    \* the rows the pass selected
  stopping,  \* pause_for_maintenance or shutdown has cancelled every task
  starts,    \* history: how often the work of a task was started
  used       \* how much of each Budget was spent

vars == <<row, run, pass, picked, stopping, starts, used>>

Kinds    == {"fresh", "recovered"}
Active   == {"pending", "running", "retry_wait"}
Terminal == {"done", "failed", "dead_letter"}
Status   == Active \cup Terminal \cup {"none", "pruned"}
Pc       == {"none", "check", "insert", "mark", "sleep", "claim", "work", "fin", "err", "prune", "tail"}

RowRec == [st : Status, att : Nat, stale : BOOLEAN]

Init ==
  /\ row = [t \in Task |-> [st |-> "none", att |-> 0, stale |-> FALSE]]
  /\ run = [t \in Task |-> [k \in Kinds |-> "none"]]
  /\ pass = "idle" /\ picked = {}
  /\ stopping = FALSE
  /\ starts = [t \in Task |-> 0]
  /\ used = [b \in BudgetKinds |-> 0]

(***************************************************************************)
(* The UPDATE and INSERT statements, on one row                            *)
(***************************************************************************)
Inserted(r) == [r EXCEPT !.st = "pending"]
InTable(r)  == r.st \notin {"none", "pruned"}
Update(r, s) == IF InTable(r) THEN s ELSE r

Started(r) == [r EXCEPT !.st = "running", !.att = @ + 1, !.stale = FALSE]
Marked(r)  == Update(r, Started(r))
Done(r)    == Update(r, [r EXCEPT !.st = "done"])

\* mutant: one attempt too many
RetryOnceMore(r) == Update(r, [r EXCEPT
  !.st = IF r.att > MaxAttempts THEN "dead_letter" ELSE "retry_wait", !.stale = FALSE])
RetryOrDeadLetter(r) == Update(r, [r EXCEPT
  !.st = IF r.att >= MaxAttempts THEN "dead_letter" ELSE "retry_wait", !.stale = FALSE])

Failed(t, r) == IF t \in Typed THEN RetryOrDeadLetter(r)
                ELSE Update(r, [r EXCEPT !.st = "failed"])

Released(r) == IF r.st = "retry_wait" THEN [r EXCEPT !.st = "pending"] ELSE r

ClaimableAny(r) == r.st \in Active \cup {"done"}         \* mutant: status not checked
Claimable(r) == r.st = "pending" \/ (r.st = "running" /\ r.stale)
Claimed(r) == IF Claimable(r) THEN Started(r) ELSE r

(***************************************************************************)
(* The asyncio tasks                                                       *)
(***************************************************************************)
Spend(b) == used[b] < Budget[b] /\ used' = [used EXCEPT ![b] = @ + 1]

Up == ~stopping
At(t, k, p) == Up /\ run[t][k] = p
Goto(t, k, p) == run' = [run EXCEPT ![t][k] = p]

\* A best-effort write: applied, or lost without anybody noticing.
Write(t, r) == \/ row' = [row EXCEPT ![t] = r] /\ UNCHANGED used
               \/ Spend("fault") /\ UNCHANGED row

Tracked(t) == \E k \in Kinds : run[t][k] # "none"        \* task id in _tasks
Rivals(t) == {u \in Task \ {t} : KeyOf[t] # NoKey /\ KeyOf[u] = KeyOf[t]}
InFlight(t) == \E u \in Rivals(t) : run[u]["fresh"] # "none"

\* create(): refused while paused, skipped when a task of that key is in flight.
Create(t) ==
  /\ Up /\ row[t].st = "none" /\ ~Tracked(t) /\ starts[t] = 0
  /\ ~InFlight(t)
  /\ Goto(t, "fresh", "check")
  /\ UNCHANGED <<row, pass, picked, stopping, starts, used>>

BlockedByActive(t) == \E u \in Rivals(t) : row[u].st \in {"running", "done"}   \* mutant
Blocked(t) == \E u \in Rivals(t) : row[u].st \in Active \cup {"done"}

\* _check_idempotency fails open: a read that raises blocks nothing.
Check(t) ==
  /\ At(t, "fresh", "check")
  /\ \/ Blocked(t) /\ Goto(t, "fresh", "none") /\ UNCHANGED used
     \/ ~Blocked(t) /\ Goto(t, "fresh", "insert") /\ UNCHANGED used
     \/ Blocked(t) /\ Goto(t, "fresh", "insert") /\ Spend("fault")
  /\ UNCHANGED <<row, pass, picked, stopping, starts>>

Insert(t) ==
  /\ At(t, "fresh", "insert")
  /\ Write(t, Inserted(row[t])) /\ Goto(t, "fresh", "mark")
  /\ UNCHANGED <<pass, picked, stopping, starts>>

Mark(t) ==
  /\ At(t, "fresh", "mark")
  /\ Write(t, Marked(row[t])) /\ Goto(t, "fresh", "work")
  /\ starts' = [starts EXCEPT ![t] = @ + 1]
  /\ UNCHANGED <<pass, picked, stopping>>

\* A recovered run sleeps until its retry time, then makes the row pending;
\* when that write fails it gives up, and a later recovery pass starts over.
Wake(t) ==
  /\ At(t, "recovered", "sleep")
  /\ \/ row' = [row EXCEPT ![t] = Released(@)] /\ Goto(t, "recovered", "claim")
        /\ UNCHANGED used
     \/ Goto(t, "recovered", "none") /\ Spend("fault") /\ UNCHANGED row
  /\ UNCHANGED <<pass, picked, stopping, starts>>

Claim(t) ==
  /\ At(t, "recovered", "claim")
  /\ \/ /\ Claimable(row[t])
        /\ row' = [row EXCEPT ![t] = Claimed(@)] /\ Goto(t, "recovered", "work")
        /\ starts' = [starts EXCEPT ![t] = @ + 1] /\ UNCHANGED used
     \/ /\ ~Claimable(row[t]) /\ Goto(t, "recovered", "none")
        /\ UNCHANGED <<row, starts, used>>
     \/ Goto(t, "recovered", "none") /\ Spend("fault") /\ UNCHANGED <<row, starts>>
  /\ UNCHANGED <<pass, picked, stopping>>

\* The work returns or raises.
Work(t, k) ==
  /\ At(t, k, "work")
  /\ Goto(t, k, "fin") \/ Goto(t, k, "err")
  /\ UNCHANGED <<row, pass, picked, stopping, starts, used>>

Finish(t, k) ==
  /\ At(t, k, "fin")
  /\ Write(t, Done(row[t])) /\ Goto(t, k, IF k = "fresh" THEN "prune" ELSE "tail")
  /\ UNCHANGED <<pass, picked, stopping, starts>>

Fail(t, k) ==
  /\ At(t, k, "err")
  /\ Write(t, Failed(t, row[t])) /\ Goto(t, k, "tail")
  /\ UNCHANGED <<pass, picked, stopping, starts>>

PrunableAny == {t \in Task : InTable(row[t])}            \* mutant: active rows too
Prunable == {t \in Task : row[t].st \in Terminal}

\* The last statement of a run: "prune" inside the try block of a fresh run,
\* "tail" in an except or finally block, also of a run that was cancelled.
\* Of the terminal rows the Keep latest stay; which they are is left open.
Prune(t, k) ==
  /\ At(t, k, "prune") \/ run[t][k] = "tail"
  /\ \E kept \in SUBSET Prunable :
       /\ Cardinality(kept) = Keep \/ (kept = Prunable /\ Cardinality(kept) < Keep)
       /\ row' = [u \in Task |-> IF u \in Prunable \ kept
                                 THEN [row[u] EXCEPT !.st = "pruned"] ELSE row[u]]
  /\ Goto(t, k, "none")
  /\ UNCHANGED <<pass, picked, stopping, starts, used>>

(***************************************************************************)
(* Heartbeats                                                              *)
(***************************************************************************)
Beating(t) == \E k \in Kinds : run[t][k] \in {"work", "fin", "err", "prune", "tail"}

\* 120 seconds without a heartbeat: the run is gone, or (bounded) alive but
\* unable to write, with the event loop or the database held up.
Lapse(t) ==
  /\ row[t].st = "running" /\ ~row[t].stale
  /\ row' = [row EXCEPT ![t].stale = TRUE]
  /\ IF Beating(t) THEN Spend("lapse") ELSE UNCHANGED used
  /\ UNCHANGED <<run, pass, picked, stopping, starts>>

Beat(t) ==
  /\ Up /\ Beating(t) /\ row[t].st = "running" /\ row[t].stale
  /\ row' = [row EXCEPT ![t].stale = FALSE]
  /\ UNCHANGED <<run, pass, picked, stopping, starts, used>>

NoPass == pass' = "idle" /\ picked' = {}

(***************************************************************************)
(* recover_stale_tasks, at start-up, on resume and every 30 seconds        *)
(***************************************************************************)
Swept(r, due) ==
  CASE r.st = "retry_wait" /\ due -> [r EXCEPT !.st = "pending"]
    [] r.st = "running" /\ r.stale /\ r.att >= MaxAttempts -> [r EXCEPT !.st = "dead_letter"]
    [] r.st = "running" /\ r.stale /\ r.att < MaxAttempts -> [r EXCEPT !.st = "pending"]
    [] OTHER -> r

Selectable(t, r) == t \in Typed /\ r.st \in {"pending", "retry_wait"}

\* One transaction; due are the retry_wait rows whose time has come.
Sweep(due) ==
  /\ Up /\ pass = "idle"
  /\ row' = [t \in Task |-> Swept(row[t], t \in due)]
  /\ picked' = {t \in Task : Selectable(t, row'[t])}
  /\ pass' = "picked"
  /\ UNCHANGED <<run, stopping, starts, used>>

ScheduledAll == picked                                   \* mutant: _tasks not consulted
Scheduled == {t \in picked : ~Tracked(t)}

\* After the commit the rows that have a live task are left out, the others
\* scheduled, without another await in between.
Schedule ==
  /\ Up /\ pass = "picked"
  /\ run' = [t \in Task |-> IF t \in Scheduled
                            THEN [run[t] EXCEPT !["recovered"] = "sleep"] ELSE run[t]]
  /\ NoPass
  /\ UNCHANGED <<row, stopping, starts, used>>

(***************************************************************************)
(* Maintenance stop, shutdown, crash                                       *)
(***************************************************************************)
Stop ==
  /\ Up /\ Spend("stop")
  /\ stopping' = TRUE
  /\ NoPass
  /\ UNCHANGED <<row, run, starts>>

\* What the statement a cancelled task was awaiting may still do.
Pending(t, p) ==
  CASE p = "insert" -> Inserted(row[t])
    [] p = "mark" -> Marked(row[t])
    [] p = "sleep" -> Released(row[t])
    [] p = "claim" -> Claimed(row[t])
    [] p = "fin" -> Done(row[t])
    [] p = "err" -> Failed(t, row[t])
    [] OTHER -> row[t]

\* CancelledError reaches the handler that writes the row back, except from
\* inside another handler, before the claim, or in the recovered run's finally.
Handled(k, p) == IF k = "fresh" THEN p \notin {"err", "tail"} ELSE p \in {"work", "fin"}

\* The handler of the fresh run and the finally of the recovered run prune.
AfterCancel(k, p) ==
  IF Handled(k, p) \/ (k = "recovered" /\ p = "err") THEN "tail" ELSE "none"

Cancel(t, k) ==
  LET p == run[t][k] IN
  /\ stopping /\ p # "none"
  /\ \E r \in {row[t], Pending(t, p)} :
       \/ /\ row' = [row EXCEPT ![t] = IF Handled(k, p) THEN Failed(t, r) ELSE r]
          /\ UNCHANGED used
       \/ /\ Handled(k, p) /\ row' = [row EXCEPT ![t] = r]
          /\ Spend("fault")
  /\ Goto(t, k, AfterCancel(k, p))
  /\ UNCHANGED <<pass, picked, stopping, starts>>

\* The pause has awaited every task; resume runs a recovery pass and restarts
\* the monitor.
Resume ==
  /\ stopping /\ \A t \in Task : ~Tracked(t)
  /\ stopping' = FALSE
  /\ UNCHANGED <<row, run, pass, picked, starts, used>>

\* The process dies and is started again; a shutdown is a Stop followed by it.
Crash ==
  /\ Spend("crash")
  /\ run' = [t \in Task |-> [k \in Kinds |-> "none"]]
  /\ NoPass /\ stopping' = FALSE
  /\ UNCHANGED <<row, starts>>

RunStep(t, k) == Work(t, k) \/ Finish(t, k) \/ Fail(t, k) \/ Prune(t, k) \/ Cancel(t, k)

TaskStep(t) ==
  \/ Check(t) \/ Insert(t) \/ Mark(t) \/ Wake(t) \/ Claim(t)
  \/ \E k \in Kinds : RunStep(t, k)

Recovery == (\E due \in SUBSET Task : Sweep(due)) \/ Schedule

Next ==
  \/ \E t \in Task : Create(t) \/ TaskStep(t) \/ Lapse(t) \/ Beat(t)
  \/ Recovery \/ Stop \/ Resume \/ Crash

Spec == Init /\ [][Next]_vars

\* The event loop runs tasks and the monitor; work returns or raises; time
\* passes, so that an abandoned row goes stale.
Fairness ==
  /\ \A t \in Task : WF_vars(TaskStep(t))
  /\ \A t \in Task : WF_vars(Lapse(t) /\ ~Beating(t))
  /\ WF_vars(Recovery) /\ WF_vars(Resume)

FairSpec == Spec /\ Fairness

(***************************************************************************)
(* Properties                                                              *)
(***************************************************************************)
\* Types, and that a selection of rows exists only inside a recovery pass.
TypeOK ==
  /\ row \in [Task -> RowRec]
  /\ run \in [Task -> [Kinds -> Pc]]
  /\ pass \in {"idle", "picked"}
  /\ picked \subseteq Typed
  /\ pass = "idle" => picked = {}
  /\ stopping \in BOOLEAN
  /\ starts \in [Task -> Nat]
  /\ used \in [BudgetKinds -> Nat]

\* The two asyncio tasks a row can have never exist together: a recovery pass
\* never schedules a task whose fresh run, or whose earlier recovered run, is
\* still there, whatever happened between its SELECT and the scheduling.
SingleRun == \A t \in Task : run[t]["fresh"] = "none" \/ run[t]["recovered"] = "none"

\* The retry limit bounds the executions themselves, through crashes, stops,
\* retries and heartbeat lapses: the work of a task starts at most MaxAttempts
\* times, and once more for each swallowed write.
ExecutionsBounded ==
  \A t \in Task : starts[t] <= MaxAttempts + used["fault"]

Working(t) == \E k \in Kinds : run[t][k] = "work"

\* Two tasks of one idempotency key never do their work at the same time, as
\* long as no write or check was swallowed and no live run lost its heartbeat.
KeyExclusive ==
  used["fault"] = 0 /\ used["lapse"] = 0 =>
    \A t \in Task : \A u \in Rivals(t) : ~(Working(t) /\ Working(u))

\* A task recorded as done is never picked up, retried or failed again, even
\* if a recovery pass had selected its row: only a maintenance stop, which can
\* cancel the run during its last write, reopens it.
DoneStays ==
  [][\A t \in Task : row[t].st = "done" /\ used["stop"] = 0
       => row'[t].st \in {"done", "pruned"}]_vars

\* Every durable task whose row was written reaches a final state (done, or
\* dead_letter) after any crash, stop, failed write or lapse, and its row is
\* not pruned before that.
TypedSettles == \A t \in Typed : (row[t].st \in Active) ~> (row[t].st \in Terminal)

\* The same for every task, the ones without a registered type included.
AllSettle == \A t \in Task : (row[t].st \in Active) ~> (row[t].st \in Terminal)
==============================================================================
