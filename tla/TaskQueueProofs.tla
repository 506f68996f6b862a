--------------------------- MODULE TaskQueueProofs ---------------------------
(***************************************************************************)
(* Theorems about TaskQueue: types, at most one run per row, a bound on    *)
(* the executions of a task, the finality of done, and one task per key.   *)
(***************************************************************************)
EXTENDS TaskQueue, TLAPS

Waiting == {"pending", "retry_wait"}
Early   == {"check", "insert", "mark"}
Asleep  == {"sleep", "claim"}
Ending  == {"prune", "tail"}

F == used["fault"]

\* A recovered run never checks, inserts or marks a row.
OwnPc(t) == run[t]["recovered"] \notin Early

\* A fresh run that has not started its work owns a row nobody has touched.
FreshStart(t) ==
  /\ row[t].st = "none" => row[t].att = 0
  /\ run[t]["fresh"] \in Early => starts[t] = 0 /\ row[t].att = 0
  /\ run[t]["fresh"] \in {"check", "insert"} => row[t].st = "none"
  /\ run[t]["fresh"] = "mark" =>
       row[t].st = "pending" \/ (row[t].st = "none" /\ F >= 1)

\* A row that waits for a run has an attempt left.
AttemptLeft(t) == row[t].st \in Waiting => row[t].att < MaxAttempts

\* Starts are counted as attempts, or their count was lost with a write.
Accounted(t) ==
  /\ starts[t] <= row[t].att + F
  /\ starts[t] <= MaxAttempts + F

\* A run that claims a row left running finds it within the limit; it is not
\* selected once more, so there is no second such run.
ClaimInLimit(t) ==
  row[t].st = "running" =>
    /\ t \in picked \/ run[t]["recovered"] \in Asleep => row[t].att <= MaxAttempts
    /\ run[t]["recovered"] \in Asleep => t \notin picked

\* A row is left running, within reach of a claim, only by a lost write, and
\* that write pays for the extra start.
Abandoned(t) ==
  /\ row[t].st = "running"
  /\ \/ t \in picked /\ ~Tracked(t)
     \/ run[t]["recovered"] \in Asleep
     \/ ~stopping /\ \E k \in Kinds : run[t][k] \in Ending

Paid(t) == Abandoned(t) => starts[t] + 1 <= row[t].att + F

\* A row is done only when no run of it will write a result.
DoneQuiet(t) ==
  row[t].st = "done" /\ used["stop"] = 0 =>
    \A k \in Kinds : run[t][k] \notin {"work", "fin", "err"}

TaskInv(t) ==
  /\ OwnPc(t) /\ FreshStart(t) /\ AttemptLeft(t) /\ Accounted(t)
  /\ ClaimInLimit(t) /\ Paid(t) /\ DoneQuiet(t)

\* During a stop there is no recovery pass.
Halted == stopping => pass = "idle" /\ used["stop"] >= 1

QInv == TypeOK /\ SingleRun /\ Halted /\ \A t \in Task : TaskInv(t)

(***************************************************************************)
(* The statements, on one row                                              *)
(***************************************************************************)

\* Every statement maps a row to a row.
LEMMA RowType ==
  ASSUME NEW r \in RowRec, NEW t \in Task
  PROVE  /\ Inserted(r) \in RowRec /\ Started(r) \in RowRec /\ Marked(r) \in RowRec
         /\ Done(r) \in RowRec /\ Failed(t, r) \in RowRec
         /\ Released(r) \in RowRec /\ Claimed(r) \in RowRec
         /\ \A due \in BOOLEAN : Swept(r, due) \in RowRec
         /\ [r EXCEPT !.stale = TRUE] \in RowRec /\ [r EXCEPT !.stale = FALSE] \in RowRec
         /\ [r EXCEPT !.st = "pruned"] \in RowRec
<1>1. \A s \in Status : [r EXCEPT !.st = s] \in RowRec
  BY DEF RowRec
<1>2. \A s \in Status : [r EXCEPT !.st = s, !.stale = FALSE] \in RowRec
  BY DEF RowRec
<1>3. Started(r) \in RowRec
  <2>1. \A s \in Status, a \in Nat : [r EXCEPT !.st = s, !.att = a, !.stale = FALSE] \in RowRec
    BY DEF RowRec
  <2>2. r.att + 1 \in Nat /\ "running" \in Status
    BY DEF RowRec, Status, Active
  <2>3. QED
    BY <2>1, <2>2 DEF Started
<1>4. /\ [r EXCEPT !.stale = TRUE] \in RowRec
      /\ [r EXCEPT !.stale = FALSE] \in RowRec
  BY DEF RowRec
<1>5. {"pending", "done", "failed", "dead_letter", "retry_wait", "pruned"} \subseteq Status
  BY DEF Status, Active, Terminal
<1>6. Inserted(r) \in RowRec /\ Done(r) \in RowRec /\ Released(r) \in RowRec
  BY <1>1, <1>5 DEF Inserted, Done, Released, Update
<1>7. Marked(r) \in RowRec /\ Claimed(r) \in RowRec
  BY <1>3 DEF Marked, Claimed, Update
<1>8. RetryOrDeadLetter(r) \in RowRec
  BY <1>2, <1>5 DEF RetryOrDeadLetter, Update
<1>9. Failed(t, r) \in RowRec
  BY <1>1, <1>5, <1>8 DEF Failed, Update
<1>10. \A due \in BOOLEAN : Swept(r, due) \in RowRec
  BY <1>1, <1>5 DEF Swept
<1>11. [r EXCEPT !.st = "pruned"] \in RowRec
  BY <1>1, <1>5
<1>12. QED
  BY <1>3, <1>4, <1>6, <1>7, <1>9, <1>10, <1>11

\* What each statement makes of the status and the attempts.
LEMMA RowEffect ==
  ASSUME NEW r \in RowRec, NEW t \in Task
  PROVE  /\ Inserted(r).st = "pending" /\ Inserted(r).att = r.att
         /\ Started(r).st = "running" /\ Started(r).att = r.att + 1
         /\ Released(r).att = r.att
         /\ Released(r).st = IF r.st = "retry_wait" THEN "pending" ELSE r.st
         /\ Done(r).att = r.att
         /\ Done(r).st = IF InTable(r) THEN "done" ELSE r.st
         /\ Failed(t, r).att = r.att
         /\ ~InTable(r) => Failed(t, r).st = r.st
         /\ InTable(r) => Failed(t, r).st \in {"failed", "dead_letter", "retry_wait"}
         /\ Failed(t, r).st = "retry_wait" => r.att < MaxAttempts
<1>1. \A s \in Status : /\ [r EXCEPT !.st = s].st = s /\ [r EXCEPT !.st = s].att = r.att
                        /\ [r EXCEPT !.st = s, !.stale = FALSE].st = s
                        /\ [r EXCEPT !.st = s, !.stale = FALSE].att = r.att
  BY DEF RowRec
<1>2. {"pending", "done", "failed", "dead_letter", "retry_wait", "pruned"} \subseteq Status
  BY DEF Status, Active, Terminal
<1>3. Started(r).st = "running" /\ Started(r).att = r.att + 1
  BY DEF RowRec, Started
<1>4. /\ Inserted(r).st = "pending" /\ Inserted(r).att = r.att
      /\ Released(r).att = r.att
      /\ Released(r).st = IF r.st = "retry_wait" THEN "pending" ELSE r.st
      /\ Done(r).att = r.att
      /\ Done(r).st = IF InTable(r) THEN "done" ELSE r.st
  BY <1>1, <1>2 DEF Inserted, Released, Done, Update
<1>5. r.att \in Nat /\ MaxAttempts \in Nat
  BY TaskQueueAssumption DEF RowRec
<1>6. /\ RetryOrDeadLetter(r).att = r.att
      /\ ~InTable(r) => RetryOrDeadLetter(r) = r
      /\ InTable(r) => RetryOrDeadLetter(r).st \in {"dead_letter", "retry_wait"}
      /\ InTable(r) /\ RetryOrDeadLetter(r).st = "retry_wait" => r.att < MaxAttempts
  BY <1>1, <1>2, <1>5 DEF RetryOrDeadLetter, Update
<1>7. LET f == Update(r, [r EXCEPT !.st = "failed"])
      IN  f.att = r.att /\ (~InTable(r) => f = r) /\ (InTable(r) => f.st = "failed")
  BY <1>1, <1>2 DEF Update
<1>8. r.st = "retry_wait" => InTable(r)
  BY DEF InTable
<1>9. QED
  BY <1>3, <1>4, <1>6, <1>7, <1>8 DEF Failed

(***************************************************************************)
(* Type correctness                                                        *)
(***************************************************************************)

\* Replacing a row by a row, and moving a run, keep their tables well typed.
LEMMA TableType ==
  ASSUME TypeOK, NEW t \in Task
  PROVE  /\ \A r \in RowRec : [row EXCEPT ![t] = r] \in [Task -> RowRec]
         /\ \A k \in Kinds, p \in Pc : [run EXCEPT ![t][k] = p] \in [Task -> [Kinds -> Pc]]
         /\ row[t] \in RowRec /\ [starts EXCEPT ![t] = @ + 1] \in [Task -> Nat]
BY DEF TypeOK

\* Spending a budget keeps the counters natural numbers.
LEMMA SpendType ==
  ASSUME TypeOK, NEW b \in BudgetKinds, Spend(b)
  PROVE  used' \in [BudgetKinds -> Nat]
<1>1. used[b] + 1 \in Nat
  BY DEF TypeOK
<1>2. QED
  BY <1>1 DEF TypeOK, Spend

\* Every step of the system keeps its variables well typed.
LEMMA TypeStep == TypeOK /\ [Next]_vars => TypeOK'
<1> SUFFICES ASSUME TypeOK, [Next]_vars PROVE TypeOK'
  OBVIOUS
<1>p. Pc = {"none", "check", "insert", "mark", "sleep", "claim", "work", "fin", "err",
            "prune", "tail"} /\ Kinds = {"fresh", "recovered"}
  BY DEF Pc, Kinds
<1>b. {"fault", "lapse", "stop", "crash"} \subseteq BudgetKinds
  BY DEF BudgetKinds
<1>w. ASSUME NEW t \in Task, NEW r \in RowRec, Write(t, r)
      PROVE  row' \in [Task -> RowRec] /\ used' \in [BudgetKinds -> Nat]
  <2>1. CASE row' = [row EXCEPT ![t] = r] /\ UNCHANGED used
    BY <2>1, <1>w, TableType DEF TypeOK
  <2>2. CASE Spend("fault") /\ UNCHANGED row
    BY <2>2, <1>b, SpendType DEF TypeOK
  <2>3. QED
    BY <1>w, <2>1, <2>2 DEF Write
<1>g. ASSUME NEW t \in Task, NEW k \in Kinds, NEW p \in Pc, Goto(t, k, p)
      PROVE  run' \in [Task -> [Kinds -> Pc]]
  BY <1>g, TableType DEF Goto
<1>1. ASSUME NEW t \in Task, Create(t) PROVE TypeOK'
  BY <1>1, <1>p, <1>g DEF Create, TypeOK
<1>2. ASSUME NEW t \in Task, TaskStep(t) PROVE TypeOK'
  <2>r. row[t] \in RowRec
    BY TableType
  <2>1. CASE Check(t)
    BY <2>1, <1>p, <1>g, <1>b, SpendType DEF Check, TypeOK
  <2>2. CASE Insert(t)
    BY <2>2, <2>r, <1>p, <1>g, <1>w, RowType DEF Insert, TypeOK
  <2>3. CASE Mark(t)
    <3>1. row' \in [Task -> RowRec] /\ used' \in [BudgetKinds -> Nat]
      BY <2>3, <2>r, <1>w, RowType DEF Mark
    <3>2. run' \in [Task -> [Kinds -> Pc]] /\ starts' \in [Task -> Nat]
      BY <2>3, <1>p, <1>g, TableType DEF Mark
    <3>3. QED
      BY <2>3, <3>1, <3>2 DEF Mark, TypeOK
  <2>4. CASE Wake(t)
    <3>1. row' \in [Task -> RowRec] /\ used' \in [BudgetKinds -> Nat]
      <4>1. CASE row' = [row EXCEPT ![t] = Released(@)] /\ UNCHANGED used
        <5>1. Released(row[t]) \in RowRec
          BY <2>r, RowType
        <5>2. QED
          BY <4>1, <5>1, TableType DEF TypeOK
      <4>2. CASE Spend("fault") /\ UNCHANGED row
        BY <4>2, <1>b, SpendType DEF TypeOK
      <4>3. QED
        BY <2>4, <4>1, <4>2 DEF Wake
    <3>2. run' \in [Task -> [Kinds -> Pc]]
      BY <2>4, <1>p, <1>g DEF Wake
    <3>3. QED
      BY <2>4, <3>1, <3>2 DEF Wake, TypeOK
  <2>5. CASE Claim(t)
    <3>1. row' \in [Task -> RowRec] /\ used' \in [BudgetKinds -> Nat]
      <4>1. CASE row' = [row EXCEPT ![t] = Claimed(@)] /\ UNCHANGED used
        <5>1. Claimed(row[t]) \in RowRec
          BY <2>r, RowType
        <5>2. QED
          BY <4>1, <5>1, TableType DEF TypeOK
      <4>2. CASE UNCHANGED row /\ UNCHANGED used
        BY <4>2 DEF TypeOK
      <4>3. CASE Spend("fault") /\ UNCHANGED row
        BY <4>3, <1>b, SpendType DEF TypeOK
      <4>4. QED
        BY <2>5, <4>1, <4>2, <4>3 DEF Claim
    <3>2. run' \in [Task -> [Kinds -> Pc]] /\ starts' \in [Task -> Nat]
      BY <2>5, <1>p, <1>g, TableType DEF Claim, TypeOK
    <3>3. QED
      BY <2>5, <3>1, <3>2 DEF Claim, TypeOK
  <2>6. ASSUME NEW k \in Kinds, RunStep(t, k) PROVE TypeOK'
    <3>1. CASE Work(t, k)
      BY <3>1, <1>p, <1>g DEF Work, TypeOK
    <3>2. CASE Finish(t, k)
      <4>1. row' \in [Task -> RowRec] /\ used' \in [BudgetKinds -> Nat]
        BY <3>2, <2>r, <1>w, RowType DEF Finish
      <4>2. run' \in [Task -> [Kinds -> Pc]]
        BY <3>2, <1>p, <1>g DEF Finish
      <4>3. QED
        BY <3>2, <4>1, <4>2 DEF Finish, TypeOK
    <3>3. CASE Fail(t, k)
      <4>1. row' \in [Task -> RowRec] /\ used' \in [BudgetKinds -> Nat]
        BY <3>3, <2>r, <1>w, RowType DEF Fail
      <4>2. run' \in [Task -> [Kinds -> Pc]]
        BY <3>3, <1>p, <1>g DEF Fail
      <4>3. QED
        BY <3>3, <4>1, <4>2 DEF Fail, TypeOK
    <3>4. CASE Prune(t, k)
      <4>1. row' \in [Task -> RowRec]
        <5>1. \A u \in Task : row[u] \in RowRec /\ [row[u] EXCEPT !.st = "pruned"] \in RowRec
          BY RowType DEF TypeOK
        <5>2. PICK kept \in SUBSET Prunable :
                row' = [u \in Task |-> IF u \in Prunable \ kept
                                        THEN [row[u] EXCEPT !.st = "pruned"] ELSE row[u]]
          BY <3>4 DEF Prune
        <5>3. QED
          BY <5>1, <5>2
      <4>2. run' \in [Task -> [Kinds -> Pc]]
        BY <3>4, <1>p, <1>g DEF Prune
      <4>3. QED
        BY <3>4, <4>1, <4>2 DEF Prune, TypeOK
    <3>5. CASE Cancel(t, k)
      <4>1. Pending(t, run[t][k]) \in RowRec
        BY <2>r, RowType DEF Pending
      <4>2. row' \in [Task -> RowRec] /\ used' \in [BudgetKinds -> Nat]
        <5>1. PICK r \in {row[t], Pending(t, run[t][k])} :
                \/ /\ row' = [row EXCEPT ![t] = IF Handled(k, run[t][k]) THEN Failed(t, r) ELSE r]
                   /\ UNCHANGED used
                \/ /\ Handled(k, run[t][k]) /\ row' = [row EXCEPT ![t] = r]
                   /\ Spend("fault")
          BY <3>5 DEF Cancel
        <5>2. r \in RowRec /\ Failed(t, r) \in RowRec
          BY <4>1, <2>r, RowType
        <5>3. QED
          BY SMTT(30), <5>1, <5>2, <1>b, TableType, SpendType DEF TypeOK
      <4>3. run' \in [Task -> [Kinds -> Pc]]
        BY <3>5, <1>p, <1>g DEF Cancel, AfterCancel
      <4>4. QED
        BY <3>5, <4>2, <4>3 DEF Cancel, TypeOK
    <3>6. QED
      BY <2>6, <3>1, <3>2, <3>3, <3>4, <3>5 DEF RunStep
  <2>7. QED
    BY <1>2, <2>1, <2>2, <2>3, <2>4, <2>5, <2>6 DEF TaskStep
<1>3. ASSUME NEW t \in Task, Lapse(t) PROVE TypeOK'
  <2>1. row' \in [Task -> RowRec]
    BY <1>3, RowType, TableType DEF Lapse
  <2>2. used' \in [BudgetKinds -> Nat]
    BY <1>3, <1>b, SpendType DEF Lapse, TypeOK
  <2>3. QED
    BY <1>3, <2>1, <2>2 DEF Lapse, TypeOK
<1>4. ASSUME NEW t \in Task, Beat(t) PROVE TypeOK'
  <2>1. row' \in [Task -> RowRec]
    BY <1>4, RowType, TableType DEF Beat
  <2>2. QED
    BY <1>4, <2>1 DEF Beat, TypeOK
<1>5. ASSUME NEW due \in SUBSET Task, Sweep(due) PROVE TypeOK'
  <2>1. row' \in [Task -> RowRec]
    <3>1. ASSUME NEW t \in Task PROVE Swept(row[t], t \in due) \in RowRec
      <4>1. (t \in due) \in BOOLEAN /\ row[t] \in RowRec
        BY DEF TypeOK
      <4>2. QED
        BY <4>1, RowType
    <3>2. QED
      BY <1>5, <3>1 DEF Sweep
  <2>2. picked' \subseteq Typed
    BY <1>5 DEF Sweep, Selectable
  <2>3. QED
    BY <1>5, <2>1, <2>2 DEF Sweep, TypeOK
<1>6. CASE Schedule
  <2>1. run' \in [Task -> [Kinds -> Pc]]
    BY <1>6, <1>p DEF Schedule, TypeOK
  <2>2. QED
    BY <1>6, <2>1 DEF Schedule, NoPass, TypeOK
<1>7. CASE Stop
  BY <1>7, <1>b, SpendType DEF Stop, NoPass, TypeOK
<1>8. CASE Resume
  BY <1>8 DEF Resume, TypeOK
<1>9. CASE Crash
  BY <1>9, <1>b, <1>p, SpendType DEF Crash, NoPass, TypeOK
<1>10. CASE UNCHANGED vars
  BY <1>10 DEF vars, TypeOK
<1>11. QED
  BY <1>1, <1>2, <1>3, <1>4, <1>5, <1>6, <1>7, <1>8, <1>9, <1>10 DEF Next, Recovery

\* The state starts well typed.
LEMMA TypeInit == Init => TypeOK
<1> SUFFICES ASSUME Init PROVE TypeOK
  OBVIOUS
<1>1. [st |-> "none", att |-> 0, stale |-> FALSE] \in RowRec
  BY DEF RowRec, Status
<1>2. row \in [Task -> RowRec]
  BY <1>1 DEF Init
<1>3. run \in [Task -> [Kinds -> Pc]]
  BY DEF Init, Pc
<1>4. QED
  BY <1>2, <1>3 DEF Init, TypeOK

\* Every variable of the queue keeps its type, and a selection of rows exists
\* only inside a recovery pass, for every number of tasks, keys and attempts.
THEOREM QueueTypeCorrect == Spec => []TypeOK
<1>1. QED
  BY TypeInit, TypeStep, PTL DEF Spec

(***************************************************************************)
(* One run per row                                                         *)
(***************************************************************************)

\* What moving a run changes.
LEMMA Moved ==
  ASSUME TypeOK, NEW t \in Task, NEW k \in Kinds, NEW p \in Pc, Goto(t, k, p)
  PROVE  /\ run'[t][k] = p
         /\ \A j \in Kinds \ {k} : run'[t][j] = run[t][j]
         /\ \A u \in Task \ {t} : run'[u] = run[u]
BY DEF TypeOK, Goto

\* A run that moves on makes no second run.
LEMMA MoveOwn ==
  ASSUME TypeOK, SingleRun, NEW t \in Task, NEW k \in Kinds, NEW p \in Pc,
         run[t][k] # "none" \/ ~Tracked(t), Goto(t, k, p)
  PROVE  SingleRun'
<1>1. \A j \in Kinds \ {k} : run[t][j] = "none"
  BY DEF SingleRun, Tracked, Kinds
<1>2. QED
  BY <1>1, Moved DEF SingleRun, Kinds

\* No step of the system makes a second run for a row that has one.
LEMMA SingleStep == TypeOK /\ SingleRun /\ [Next]_vars => SingleRun'
<1> SUFFICES ASSUME TypeOK, SingleRun, [Next]_vars PROVE SingleRun'
  OBVIOUS
<1>p. Pc = {"none", "check", "insert", "mark", "sleep", "claim", "work", "fin", "err",
            "prune", "tail"} /\ Kinds = {"fresh", "recovered"}
  BY DEF Pc, Kinds
<1>1. ASSUME NEW t \in Task, Create(t) PROVE SingleRun'
  BY <1>1, <1>p, MoveOwn DEF Create
<1>2. ASSUME NEW t \in Task, TaskStep(t) PROVE SingleRun'
  <2>1. CASE Check(t)
    BY <2>1, <1>p, MoveOwn DEF Check, At
  <2>2. CASE Insert(t)
    BY <2>2, <1>p, MoveOwn DEF Insert, At
  <2>3. CASE Mark(t)
    BY <2>3, <1>p, MoveOwn DEF Mark, At
  <2>4. CASE Wake(t)
    BY <2>4, <1>p, MoveOwn DEF Wake, At
  <2>5. CASE Claim(t)
    BY <2>5, <1>p, MoveOwn DEF Claim, At
  <2>6. ASSUME NEW k \in Kinds, RunStep(t, k) PROVE SingleRun'
    <3>1. PICK p \in Pc : run[t][k] # "none" /\ Goto(t, k, p)
      BY <2>6, <1>p DEF RunStep, Work, Finish, Fail, Prune, Cancel, AfterCancel, At
    <3>2. QED
      BY <3>1, MoveOwn
  <2>7. QED
    BY <1>2, <2>1, <2>2, <2>3, <2>4, <2>5, <2>6 DEF TaskStep
<1>3. CASE Schedule
  <2>1. ASSUME NEW t \in Task PROVE run'[t]["fresh"] = "none" \/ run'[t]["recovered"] = "none"
    <3>1. CASE t \in Scheduled
      <4>1. run'[t] = [run[t] EXCEPT !["recovered"] = "sleep"]
        BY <1>3, <3>1 DEF Schedule
      <4>2. run[t]["fresh"] = "none"
        BY <3>1, <1>p DEF Scheduled, Tracked
      <4>3. QED
        BY <4>1, <4>2, <1>p DEF TypeOK
    <3>2. CASE t \notin Scheduled
      BY <1>3, <3>2 DEF Schedule, SingleRun
    <3>3. QED
      BY <3>1, <3>2
  <2>2. QED
    BY <2>1 DEF SingleRun
<1>4. CASE Crash
  BY <1>4, <1>p DEF Crash, SingleRun
<1>5. CASE UNCHANGED run
  BY <1>5 DEF SingleRun
<1>6. QED
  BY <1>1, <1>2, <1>3, <1>4, <1>5
     DEF Next, Recovery, Lapse, Beat, Sweep, Stop, Resume, vars

\* The fresh run and the recovered run of a row never exist together, for any
\* number of tasks and whatever happens inside a recovery pass.
THEOREM OneRun == Spec => []SingleRun
<1>1. Init => SingleRun
  BY DEF Init, SingleRun, Kinds
<1>2. QED
  BY <1>1, SingleStep, QueueTypeCorrect, PTL DEF Spec

(***************************************************************************)
(* A step leaves the other tasks' invariants alone                         *)
(***************************************************************************)

\* A budget only grows.
LEMMA SpendMore ==
  ASSUME TypeOK, NEW b \in BudgetKinds, Spend(b)
  PROVE  /\ used'[b] = used[b] + 1
         /\ \A c \in BudgetKinds \ {b} : used'[c] = used[c]
BY DEF TypeOK, Spend

\* What a step may do to a task it is not about: prune its final row, drop it
\* from the selection, let a stop begin, and let one end once no run is left.
Spared(u) ==
  /\ row'[u].att = row[u].att
  /\ row'[u].st = row[u].st \/ (row[u].st \in Terminal /\ row'[u].st = "pruned")
  /\ run'[u] = run[u]
  /\ starts'[u] = starts[u]
  /\ u \in picked' => u \in picked
  /\ ~stopping' => ~stopping \/ ~Tracked(u)

Counting == used'["fault"] >= F /\ used'["stop"] >= used["stop"]

\* The invariant of such a task is kept.
LEMMA SparedInv ==
  ASSUME TypeOK, TypeOK', Counting, NEW u \in Task, Spared(u), TaskInv(u)
  PROVE  TaskInv(u)'
<1>n. /\ row[u].att \in Nat /\ row'[u].att \in Nat /\ starts[u] \in Nat
      /\ F \in Nat /\ used'["fault"] \in Nat /\ MaxAttempts \in Nat
      /\ used["stop"] \in Nat /\ used'["stop"] \in Nat
  BY TaskQueueAssumption DEF TypeOK, RowRec, BudgetKinds, F
<1>1. FreshStart(u)'
  BY <1>n DEF Spared, Counting, TaskInv, FreshStart, Early, Terminal, F
<1>2. AttemptLeft(u)'
  BY DEF Spared, TaskInv, AttemptLeft, Waiting
<1>3. Accounted(u)'
  BY <1>n DEF Spared, Counting, TaskInv, Accounted, F
<1>4. ClaimInLimit(u)'
  BY DEF Spared, TaskInv, ClaimInLimit
<1>5. Paid(u)'
  <2>1. Abandoned(u)' => Abandoned(u)
    BY DEF Spared, Abandoned, Tracked, Kinds, Ending
  <2>2. QED
    BY <1>n, <2>1 DEF Spared, Counting, TaskInv, Paid, F
<1>6. DoneQuiet(u)'
  BY <1>n DEF Spared, Counting, TaskInv, DoneQuiet
<1>7. OwnPc(u)'
  BY DEF Spared, TaskInv, OwnPc, Early
<1>8. QED
  BY <1>1, <1>2, <1>3, <1>4, <1>5, <1>6, <1>7 DEF TaskInv

\* A run that moves, or a task that is created, spares every other task.
LEMMA OthersSpared ==
  ASSUME TypeOK, NEW t \in Task, Create(t) \/ TaskStep(t), NEW u \in Task \ {t}
  PROVE  Spared(u) /\ Counting
<1>p. Pc = {"none", "check", "insert", "mark", "sleep", "claim", "work", "fin", "err",
            "prune", "tail"} /\ Kinds = {"fresh", "recovered"}
  BY DEF Pc, Kinds
<1>1. PICK k \in Kinds, p \in Pc : Goto(t, k, p)
  <2>1. CASE Create(t)
    BY <2>1, <1>p DEF Create
  <2>2. CASE TaskStep(t)
    BY <2>2, <1>p DEF TaskStep, Check, Insert, Mark, Wake, Claim, RunStep, Work, Finish,
                      Fail, Prune, Cancel, AfterCancel
  <2>3. QED
    BY <2>1, <2>2
<1>2. run'[u] = run[u]
  BY <1>1, Moved
<1>3. UNCHANGED <<picked, stopping>>
  BY DEF Create, TaskStep, Check, Insert, Mark, Wake, Claim, RunStep, Work, Finish, Fail,
         Prune, Cancel
<1>4. starts'[u] = starts[u]
  BY DEF TypeOK, Create, TaskStep, Check, Insert, Mark, Wake, Claim, RunStep, Work, Finish,
         Fail, Prune, Cancel
<1>5. Counting
  <2>1. UNCHANGED used \/ Spend("fault")
    BY DEF Create, TaskStep, Check, Insert, Mark, Wake, Claim, RunStep, Work, Finish, Fail,
           Prune, Cancel, Write
  <2>2. used["fault"] \in Nat /\ used["stop"] \in Nat /\ "fault" \in BudgetKinds
        /\ "stop" \in BudgetKinds
    BY DEF TypeOK, BudgetKinds
  <2>3. QED
    BY <2>1, <2>2, SpendMore DEF Counting, F
<1>6. \/ row'[u] = row[u]
      \/ row[u].st \in Terminal /\ row'[u] = [row[u] EXCEPT !.st = "pruned"]
  <2>1. CASE \E j \in Kinds : Prune(t, j)
    BY <2>1 DEF Prune, Prunable
  <2>2. CASE ~ \E j \in Kinds : Prune(t, j)
    BY <2>2 DEF TypeOK, Create, TaskStep, Check, Insert, Mark, Wake, Claim, RunStep, Work,
                Finish, Fail, Cancel, Write
  <2>3. QED
    BY <2>1, <2>2
<1>7. row[u] \in RowRec
  BY DEF TypeOK
<1>8. QED
  BY <1>2, <1>3, <1>4, <1>5, <1>6, <1>7 DEF Spared, RowRec

(***************************************************************************)
(* A run and the invariant of its own task                                 *)
(***************************************************************************)

\* The numbers of a task are natural numbers.
LEMMA Numbers ==
  ASSUME TypeOK, NEW t \in Task
  PROVE  /\ row[t] \in RowRec /\ row[t].att \in Nat /\ starts[t] \in Nat
         /\ F \in Nat /\ used["stop"] \in Nat /\ MaxAttempts \in Nat /\ MaxAttempts >= 1
BY TaskQueueAssumption DEF TypeOK, RowRec, BudgetKinds, F

\* What a write leaves: its row, or the old one and a lost write.
LEMMA Written ==
  ASSUME TypeOK, NEW t \in Task, NEW r \in RowRec, Write(t, r)
  PROVE  /\ \/ row'[t] = r /\ used'["fault"] = F
            \/ row'[t] = row[t] /\ used'["fault"] = F + 1
         /\ used'["stop"] = used["stop"]
<1>1. "fault" \in BudgetKinds /\ "stop" \in BudgetKinds
  BY DEF BudgetKinds
<1>2. QED
  BY <1>1, SpendMore DEF TypeOK, Write, F

\* A created task has a row nobody has written, and no start.
LEMMA CreateOwn ==
  ASSUME QInv, NEW t \in Task, Create(t)
  PROVE  TaskInv(t)'
<1>1. /\ UNCHANGED <<row, picked, stopping, starts, used>> /\ row[t].st = "none"
      /\ starts[t] = 0 /\ run'[t]["fresh"] = "check" /\ run'[t]["recovered"] = "none"
  BY Moved DEF QInv, Create, Tracked, Kinds, Pc
<1>2. QED
  BY <1>1, Numbers
     DEF QInv, TaskInv, OwnPc, FreshStart, AttemptLeft, Accounted, ClaimInLimit, Paid, Abandoned,
         DoneQuiet, Early, Waiting, Asleep, Ending, Kinds, F

\* A run on its way to its work.
LEMMA CheckOwn ==
  ASSUME QInv, NEW t \in Task, Check(t)
  PROVE  TaskInv(t)'
<1>1. /\ UNCHANGED <<row, picked, stopping, starts>> /\ run[t]["fresh"] = "check"
      /\ run[t]["recovered"] = "none"
      /\ run'[t]["fresh"] \in {"none", "insert"} /\ run'[t]["recovered"] = "none"
  BY Moved DEF QInv, SingleRun, Check, At, Kinds, Pc
<1>2. used'["fault"] \in {F, F + 1} /\ used'["stop"] = used["stop"]
  BY SpendMore DEF QInv, Check, F, BudgetKinds
<1>3. QED
  BY <1>1, <1>2, Numbers
     DEF QInv, TaskInv, OwnPc, FreshStart, AttemptLeft, Accounted, ClaimInLimit, Paid, Abandoned,
         DoneQuiet, Early, Waiting, Asleep, Ending, Kinds, F

\* The insert of a row: written, or lost and paid for.
LEMMA InsertOwn ==
  ASSUME QInv, NEW t \in Task, Insert(t)
  PROVE  TaskInv(t)'
<1>1. /\ UNCHANGED <<picked, stopping, starts>> /\ run[t]["fresh"] = "insert"
      /\ run[t]["recovered"] = "none"
      /\ run'[t]["fresh"] = "mark" /\ run'[t]["recovered"] = "none"
  BY Moved DEF QInv, SingleRun, Insert, At, Kinds, Pc
<1>2. /\ \/ row'[t] = Inserted(row[t]) /\ used'["fault"] = F
         \/ row'[t] = row[t] /\ used'["fault"] = F + 1
      /\ used'["stop"] = used["stop"]
  BY Written, RowType, Numbers DEF QInv, Insert
<1>3. Inserted(row[t]).st = "pending" /\ Inserted(row[t]).att = row[t].att
  BY RowEffect, Numbers DEF QInv
<1>4. QED
  BY <1>1, <1>2, <1>3, Numbers
     DEF QInv, TaskInv, OwnPc, FreshStart, AttemptLeft, Accounted, ClaimInLimit, Paid, Abandoned,
         DoneQuiet, Early, Waiting, Asleep, Ending, Kinds, F, Tracked

\* The first start of a task is its first attempt, if the row is there to count it.
LEMMA MarkOwn ==
  ASSUME QInv, NEW t \in Task, Mark(t)
  PROVE  TaskInv(t)'
<1>1. /\ UNCHANGED <<picked, stopping>> /\ run[t]["fresh"] = "mark"
      /\ run[t]["recovered"] = "none" /\ starts'[t] = starts[t] + 1
      /\ run'[t]["fresh"] = "work" /\ run'[t]["recovered"] = "none"
  BY Moved DEF QInv, SingleRun, Mark, At, Kinds, Pc, TypeOK
<1>2. /\ \/ row'[t] = Marked(row[t]) /\ used'["fault"] = F
         \/ row'[t] = row[t] /\ used'["fault"] = F + 1
      /\ used'["stop"] = used["stop"]
  BY Written, RowType, Numbers DEF QInv, Mark
<1>3. /\ Started(row[t]).st = "running" /\ Started(row[t]).att = row[t].att + 1
      /\ row[t].st = "pending" => Marked(row[t]) = Started(row[t])
      /\ row[t].st = "none" => Marked(row[t]) = row[t]
  BY RowEffect, Numbers DEF QInv, Marked, Update, InTable
<1>4. QED
  BY <1>1, <1>2, <1>3, Numbers
     DEF QInv, TaskInv, OwnPc, FreshStart, AttemptLeft, Accounted, ClaimInLimit, Paid, Abandoned,
         DoneQuiet, Early, Waiting, Asleep, Ending, Kinds, F, Tracked

\* A recovered run that wakes only turns a waiting row into a pending one.
LEMMA WakeOwn ==
  ASSUME QInv, NEW t \in Task, Wake(t)
  PROVE  TaskInv(t)'
<1>1. /\ UNCHANGED <<picked, stopping, starts>> /\ run[t]["recovered"] = "sleep"
      /\ run[t]["fresh"] = "none" /\ run'[t]["fresh"] = "none"
  BY Moved DEF QInv, SingleRun, Wake, At, Kinds, Pc
<1>2. /\ \/ /\ row'[t] = Released(row[t]) /\ run'[t]["recovered"] = "claim"
            /\ used'["fault"] = F
         \/ /\ row'[t] = row[t] /\ run'[t]["recovered"] = "none"
            /\ used'["fault"] = F + 1
      /\ used'["stop"] = used["stop"]
  BY Moved, SpendMore DEF QInv, TypeOK, Wake, F, BudgetKinds, Kinds, Pc
<1>3. /\ Released(row[t]).att = row[t].att
      /\ Released(row[t]).st = IF row[t].st = "retry_wait" THEN "pending" ELSE row[t].st
  BY RowEffect, Numbers DEF QInv
<1>4. QED
  BY <1>1, <1>2, <1>3, Numbers
     DEF QInv, TaskInv, OwnPc, FreshStart, AttemptLeft, Accounted, ClaimInLimit, Paid, Abandoned,
         DoneQuiet, Early, Waiting, Asleep, Ending, Kinds, F, Tracked

\* A claim starts the work of a row with an attempt left, or of one whose
\* abandoned execution has been paid for.
LEMMA ClaimOwn ==
  ASSUME QInv, NEW t \in Task, Claim(t)
  PROVE  TaskInv(t)'
<1>1. /\ UNCHANGED <<picked, stopping>> /\ run[t]["recovered"] = "claim"
      /\ run[t]["fresh"] = "none" /\ run'[t]["fresh"] = "none"
      /\ used'["stop"] = used["stop"]
  BY Moved, SpendMore DEF QInv, SingleRun, Claim, At, Kinds, Pc, BudgetKinds
<1>2. CASE /\ Claimable(row[t]) /\ row' = [row EXCEPT ![t] = Claimed(@)]
           /\ Goto(t, "recovered", "work") /\ starts' = [starts EXCEPT ![t] = @ + 1]
           /\ UNCHANGED used
  <2>1. /\ row'[t].st = "running" /\ row'[t].att = row[t].att + 1
        /\ row[t].st \in {"pending", "running"} /\ starts'[t] = starts[t] + 1
        /\ run'[t]["recovered"] = "work"
    BY <1>2, Moved, RowEffect, Numbers DEF QInv, TypeOK, Claimed, Claimable, Kinds, Pc
  <2>2. QED
    BY <1>1, <1>2, <2>1, Numbers
       DEF QInv, TaskInv, OwnPc, FreshStart, AttemptLeft, Accounted, ClaimInLimit, Paid, Abandoned,
           DoneQuiet, Early, Waiting, Asleep, Ending, Kinds, F, Tracked
<1>3. CASE Goto(t, "recovered", "none") /\ UNCHANGED <<row, starts>>
           /\ (UNCHANGED used \/ Spend("fault"))
  <2>1. run'[t]["recovered"] = "none" /\ used'["fault"] \in {F, F + 1}
    BY <1>3, Moved, SpendMore DEF QInv, BudgetKinds, F, Kinds, Pc
  <2>2. QED
    BY <1>1, <1>3, <2>1, Numbers
       DEF QInv, TaskInv, OwnPc, FreshStart, AttemptLeft, Accounted, ClaimInLimit, Paid, Abandoned,
           DoneQuiet, Early, Waiting, Asleep, Ending, Kinds, F, Tracked
<1>4. QED
  BY <1>2, <1>3 DEF Claim

\* The end of the work writes nothing.
LEMMA WorkOwn ==
  ASSUME QInv, NEW t \in Task, NEW k \in Kinds, Work(t, k)
  PROVE  TaskInv(t)'
<1>1. /\ UNCHANGED <<row, picked, stopping, starts, used>> /\ run[t][k] = "work"
      /\ run'[t][k] \in {"fin", "err"}
      /\ \A j \in Kinds \ {k} : run[t][j] = "none" /\ run'[t][j] = "none"
  BY Moved DEF QInv, SingleRun, Work, At, Kinds, Pc
<1>2. QED
  BY <1>1, Numbers
     DEF QInv, TaskInv, OwnPc, FreshStart, AttemptLeft, Accounted, ClaimInLimit, Paid, Abandoned,
         DoneQuiet, Early, Waiting, Asleep, Ending, Kinds, F, Tracked

\* The result of a run is in its row, or the lost write pays for the row that
\* is left running.
LEMMA ResultOwn ==
  ASSUME QInv, NEW t \in Task, NEW k \in Kinds, Finish(t, k) \/ Fail(t, k)
  PROVE  TaskInv(t)'
<1>1. /\ UNCHANGED <<picked, stopping, starts>> /\ run[t][k] \in {"fin", "err"}
      /\ run'[t][k] \in Ending
      /\ \A j \in Kinds \ {k} : run[t][j] = "none" /\ run'[t][j] = "none"
  BY Moved DEF QInv, SingleRun, Finish, Fail, At, Kinds, Pc, Ending
<1>2. PICK r \in {Done(row[t]), Failed(t, row[t])} : Write(t, r)
  BY DEF Finish, Fail
<1>3. /\ r \in RowRec /\ r.att = row[t].att
      /\ r.st \in {"done", "failed", "dead_letter", "retry_wait"} \/ r.st = row[t].st
      /\ r.st \notin {"running", "pending"}
      /\ r.st = "retry_wait" => r.att < MaxAttempts
      /\ r.st = "none" => row[t].st = "none"
  <2>1. ~InTable(row[t]) => row[t].st \in {"none", "pruned"}
    BY DEF InTable
  <2>2. TypeOK /\ row[t] \in RowRec
    BY Numbers DEF QInv
  <2>3. CASE r = Done(row[t])
    BY <2>1, <2>2, <2>3, RowType, RowEffect
  <2>4. CASE r = Failed(t, row[t])
    <3>1. /\ r \in RowRec /\ r.att = row[t].att
          /\ ~InTable(row[t]) => r.st = row[t].st
          /\ InTable(row[t]) => r.st \in {"failed", "dead_letter", "retry_wait"}
          /\ r.st = "retry_wait" => row[t].att < MaxAttempts
      BY <2>2, <2>4, RowType, RowEffect
    <3>2. QED
      BY <2>1, <3>1
  <2>5. QED
    BY <2>3, <2>4
<1>4. /\ \/ row'[t] = r /\ used'["fault"] = F
         \/ row'[t] = row[t] /\ used'["fault"] = F + 1
      /\ used'["stop"] = used["stop"]
  BY <1>2, <1>3, Written DEF QInv
<1>5. QED
  BY <1>1, <1>3, <1>4, Numbers
     DEF QInv, TaskInv, OwnPc, FreshStart, AttemptLeft, Accounted, ClaimInLimit, Paid, Abandoned,
         DoneQuiet, Early, Waiting, Asleep, Ending, Kinds, F, Tracked

\* Pruning touches final rows only, and ends the run.
LEMMA PruneOwn ==
  ASSUME QInv, NEW t \in Task, NEW k \in Kinds, Prune(t, k)
  PROVE  TaskInv(t)'
<1>1. /\ UNCHANGED <<picked, stopping, starts, used, pass>> /\ run[t][k] \in Ending
      /\ run'[t][k] = "none"
      /\ \A j \in Kinds \ {k} : run[t][j] = "none" /\ run'[t][j] = "none"
  BY Moved DEF QInv, SingleRun, Prune, At, Kinds, Pc, Ending
<1>2. /\ row'[t].att = row[t].att
      /\ row'[t].st = row[t].st \/ (row[t].st \in Terminal /\ row'[t].st = "pruned")
  BY Numbers DEF QInv, Prune, Prunable, RowRec
<1>3. stopping => picked = {}
  BY DEF QInv, Halted, TypeOK
<1>4. QED
  BY <1>1, <1>2, <1>3, Numbers
     DEF QInv, TaskInv, OwnPc, FreshStart, AttemptLeft, Accounted, ClaimInLimit, Paid, Abandoned,
         DoneQuiet, Early, Waiting, Asleep, Ending, Kinds, F, Tracked, Terminal

\* What a cancelled run leaves of its row: never fewer attempts, and a row
\* that waits has one left.
LEMMA CancelRow ==
  ASSUME QInv, NEW t \in Task, NEW k \in Kinds, run[t][k] # "none",
         NEW r \in {row[t], Pending(t, run[t][k])}, NEW q \in {r, Failed(t, r)}
  PROVE  /\ r \in RowRec /\ q \in RowRec /\ q.att >= row[t].att
         /\ q.st = "none" => row[t].st = "none" /\ q.att = row[t].att
         /\ q.st \in Waiting => q.att < MaxAttempts
<1>0. TypeOK /\ TaskInv(t) /\ row[t] \in RowRec /\ row[t].att \in Nat
      /\ MaxAttempts \in Nat /\ MaxAttempts >= 1
  BY Numbers DEF QInv
<1>1. /\ r \in RowRec /\ r.att >= row[t].att
      /\ r.st = "none" => row[t].st = "none" /\ r.att = row[t].att
      /\ r.st \in Waiting => r.att < MaxAttempts
  <2>1. CASE r = row[t]
    BY <1>0, <2>1 DEF TaskInv, AttemptLeft
  <2>2. CASE run[t][k] = "insert" /\ r = Inserted(row[t])
    <3>1. k = "fresh" \/ k = "recovered"
      BY DEF Kinds
    <3>2. r.st = "pending" /\ r.att = row[t].att /\ r \in RowRec
      BY <1>0, <2>2, RowType, RowEffect
    <3>3. CASE k = "fresh"
      BY <1>0, <2>2, <3>2, <3>3 DEF TaskInv, FreshStart, Early
    <3>4. CASE k = "recovered"
      BY <1>0, <2>2, <3>2, <3>4 DEF TaskInv, OwnPc, Early
    <3>5. QED
      BY <3>1, <3>3, <3>4
  <2>3. CASE r \in {Marked(row[t]), Claimed(row[t])}
    <3>1. /\ Started(row[t]) \in RowRec /\ Started(row[t]).st = "running"
          /\ Started(row[t]).att = row[t].att + 1
      BY <1>0, RowType, RowEffect
    <3>2. r = row[t] \/ r = Started(row[t])
      BY <2>3 DEF Marked, Claimed, Update
    <3>3. QED
      BY <1>0, <2>1, <3>1, <3>2 DEF Waiting
  <2>4. CASE r = Released(row[t])
    <3>1. /\ r \in RowRec /\ r.att = row[t].att
          /\ r.st = IF row[t].st = "retry_wait" THEN "pending" ELSE row[t].st
      BY <1>0, <2>4, RowType, RowEffect
    <3>2. QED
      BY <1>0, <3>1 DEF TaskInv, AttemptLeft, Waiting
  <2>5. CASE r = Done(row[t])
    <3>1. r \in RowRec /\ r.att = row[t].att /\ (r.st = "done" \/ r.st = row[t].st)
      BY <1>0, <2>5, RowType, RowEffect
    <3>2. QED
      BY <1>0, <3>1 DEF TaskInv, AttemptLeft, Waiting
  <2>6. CASE r = Failed(t, row[t])
    <3>1. /\ r \in RowRec /\ r.att = row[t].att
          /\ ~InTable(row[t]) => r.st = row[t].st
          /\ InTable(row[t]) => r.st \in {"failed", "dead_letter", "retry_wait"}
          /\ r.st = "retry_wait" => row[t].att < MaxAttempts
      BY <1>0, <2>6, RowType, RowEffect
    <3>2. QED
      BY <1>0, <3>1 DEF TaskInv, AttemptLeft, Waiting, InTable
  <2>7. QED
    BY <2>1, <2>2, <2>3, <2>4, <2>5, <2>6 DEF Pending
<1>2. CASE q = Failed(t, r)
  <2>1. /\ q \in RowRec /\ q.att = r.att
        /\ ~InTable(r) => q.st = r.st
        /\ InTable(r) => q.st \in {"failed", "dead_letter", "retry_wait"}
        /\ q.st = "retry_wait" => r.att < MaxAttempts
    BY <1>1, <1>2, RowType, RowEffect
  <2>2. QED
    BY <1>0, <1>1, <2>1 DEF Waiting, InTable
<1>3. QED
  BY <1>1, <1>2

\* A run is cancelled only during a stop, when nothing selects or claims its row.
LEMMA CancelOwn ==
  ASSUME QInv, NEW t \in Task, NEW k \in Kinds, Cancel(t, k)
  PROVE  TaskInv(t)'
<1>1. /\ UNCHANGED <<picked, stopping, starts>> /\ stopping /\ picked = {}
      /\ used["stop"] >= 1 /\ run[t][k] # "none"
      /\ run'[t][k] \in {"none", "tail"}
      /\ \A j \in Kinds \ {k} : run[t][j] = "none" /\ run'[t][j] = "none"
  BY Moved DEF QInv, TypeOK, Halted, SingleRun, Cancel, AfterCancel, Kinds, Pc
<1>2. used'["fault"] \in {F, F + 1} /\ used'["stop"] = used["stop"]
  BY SpendMore DEF QInv, Cancel, BudgetKinds, F
<1>p. PICK r \in {row[t], Pending(t, run[t][k])} : \E q \in {r, Failed(t, r)} :
        row' = [row EXCEPT ![t] = q]
  BY DEF Cancel
<1>3. PICK q \in {r, Failed(t, r)} : row' = [row EXCEPT ![t] = q]
  BY <1>p
<1>4. /\ row'[t] = q /\ q \in RowRec /\ q.att >= row[t].att
      /\ q.st = "none" => row[t].st = "none" /\ q.att = row[t].att
      /\ q.st \in Waiting => q.att < MaxAttempts
  BY <1>1, <1>3, CancelRow DEF QInv, TypeOK
<1>5. q.att \in Nat
  BY <1>4 DEF RowRec
<1>6. QED
  BY <1>1, <1>2, <1>4, <1>5, Numbers
     DEF QInv, TaskInv, OwnPc, FreshStart, AttemptLeft, Accounted, ClaimInLimit, Paid,
         Abandoned, DoneQuiet, Early, Asleep, Ending, Kinds, F, Tracked

\* The steps of a task keep its own invariant.
LEMMA OwnStep ==
  ASSUME QInv, NEW t \in Task, Create(t) \/ TaskStep(t)
  PROVE  TaskInv(t)'
BY CreateOwn, CheckOwn, InsertOwn, MarkOwn, WakeOwn, ClaimOwn, WorkOwn, ResultOwn,
   PruneOwn, CancelOwn DEF TaskStep, RunStep

(***************************************************************************)
(* Heartbeats, recovery, stops and crashes                                 *)
(***************************************************************************)

\* A heartbeat, or its absence, is no part of the invariant.
LEMMA HeartbeatInv ==
  ASSUME QInv, TypeOK', NEW t \in Task, Lapse(t) \/ Beat(t), NEW u \in Task
  PROVE  TaskInv(u)'
<1>1. Spared(u)
  <2>1. row'[u].att = row[u].att /\ row'[u].st = row[u].st
    <3>1. row[t] \in RowRec /\ row[u] \in RowRec /\ row \in [Task -> RowRec]
      BY DEF QInv, TypeOK
    <3>2. \E b \in BOOLEAN : row' = [row EXCEPT ![t].stale = b]
      BY DEF Lapse, Beat
    <3>3. QED
      BY <3>1, <3>2 DEF RowRec
  <2>2. QED
    BY <2>1 DEF Spared, Lapse, Beat
<1>2. Counting
  <2>1. UNCHANGED used \/ Spend("lapse")
    BY DEF Lapse, Beat
  <2>2. QED
    BY <2>1, SpendMore, Numbers DEF QInv, BudgetKinds, Counting, F
<1>3. QED
  BY <1>1, <1>2, SparedInv DEF QInv

\* A sweep makes rows wait that have an attempt left, and selects waiting rows.
LEMMA SweepInv ==
  ASSUME QInv, NEW due \in SUBSET Task, Sweep(due), NEW u \in Task
  PROVE  TaskInv(u)'
<1>1. UNCHANGED <<run, stopping, starts, used>> /\ picked = {}
  BY DEF QInv, TypeOK, Sweep
<1>2. row'[u] = Swept(row[u], u \in due)
  BY DEF Sweep
<1>3. /\ row'[u].att = row[u].att
      /\ \/ row'[u].st = row[u].st
         \/ row[u].st = "retry_wait" /\ row'[u].st = "pending"
         \/ row[u].st = "running" /\ row'[u].st = "dead_letter"
         \/ row[u].st = "running" /\ row'[u].st = "pending" /\ row[u].att < MaxAttempts
  BY <1>2, Numbers DEF QInv, Swept, RowRec
<1>4. u \in picked' => row'[u].st \in Waiting
  BY DEF Sweep, Selectable, Waiting
<1>5. QED
  BY <1>1, <1>3, <1>4, Numbers
     DEF QInv, TaskInv, OwnPc, FreshStart, AttemptLeft, Accounted, ClaimInLimit, Paid,
         Abandoned, DoneQuiet, Waiting, Early, Asleep, Ending, Kinds, F, Tracked

\* Scheduling turns the selection into runs that are still to claim their rows.
LEMMA ScheduleInv ==
  ASSUME QInv, TypeOK', Schedule, NEW u \in Task
  PROVE  TaskInv(u)'
<1>1. UNCHANGED <<row, stopping, starts, used>> /\ picked' = {}
  BY DEF Schedule, NoPass
<1>2. CASE u \in Scheduled
  <2>1. /\ u \in picked /\ run[u]["fresh"] = "none" /\ run[u]["recovered"] = "none"
        /\ run'[u]["fresh"] = "none" /\ run'[u]["recovered"] = "sleep"
    BY <1>2 DEF QInv, TypeOK, Schedule, Scheduled, Tracked, Kinds
  <2>2. QED
    BY <1>1, <2>1, Numbers
       DEF QInv, TaskInv, OwnPc, FreshStart, AttemptLeft, Accounted, ClaimInLimit, Paid,
           Abandoned, DoneQuiet, Waiting, Early, Asleep, Ending, Kinds, F, Tracked
<1>3. CASE u \notin Scheduled
  <2>1. Spared(u) /\ Counting
    BY <1>1, <1>3, Numbers DEF QInv, Schedule, Spared, Counting, F
  <2>2. QED
    BY <2>1, SparedInv DEF QInv
<1>4. QED
  BY <1>2, <1>3

\* A stop takes the selection away; it is over only when every run has ended.
LEMMA StopInv ==
  ASSUME QInv, TypeOK', Stop \/ Resume, NEW u \in Task
  PROVE  TaskInv(u)'
<1>1. Spared(u)
  BY DEF Stop, Resume, NoPass, Spared
<1>2. Counting
  BY SpendMore, Numbers DEF QInv, Stop, Resume, BudgetKinds, Counting, F
<1>3. QED
  BY <1>1, <1>2, SparedInv DEF QInv

\* A crash ends every run and the pass.
LEMMA CrashInv ==
  ASSUME QInv, Crash, NEW u \in Task
  PROVE  TaskInv(u)'
<1>1. /\ UNCHANGED <<row, starts>> /\ picked' = {}
      /\ run'[u]["fresh"] = "none" /\ run'[u]["recovered"] = "none"
  BY DEF Crash, NoPass, Kinds
<1>2. used'["fault"] = F /\ used'["stop"] = used["stop"]
  BY SpendMore DEF QInv, Crash, BudgetKinds, F
<1>3. QED
  BY <1>1, <1>2, Numbers
     DEF QInv, TaskInv, OwnPc, FreshStart, AttemptLeft, Accounted, ClaimInLimit, Paid,
         Abandoned, DoneQuiet, Waiting, Early, Asleep, Ending, Kinds, F, Tracked

\* A stop has no recovery pass, and has spent its budget.
LEMMA HaltedStep == QInv /\ [Next]_vars => Halted'
<1> SUFFICES ASSUME QInv, [Next]_vars PROVE Halted'
  OBVIOUS
<1>n. used["stop"] \in Nat /\ "stop" \in BudgetKinds /\ "fault" \in BudgetKinds
      /\ "lapse" \in BudgetKinds /\ TypeOK
  BY DEF QInv, TypeOK, BudgetKinds
<1>1. CASE \E t \in Task : Create(t) \/ TaskStep(t)
  <2>1. UNCHANGED <<pass, stopping>> /\ (UNCHANGED used \/ Spend("fault"))
    BY <1>1 DEF Create, TaskStep, Check, Insert, Mark, Wake, Claim, RunStep, Work, Finish,
                Fail, Prune, Cancel, Write
  <2>2. used'["stop"] = used["stop"]
    BY <2>1, <1>n, SpendMore
  <2>3. QED
    BY <2>1, <2>2 DEF QInv, Halted
<1>2. CASE \E t \in Task : Lapse(t) \/ Beat(t)
  <2>1. UNCHANGED <<pass, stopping>> /\ (UNCHANGED used \/ Spend("lapse"))
    BY <1>2 DEF Lapse, Beat
  <2>2. used'["stop"] = used["stop"]
    BY <2>1, <1>n, SpendMore
  <2>3. QED
    BY <2>1, <2>2 DEF QInv, Halted
<1>3. CASE Stop
  BY <1>3, <1>n, SpendMore DEF Stop, NoPass, Halted
<1>4. CASE ~stopping'
  BY <1>4 DEF Halted
<1>5. CASE UNCHANGED vars
  BY <1>5 DEF QInv, Halted, vars
<1>6. QED
  BY <1>1, <1>2, <1>3, <1>4, <1>5 DEF Next, Recovery, Sweep, Schedule, Resume, Crash, Up

(***************************************************************************)
(* The inductive invariant and what follows from it                        *)
(***************************************************************************)

\* No step of the system breaks the invariant of a task.
LEMMA TaskInvStep ==
  ASSUME QInv, TypeOK', [Next]_vars, NEW u \in Task
  PROVE  TaskInv(u)'
<1>1. ASSUME NEW t \in Task, Create(t) \/ TaskStep(t) PROVE TaskInv(u)'
  <2>1. CASE u = t
    BY <1>1, <2>1, OwnStep
  <2>2. CASE u # t
    BY <1>1, <2>2, OthersSpared, SparedInv DEF QInv
  <2>3. QED
    BY <2>1, <2>2
<1>2. ASSUME NEW t \in Task, Lapse(t) \/ Beat(t) PROVE TaskInv(u)'
  BY <1>2, HeartbeatInv
<1>3. CASE Recovery
  BY <1>3, SweepInv, ScheduleInv DEF Recovery
<1>4. CASE Stop \/ Resume
  BY <1>4, StopInv
<1>5. CASE Crash
  BY <1>5, CrashInv
<1>6. CASE UNCHANGED vars
  <2>1. Spared(u) /\ Counting
    BY <1>6, Numbers DEF QInv, vars, Spared, Counting, F
  <2>2. QED
    BY <2>1, SparedInv DEF QInv
<1>7. QED
  BY <1>1, <1>2, <1>3, <1>4, <1>5, <1>6 DEF Next

\* The initial state satisfies the invariant.
LEMMA QInvInit == Init => QInv
<1> SUFFICES ASSUME Init PROVE QInv
  OBVIOUS
<1>1. TypeOK
  BY TypeInit
<1>2. ASSUME NEW t \in Task PROVE TaskInv(t)
  <2>1. /\ row[t].st = "none" /\ row[t].att = 0 /\ starts[t] = 0 /\ picked = {}
        /\ run[t]["fresh"] = "none" /\ run[t]["recovered"] = "none"
    BY DEF Init, Kinds
  <2>2. QED
    BY <1>1, <2>1, Numbers
       DEF TaskInv, OwnPc, FreshStart, AttemptLeft, Accounted, ClaimInLimit, Paid, Abandoned,
           DoneQuiet, Waiting, Early, Asleep, Ending, Kinds, F, Tracked
<1>3. SingleRun /\ Halted
  BY DEF Init, SingleRun, Halted, Kinds
<1>4. QED
  BY <1>1, <1>2, <1>3 DEF QInv

\* Every step keeps it.
LEMMA QInvStep == QInv /\ [Next]_vars => QInv'
<1> SUFFICES ASSUME QInv, [Next]_vars PROVE QInv'
  OBVIOUS
<1>1. TypeOK'
  BY TypeStep DEF QInv
<1>2. SingleRun' /\ Halted'
  BY SingleStep, HaltedStep DEF QInv
<1>3. \A u \in Task : TaskInv(u)'
  BY <1>1, TaskInvStep
<1>4. QED
  BY <1>1, <1>2, <1>3 DEF QInv

\* The invariant always holds: an attempt is left wherever a row waits, every
\* start is counted or paid for by a lost write, and a done row is quiet.
THEOREM QueueInvariant == Spec => []QInv
<1>1. QED
  BY QInvInit, QInvStep, PTL DEF Spec

\* The work of a task starts at most MaxAttempts times, and once more for each
\* swallowed write, for every number of tasks and every budget of crashes,
\* stops and heartbeat lapses.
THEOREM BoundedExecutions == Spec => []ExecutionsBounded
<1>1. QInv => ExecutionsBounded
  BY DEF QInv, TaskInv, Accounted, ExecutionsBounded, F
<1>2. QED
  BY <1>1, QueueInvariant, PTL

\* A row of another task that is done stays, or is pruned.
LEMMA SparedDone ==
  ASSUME NEW u \in Task, Spared(u), row[u].st = "done"
  PROVE  row'[u].st \in {"done", "pruned"}
BY DEF Spared

\* Before any stop, no step reopens a done row.
LEMMA DoneStep ==
  ASSUME QInv, [Next]_vars, NEW u \in Task, row[u].st = "done", used["stop"] = 0
  PROVE  row'[u].st \in {"done", "pruned"}
<1>1. ~stopping
  BY Numbers DEF QInv, Halted
<1>r. row[u] \in RowRec /\ TypeOK /\ TaskInv(u)
  BY Numbers DEF QInv
<1>2. ASSUME NEW t \in Task, Create(t) \/ TaskStep(t) PROVE row'[u].st \in {"done", "pruned"}
  <2>1. CASE u # t
    BY <1>2, <2>1, <1>r, OthersSpared, SparedDone
  <2>2. CASE u = t
    <3>1. CASE UNCHANGED row
      BY <3>1
    <3>2. CASE Wake(u)
      BY <3>2, <1>r DEF Wake, Released, TypeOK
    <3>3. CASE \E k \in Kinds : Prune(u, k)
      BY <3>3, <1>r DEF Prune, Prunable, RowRec
    <3>4. run[u]["fresh"] \notin {"insert", "mark"} /\ ~Claimable(row[u])
      BY <1>r DEF TaskInv, FreshStart, Claimable
    <3>5. \A k \in Kinds : run[u][k] \notin {"fin", "err"}
      BY <1>r DEF TaskInv, DoneQuiet
    <3>6. QED
      BY <1>1, <1>2, <2>2, <3>1, <3>2, <3>3, <3>4, <3>5
         DEF Create, TaskStep, RunStep, Check, Insert, Mark, Claim, Work, Finish, Fail,
             Cancel, At
  <2>3. QED
    BY <2>1, <2>2
<1>3. ASSUME NEW t \in Task, Lapse(t) \/ Beat(t) PROVE row'[u].st \in {"done", "pruned"}
  BY <1>3, <1>r DEF Lapse, Beat, TypeOK, RowRec
<1>4. ASSUME NEW due \in SUBSET Task, Sweep(due) PROVE row'[u].st \in {"done", "pruned"}
  BY <1>4 DEF Sweep, Swept
<1>5. CASE UNCHANGED row
  BY <1>5
<1>6. QED
  BY <1>2, <1>3, <1>4, <1>5 DEF Next, Recovery, Schedule, Stop, Resume, Crash, vars

\* As long as no maintenance stop has happened, a task recorded as done is
\* never picked up, retried or failed again.
THEOREM DoneIsFinal == Spec => DoneStays
<1>1. QInv /\ [Next]_vars =>
        [\A t \in Task : row[t].st = "done" /\ used["stop"] = 0
           => row'[t].st \in {"done", "pruned"}]_vars
  BY DoneStep
<1>2. QED
  BY <1>1, QueueInvariant, PTL DEF Spec, DoneStays

(***************************************************************************)
(* One task per idempotency key                                            *)
(***************************************************************************)

Calm == used["fault"] = 0 /\ used["lapse"] = 0

\* A row that keeps the rivals of its task out, and the runs that may yet
\* write such a row.
Holds(t) ==
  \/ row[t].st \in Active \cup {"done"}
  \/ run[t]["fresh"] \in {"insert", "mark", "work", "fin", "err", "prune"}

\* A recovered run at its work keeps the row it has claimed.
Doing(t) ==
  /\ run[t]["recovered"] \in {"work", "fin", "err"} => row[t].st = "running" /\ ~row[t].stale
  /\ run[t]["fresh"] \notin Asleep

\* Of two rivals one has a fresh run at most, and one holds the key.
Apart(t, u) ==
  /\ ~(Holds(t) /\ Holds(u))
  /\ run[t]["fresh"] = "none" \/ run[u]["fresh"] = "none"

KeyInv == Calm => \A t \in Task : Doing(t) /\ \A u \in Rivals(t) : Apart(t, u)

\* Nothing unspent is given back.
LEMMA CalmStep ==
  ASSUME TypeOK, [Next]_vars, Calm'
  PROVE  Calm /\ ~Spend("fault") /\ ~Spend("lapse")
<1>1. UNCHANGED used \/ \E b \in BudgetKinds : Spend(b)
  BY DEF Next, Create, TaskStep, Check, Insert, Mark, Wake, Claim, RunStep, Work, Finish, Fail,
         Prune, Cancel, Write, Lapse, Beat, Recovery, Sweep, Schedule, Stop, Resume, Crash,
         BudgetKinds, vars
<1>2. used["fault"] \in Nat /\ used["lapse"] \in Nat
      /\ "fault" \in BudgetKinds /\ "lapse" \in BudgetKinds
  BY DEF TypeOK, BudgetKinds
<1>3. ASSUME NEW b \in {"fault", "lapse"}, Spend(b) PROVE FALSE
  BY <1>2, <1>3, SpendMore DEF Calm
<1>4. CASE UNCHANGED used
  BY <1>3, <1>4 DEF Calm
<1>5. CASE \E b \in BudgetKinds \ {"fault", "lapse"} : Spend(b)
  BY <1>2, <1>3, <1>5, SpendMore DEF Calm
<1> QED BY <1>1, <1>3, <1>4, <1>5

\* A task comes to hold its key by an idempotency check, and only so; it gets
\* a fresh run when it is created.
LEMMA HoldStep ==
  ASSUME QInv, KeyInv, [Next]_vars, Calm', NEW t \in Task
  PROVE  /\ Holds(t)' => Holds(t) \/ (At(t, "fresh", "check") /\ ~Blocked(t))
         /\ run'[t]["fresh"] # "none" => run[t]["fresh"] # "none" \/ Create(t)
<1>c. Calm /\ ~Spend("fault") /\ ~Spend("lapse") /\ TypeOK /\ TaskInv(t) /\ Doing(t)
  BY CalmStep DEF QInv, KeyInv
<1>r. row[t] \in RowRec /\ run[t] \in [Kinds -> Pc]
  BY <1>c DEF TypeOK
<1>k. Kinds = {"fresh", "recovered"}
      /\ Pc = {"none", "check", "insert", "mark", "sleep", "claim", "work", "fin", "err",
               "prune", "tail"}
  BY DEF Kinds, Pc
<1>1. ASSUME NEW u \in Task \ {t}, Create(u) \/ TaskStep(u)
      PROVE  Holds(t)' => Holds(t) /\ run'[t] = run[t]
  <2>1. Spared(t)
    BY <1>1, <1>c, OthersSpared
  <2> QED BY <2>1 DEF Spared, Holds, Active, Terminal
<1>2. ASSUME NEW u \in Task \ {t}, Create(u) \/ TaskStep(u) PROVE run'[t] = run[t]
  BY <1>2, <1>c, OthersSpared DEF Spared
<1>3. CASE Create(t)
  <2>1. row' = row /\ run'[t]["fresh"] = "check"
    BY <1>3, <1>c, <1>k, Moved DEF Create
  <2> QED BY <1>3, <2>1 DEF Holds
<1>4. ASSUME TaskStep(t), run[t]["fresh"] = "none" PROVE run'[t]["fresh"] = "none"
  <2>1. CASE \E k \in Kinds : RunStep(t, k)
    <3>1. PICK p \in Pc : Goto(t, "recovered", p)
      BY <1>4, <2>1, <1>k DEF RunStep, Work, Finish, Fail, Prune, Cancel, AfterCancel, At
    <3> QED BY <3>1, <1>4, <1>c, <1>k, Moved
  <2>2. CASE Wake(t) \/ Claim(t)
    <3>1. PICK p \in Pc : Goto(t, "recovered", p)
      BY <2>2, <1>k DEF Wake, Claim
    <3> QED BY <3>1, <1>4, <1>c, <1>k, Moved
  <2> QED BY <1>4, <2>1, <2>2 DEF TaskStep, Check, Insert, Mark, At
<1>5. ASSUME TaskStep(t), ~Holds(t), Holds(t)'
      PROVE  At(t, "fresh", "check") /\ ~Blocked(t)
  <2>1. /\ row[t].st \in {"none", "pruned", "failed", "dead_letter"}
        /\ run[t]["fresh"] \in {"none", "check", "tail"}
        /\ run[t]["recovered"] \notin {"work", "fin", "err"}
    BY <1>5, <1>c, <1>r, <1>k
       DEF Holds, Doing, Asleep, RowRec, Status, Active, Terminal
  <2>2. CASE Check(t)
    <3>1. CASE ~Blocked(t)
      BY <2>2, <3>1 DEF Check
    <3>2. CASE Blocked(t)
      <4>1. run'[t]["fresh"] = "none" /\ row' = row
        BY <2>2, <3>2, <1>c, <1>k, Moved DEF Check
      <4> QED BY <4>1, <1>5 DEF Holds
    <3> QED BY <3>1, <3>2
  <2>3. CASE Wake(t) \/ Claim(t)
    <3>1. PICK p \in Pc : Goto(t, "recovered", p)
      BY <2>3, <1>k DEF Wake, Claim
    <3>2. run'[t]["fresh"] = run[t]["fresh"]
      BY <3>1, <1>c, <1>k, Moved
    <3>3. row'[t] = row[t]
      BY <2>1, <2>3, <1>c DEF Wake, Claim, Released, Claimable, TypeOK
    <3> QED BY <3>2, <3>3, <1>5 DEF Holds
  <2>4. ASSUME NEW k \in Kinds, Prune(t, k) PROVE FALSE
    <3>1. run'[t]["fresh"] \in {run[t]["fresh"], "none"}
      BY <2>4, <1>c, <1>k, Moved DEF Prune
    <3>2. row'[t].st \in {row[t].st, "pruned"}
      BY <2>4, <1>r DEF Prune, RowRec
    <3> QED BY <2>1, <3>1, <3>2, <1>5 DEF Holds, Active
  <2>5. ASSUME NEW k \in Kinds, Cancel(t, k) PROVE FALSE
    <3>1. run'[t]["fresh"] \in {run[t]["fresh"], "none", "tail"}
      <4>1. PICK p \in {"none", "tail"} : Goto(t, k, p)
        BY <2>5 DEF Cancel, AfterCancel
      <4> QED BY <4>1, <1>c, <1>k, Moved
    <3>2. Pending(t, run[t][k]) = row[t]
      BY <2>1, <2>5, <1>c, <1>k
         DEF Cancel, Pending, Released, Claimed, Claimable, TaskInv, OwnPc, Early
    <3>3. Handled(k, run[t][k]) => row[t].st = "none"
      BY <2>1, <2>5, <1>c, <1>k DEF Cancel, Handled, TaskInv, FreshStart
    <3>4. row[t].st = "none" => Failed(t, row[t]) = row[t]
      BY DEF Failed, RetryOrDeadLetter, Update, InTable
    <3>5. row'[t] = row[t]
      BY <2>5, <3>2, <3>3, <3>4, <1>c DEF Cancel, TypeOK
    <3> QED BY <2>1, <3>1, <3>5, <1>5 DEF Holds
  <2> QED BY <1>5, <2>1, <2>2, <2>3, <2>4, <2>5, <1>k
             DEF TaskStep, RunStep, Insert, Mark, Work, Finish, Fail, At
<1>6. CASE \E u \in Task : Lapse(u) \/ Beat(u)
  <2>1. PICK u \in Task, b \in BOOLEAN : row' = [row EXCEPT ![u].stale = b] /\ run' = run
    BY <1>6 DEF Lapse, Beat
  <2>2. row \in [Task -> RowRec]
    BY <1>c DEF TypeOK
  <2>3. row'[t].st = row[t].st
    BY <2>1, <2>2, <1>r DEF RowRec
  <2> QED BY <2>1, <2>3 DEF Holds
<1>7. CASE Recovery
  <2>1. row'[t].st = row[t].st \/ row[t].st \in Active
    BY <1>7 DEF Recovery, Sweep, Schedule, Swept, Active
  <2>2. run'[t]["fresh"] = run[t]["fresh"]
    BY <1>7, <1>r, <1>k DEF Recovery, Sweep, Schedule
  <2> QED BY <2>1, <2>2 DEF Holds
<1>8. CASE Stop \/ Resume \/ Crash \/ UNCHANGED vars
  <2>1. row' = row /\ (run'[t]["fresh"] = run[t]["fresh"] \/ run'[t]["fresh"] = "none")
    BY <1>8, <1>k DEF Stop, Resume, Crash, vars
  <2> QED BY <2>1 DEF Holds
<1> QED BY <1>1, <1>2, <1>3, <1>4, <1>5, <1>6, <1>7, <1>8 DEF Next

\* A recovered run at its work keeps its row until it has ended.
LEMMA DoingStep ==
  ASSUME QInv, KeyInv, [Next]_vars, Calm', NEW t \in Task
  PROVE  Doing(t)'
<1>c. Calm /\ ~Spend("fault") /\ ~Spend("lapse") /\ TypeOK /\ TaskInv(t) /\ Doing(t)
      /\ (run[t]["fresh"] = "none" \/ run[t]["recovered"] = "none")
  BY CalmStep DEF QInv, KeyInv, SingleRun
<1>r. row[t] \in RowRec /\ run[t] \in [Kinds -> Pc]
  BY <1>c DEF TypeOK
<1>k. Kinds = {"fresh", "recovered"}
      /\ Pc = {"none", "check", "insert", "mark", "sleep", "claim", "work", "fin", "err",
               "prune", "tail"}
  BY DEF Kinds, Pc
<1>1. ASSUME NEW u \in Task \ {t}, Create(u) \/ TaskStep(u) PROVE Doing(t)'
  <2>1. run'[t] = run[t]
    BY <1>1, <1>c, OthersSpared DEF Spared
  <2>2. row[t].st = "running" => row'[t] = row[t]
    <3>1. CASE \E k \in Kinds : Prune(u, k)
      BY <3>1 DEF Prune, Prunable, Terminal
    <3>2. CASE ~ \E k \in Kinds : Prune(u, k)
      BY <1>1, <3>2, <1>c DEF TypeOK, Create, TaskStep, Check, Insert, Mark, Wake, Claim, RunStep,
                              Work, Finish, Fail, Cancel, Write
    <3> QED BY <3>1, <3>2
  <2> QED BY <2>1, <2>2, <1>c DEF Doing
<1>2. CASE Create(t)
  <2>1. run'[t]["fresh"] = "check" /\ run'[t]["recovered"] = "none"
    BY <1>2, <1>c, <1>k, Moved DEF Create, Tracked
  <2> QED BY <2>1 DEF Doing, Asleep
<1>3. CASE Check(t) \/ Insert(t) \/ Mark(t)
  <2>1. PICK p \in Pc \ Asleep : Goto(t, "fresh", p)
    BY <1>3, <1>k DEF Check, Insert, Mark, Asleep
  <2>2. run'[t]["fresh"] = p /\ run'[t]["recovered"] = run[t]["recovered"]
    BY <2>1, <1>c, <1>k, Moved
  <2>3. run[t]["fresh"] # "none"
    BY <1>3 DEF Check, Insert, Mark, At
  <2> QED BY <2>1, <2>2, <2>3, <1>c DEF Doing
<1>4. CASE Wake(t)
  <2>1. PICK p \in {"claim", "none"} : Goto(t, "recovered", p)
    BY <1>4 DEF Wake
  <2> QED BY <2>1, <1>c, <1>k, Moved DEF Doing
<1>5. CASE Claim(t)
  <2>1. PICK p \in {"work", "none"} : Goto(t, "recovered", p) /\ (p = "work" => Claimable(row[t]))
                                      /\ (p = "work" => row' = [row EXCEPT ![t] = Claimed(@)])
    BY <1>5, <1>c DEF Claim
  <2>2. Claimable(row[t]) => Claimed(row[t]).st = "running" /\ ~Claimed(row[t]).stale
    BY <1>r DEF Claimed, Started, RowRec
  <2>3. run'[t]["recovered"] = p /\ run'[t]["fresh"] = run[t]["fresh"]
    BY <2>1, <1>c, <1>k, Moved
  <2> QED BY <2>1, <2>2, <2>3, <1>c DEF Doing, TypeOK
<1>6. ASSUME NEW k \in Kinds, RunStep(t, k) PROVE Doing(t)'
  <2>1. CASE Work(t, k)
    <3>1. PICK p \in {"fin", "err"} : Goto(t, k, p)
      BY <2>1 DEF Work
    <3>2. row' = row /\ run[t][k] = "work"
      BY <2>1 DEF Work, At
    <3> QED BY <3>1, <3>2, <1>c, <1>k, Moved DEF Doing, Asleep
  <2>2. CASE ~Work(t, k)
    <3>1. PICK p \in {"none", "tail", "prune"} : Goto(t, k, p) /\ run[t][k] # "none"
      BY <1>6, <2>2 DEF RunStep, Finish, Fail, Prune, Cancel, AfterCancel, At
    <3> QED BY <3>1, <1>c, <1>k, Moved DEF Doing, Asleep
  <2> QED BY <2>1, <2>2
<1>7. CASE \E u \in Task : Lapse(u) \/ Beat(u)
  <2>1. run' = run
    BY <1>7 DEF Lapse, Beat
  <2>2. row'[t].st = row[t].st
    <3>1. PICK u \in Task, b \in BOOLEAN : row' = [row EXCEPT ![u].stale = b]
      BY <1>7 DEF Lapse, Beat
    <3>2. row \in [Task -> RowRec]
      BY <1>c DEF TypeOK
    <3> QED BY <3>1, <3>2, <1>r DEF RowRec
  <2>3. run[t]["recovered"] \in {"work", "fin", "err"} => ~row'[t].stale
    BY <1>7, <1>c, <1>r, <1>k DEF Doing, Lapse, Beat, Beating, TypeOK, RowRec
  <2> QED BY <2>1, <2>2, <2>3, <1>c DEF Doing
<1>8. CASE \E due \in SUBSET Task : Sweep(due)
  <2>1. run' = run
    BY <1>8 DEF Sweep
  <2>2. row[t].st = "running" /\ ~row[t].stale => row'[t] = row[t]
    BY <1>8 DEF Sweep, Swept
  <2> QED BY <2>1, <2>2, <1>c DEF Doing
<1>9. CASE Schedule
  <2>1. row' = row
    BY <1>9 DEF Schedule
  <2>2. run'[t] = run[t] \/ run'[t] = [run[t] EXCEPT !["recovered"] = "sleep"]
    BY <1>9 DEF Schedule
  <2> QED BY <2>1, <2>2, <1>c, <1>r, <1>k DEF Doing
<1>10. CASE Crash
  BY <1>10, <1>k DEF Crash, Doing, Asleep
<1>11. CASE Stop \/ Resume \/ UNCHANGED vars
  BY <1>11, <1>c DEF Stop, Resume, vars, Doing
<1> QED BY <1>1, <1>2, <1>3, <1>4, <1>5, <1>6, <1>7, <1>8, <1>9, <1>10, <1>11
           DEF Next, TaskStep, Recovery

\* Rivals stay apart: one passes the check only when the other holds nothing.
LEMMA KeyStep == QInv /\ KeyInv /\ [Next]_vars => KeyInv'
<1> SUFFICES ASSUME QInv, KeyInv, [Next]_vars, Calm', NEW t \in Task
             PROVE  Doing(t)' /\ \A u \in Rivals(t) : Apart(t, u)'
  BY DEF KeyInv, Rivals
<1>1. ASSUME NEW u \in Rivals(t) PROVE Apart(t, u)'
  <2>1. Calm /\ u \in Task /\ t \in Rivals(u) /\ Apart(t, u)
    BY CalmStep DEF QInv, KeyInv, Rivals
  <2>2. ASSUME NEW x \in Task, NEW y \in Rivals(x), Apart(x, y), y \in Task,
               At(x, "fresh", "check"), ~Blocked(x)
        PROVE  ~Holds(y) /\ run[y]["fresh"] = "none"
    BY <2>2 DEF Apart, Blocked, Holds, At
  <2>3. Apart(u, t)
    BY <2>1 DEF Apart
  <2>4. ~(Holds(t)' /\ Holds(u)')
    BY <2>1, <2>2, <2>3, HoldStep DEF At, Apart
  <2>5. run'[t]["fresh"] = "none" \/ run'[u]["fresh"] = "none"
    <3>1. ASSUME NEW x \in Task, NEW y \in Rivals(x), y \in Task, Create(x)
          PROVE  run'[y]["fresh"] = "none"
      <4>1. run[y]["fresh"] = "none"
        BY <3>1 DEF Create, InFlight
      <4>2. run'[y] = run[y]
        BY <3>1, OthersSpared DEF QInv, Spared, Rivals
      <4> QED BY <4>1, <4>2
    <3> QED BY <2>1, <3>1, HoldStep DEF Apart
  <2> QED BY <2>4, <2>5 DEF Apart
<1> QED BY <1>1, DoingStep

\* Two tasks of one idempotency key never do their work at the same time, for
\* any number of tasks and keys, as long as no write or check was swallowed and
\* no live run lost its heartbeat.
THEOREM OnePerKey == Spec => []KeyExclusive
<1>1. Init => KeyInv
  BY DEF Init, KeyInv, Doing, Apart, Holds, Rivals, Active, Asleep, Kinds
<1>2. KeyInv => KeyExclusive
  <2> SUFFICES ASSUME KeyInv, Calm, NEW t \in Task, NEW u \in Rivals(t),
                      Working(t), Working(u)
               PROVE  FALSE
    BY DEF KeyExclusive, Calm
  <2>1. \A x \in {t, u} : x \in Task /\ Doing(x)
    BY DEF KeyInv, Rivals
  <2>2. Holds(t) /\ Holds(u)
    BY <2>1 DEF Working, Kinds, Doing, Holds, Active
  <2> QED BY <2>2 DEF KeyInv, Apart
<1>3. QED
  BY <1>1, <1>2, KeyStep, QueueInvariant, PTL DEF Spec

=============================================================================
