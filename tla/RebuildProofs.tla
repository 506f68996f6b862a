----------------------------- MODULE RebuildProofs -----------------------------
(***************************************************************************)
(* For any documents, any number of rebuilds and any budget of writes,     *)
(* faults, cancellations, crashes and clear-alls (Rebuild): the vectors    *)
(* and the BM25 tables in use come from the same rebuild, what a rebuild   *)
(* leaves ready is in both, and a progress stream ends with its own run.   *)
(*                                                                         *)
(* The lock leaves one rebuild running, so the tables it switches are its  *)
(* own; between the two switches the pointer is already its own and what   *)
(* it will be set back to is the rebuild the tables still come from        *)
(* (SwitchInv).  InHand follows the documents of a rebuild from the copy   *)
(* to the report: until the switch no ingestion has its collection         *)
(* (Fresh), from there on one that has is recorded.  StreamInv follows its *)
(* events.                                                                 *)
(***************************************************************************)
EXTENDS Rebuild, TLAPS

Tables == [gen : Int, docs : SUBSET Docs]

\* The types that SwitchedTogether is about.
Types ==
  /\ TypeOK
  /\ former \in [RebuildIds -> 0..Cleared]
  /\ staged \in Tables /\ live \in Tables

IsRunning(r) == pc[r] \notin {"idle", "over"}

\* The lock admits one rebuild.
OneRebuild ==
  \A r \in RebuildIds : IsRunning(r) =>
    locked /\ (\A q \in RebuildIds : IsRunning(q) => q = r)

\* The second tables are those of the rebuild that runs.
StagedOwn ==
  \A r \in RebuildIds : pc[r] \in {"embed", "pointer", "tables"} => staged.gen = r

\* Between the two switches the first can be undone.
Undoable ==
  \A r \in RebuildIds : pc[r] = "tables" /\ ~torn =>
    clearing = "no" /\ run = r /\ live.gen = former[r]

\* A clear-all that no rebuild meets has its own collection in use.
ClearedInUse == clearing # "no" /\ ~torn => run = Cleared

SwitchInv ==
  /\ OneRebuild /\ StagedOwn /\ Undoable /\ ClearedInUse
  /\ ptr = run /\ SwitchedTogether

-----------------------------------------------------------------------------
(* Types                                                                     *)

\* Where a rebuild may be, and the numbers of the collections.
LEMMA Ranges ==
  /\ Pcs = {"idle", "over", "failing", "queued", "copy", "embed", "pointer", "tables",
            "drop", "rows", "publish", "unlock"}
  /\ RebuildIds \subseteq 1..Rebuilds /\ RebuildIds \subseteq Int
  /\ RebuildIds \subseteq 0..Cleared /\ Cleared \in 0..Cleared /\ 0 \in 0..Cleared
  /\ NoTables \in Tables
BY RebuildAssumption
   DEF Pcs, Embedding, Switching, Ending, RebuildIds, Cleared, NoTables, Tables

\* Initially every variable has its type.
LEMMA InitTypes == Init => Types
<1> SUFFICES ASSUME Init PROVE Types
  OBVIOUS
<1>1. /\ row \in [Docs -> Statuses] /\ jobs \subseteq Jobs /\ overtaken \subseteq Docs
      /\ text \subseteq Docs /\ sealed \subseteq Docs
      /\ ptr \in 0..Cleared /\ run \in 0..Cleared /\ locked \in BOOLEAN
      /\ pc \in [RebuildIds -> Pcs] /\ former \in [RebuildIds -> 0..Cleared]
      /\ torn \in BOOLEAN /\ clearing \in {"no", "drop", "rows"}
      /\ result \in Events \cup {NoEvent} /\ latest \in Events \cup {NoEvent}
  BY Ranges, RebuildAssumption DEF Init, Statuses
<1>2. /\ snap \in [RebuildIds -> [Docs -> Statuses]] /\ had \in [RebuildIds -> SUBSET Docs]
      /\ points \in [RebuildIds -> SUBSET Docs] /\ todo \in [RebuildIds -> SUBSET Docs]
      /\ used \in [request : 0..Requests, upset : 0..Upsets]
  BY RebuildAssumption DEF Init, NoCopy, Statuses, BudgetKinds, Budget
<1>3. DOMAIN colls \subseteq 0..Cleared /\ \A c \in DOMAIN colls : colls[c] \subseteq Docs
  BY Ranges, RebuildAssumption DEF Init
<1>4. staged \in Tables /\ live \in Tables
  BY Ranges, RebuildAssumption DEF Init, Tables
<1> QED BY <1>1, <1>2, <1>3, <1>4 DEF Types, TypeOK

\* What is paid stays within the bounds.
LEMMA PayTypes ==
  ASSUME Types, NEW q \in 0..1, NEW n \in 0..2, Pay(q, n)
  PROVE  used' \in [request : 0..Requests, upset : 0..Upsets]
<1>1. used'["request"] <= Requests /\ used'["upset"] <= Upsets
  BY DEF Pay, BudgetKinds, Budget
<1> QED BY <1>1, RebuildAssumption DEF Pay, Types, TypeOK

\* So does what is spent.
LEMMA SpendTypes ==
  ASSUME Types, NEW b \in {"request", "upset"}, Spend(b)
  PROVE  used' \in [request : 0..Requests, upset : 0..Upsets]
BY RebuildAssumption DEF Spend, Budget, Types, TypeOK

\* A collection that is written or cleaned, or created for it, stays a collection.
LEMMA CollTypes ==
  ASSUME Types, NEW c \in 0..Cleared, NEW S \in SUBSET Docs, NEW d \in Docs,
         colls' \in {Holding(c, S), Taken(c, d), colls}
  PROVE  DOMAIN colls' \subseteq 0..Cleared /\ \A k \in DOMAIN colls' : colls'[k] \subseteq Docs
<1>0. DOMAIN colls \subseteq 0..Cleared /\ \A k \in DOMAIN colls : colls[k] \subseteq Docs
  BY DEF Types, TypeOK
<1>1. CASE colls' = Holding(c, S)
  <2>1. DOMAIN colls' = DOMAIN colls \cup {c}
    BY <1>1 DEF Holding
  <2>2. \A k \in DOMAIN colls' : colls'[k] = IF k = c THEN S ELSE colls[k]
    BY <1>1 DEF Holding
  <2> QED BY <1>0, <2>1, <2>2
<1>2. CASE colls' = Taken(c, d)
  <2>1. DOMAIN colls' = DOMAIN colls
    BY <1>2 DEF Taken
  <2>2. \A k \in DOMAIN colls' : colls'[k] \subseteq colls[k]
    BY <1>2 DEF Taken
  <2> QED BY <1>0, <2>1, <2>2
<1>3. CASE colls' = colls
  BY <1>0, <1>3
<1> QED BY <1>1, <1>2, <1>3

\* So do the tables.
LEMMA LiveTypes ==
  ASSUME Types, NEW d \in Docs,
         live' \in {live, TakenTerms(d), [live EXCEPT !.docs = @ \cup {d}]}
  PROVE  live' \in Tables /\ live'.gen = live.gen
BY DEF Types, Tables, TakenTerms

\* A request keeps the types.
LEMMA RequestTypes ==
  ASSUME Types, NEW d \in Docs, Upload(d) \/ Reprocess(d) \/ Delete(d)
  PROVE  Types'
<1>1. row' \in [Docs -> Statuses]
  BY DEF Upload, Reprocess, Delete, Becomes, Statuses, Types, TypeOK
<1>2. used' \in [request : 0..Requests, upset : 0..Upsets]
  <2>1. CASE Upload(d) \/ Reprocess(d)
    BY <2>1, SpendTypes DEF Upload, Reprocess
  <2>2. CASE Delete(d)
    <3>1. Pay(1, 0) \/ Pay(1, 0 + 1)
      BY <2>2 DEF Delete, Cleaned
    <3> QED BY <3>1, PayTypes
  <2> QED BY <2>1, <2>2
<1>3. jobs' \subseteq Jobs
  <2>1. 0 \in 0..Cleared /\ used'["request"] \in 0..Requests
    BY <1>2, Ranges
  <2>2. CASE Upload(d)
    <3>1. Ingestion(used'["request"], d, "guard", TRUE) \in Jobs
      BY <2>1 DEF Ingestion, Jobs, Steps
    <3> QED BY <2>2, <3>1 DEF Upload, Types, TypeOK
  <2>3. CASE Reprocess(d)
    <3>1. Ingestion(used'["request"], d, "parse", FALSE) \in Jobs
      BY <2>1 DEF Ingestion, Jobs, Steps
    <3> QED BY <2>3, <3>1 DEF Reprocess, Types, TypeOK
  <2>4. CASE Delete(d)
    BY <2>4 DEF Delete, Types, TypeOK
  <2> QED BY <2>2, <2>3, <2>4
<1>4. colls' \in {Taken(run, d), colls} /\ live' \in {TakenTerms(d), live}
  BY DEF Upload, Reprocess, Delete, Cleaned
<1>5. /\ DOMAIN colls' \subseteq 0..Cleared /\ \A k \in DOMAIN colls' : colls'[k] \subseteq Docs
      /\ live' \in Tables
  BY <1>4, CollTypes, LiveTypes DEF Types, TypeOK
<1>6. UNCHANGED <<text, sealed, overtaken, quietVars>>
  BY DEF Upload, Reprocess, Delete
<1> QED BY <1>1, <1>2, <1>3, <1>5, <1>6 DEF Types, TypeOK, quietVars, workVars, eventVars

\* A step of an ingestion keeps the types.
LEMMA IngestTypes ==
  ASSUME Types, NEW j \in jobs, Ingest(j)
  PROVE  Types'
<1>j. j \in Jobs /\ j.doc \in Docs /\ j.to \in 0..Cleared
  BY DEF Types, TypeOK, Jobs
<1>1. row' \in [Docs -> Statuses]
  BY <1>j DEF Ingest, Skip, Parse, CleanUp, Write, Seal, GiveUp, Becomes, Statuses, Types, TypeOK
<1>2. jobs' \subseteq Jobs
  <2>1. \A s \in Steps : [j EXCEPT !.at = s] \in Jobs
    BY <1>j DEF Jobs
  <2>2. [j EXCEPT !.at = "write", !.to = run] \in Jobs
    BY <1>j DEF Jobs, Steps, Types, TypeOK
  <2> QED BY <2>1, <2>2
          DEF Ingest, Skip, Parse, CleanUp, Write, Seal, GiveUp, Goes, Ends, Steps, Types, TypeOK
<1>3. used' \in [request : 0..Requests, upset : 0..Upsets]
  <2>1. CASE GiveUp(j)
    <3>1. PICK q \in {0}, n \in 0..2 : Pay(q, n)
      <4>1. \E n \in 0..1 : Pay(0, n) \/ Pay(0, n + 1)
        BY <2>1 DEF GiveUp, Cleaned
      <4> QED BY <4>1
    <3> QED BY <3>1, PayTypes
  <2>2. CASE UNCHANGED used
    BY <2>2 DEF Types, TypeOK
  <2> QED BY <2>1, <2>2 DEF Ingest, Skip, Parse, CleanUp, Write, Seal
<1>4. PICK c \in 0..Cleared, S \in SUBSET Docs :
        /\ colls' \in {Holding(c, S), Taken(c, j.doc), colls}
        /\ live' \in {live, TakenTerms(j.doc), [live EXCEPT !.docs = @ \cup {j.doc}]}
  <2>1. Held(run) \ {j.doc} \in SUBSET Docs /\ run \in 0..Cleared
    BY DEF Held, Types, TypeOK
  <2>2. j.to \in DOMAIN colls => colls[j.to] \cup {j.doc} \in SUBSET Docs
    BY <1>j DEF Types, TypeOK
  <2>3. CASE CleanUp(j)
    BY <2>1, <2>3 DEF CleanUp
  <2>4. CASE Write(j)
    BY <1>j, <2>2, <2>4 DEF Write
  <2>5. CASE GiveUp(j)
    BY <1>j, <2>5 DEF GiveUp, Cleaned
  <2>6. CASE Skip(j) \/ Parse(j) \/ Seal(j)
    BY <2>1, <2>6 DEF Skip, Parse, Seal
  <2> QED BY <2>3, <2>4, <2>5, <2>6 DEF Ingest
<1>5. /\ DOMAIN colls' \subseteq 0..Cleared /\ \A k \in DOMAIN colls' : colls'[k] \subseteq Docs
      /\ live' \in Tables
  BY <1>j, <1>4, CollTypes, LiveTypes
<1>6. /\ text' \subseteq Docs /\ sealed' \subseteq Docs /\ overtaken' \subseteq Docs
      /\ UNCHANGED quietVars
  BY <1>j DEF Ingest, Skip, Parse, CleanUp, Write, Seal, GiveUp, Overtakes, Types, TypeOK
<1> QED BY <1>1, <1>2, <1>3, <1>5, <1>6 DEF Types, TypeOK, quietVars, workVars, eventVars

\* An event about a rebuild is an event.
LEMMA EventTypes ==
  ASSUME NEW r \in RebuildIds, NEW s \in Kinds
  PROVE  [of |-> r, status |-> s] \in Events
BY DEF Events

\* The steps of a rebuild keep the types.
LEMMA RebuildTypes ==
  ASSUME Types, NEW r \in RebuildIds,
         Post(r) \/ Proceed(r) \/ Compensate(r) \/ Raises(r) \/ Cancel(r)
  PROVE  Types'
<1>k. Kinds = {"progress", "completed", "failed"}
  BY DEF Kinds
<1>1. pc' \in [RebuildIds -> Pcs]
  <2>1. CASE \E d \in Docs : Embed(r, d)
    BY <2>1 DEF Embed, Types, TypeOK
  <2>2. CASE \E p \in Pcs : pc' = [pc EXCEPT ![r] = p]
    BY <2>2 DEF Types, TypeOK
  <2> QED BY <2>1, <2>2, Ranges
          DEF Post, Proceed, Compensate, Raises, Cancel, Step, Prepare, Copy, Create, SwitchPointer,
              SwitchTables, DropOld, UpdateRows, Complete, Refuse, Fail, Unlock
<1>2. result' \in Events \cup {NoEvent} /\ latest' \in Events \cup {NoEvent}
  BY EventTypes, <1>k
     DEF Types, TypeOK, Post, Proceed, Compensate, Raises, Cancel, Announced, Publish, Report,
     Prepare, Copy, Embed, Create, SwitchPointer, SwitchTables, DropOld, UpdateRows, Complete,
     Refuse, Fail, Unlock, eventVars
<1>3. /\ row' \in [Docs -> Statuses] /\ jobs' \subseteq Jobs
      /\ text' \subseteq Docs /\ sealed' \subseteq Docs
      /\ torn' \in BOOLEAN /\ clearing' \in {"no", "drop", "rows"} /\ locked' \in BOOLEAN
  BY DEF Types, TypeOK, Post, Proceed, Compensate, Raises, Cancel, StatusOf, Statuses, Prepare, Copy, Embed,
     Create, SwitchPointer, SwitchTables, DropOld, UpdateRows, Complete, Refuse, Fail, Unlock,
     LockAfterCancel, docVars, noteVars
<1>o. overtaken' \subseteq Docs
  <2>1. CASE SwitchPointer(r)
    BY <2>1 DEF SwitchPointer, Types, TypeOK, Jobs
  <2>2. CASE overtaken' = {} \/ UNCHANGED overtaken
    BY <2>2 DEF Types, TypeOK
  <2> QED BY <2>1, <2>2
          DEF Post, Proceed, Compensate, Raises, Cancel, Prepare, Copy, Embed, Create, SwitchTables,
              DropOld, UpdateRows, Complete, Refuse, Fail, Unlock, Forgets, noteVars
<1>u. used' \in [request : 0..Requests, upset : 0..Upsets]
  <2>1. CASE Spend("upset")
    BY <2>1, SpendTypes
  <2>2. CASE UNCHANGED used
    BY <2>2 DEF Types, TypeOK
  <2> QED BY <2>1, <2>2
          DEF Post, Proceed, Compensate, Raises, Cancel, Prepare, Copy, Embed, Create, SwitchPointer,
              SwitchTables, DropOld, UpdateRows, Complete, Refuse, Fail, Unlock
<1>4. /\ snap' \in [RebuildIds -> [Docs -> Statuses]] /\ had' \in [RebuildIds -> SUBSET Docs]
      /\ points' \in [RebuildIds -> SUBSET Docs] /\ todo' \in [RebuildIds -> SUBSET Docs]
  <2>1. CASE Copy(r)
    BY <2>1 DEF Types, TypeOK, Copy, Rows
  <2>2. CASE \E d \in Docs : Embed(r, d)
    <3>1. PICK d \in Docs : todo' = [todo EXCEPT ![r] = @ \ {d}]
                          /\ points' \in {points, [points EXCEPT ![r] = @ \cup {d}]}
      BY <2>2 DEF Embed
    <3>2. UNCHANGED <<snap, had>>
      BY <2>2 DEF Embed
    <3>3. todo' \in [RebuildIds -> SUBSET Docs] /\ points' \in [RebuildIds -> SUBSET Docs]
      BY <3>1 DEF Types, TypeOK
    <3> QED BY <3>2, <3>3 DEF Types, TypeOK
  <2>3. CASE Unlock(r) \/ Cancel(r)
    <3>1. NoCopy \in [Docs -> Statuses]
      BY DEF NoCopy, Statuses
    <3>2. Forgets(r)
      BY <2>3 DEF Unlock, Cancel
    <3>3. snap' \in [RebuildIds -> [Docs -> Statuses]]
      BY <3>1, <3>2 DEF Forgets, Types, TypeOK
    <3> QED BY <3>2, <3>3 DEF Forgets, Types, TypeOK
  <2>4. CASE UNCHANGED <<snap, had, todo, points>>
    BY <2>4 DEF Types, TypeOK
  <2> QED BY <2>1, <2>2, <2>3, <2>4
          DEF Post, Proceed, Compensate, Raises, Prepare, Create, SwitchPointer,
              SwitchTables, DropOld, UpdateRows, Complete, Refuse, Fail, workVars
<1>5. /\ former' \in [RebuildIds -> 0..Cleared]
      /\ ptr' \in 0..Cleared /\ run' \in 0..Cleared
  <2>1. r \in 0..Cleared /\ former[r] \in 0..Cleared /\ run \in 0..Cleared /\ ptr \in 0..Cleared
    BY Ranges DEF Types, TypeOK
  <2>2. former' \in [RebuildIds -> 0..Cleared]
    <3>1. CASE former' = [former EXCEPT ![r] = run] \/ former' = [former EXCEPT ![r] = 0]
      BY <2>1, <3>1, Ranges DEF Types
    <3>2. CASE UNCHANGED former
      BY <3>2 DEF Types
    <3> QED BY <3>1, <3>2
            DEF Post, Proceed, Compensate, Raises, Cancel, Prepare, Copy, Embed, Create,
                SwitchPointer, SwitchTables, DropOld, UpdateRows, Complete, Refuse, Fail, Unlock,
                Forgets, workVars
  <2>3. ptr' \in {ptr, r, former[r]} /\ run' \in {run, r, former[r]}
    BY DEF Post, Proceed, Compensate, Raises, Cancel, Restored, Prepare, Copy, Embed, Create,
       SwitchPointer, SwitchTables, DropOld, UpdateRows, Complete, Refuse, Fail, Unlock, indexVars
  <2> QED BY <2>1, <2>2, <2>3
<1>6. staged' \in Tables /\ live' \in Tables
  <2>1. CASE \E d \in Docs : Embed(r, d)
    BY <2>1 DEF Types, Tables, Embed, indexVars
  <2>2. CASE Copy(r)
    BY <2>2, Ranges DEF Types, Tables, Copy, indexVars
  <2>3. staged' \in {staged, NoTables} \/ Copy(r) \/ \E d \in Docs : Embed(r, d)
    BY DEF Post, Proceed, Compensate, Raises, Cancel, Prepare, Create, SwitchPointer,
       SwitchTables, DropOld, UpdateRows, Complete, Refuse, Fail, Unlock
  <2>4. live' \in {live, staged}
    BY DEF Post, Proceed, Compensate, Raises, Cancel, Prepare, Copy, Embed, Create, SwitchPointer,
       SwitchTables, DropOld, UpdateRows, Complete, Refuse, Fail, Unlock, indexVars
  <2> QED BY <2>1, <2>2, <2>3, <2>4, Ranges DEF Types
<1>7. DOMAIN colls' \subseteq 0..Cleared /\ \A c \in DOMAIN colls' : colls'[c] \subseteq Docs
  <2>1. CASE UNCHANGED colls
    BY <2>1 DEF Types, TypeOK
  <2>2. CASE \E gone \in {{r}, DOMAIN colls \ {r}} : colls' = Without(gone)
    BY <2>2 DEF Types, TypeOK, Without
  <2>3. CASE Create(r)
    BY <2>3, Ranges DEF Types, TypeOK, Create, Holding
  <2> QED BY <2>1, <2>2, <2>3
          DEF Post, Proceed, Compensate, Raises, Cancel, Prepare, Copy, Embed, SwitchPointer,
              SwitchTables, DropOld, UpdateRows, Complete, Refuse, Fail, Unlock, indexVars
<1> QED BY <1>1, <1>2, <1>3, <1>o, <1>u, <1>4, <1>5, <1>6, <1>7 DEF Types, TypeOK

\* A clear-all keeps the types.
LEMMA ClearTypes ==
  ASSUME Types, ClearVectors \/ ClearDrop \/ ClearRows
  PROVE  Types'
<1>1. CASE ClearVectors
  BY <1>1, Ranges, SpendTypes
     DEF Types, TypeOK, ClearVectors, Holding, docVars, workVars, eventVars
<1>2. CASE ClearDrop
  BY <1>2 DEF Types, TypeOK, ClearDrop, Without, docVars, workVars, eventVars
<1>3. CASE ClearRows
  BY <1>3, Ranges, RebuildAssumption
     DEF Types, TypeOK, Statuses, Tables, ClearRows, Cleared, workVars, eventVars
<1> QED BY <1>1, <1>2, <1>3

\* So do the stream, a crash and the start after it.
LEMMA OtherTypes ==
  ASSUME Types, Open \/ Deliver \/ Crash \/ UNCHANGED vars
  PROVE  Types'
<1>1. CASE Open
  BY <1>1, SpendTypes DEF Types, TypeOK, Open, docVars, indexVars, workVars, noteVars
<1>2. CASE Deliver \/ UNCHANGED vars
  BY <1>2 DEF Types, TypeOK, Deliver, vars, docVars, indexVars, workVars, noteVars
<1>3. CASE Crash
  <2>1. jobs' \subseteq Jobs
    <3>1. \A d \in Docs : Ingestion(0, d, "guard", TRUE) \in Jobs
      BY Ranges, RebuildAssumption DEF Ingestion, Jobs, Steps
    <3> QED BY <1>3, <3>1 DEF Crash
  <2>2. snap' \in [RebuildIds -> [Docs -> Statuses]]
    BY <1>3 DEF Crash, NoCopy, Statuses
  <2>3. used' \in [request : 0..Requests, upset : 0..Upsets]
    BY <1>3, SpendTypes DEF Crash
  <2> QED BY <1>3, <2>1, <2>2, <2>3, Ranges DEF Types, TypeOK, Crash, NoEvent
<1> QED BY <1>1, <1>2, <1>3

\* Every step keeps the types.
LEMMA NextTypes == Types /\ [Next]_vars => Types'
BY RequestTypes, IngestTypes, RebuildTypes, ClearTypes, OtherTypes DEF Next

\* Every variable of a rebuild has its type, for any documents, any number of
\* rebuilds and any budget.
THEOREM RebuildTypeCorrect == Spec => []TypeOK
<1>1. Types => TypeOK
  BY DEF Types
<1> QED BY <1>1, InitTypes, NextTypes, PTL DEF Spec

-----------------------------------------------------------------------------
(* The switch                                                                *)

\* What the invariant is about.
switchVars == <<pc, locked, ptr, run, former, clearing, torn, staged.gen, live.gen>>

\* A step that touches none of it keeps the invariant.
LEMMA Untouched == SwitchInv /\ UNCHANGED switchVars => SwitchInv'
BY DEF SwitchInv, switchVars, OneRebuild, StagedOwn, Undoable, ClearedInUse, SwitchedTogether,
       IsRunning

\* Initially nothing runs and both indexes are the first.
LEMMA InitSwitch == Init => SwitchInv
BY DEF Init, SwitchInv, OneRebuild, StagedOwn, Undoable, ClearedInUse, SwitchedTogether, IsRunning

\* A running rebuild that goes on under the lock stays the only one.
LEMMA StillOne ==
  ASSUME Types, SwitchInv, NEW r \in RebuildIds, IsRunning(r), NEW p \in Pcs,
         pc' = [pc EXCEPT ![r] = p], p \notin {"idle", "over"} => locked'
  PROVE  OneRebuild'
BY DEF Types, TypeOK, SwitchInv, OneRebuild, IsRunning

\* A rebuild begins when the lock is free.
LEMMA PostSwitch ==
  ASSUME Types, SwitchInv, NEW r \in RebuildIds, Post(r)
  PROVE  SwitchInv'
<1>1. /\ pc' = [pc EXCEPT ![r] = "queued"] /\ locked' /\ ~locked
      /\ UNCHANGED <<ptr, run, former, clearing, torn, staged, live>>
  BY DEF Post, Step, indexVars, workVars, noteVars
<1>2. \A q \in RebuildIds : ~IsRunning(q)
  BY <1>1 DEF SwitchInv, OneRebuild
<1>3. OneRebuild'
  BY <1>1, <1>2 DEF OneRebuild, IsRunning, Types, TypeOK
<1>4. \A q \in RebuildIds : pc'[q] \notin {"embed", "pointer", "tables"}
  BY <1>1, <1>2 DEF IsRunning, Types, TypeOK
<1>5. \A q \in RebuildIds : pc[q] # "tables"
  BY <1>2 DEF IsRunning
<1> QED BY <1>1, <1>3, <1>4, <1>5
        DEF SwitchInv, StagedOwn, Undoable, ClearedInUse, SwitchedTogether

\* A step outside the switch that moves the rebuild on.
LEMMA MoveSwitch ==
  ASSUME Types, SwitchInv, NEW r \in RebuildIds, IsRunning(r), pc[r] # "tables",
         NEW p \in Pcs \ {"tables"}, pc' = [pc EXCEPT ![r] = p],
         p \notin {"idle", "over"} => locked',
         p \in {"embed", "pointer"} => staged'.gen = r,
         UNCHANGED <<ptr, run, clearing, torn, live>>
  PROVE  SwitchInv'
<1>1. OneRebuild'
  BY StillOne
<1>2. \A q \in RebuildIds \ {r} : ~IsRunning(q) /\ pc'[q] = pc[q]
  BY DEF SwitchInv, OneRebuild, Types, TypeOK
<1>3. pc'[r] = p
  BY DEF Types, TypeOK
<1>4. StagedOwn'
  BY <1>2, <1>3 DEF StagedOwn, IsRunning
<1>5. /\ \A q \in RebuildIds : pc'[q] # "tables"
      /\ \A q \in RebuildIds : pc[q] # "tables"
  BY <1>2, <1>3 DEF IsRunning
<1> QED BY <1>1, <1>4, <1>5 DEF SwitchInv, Undoable, ClearedInUse, SwitchedTogether

\* The first switch leaves what the tables come from to be restored.
LEMMA PointerSwitch ==
  ASSUME Types, SwitchInv, NEW r \in RebuildIds, SwitchPointer(r)
  PROVE  SwitchInv'
<1>1. /\ pc[r] = "pointer" /\ pc' = [pc EXCEPT ![r] = "tables"]
      /\ ptr' = r /\ run' = r /\ former' = [former EXCEPT ![r] = run]
      /\ torn' = (torn \/ clearing # "no") /\ UNCHANGED <<live, staged, locked, clearing>>
  BY DEF SwitchPointer, Step
<1>2. IsRunning(r) /\ locked /\ staged.gen = r
  BY <1>1 DEF IsRunning, SwitchInv, OneRebuild, StagedOwn
<1>3. OneRebuild'
  BY <1>1, <1>2, StillOne, Ranges
<1>4. \A q \in RebuildIds \ {r} : ~IsRunning(q) /\ pc'[q] = pc[q]
  BY <1>1, <1>2 DEF SwitchInv, OneRebuild, Types, TypeOK
<1>5. pc'[r] = "tables" /\ former'[r] = run
  BY <1>1 DEF Types, TypeOK
<1>6. StagedOwn'
  BY <1>1, <1>2, <1>4 DEF StagedOwn, IsRunning
<1>7. ~torn' => clearing' = "no" /\ run' = r /\ live'.gen = former'[r]
  <2>1. \A q \in RebuildIds : pc[q] # "tables"
    BY <1>1, <1>4 DEF IsRunning
  <2> QED BY <1>1, <1>5, <2>1 DEF SwitchInv, SwitchedTogether
<1>8. Undoable'
  BY <1>1, <1>4, <1>7 DEF Undoable, IsRunning
<1> QED BY <1>1, <1>3, <1>5, <1>6, <1>7, <1>8 DEF SwitchInv, ClearedInUse, SwitchedTogether

\* The second switch, or its undoing, ends the time between the two.
LEMMA TablesSwitch ==
  ASSUME Types, SwitchInv, NEW r \in RebuildIds, pc[r] = "tables",
         NEW p \in {"drop", "failing", "over"}, pc' = [pc EXCEPT ![r] = p],
         p # "over" => locked', UNCHANGED clearing, torn => torn',
         ptr' = run', ~torn' => live'.gen = run'
  PROVE  SwitchInv'
<1>1. IsRunning(r) /\ p \in Pcs
  BY Ranges DEF IsRunning
<1>2. OneRebuild'
  BY <1>1, StillOne
<1>3. \A q \in RebuildIds : pc'[q] \notin {"embed", "pointer", "tables"}
  BY <1>1 DEF SwitchInv, OneRebuild, IsRunning, Types, TypeOK
<1>4. ~torn => clearing = "no"
  BY DEF SwitchInv, Undoable
<1> QED BY <1>2, <1>3, <1>4
        DEF SwitchInv, StagedOwn, Undoable, ClearedInUse, SwitchedTogether, Types, TypeOK

\* Every step of a rebuild keeps the invariant.
LEMMA RebuildSwitch ==
  ASSUME Types, SwitchInv, NEW r \in RebuildIds,
         Proceed(r) \/ Compensate(r) \/ Raises(r) \/ Cancel(r)
  PROVE  SwitchInv'
<1>r. IsRunning(r) => locked
  BY DEF SwitchInv, OneRebuild
<1>1. CASE \E d \in Docs : Embed(r, d)
  <2>1. staged'.gen = staged.gen
    BY <1>1 DEF Embed, Types, Tables
  <2> QED BY <1>1, <2>1, Untouched DEF Embed, switchVars, indexVars, noteVars
<1>2. CASE Prepare(r) \/ DropOld(r) \/ UpdateRows(r) \/ Complete(r) \/ Refuse(r) \/ Fail(r)
  <2>1. PICK p \in {"copy", "rows", "failing", "publish", "unlock"} :
          pc' = [pc EXCEPT ![r] = p]
    BY <1>2 DEF Prepare, DropOld, UpdateRows, Complete, Refuse, Fail, Step
  <2>2. pc[r] \in {"queued", "drop", "rows", "publish", "embed", "failing"}
    BY <1>2 DEF Prepare, DropOld, UpdateRows, Complete, Refuse, Fail, Step
  <2>3. UNCHANGED <<ptr, run, clearing, torn, live, locked>>
    BY <1>2 DEF Prepare, DropOld, UpdateRows, Complete, Refuse, Fail, indexVars, workVars, noteVars
  <2> QED BY <1>r, <2>1, <2>2, <2>3, MoveSwitch, Ranges DEF IsRunning
<1>3. CASE Copy(r)
  <2>1. staged'.gen = r /\ UNCHANGED <<ptr, run, clearing, torn, live, locked>>
    BY <1>3 DEF Copy, indexVars, noteVars
  <2>2. PICK p \in {"embed"} : pc' = [pc EXCEPT ![r] = p]
    BY <1>3 DEF Copy, Step
  <2>3. IsRunning(r) /\ pc[r] # "tables"
    BY <1>3 DEF Copy, Step, IsRunning
  <2> QED BY <1>r, <2>1, <2>2, <2>3, MoveSwitch, Ranges
<1>4. CASE Create(r)
  <2>1. staged'.gen = r /\ UNCHANGED <<ptr, run, clearing, torn, live, locked>>
    BY <1>4 DEF Create, workVars, SwitchInv, StagedOwn, noteVars
  <2>2. PICK p \in {"pointer"} : pc' = [pc EXCEPT ![r] = p]
    BY <1>4 DEF Create
  <2>3. IsRunning(r) /\ pc[r] # "tables"
    BY <1>4 DEF Create, IsRunning
  <2> QED BY <1>r, <2>1, <2>2, <2>3, MoveSwitch, Ranges
<1>5. CASE Raises(r)
  <2>1. UNCHANGED <<ptr, run, clearing, torn, live, locked>>
    BY <1>5 DEF Raises, indexVars, workVars, noteVars
  <2>2. PICK p \in {"failing"} : pc' = [pc EXCEPT ![r] = p]
    BY <1>5 DEF Raises
  <2>3. IsRunning(r) /\ pc[r] # "tables"
    BY <1>5 DEF Raises, IsRunning
  <2> QED BY <1>r, <2>1, <2>2, <2>3, MoveSwitch, Ranges
<1>6. CASE SwitchPointer(r)
  BY <1>6, PointerSwitch
<1>7. CASE SwitchTables(r)
  <2>1. pc[r] = "tables" /\ staged.gen = r /\ (~torn => run = r)
    BY <1>7 DEF SwitchTables, Step, SwitchInv, StagedOwn, Undoable
  <2>2. locked' /\ ptr' = run' /\ (~torn' => live'.gen = run')
        /\ UNCHANGED <<clearing, torn>>
    BY <1>7, <1>r, <2>1 DEF SwitchTables, SwitchInv, IsRunning, noteVars
  <2>3. PICK p \in {"drop"} : pc' = [pc EXCEPT ![r] = p]
    BY <1>7 DEF SwitchTables, Step
  <2> QED BY <2>1, <2>2, <2>3, TablesSwitch
<1>8. CASE Compensate(r)
  <2>1. pc[r] = "tables" /\ (~torn => live.gen = former[r])
    BY <1>8 DEF Compensate, Step, SwitchInv, Undoable
  <2>2. locked' /\ ptr' = run' /\ (~torn' => live'.gen = run')
        /\ UNCHANGED <<clearing, torn>>
    BY <1>8, <1>r, <2>1 DEF Compensate, Restored, IsRunning, noteVars
  <2>3. PICK p \in {"failing"} : pc' = [pc EXCEPT ![r] = p]
    BY <1>8 DEF Compensate, Step
  <2> QED BY <2>1, <2>2, <2>3, TablesSwitch
<1>9. CASE Unlock(r)
  <2>1. pc[r] = "unlock" /\ pc' = [pc EXCEPT ![r] = "over"]
        /\ UNCHANGED <<ptr, run, clearing, torn, live>>
    BY <1>9 DEF Unlock, Step, indexVars
  <2> QED BY <2>1, MoveSwitch, Ranges DEF IsRunning
<1>10. CASE Cancel(r) /\ pc[r] # "tables"
  <2>1. pc' = [pc EXCEPT ![r] = "over"] /\ UNCHANGED <<ptr, run, clearing, torn, live>>
    BY <1>10 DEF Cancel
  <2>2. IsRunning(r)
    BY <1>10 DEF Cancel, IsRunning, Running, Embedding, Switching, Ending
  <2> QED BY <1>10, <2>1, <2>2, MoveSwitch, Ranges
<1>11. CASE Cancel(r) /\ pc[r] = "tables"
  <2>1. ~torn => live.gen = former[r]
    BY <1>11 DEF SwitchInv, Undoable
  <2>2. /\ pc' = [pc EXCEPT ![r] = "over"] /\ UNCHANGED clearing /\ (torn => torn')
        /\ ptr' = run' /\ (~torn' => live'.gen = run')
    BY <1>11, <2>1 DEF Cancel, Restored
  <2> QED BY <1>11, <2>2, TablesSwitch
<1> QED BY <1>1, <1>2, <1>3, <1>4, <1>5, <1>6, <1>7, <1>8, <1>9, <1>10, <1>11 DEF Proceed

\* A clear-all that meets a rebuild says so; one that does not has its own
\* collection and, at the end, its own tables.
LEMMA ClearSwitch ==
  ASSUME Types, SwitchInv, ClearVectors \/ ClearDrop \/ ClearRows
  PROVE  SwitchInv'
<1>1. UNCHANGED <<pc, locked, former, staged>> /\ (torn => torn')
  BY DEF ClearVectors, ClearDrop, ClearRows, workVars
<1>2. SomeRunning => torn'
  BY DEF ClearVectors, ClearDrop, ClearRows
<1>3. OneRebuild' /\ StagedOwn'
  BY <1>1 DEF SwitchInv, OneRebuild, StagedOwn, IsRunning
<1>4. ptr' = run' /\ ClearedInUse'
  BY <1>1 DEF SwitchInv, ClearedInUse, ClearVectors, ClearDrop, ClearRows
<1>5. ASSUME NEW r \in RebuildIds, pc'[r] = "tables" PROVE torn'
  BY <1>1, <1>2, <1>5 DEF SomeRunning
<1>6. SwitchedTogether'
  BY <1>1, <1>2, <1>4
     DEF SwitchInv, ClearedInUse, SwitchedTogether, ClearVectors, ClearDrop, ClearRows
<1> QED BY <1>3, <1>4, <1>5, <1>6 DEF SwitchInv, Undoable

\* After a crash nothing runs, and what was interrupted between the switches
\* is recorded.
LEMMA CrashSwitch ==
  ASSUME Types, SwitchInv, Crash
  PROVE  SwitchInv'
<1>1. \A r \in RebuildIds : pc'[r] \in {"idle", "over"}
  BY DEF Crash
<1>2. /\ run' = run /\ ptr' = ptr /\ UNCHANGED <<live, staged>>
      /\ clearing' = "no"
      /\ torn' = (torn \/ clearing # "no" \/ \E r \in RebuildIds : pc[r] = "tables")
  BY DEF Crash, SwitchInv
<1> QED BY <1>1, <1>2
        DEF SwitchInv, OneRebuild, StagedOwn, Undoable, ClearedInUse, SwitchedTogether, IsRunning

\* Every step keeps the invariant.
LEMMA NextSwitch == Types /\ SwitchInv /\ [Next]_vars => SwitchInv'
<1> SUFFICES ASSUME Types, SwitchInv, [Next]_vars PROVE SwitchInv'
  OBVIOUS
<1>1. ASSUME UNCHANGED quietVars, live'.gen = live.gen PROVE SwitchInv'
  <2>1. UNCHANGED switchVars
    BY <1>1 DEF quietVars, workVars, switchVars
  <2> QED BY <2>1, Untouched
<1>d. ASSUME NEW d \in Docs, Upload(d) \/ Reprocess(d) \/ Delete(d) PROVE SwitchInv'
  <2>1. live' \in {TakenTerms(d), live} /\ UNCHANGED quietVars
    BY <1>d DEF Upload, Reprocess, Delete, Cleaned
  <2> QED BY <1>1, <2>1, LiveTypes
<1>j. ASSUME NEW j \in jobs, Ingest(j) PROVE SwitchInv'
  <2>1. j.doc \in Docs
    BY DEF Types, TypeOK, Jobs
  <2>2. live' \in {live, TakenTerms(j.doc), [live EXCEPT !.docs = @ \cup {j.doc}]}
        /\ UNCHANGED quietVars
    BY <1>j DEF Ingest, Skip, Parse, CleanUp, Write, Seal, GiveUp, Cleaned
  <2> QED BY <1>1, <2>1, <2>2, LiveTypes
<1>2. CASE Open \/ Deliver \/ UNCHANGED vars
  BY <1>2, Untouched DEF Open, Deliver, vars, indexVars, workVars, noteVars, switchVars
<1>3. ASSUME NEW r \in RebuildIds,
             Post(r) \/ Proceed(r) \/ Compensate(r) \/ Raises(r) \/ Cancel(r)
      PROVE  SwitchInv'
  BY <1>3, PostSwitch, RebuildSwitch
<1>4. CASE ClearVectors \/ ClearDrop \/ ClearRows
  BY <1>4, ClearSwitch
<1>5. CASE Crash
  BY <1>5, CrashSwitch
<1> QED BY <1>d, <1>j, <1>2, <1>3, <1>4, <1>5 DEF Next

\* The vectors and the BM25 tables in use come from the same rebuild, except
\* between the two switches: when the second fails, is cancelled or raises, the
\* first is undone.  This holds unless a crash or a clear-all came in between.
THEOREM OneIndex == Spec => []SwitchedTogether
<1>1. SwitchInv => SwitchedTogether
  BY DEF SwitchInv
<1> QED BY <1>1, InitTypes, NextTypes, InitSwitch, NextSwitch, PTL DEF Spec

-----------------------------------------------------------------------------
(* What a rebuild leaves ready is in both indexes                            *)

Filled == {"pointer", "tables", "drop", "rows"}

\* Where the collection of a rebuild is not known outside it.
Early == {"idle", "queued", "copy", "embed", "pointer"}

\* Then neither the settings nor an ingestion has it.
Fresh(r) ==
  pc[r] \in Early =>
    /\ run # r /\ \A q \in RebuildIds : former[q] # r
    /\ \A j \in jobs : j.to # r

\* What rebuild r has embedded, and where it is.  A document leaves the indexes
\* only with its row or by an ingestion that is recorded.
InHand(r) ==
  /\ pc[r] \in {"idle", "queued", "copy"} => points[r] = {}
  /\ pc[r] \in Filled \cup {"embed"} =>
       points[r] \subseteq Copied(r) /\ \A d \in Copied(r) : row[d] # "none"
  /\ pc[r] = "embed" => todo[r] \subseteq Copied(r)
  /\ pc[r] \in {"embed", "pointer", "tables"} => staged.docs = points[r]
  /\ ~torn /\ pc[r] \in Filled \cup {"publish"} => r \in DOMAIN colls
  /\ ~torn /\ pc[r] = "pointer" => points[r] \subseteq colls[r]
  /\ ~torn /\ pc[r] \in {"tables", "drop", "rows"} =>
       (points[r] \cap Rows) \ overtaken \subseteq colls[r]
  /\ ~torn /\ pc[r] \in Switched => run = r
  /\ ~torn /\ pc[r] \in {"drop", "rows"} =>
       (points[r] \cap Rows) \ overtaken \subseteq live.docs
  /\ ~torn /\ pc[r] = "publish" =>
       \A d \in Copied(r) \ (overtaken \cup FailedTwice(r)) :
         row[d] = "ready" => d \in colls[r] /\ d \in live.docs
  /\ pc[r] \in Switched => \A j \in jobs : InIndex(j) => j.doc \in overtaken

HandInv == \A r \in RebuildIds : Fresh(r) /\ InHand(r)

\* A rebuild that is not running has nothing to be said about but that it has
\* embedded nothing yet.
LEMMA RestInHand ==
  ASSUME NEW r \in RebuildIds, ~IsRunning(r), pc[r] = "idle" => points[r] = {}
  PROVE  InHand(r)
BY DEF InHand, IsRunning, Filled, Switched

\* What a request or a step of an ingestion must not do, for a rebuild to keep
\* what it has in hand.
Harmless(r) ==
  /\ overtaken \subseteq overtaken'
  /\ \A d \in Docs : (row[d] # "none" => row'[d] # "none") /\ (row[d] = "gone" => row'[d] = "gone")
  /\ DOMAIN colls \subseteq DOMAIN colls'
  /\ ~torn /\ pc[r] = "pointer" /\ r \in DOMAIN colls => colls'[r] = colls[r]
  /\ ~torn /\ pc[r] \in Switched =>
       /\ \A d \in Docs \ overtaken' : row'[d] \notin {"none", "gone"} =>
            /\ r \in DOMAIN colls /\ d \in colls[r] => d \in colls'[r]
            /\ d \in live.docs => d \in live'.docs
       /\ \A d \in Docs \ overtaken' : row'[d] = "ready" => row[d] = "ready"
  /\ pc[r] \in Switched => \A j \in jobs' : InIndex(j) => j.doc \in overtaken'

\* A rebuild keeps it through such a step.
LEMMA HarmlessInHand ==
  ASSUME Types, NEW r \in RebuildIds, InHand(r), UNCHANGED quietVars, Harmless(r)
  PROVE  InHand(r)'
<1>1. UNCHANGED <<run, staged, pc, snap, todo, points, torn>>
  BY DEF quietVars, workVars
<1>2. Copied(r)' = Copied(r) /\ FailedTwice(r)' = FailedTwice(r) /\ Copied(r) \subseteq Docs
  BY <1>1 DEF Copied, FailedTwice, StatusOf
<1>3. \A d \in Copied(r) : row[d] # "none" => row'[d] # "none"
  BY <1>2 DEF Harmless
<1>4. \A d \in Docs : d \in Rows' /\ row[d] # "none" => d \in Rows
  BY DEF Harmless, Rows
<1>5. points[r] \subseteq Docs
  BY DEF Types, TypeOK
<1>6. pc[r] \in Filled => points[r] \cap Rows' \subseteq points[r] \cap Rows
  BY <1>4, <1>5 DEF InHand
<1>7. ~torn /\ pc[r] \in {"tables", "drop", "rows"} =>
        /\ (points[r] \cap Rows') \ overtaken' \subseteq (points[r] \cap Rows) \ overtaken
        /\ \A d \in (points[r] \cap Rows') \ overtaken' : d \in colls[r] => d \in colls'[r]
        /\ \A d \in (points[r] \cap Rows') \ overtaken' : d \in live.docs => d \in live'.docs
  BY <1>5, <1>6 DEF Harmless, InHand, Filled, Switched, Rows
<1>8. ~torn /\ pc[r] = "publish" =>
        \A d \in Copied(r) \ (overtaken' \cup FailedTwice(r)) :
          row'[d] = "ready" => d \in colls'[r] /\ d \in live'.docs
  BY <1>2 DEF Harmless, InHand, Filled, Switched
<1>9. /\ pc[r] \in Filled \cup {"embed"} => \A d \in Copied(r) : row'[d] # "none"
      /\ ~torn /\ pc[r] = "pointer" => points[r] \subseteq colls'[r]
      /\ ~torn /\ pc[r] \in Filled \cup {"publish"} => r \in DOMAIN colls'
      /\ pc[r] \in Switched => \A j \in jobs' : InIndex(j) => j.doc \in overtaken'
  BY <1>3 DEF Harmless, InHand, Filled
<1>10. /\ ~torn /\ pc[r] \in {"tables", "drop", "rows"} =>
            (points[r] \cap Rows') \ overtaken' \subseteq colls'[r]
       /\ ~torn /\ pc[r] \in {"drop", "rows"} =>
            (points[r] \cap Rows') \ overtaken' \subseteq live'.docs
  BY <1>7 DEF InHand
<1> QED BY <1>1, <1>2, <1>8, <1>9, <1>10 DEF InHand

\* A status that is written is not "none", and no row comes back.
LEMMA RowStays ==
  ASSUME Types, NEW d \in Docs, NEW s \in Statuses \ {"none"}, row[d] # "gone", Becomes(d, s)
  PROVE  /\ row'[d] = s /\ \A e \in Docs \ {d} : row'[e] = row[e]
         /\ \A e \in Docs : (row[e] # "none" => row'[e] # "none")
                            /\ (row[e] = "gone" => row'[e] = "gone")
BY DEF Becomes, Types, TypeOK

\* What writing or cleaning for one document does to a collection.
LEMMA CollFacts ==
  \A c, d, S, r :
    /\ S \in {Held(c) \ {d}, Held(c) \cup {d}}
    /\ colls' \in {Holding(c, S), Taken(c, d), colls}
    => /\ DOMAIN colls \subseteq DOMAIN colls'
       /\ r \in DOMAIN colls /\ c # r => colls'[r] = colls[r]
       /\ \A e : r \in DOMAIN colls /\ e # d /\ e \in colls[r] => e \in colls'[r]
BY DEF Holding, Taken, Held

\* So with the tables.
LEMMA LiveFacts ==
  ASSUME Types, NEW d, live' \in {live, TakenTerms(d), [live EXCEPT !.docs = @ \cup {d}]}
  PROVE  \A e : e # d /\ e \in live.docs => e \in live'.docs
BY DEF Types, Tables, TakenTerms

\* A request brings a document the rebuild has not copied, makes one busy or takes
\* its row away.
LEMMA RequestInHand ==
  ASSUME Types, NEW r \in RebuildIds, Fresh(r), InHand(r),
         NEW d \in Docs, Upload(d) \/ Reprocess(d) \/ Delete(d)
  PROVE  InHand(r)'
<1>1. UNCHANGED <<overtaken, quietVars>>
  BY DEF Upload, Reprocess, Delete
<1>2. PICK s \in {"busy", "gone"} : Becomes(d, s) /\ row[d] # "gone" /\ (Delete(d) => s = "gone")
  BY DEF Upload, Reprocess, Delete
<1>3. /\ row'[d] = s /\ \A e \in Docs \ {d} : row'[e] = row[e]
      /\ \A e \in Docs : (row[e] # "none" => row'[e] # "none")
                         /\ (row[e] = "gone" => row'[e] = "gone")
  BY <1>2, RowStays DEF Statuses
<1>4. /\ colls' \in {Taken(run, d), colls} /\ live' \in {TakenTerms(d), live}
      /\ (s # "gone" => UNCHANGED <<colls, live>>)
  BY <1>2 DEF Upload, Reprocess, Delete, Cleaned
<1>5. /\ DOMAIN colls \subseteq DOMAIN colls'
      /\ r \in DOMAIN colls /\ run # r => colls'[r] = colls[r]
      /\ \A e : r \in DOMAIN colls /\ e # d /\ e \in colls[r] => e \in colls'[r]
  <2>1. \E S : /\ S \in {Held(run) \ {d}, Held(run) \cup {d}}
              /\ colls' \in {Holding(run, S), Taken(run, d), colls}
    BY <1>4
  <2> QED BY <2>1, CollFacts, Zenon
<1>6. \A e : e # d /\ e \in live.docs => e \in live'.docs
  BY <1>4, LiveFacts
<1>7. pc[r] = "pointer" => run # r
  BY DEF Fresh, Early
<1>8. pc[r] \in Switched => \A j \in jobs' : InIndex(j) => j.doc \in overtaken'
  <2>1. \A j \in jobs' : j \in jobs \/ ~InIndex(j)
    BY DEF Upload, Reprocess, Delete, Ingestion, InIndex
  <2> QED BY <1>1, <2>1 DEF InHand
<1>9. \A e \in Docs : /\ row'[e] \notin {"none", "gone"} =>
                           /\ r \in DOMAIN colls /\ e \in colls[r] => e \in colls'[r]
                           /\ e \in live.docs => e \in live'.docs
                      /\ row'[e] = "ready" => row[e] = "ready"
  BY <1>3, <1>4, <1>5, <1>6
<1>10. Harmless(r)
  BY <1>1, <1>3, <1>5, <1>7, <1>8, <1>9 DEF Harmless
<1> QED BY <1>1, <1>10, HarmlessInHand

\* An ingestion that reaches the index after the switch, or is taken as complete
\* there, is recorded; before it, it has another collection.
LEMMA IngestInHand ==
  ASSUME Types, NEW r \in RebuildIds, Fresh(r), InHand(r), NEW j \in jobs, Ingest(j)
  PROVE  InHand(r)'
<1>j. j \in Jobs /\ j.doc \in Docs
  BY DEF Types, TypeOK, Jobs
<1> DEFINE d == j.doc
<1>1. UNCHANGED quietVars /\ overtaken \subseteq overtaken' /\ pc' = pc
  BY DEF Ingest, Skip, Parse, CleanUp, Write, Seal, GiveUp, Overtakes, quietVars
<1>2. \/ UNCHANGED row
      \/ d \in Rows /\ \E s \in {"busy", "ready", "failed"} : Becomes(d, s)
  BY DEF Ingest, Skip, Parse, CleanUp, Write, Seal, GiveUp
<1>3. /\ \A e \in Docs \ {d} : row'[e] = row[e]
      /\ \A e \in Docs : (row[e] # "none" => row'[e] # "none")
                         /\ (row[e] = "gone" => row'[e] = "gone")
  <2>1. CASE UNCHANGED row
    BY <2>1
  <2>2. ASSUME d \in Rows, NEW s \in {"busy", "ready", "failed"}, Becomes(d, s)
        PROVE  /\ \A e \in Docs \ {d} : row'[e] = row[e]
               /\ \A e \in Docs : (row[e] # "none" => row'[e] # "none")
                                  /\ (row[e] = "gone" => row'[e] = "gone")
    BY <1>j, <2>2, RowStays DEF Statuses, Rows
  <2> QED BY <1>2, <2>1, <2>2
<1>4. PICK c \in {run, j.to}, S \in SUBSET Docs :
        /\ S \in {Held(c) \ {d}, Held(c) \cup {d}}
        /\ colls' \in {Holding(c, S), Taken(c, d), colls}
        /\ live' \in {live, TakenTerms(d), [live EXCEPT !.docs = @ \cup {d}]}
  <2>h. \A c \in {run, j.to} : Held(c) \ {d} \in SUBSET Docs /\ Held(c) \cup {d} \in SUBSET Docs
    BY <1>j DEF Held, Types, TypeOK
  <2>1. CASE CleanUp(j)
    BY <2>h, <2>1 DEF CleanUp
  <2>2. CASE Write(j)
    <3>1. colls' = Holding(j.to, Held(j.to) \cup {d})
      BY <2>2 DEF Write, Held
    <3> QED BY <2>h, <2>2, <3>1 DEF Write
  <2>3. CASE GiveUp(j)
    BY <2>h, <2>3 DEF GiveUp, Cleaned
  <2>4. CASE Skip(j) \/ Parse(j) \/ Seal(j)
    BY <2>h, <2>4 DEF Skip, Parse, Seal
  <2> QED BY <2>1, <2>2, <2>3, <2>4 DEF Ingest
<1>5. /\ DOMAIN colls \subseteq DOMAIN colls'
      /\ r \in DOMAIN colls /\ c # r => colls'[r] = colls[r]
      /\ \A e : r \in DOMAIN colls /\ e # d /\ e \in colls[r] => e \in colls'[r]
  BY <1>4, CollFacts, Zenon
<1>6. \A e : e # d /\ e \in live.docs => e \in live'.docs
  BY <1>4, LiveFacts
<1>7. pc[r] = "pointer" => c # r
  BY DEF Fresh, Early
<1>8. ASSUME pc[r] \in Switched, d \notin overtaken'
      PROVE  /\ UNCHANGED <<colls, live>> /\ (row'[d] = "ready" => row[d] = "ready")
             /\ ~InIndex(j) /\ \A k \in jobs' : k \in jobs \/ ~InIndex(k)
  <2>1. ~InIndex(j)
    BY <1>1, <1>8 DEF InHand
  <2>2. ~Skip(j) /\ ~CleanUp(j)
    BY <1>8 DEF Skip, CleanUp, Overtakes
  <2>3. ~Write(j) /\ ~Seal(j)
    BY <2>1 DEF Write, Seal, InIndex
  <2>4. CASE Parse(j)
    <3>1. row'[d] = "busy" /\ UNCHANGED <<colls, live>>
      BY <1>j, <2>4 DEF Parse, Becomes, Types, TypeOK
    <3>2. [j EXCEPT !.at = "index"].at = "index"
      BY <1>j DEF Jobs
    <3>3. \A k \in jobs' : k \in jobs \/ ~InIndex(k)
      BY <2>4, <3>2 DEF Parse, Goes, InIndex
    <3> QED BY <2>1, <3>1, <3>3
  <2>5. CASE GiveUp(j)
    <3>1. UNCHANGED <<colls, live>>
      BY <2>1, <2>5 DEF GiveUp
    <3>2. row'[d] = "ready" => row[d] = "ready"
      BY <1>j, <2>5 DEF GiveUp, Becomes, Types, TypeOK
    <3>3. [j EXCEPT !.at = "parse"].at = "parse"
      BY <1>j DEF Jobs
    <3>4. \A k \in jobs' : k \in jobs \/ ~InIndex(k)
      BY <2>5, <3>3 DEF GiveUp, Goes, Ends, InIndex
    <3> QED BY <2>1, <3>1, <3>2, <3>4
  <2> QED BY <2>2, <2>3, <2>4, <2>5 DEF Ingest
<1>9. pc[r] \in Switched => \A k \in jobs' : InIndex(k) => k.doc \in overtaken'
  <2>1. \A s \in Steps : [j EXCEPT !.at = s].doc = d
    BY <1>j DEF Jobs
  <2>2. [j EXCEPT !.at = "write", !.to = run].doc = d
    BY <1>j DEF Jobs
  <2>3. \A k \in jobs' : k \in jobs \/ k.doc = d
    BY <2>1, <2>2 DEF Ingest, Skip, Parse, CleanUp, Write, Seal, GiveUp, Goes, Ends, Steps
  <2> QED BY <1>1, <1>8, <2>3 DEF InHand
<1>10. pc[r] \in Switched =>
         /\ \A e \in Docs \ overtaken' : row'[e] \notin {"none", "gone"} =>
              /\ r \in DOMAIN colls /\ e \in colls[r] => e \in colls'[r]
              /\ e \in live.docs => e \in live'.docs
         /\ \A e \in Docs \ overtaken' : row'[e] = "ready" => row[e] = "ready"
  BY <1>3, <1>5, <1>6, <1>8
<1>11. Harmless(r)
  BY <1>1, <1>3, <1>5, <1>7, <1>9, <1>10 DEF Harmless
<1> QED BY <1>1, <1>11, HarmlessInHand

\* The lock: no other rebuild is running while this one takes a step.
LEMMA OtherInHand ==
  ASSUME Types, SwitchInv, NEW q \in RebuildIds, NEW r \in RebuildIds \ {q}, InHand(r),
         Post(q) \/ Proceed(q) \/ Compensate(q) \/ Raises(q) \/ Cancel(q)
  PROVE  InHand(r)'
<1>1. pc'[r] = pc[r] /\ points'[r] = points[r]
  <2>1. pc'[r] = pc[r]
    BY DEF Types, TypeOK, Post, Proceed, Compensate, Raises, Cancel, Step, Prepare, Copy, Embed,
       Create, SwitchPointer, SwitchTables, DropOld, UpdateRows, Complete, Refuse, Fail, Unlock
  <2>2. points'[r] = points[r]
    BY DEF Types, TypeOK, Post, Proceed, Compensate, Raises, Cancel, Prepare, Copy, Embed,
       Create, SwitchPointer, SwitchTables, DropOld, UpdateRows, Complete, Refuse, Fail, Unlock,
       Forgets, workVars
  <2> QED BY <2>1, <2>2
<1>2. ~IsRunning(r)
  <2>1. CASE Post(q)
    BY <2>1 DEF Post, SwitchInv, OneRebuild
  <2>2. CASE Proceed(q) \/ Compensate(q) \/ Raises(q) \/ Cancel(q)
    <3>1. IsRunning(q)
      BY <2>2 DEF Proceed, Compensate, Raises, Cancel, Step, Prepare, Copy, Embed, Create,
         SwitchPointer, SwitchTables, DropOld, UpdateRows, Complete, Refuse, Fail, Unlock,
         IsRunning, Running, Embedding, Switching, Ending
    <3> QED BY <3>1 DEF SwitchInv, OneRebuild
  <2> QED BY <2>1, <2>2
<1> QED BY <1>1, <1>2 DEF InHand, IsRunning, Filled, Switched

\* From the copy to the new collection.
LEMMA EmbedInHand ==
  ASSUME Types, SwitchInv, NEW r \in RebuildIds, InHand(r),
         Post(r) \/ Prepare(r) \/ Copy(r) \/ (\E d \in Docs : Embed(r, d)) \/ Create(r)
  PROVE  InHand(r)'
<1>1. CASE Post(r)
  <2>1. pc[r] = "idle" /\ pc'[r] = "queued" /\ points' = points
    BY <1>1 DEF Post, Step, workVars, Types, TypeOK
  <2> QED BY <2>1 DEF InHand, Filled, Switched
<1>2. CASE Prepare(r)
  <2>1. pc[r] = "queued" /\ pc'[r] = "copy" /\ points' = points
    BY <1>2 DEF Prepare, Step, workVars, Types, TypeOK
  <2> QED BY <2>1 DEF InHand, Filled, Switched
<1>3. CASE Copy(r)
  <2>1. /\ pc[r] = "copy" /\ pc'[r] = "embed" /\ UNCHANGED <<points, row>>
        /\ snap'[r] = row /\ todo'[r] = Rows /\ staged'.docs = {}
    BY <1>3 DEF Copy, Step, docVars, Types, TypeOK
  <2>2. Copied(r)' = Rows /\ \A d \in Rows : row[d] # "none"
    BY <2>1 DEF Rows, Copied
  <2>3. points[r] = {}
    BY <2>1 DEF InHand
  <2> QED BY <2>1, <2>2, <2>3 DEF InHand, Filled, Switched
<1>4. CASE \E d \in Docs : Embed(r, d)
  <2>1. PICK d \in Docs : Embed(r, d)
    BY <1>4
  <2>2. pc[r] = "embed" /\ UNCHANGED <<pc, row>> /\ Copied(r)' = Copied(r)
    BY <2>1 DEF Embed, docVars, Copied
  <2>3. \/ points'[r] = points[r] /\ staged'.docs = staged.docs
        \/ points'[r] = points[r] \cup {d} /\ staged'.docs = staged.docs \cup {d}
    BY <2>1 DEF Embed, Types, TypeOK, Tables
  <2>4. d \in Copied(r) /\ todo'[r] \subseteq todo[r]
    BY <2>1 DEF Embed, InHand, Types, TypeOK
  <2> QED BY <2>2, <2>3, <2>4 DEF InHand, Filled, Switched
<1>5. CASE Create(r)
  <2>1. /\ pc[r] = "embed" /\ pc'[r] = "pointer" /\ UNCHANGED <<points, row, staged>>
        /\ r \in DOMAIN colls' /\ colls'[r] = points[r] /\ Copied(r)' = Copied(r)
    BY <1>5 DEF Create, Holding, Copied, docVars, workVars, Types, TypeOK
  <2> QED BY <2>1 DEF InHand, Filled, Switched
<1> QED BY <1>1, <1>2, <1>3, <1>4, <1>5

\* From the switch of the pointer to the report.
LEMMA SwitchInHand ==
  ASSUME Types, SwitchInv, NEW r \in RebuildIds, InHand(r),
         SwitchPointer(r) \/ SwitchTables(r) \/ DropOld(r) \/ UpdateRows(r)
  PROVE  InHand(r)'
<1>1. CASE SwitchPointer(r)
  <2>1. /\ pc[r] = "pointer" /\ pc'[r] = "tables" /\ run' = r
        /\ UNCHANGED <<points, row, jobs, staged, colls>> /\ (torn => torn')
        /\ Copied(r)' = Copied(r)
    BY <1>1 DEF SwitchPointer, Step, Copied, docVars, Types, TypeOK
  <2>2. \A j \in jobs' : InIndex(j) => j.doc \in overtaken'
    BY <1>1, <2>1 DEF SwitchPointer
  <2> QED BY <2>1, <2>2 DEF InHand, Filled, Switched
<1>2. CASE SwitchTables(r)
  <2>1. /\ pc[r] = "tables" /\ pc'[r] = "drop" /\ live' = staged
        /\ UNCHANGED <<points, row, jobs, colls, run, torn, overtaken>> /\ Copied(r)' = Copied(r)
    BY <1>2 DEF SwitchTables, Step, Copied, docVars, workVars, noteVars, Types, TypeOK
  <2>2. Rows' = Rows
    BY <2>1 DEF Rows
  <2> QED BY <2>1, <2>2 DEF InHand, Filled, Switched
<1>3. CASE DropOld(r)
  <2>1. /\ pc[r] = "drop" /\ pc'[r] \in {"rows", "failing"}
        /\ UNCHANGED <<points, row, jobs, live, run, torn, overtaken>> /\ Copied(r)' = Copied(r)
    BY <1>3 DEF DropOld, Step, Copied, docVars, workVars, noteVars, Types, TypeOK
  <2>2. r \in DOMAIN colls => r \in DOMAIN colls' /\ colls'[r] = colls[r]
    BY <1>3 DEF DropOld, Without
  <2>3. Rows' = Rows
    BY <2>1 DEF Rows
  <2> QED BY <2>1, <2>2, <2>3 DEF InHand, Filled, Switched
<1>4. CASE UpdateRows(r)
  <2>1. /\ pc[r] = "rows" /\ pc'[r] \in {"publish", "failing"}
        /\ UNCHANGED <<snap, points, jobs, colls, live, run, torn, overtaken>>
    BY <1>4 DEF UpdateRows, Step, indexVars, workVars, noteVars, Types, TypeOK
  <2>2. CASE pc'[r] = "publish"
    <3>1. /\ Rewritten(r) \subseteq Rows
          /\ row' = [d \in Docs |-> IF d \in Rewritten(r) THEN StatusOf(r, d) ELSE row[d]]
      BY <1>4, <2>1, <2>2 DEF UpdateRows, Step, Types, TypeOK
    <3>2. Copied(r)' = Copied(r) /\ FailedTwice(r)' = FailedTwice(r)
      BY <2>1 DEF Copied, FailedTwice, StatusOf
    <3>3. ASSUME NEW d \in Copied(r) \ (overtaken \cup FailedTwice(r)), row'[d] = "ready"
          PROVE  d \in (points[r] \cap Rows) \ overtaken
      <4>1. d \in Docs
        BY DEF Copied
      <4>2. CASE d \in Rewritten(r)
        BY <3>1, <3>3, <4>1, <4>2 DEF StatusOf
      <4>3. CASE d \notin Rewritten(r)
        <5>1. row[d] = "ready" /\ StatusOf(r, d) = snap[r][d]
          BY <3>1, <3>3, <4>1, <4>3 DEF Rewritten
        <5>2. StatusOf(r, d) # "failed"
          BY <3>3, <5>1 DEF FailedTwice
        <5> QED BY <3>3, <4>1, <5>1, <5>2 DEF StatusOf, Rows
      <4> QED BY <4>2, <4>3
    <3>4. \A d \in Copied(r)' \ (overtaken' \cup FailedTwice(r)') :
            row'[d] = "ready" => d \in (points[r] \cap Rows) \ overtaken
      BY <2>1, <3>2, <3>3
    <3>5. \A j \in jobs' : InIndex(j) => j.doc \in overtaken'
      BY <2>1 DEF InHand, Switched
    <3> QED BY <2>1, <2>2, <3>4, <3>5 DEF InHand, Filled, Switched
  <2>3. CASE pc'[r] = "failing"
    BY <2>3 DEF InHand, Filled, Switched
  <2> QED BY <2>1, <2>2, <2>3
<1> QED BY <1>1, <1>2, <1>3, <1>4

\* A rebuild that reports, fails or ends has nothing more in hand.
LEMMA EndInHand ==
  ASSUME Types, NEW r \in RebuildIds,
         \/ Complete(r) \/ Refuse(r) \/ Fail(r) \/ Unlock(r)
         \/ Compensate(r) \/ Raises(r) \/ Cancel(r)
  PROVE  InHand(r)'
<1>1. pc'[r] \in {"failing", "unlock", "over"}
  BY DEF Complete, Refuse, Fail, Unlock, Compensate, Raises, Cancel, Step, Types, TypeOK
<1> QED BY <1>1 DEF InHand, Filled, Switched

\* A clear-all meets no rebuild, or says so.
LEMMA ClearInHand ==
  ASSUME Types, NEW r \in RebuildIds, InHand(r), ClearVectors \/ ClearDrop \/ ClearRows
  PROVE  InHand(r)'
<1>1. UNCHANGED <<pc, jobs, staged, snap, todo, points, overtaken>>
  BY DEF ClearVectors, ClearDrop, ClearRows, docVars, workVars
<1>2. IsRunning(r) => torn'
  BY DEF ClearVectors, ClearDrop, ClearRows, SomeRunning, IsRunning
<1>3. \A d \in Docs : row[d] # "none" => row'[d] # "none"
  BY DEF ClearVectors, ClearDrop, ClearRows, docVars
<1>4. Copied(r)' = Copied(r) /\ Copied(r) \subseteq Docs
  BY <1>1 DEF Copied
<1> QED BY <1>1, <1>2, <1>3, <1>4 DEF InHand, IsRunning, Filled, Switched

\* No step loses what a rebuild has in hand.
LEMMA NextInHand ==
  ASSUME Types, SwitchInv, HandInv, [Next]_vars, NEW r \in RebuildIds
  PROVE  InHand(r)'
<1>h. InHand(r)
  BY DEF HandInv
<1>f. Fresh(r)
  BY DEF HandInv
<1>1. ASSUME NEW d \in Docs, Upload(d) \/ Reprocess(d) \/ Delete(d) PROVE InHand(r)'
  BY <1>1, <1>f, <1>h, RequestInHand
<1>j. ASSUME NEW j \in jobs, Ingest(j) PROVE InHand(r)'
  BY <1>j, <1>f, <1>h, IngestInHand
<1>2. CASE Open \/ Deliver \/ UNCHANGED vars
  <2>1. /\ UNCHANGED <<row, jobs, colls, run, live, staged, pc, snap, todo, points, torn, overtaken>>
    BY <1>2 DEF Open, Deliver, vars, docVars, indexVars, workVars, noteVars
  <2>2. Copied(r)' = Copied(r) /\ FailedTwice(r)' = FailedTwice(r) /\ Rows' = Rows
    BY <2>1 DEF Copied, FailedTwice, StatusOf, Rows
  <2> QED BY <1>h, <2>1, <2>2 DEF InHand, Filled, Switched
<1>3. ASSUME NEW q \in RebuildIds,
             Post(q) \/ Proceed(q) \/ Compensate(q) \/ Raises(q) \/ Cancel(q)
      PROVE  InHand(r)'
  <2>1. CASE q # r
    BY <1>3, <1>h, <2>1, OtherInHand
  <2>2. CASE q = r
    BY <1>3, <1>h, <2>2, EmbedInHand, SwitchInHand, EndInHand DEF Proceed
  <2> QED BY <2>1, <2>2
<1>4. CASE ClearVectors \/ ClearDrop \/ ClearRows
  BY <1>4, <1>h, ClearInHand
<1>5. CASE Crash
  <2>1. pc'[r] \in {"idle", "over"} /\ points'[r] = {}
    BY <1>5 DEF Crash
  <2> QED BY <2>1 DEF InHand, Filled, Switched
<1> QED BY <1>1, <1>j, <1>2, <1>3, <1>4, <1>5 DEF Next

\* No step lets the collection of a rebuild out early.
LEMMA NextFresh ==
  ASSUME Types, SwitchInv, HandInv, [Next]_vars, NEW r \in RebuildIds
  PROVE  Fresh(r)'
<1>f. Fresh(r)
  BY DEF HandInv
<1>r. r \in 1..Rebuilds /\ r # 0 /\ r # Cleared
  BY RebuildAssumption DEF RebuildIds, Cleared
<1>p. pc' \in [RebuildIds -> Pcs]
  BY NextTypes DEF Types, TypeOK
<1>q. ASSUME UNCHANGED <<pc, run, former>>,
             \A j \in jobs' : j.to \in {0, run} \cup {k.to : k \in jobs}
      PROVE  Fresh(r)'
  BY <1>f, <1>r, <1>q DEF Fresh
<1>1. ASSUME NEW d \in Docs, Upload(d) \/ Reprocess(d) \/ Delete(d) PROVE Fresh(r)'
  <2>1. UNCHANGED <<pc, run, former>>
    BY <1>1 DEF Upload, Reprocess, Delete, quietVars, workVars
  <2>2. \A j \in jobs' : j \in jobs \/ j.to = 0
    BY <1>1 DEF Upload, Reprocess, Delete, Ingestion
  <2> QED BY <1>q, <2>1, <2>2
<1>2. ASSUME NEW j \in jobs, Ingest(j) PROVE Fresh(r)'
  <2>1. UNCHANGED <<pc, run, former>>
    BY <1>2 DEF Ingest, Skip, Parse, CleanUp, Write, Seal, GiveUp, quietVars, workVars
  <2>2. j \in Jobs
    BY DEF Types, TypeOK
  <2>3. \A s \in Steps : [j EXCEPT !.at = s].to = j.to
    BY <2>2 DEF Jobs
  <2>4. [j EXCEPT !.at = "write", !.to = run].to = run
    BY <2>2 DEF Jobs
  <2>5. \A k \in jobs' : k \in jobs \/ k.to \in {j.to, run}
    BY <1>2, <2>3, <2>4
       DEF Ingest, Skip, Parse, CleanUp, Write, Seal, GiveUp, Goes, Ends, Steps
  <2> QED BY <1>q, <2>1, <2>5
<1>3. CASE Open \/ Deliver \/ UNCHANGED vars
  BY <1>3, <1>q DEF Open, Deliver, vars, docVars, indexVars, workVars
<1>4. ASSUME NEW q \in RebuildIds,
             Post(q) \/ Proceed(q) \/ Compensate(q) \/ Raises(q) \/ Cancel(q)
      PROVE  Fresh(r)'
  <2>1. UNCHANGED jobs
    BY <1>4 DEF Post, Proceed, Compensate, Raises, Cancel, Prepare, Copy, Embed, Create,
       SwitchPointer, SwitchTables, DropOld, UpdateRows, Complete, Refuse, Fail, Unlock, docVars
  <2>2. pc'[r] \in Early => pc[r] \in Early
    BY <1>4 DEF Types, TypeOK, Early, Post, Proceed, Compensate, Raises, Cancel, Step, Prepare,
       Copy, Embed, Create, SwitchPointer, SwitchTables, DropOld, UpdateRows, Complete, Refuse,
       Fail, Unlock
  <2>3. run' \in {run, former[q]} \/ SwitchPointer(q)
    BY <1>4 DEF Post, Proceed, Compensate, Raises, Cancel, Restored, Prepare, Copy, Embed, Create,
       SwitchTables, DropOld, UpdateRows, Complete, Refuse, Fail, Unlock, indexVars
  <2>4. former' \in {former, [former EXCEPT ![q] = 0], [former EXCEPT ![q] = run]}
    BY <1>4 DEF Post, Proceed, Compensate, Raises, Cancel, Prepare, Copy, Embed, Create,
       SwitchPointer, SwitchTables, DropOld, UpdateRows, Complete, Refuse, Fail, Unlock, Forgets,
       workVars
  <2>5. \A p \in RebuildIds : former'[p] \in {former[p], 0, run}
    BY <2>4 DEF Types
  <2>6. SwitchPointer(q) => run' = q /\ pc'[q] \notin Early
    BY DEF SwitchPointer, Step, Early, Types, TypeOK
  <2> QED BY <1>f, <1>r, <2>1, <2>2, <2>3, <2>5, <2>6 DEF Fresh
<1>5. CASE ClearVectors \/ ClearDrop \/ ClearRows
  <2>1. UNCHANGED <<pc, jobs, former>> /\ run' \in {run, Cleared}
    BY <1>5 DEF ClearVectors, ClearDrop, ClearRows, docVars, workVars
  <2> QED BY <1>f, <1>r, <2>1 DEF Fresh
<1>6. CASE Crash
  <2>1. /\ pc'[r] \in Early => pc[r] = "idle"
        /\ run' = run /\ \A q \in RebuildIds : former'[q] = 0
    BY <1>6 DEF Crash, Early, SwitchInv
  <2>2. \A j \in jobs' : j.to = 0
    BY <1>6 DEF Crash, Ingestion
  <2> QED BY <1>f, <1>r, <2>1, <2>2 DEF Fresh, Early
<1> QED BY <1>1, <1>2, <1>3, <1>4, <1>5, <1>6 DEF Next

\* Together with what it rests on.
RebuildInv == Types /\ SwitchInv /\ HandInv

\* Initially it holds.
LEMMA RebuildInvInit == Init => RebuildInv
<1>1. ASSUME Init, NEW r \in RebuildIds PROVE Fresh(r) /\ InHand(r)
  <2>1. r # 0
    BY DEF RebuildIds
  <2> QED BY <1>1, <2>1 DEF Init, Fresh, InHand, Filled, Switched
<1> QED BY <1>1, InitTypes, InitSwitch DEF RebuildInv, HandInv

\* Every step keeps it.
LEMMA RebuildInvStep == RebuildInv /\ [Next]_vars => RebuildInv'
BY NextTypes, NextSwitch, NextInHand, NextFresh DEF RebuildInv, HandInv

\* It always holds.
LEMMA AlwaysRebuildInv == Spec => []RebuildInv
BY RebuildInvInit, RebuildInvStep, PTL DEF Spec

\* A rebuild about to report that it is complete has every document it copied
\* that is ready in both indexes, though documents are uploaded, parsed, ingested
\* again and deleted next to it and embeddings fail: but for those an ingestion
\* has reached in the index since the switch, and those that failed twice.
THEOREM RebuiltComplete == Spec => []RebuiltIsIndexed
<1>1. RebuildInv => RebuiltIsIndexed
  BY DEF RebuildInv, HandInv, InHand, Switched, RebuiltIsIndexed
<1> QED BY <1>1, AlwaysRebuildInv, PTL

-----------------------------------------------------------------------------
(* Progress streams                                                          *)

\* Rebuilds follow one another.
InTurn == \A r \in RebuildIds : pc[r] # "idle" =>
            \A q \in RebuildIds : q < r => pc[q] = "over"

\* The latest event is of the rebuild that runs.
LatestOwn == \A r \in RebuildIds : IsRunning(r) => latest.of = r

\* What waits in the stream, or ended it, is not older than what was asked for.
NotOlder(e) == e.of >= stream.asked

StreamOf(Q, V) == [phase : {"none", "open", "closed"}, queue : Q, asked : Int, ended : V]
Queues  == Seq(Events)
Results == Events \cup {NoEvent}
Streams == StreamOf(Queues, Results)

QueueInv ==
  /\ stream \in Streams
  /\ \A i \in 1..Len(stream.queue) : NotOlder(stream.queue[i])
  /\ stream.phase = "closed" => NotOlder(stream.ended)

StreamInv ==
  /\ InTurn /\ LatestOwn /\ QueueInv
  /\ stream.asked \in {0} \cup {r \in RebuildIds : pc[r] # "idle"}

\* A rebuild is not behind one that a client asked for.
LEMMA AskedBefore ==
  ASSUME StreamInv, Types, NEW r \in RebuildIds,
         IsRunning(r) \/ (pc[r] = "idle" /\ \A q \in RebuildIds : q < r => pc[q] = "over")
  PROVE  r >= stream.asked
<1>1. CASE stream.asked = 0
  BY <1>1 DEF RebuildIds
<1>2. CASE stream.asked # 0
  <2>1. stream.asked \in RebuildIds /\ pc[stream.asked] # "idle"
    BY <1>2 DEF StreamInv
  <2>2. r < stream.asked => pc[r] = "over"
    BY <2>1 DEF StreamInv, InTurn
  <2> QED BY <2>1, <2>2, Ranges DEF IsRunning, RebuildIds
<1> QED BY <1>1, <1>2

Queued(x, p) == [x EXCEPT !.queue = p]
ClosedWith(x, p, v) == [x EXCEPT !.phase = "closed", !.queue = p, !.ended = v]

\* A stream whose queue is replaced is a stream.
LEMMA Requeued ==
  ASSUME NEW Q, NEW V, NEW x \in StreamOf(Q, V), NEW p \in Q,
         NEW y, y = Queued(x, p)
  PROVE  /\ y \in StreamOf(Q, V) /\ y.queue = p
         /\ y.asked = x.asked /\ y.phase = x.phase /\ y.ended = x.ended
BY DEF StreamOf, Queued

\* So is one that is closed with an event.
LEMMA Closed ==
  ASSUME NEW Q, NEW V, NEW x \in StreamOf(Q, V), NEW p \in Q, NEW v \in V,
         NEW y, y = ClosedWith(x, p, v)
  PROVE  /\ y \in StreamOf(Q, V) /\ y.queue = p
         /\ y.asked = x.asked /\ y.phase = "closed" /\ y.ended = v
BY DEF StreamOf, ClosedWith

\* An event of the rebuild that runs fits into the stream.
LEMMA PublishStream ==
  ASSUME StreamInv, NEW r \in RebuildIds, NEW s \in Kinds,
         r >= stream.asked, Publish([of |-> r, status |-> s])
  PROVE  QueueInv' /\ stream'.asked = stream.asked /\ latest'.of = r
<1> DEFINE e == [of |-> r, status |-> s]
<1>1. stream \in Streams /\ e \in Events /\ e.of = r
  BY EventTypes DEF StreamInv, QueueInv
<1>2. PICK k \in {<<e>>, <<>>} :
        stream' = [stream EXCEPT !.queue = IF stream.phase = "open" THEN @ \o k ELSE @]
  BY DEF Publish, Told, Kept
<1>e. latest'.of = r
  BY DEF Publish
<1> HIDE DEF e
<1>3. CASE stream.phase = "open" /\ k = <<e>>
  <2>1. stream' = Queued(stream, Append(stream.queue, e))
    <3>1. stream.queue \o <<e>> = Append(stream.queue, e)
      BY <1>1 DEF Streams, StreamOf, Queues, Results
    <3> QED BY <1>2, <1>3, <3>1 DEF Queued
  <2>2. stream' \in Streams /\ stream'.queue = Append(stream.queue, e)
        /\ stream'.asked = stream.asked /\ stream'.phase = "open"
    <3>1. stream.queue \in Seq(Events)
      BY <1>1 DEF Streams, StreamOf, Queues, Results
    <3>2. Append(stream.queue, e) \in Queues
      BY <1>1, <3>1 DEF Queues
    <3>3. stream \in StreamOf(Queues, Results)
      BY <1>1 DEF Streams
    <3>4. ASSUME NEW n \in Queues, stream' = Queued(stream, n)
          PROVE  /\ stream' \in StreamOf(Queues, Results) /\ stream'.queue = n
                 /\ stream'.asked = stream.asked /\ stream'.phase = stream.phase
      BY <3>3, <3>4, Requeued
    <3> QED BY <1>3, <2>1, <3>2, <3>4 DEF Streams
  <2>3. \A i \in 1..Len(stream'.queue) : i = Len(stream.queue) + 1 \/ i \in 1..Len(stream.queue)
    BY <1>1, <2>2 DEF Streams, StreamOf, Queues, Results
  <2>4. /\ stream'.queue[Len(stream.queue) + 1] = e
        /\ \A i \in 1..Len(stream.queue) : stream'.queue[i] = stream.queue[i]
    BY <1>1, <2>2 DEF Streams, StreamOf, Queues, Results
  <2>5. \A i \in 1..Len(stream'.queue) : stream'.queue[i].of >= stream'.asked
    BY <1>1, <2>2, <2>3, <2>4 DEF StreamInv, QueueInv, NotOlder
  <2>6. QueueInv'
    BY <2>2, <2>5 DEF QueueInv, NotOlder
  <2> QED BY <1>e, <2>2, <2>6
<1>4. CASE ~(stream.phase = "open" /\ k = <<e>>)
  <2>1. stream' = stream
    <3>1. stream.queue \o <<>> = stream.queue
      BY <1>1 DEF Streams, StreamOf, Queues, Results
    <3> QED BY <1>1, <1>2, <1>4, <3>1 DEF Streams, StreamOf, Queues, Results
  <2> QED BY <1>e, <2>1 DEF StreamInv, QueueInv, NotOlder
<1> QED BY <1>3, <1>4

\* Where the rebuilds are changes, the stream does not.
LEMMA TurnKept ==
  ASSUME Types, StreamInv, NEW r \in RebuildIds,
         IsRunning(r), NEW p \in Pcs \ {"idle"}, pc' = [pc EXCEPT ![r] = p],
         \/ UNCHANGED <<latest, stream>>
         \/ \E s \in Kinds : Publish([of |-> r, status |-> s])
  PROVE  StreamInv'
<1>1. pc'[r] = p /\ \A q \in RebuildIds \ {r} : pc'[q] = pc[q]
  BY DEF Types, TypeOK
<1>2. InTurn'
  BY <1>1 DEF StreamInv, InTurn, IsRunning
<1>3. QueueInv' /\ stream'.asked = stream.asked /\ latest'.of = r
  <2>1. CASE UNCHANGED <<latest, stream>>
    BY <2>1 DEF StreamInv, QueueInv, NotOlder, LatestOwn
  <2>2. CASE \E s \in Kinds : Publish([of |-> r, status |-> s])
    BY <2>2, AskedBefore, PublishStream
  <2> QED BY <2>1, <2>2
<1>4. LatestOwn'
  <2>1. ASSUME NEW q \in RebuildIds, q # r, IsRunning(q) PROVE FALSE
    <3>1. q < r \/ r < q
      BY <2>1, Ranges
    <3> QED BY <2>1, <3>1 DEF StreamInv, InTurn, IsRunning
  <2> QED BY <1>1, <1>3, <2>1 DEF LatestOwn, IsRunning
<1>5. stream'.asked \in {0} \cup {q \in RebuildIds : pc'[q] # "idle"}
  BY <1>1, <1>3 DEF StreamInv
<1> QED BY <1>2, <1>3, <1>4, <1>5 DEF StreamInv

\* A rebuild announces itself before its task starts.
LEMMA PostStream ==
  ASSUME Types, StreamInv, NEW r \in RebuildIds, Post(r)
  PROVE  StreamInv'
<1>1. /\ pc[r] = "idle" /\ (\A q \in RebuildIds : q < r => pc[q] = "over")
      /\ Publish([of |-> r, status |-> "progress"])
      /\ pc'[r] = "queued" /\ \A q \in RebuildIds \ {r} : pc'[q] = pc[q]
  BY DEF Post, Step, Announced, Types, TypeOK
<1>2. \A q \in RebuildIds : r < q => pc[q] = "idle"
  BY <1>1 DEF StreamInv, InTurn
<1>3. QueueInv' /\ stream'.asked = stream.asked /\ latest'.of = r
  BY <1>1, AskedBefore, PublishStream DEF Kinds
<1>4. \A q \in RebuildIds \ {r} : pc'[q] \in {"idle", "over"} /\ (q < r \/ r < q)
  BY <1>1, <1>2, Ranges
<1>5. InTurn' /\ LatestOwn'
  BY <1>1, <1>2, <1>3, <1>4, Ranges DEF InTurn, LatestOwn, IsRunning
<1>6. stream'.asked \in {0} \cup {q \in RebuildIds : pc'[q] # "idle"}
  BY <1>1, <1>3 DEF StreamInv
<1> QED BY <1>3, <1>5, <1>6 DEF StreamInv

\* Every step of a rebuild publishes events of its own, or none.
LEMMA RebuildStream ==
  ASSUME Types, StreamInv, NEW r \in RebuildIds,
         Proceed(r) \/ Compensate(r) \/ Raises(r) \/ Cancel(r)
  PROVE  StreamInv'
<1>1. PICK p \in Pcs \ {"idle"} : pc' = [pc EXCEPT ![r] = p]
  <2>1. CASE \E d \in Docs : Embed(r, d)
    <3>1. pc[r] = "embed" /\ pc' = pc
      BY <2>1 DEF Embed
    <3>2. pc' = [pc EXCEPT ![r] = "embed"]
      BY <3>1 DEF Types, TypeOK
    <3> QED BY <3>2, Ranges
  <2>2. CASE ~ \E d \in Docs : Embed(r, d)
    BY <2>2, Ranges DEF Proceed, Compensate, Raises, Cancel, Step, Prepare, Copy, Create,
       SwitchPointer, SwitchTables, DropOld, UpdateRows, Complete, Refuse, Fail, Unlock
  <2> QED BY <2>1, <2>2
<1>2. IsRunning(r)
  BY DEF Proceed, Compensate, Raises, Cancel, Step, Prepare, Copy, Embed, Create, SwitchPointer,
     SwitchTables, DropOld, UpdateRows, Complete, Refuse, Fail, Unlock, IsRunning, Running,
     Embedding, Switching, Ending
<1>3. \/ UNCHANGED <<latest, stream>>
      \/ \E s \in Kinds : Publish([of |-> r, status |-> s])
  BY DEF Proceed, Compensate, Raises, Cancel, Prepare, Copy, Embed, Create, SwitchPointer,
     SwitchTables, DropOld, UpdateRows, Complete, Refuse, Fail, Unlock, Report, Kinds, eventVars
<1> QED BY <1>1, <1>2, <1>3, TurnKept

\* A stream that is opened asks for the rebuild that runs, and starts with its
\* latest event.
LEMMA OpenStream ==
  ASSUME Types, StreamInv, Open
  PROVE  StreamInv'
<1>1. UNCHANGED <<pc, latest>>
  BY DEF Open, workVars
<1>2. InTurn' /\ LatestOwn'
  BY <1>1 DEF StreamInv, InTurn, LatestOwn, IsRunning
<1>3. result \in Events \cup {NoEvent} /\ latest \in Events \cup {NoEvent}
  BY DEF Types, TypeOK
<1>4. \A e \in Events \cup {NoEvent} : e.of \in Int /\ e.of >= 0
  BY Ranges DEF Events, NoEvent, RebuildIds
<1>5. Kept(latest) \in Seq(Events) /\ \A i \in 1..Len(Kept(latest)) : Kept(latest)[i] = latest
  <2>1. CASE Terminal(latest)
    <3>1. latest \in Events
      BY <1>3, <2>1 DEF Terminal, NoEvent
    <3> QED BY <2>1, <3>1 DEF Kept
  <2>2. CASE ~Terminal(latest)
    BY <2>2 DEF Kept
  <2> QED BY <2>1, <2>2
<1>6. CASE result # NoEvent /\ ~locked
  <2>1. stream' = [phase |-> "closed", queue |-> <<>>, asked |-> 0, ended |-> result]
    BY <1>6 DEF Open, NoStream
  <2>2. QueueInv' /\ stream'.asked = 0
    BY <1>3, <1>4, <2>1 DEF QueueInv, Streams, StreamOf, Queues, Results, NotOlder
  <2> QED BY <1>2, <2>2 DEF StreamInv
<1>7. CASE ~(result # NoEvent /\ ~locked)
  <2>1. PICK a \in Int : stream' = [phase |-> "open", queue |-> Kept(latest), asked |-> a,
                                    ended |-> NoEvent]
                         /\ (a = 0 \/ (SomeRunning /\ a = Current))
    <3>1. SomeRunning => Current \in RebuildIds
      BY DEF SomeRunning, Current
    <3> DEFINE a == IF locked /\ SomeRunning THEN Current ELSE 0
    <3>2. a \in Int /\ (a = 0 \/ (SomeRunning /\ a = Current))
      <4>1. CASE locked /\ SomeRunning
        BY <3>1, <4>1, Ranges
      <4>2. CASE ~(locked /\ SomeRunning)
        BY <4>2
      <4> QED BY <4>1, <4>2
    <3>3. stream' = [NoStream EXCEPT !.phase = "open", !.queue = Kept(latest), !.asked = a]
      BY <1>7 DEF Open
    <3>4. stream' = [phase |-> "open", queue |-> Kept(latest), asked |-> a, ended |-> NoEvent]
      BY <3>3 DEF NoStream
    <3> QED BY <3>2, <3>4
  <2>2. a = 0 \/ (a \in RebuildIds /\ IsRunning(a))
    BY <2>1 DEF SomeRunning, Current, IsRunning
  <2>3. latest.of >= a
    BY <1>3, <1>4, <2>2 DEF StreamInv, LatestOwn
  <2>4. stream' \in Streams /\ stream'.queue = Kept(latest) /\ stream'.asked = a
        /\ stream'.phase = "open"
    BY <1>5, <2>1 DEF Streams, StreamOf, Queues, Results
  <2>5. QueueInv'
    BY <1>5, <2>3, <2>4 DEF QueueInv, NotOlder
  <2>6. stream'.asked \in {0} \cup {r \in RebuildIds : pc'[r] # "idle"}
    BY <1>1, <2>2, <2>4 DEF IsRunning
  <2> QED BY <1>2, <2>5, <2>6 DEF StreamInv
<1> QED BY <1>6, <1>7

\* What is delivered was waiting.
LEMMA DeliverStream ==
  ASSUME StreamInv, Deliver
  PROVE  StreamInv'
<1>1. UNCHANGED <<pc, latest>>
  BY DEF Deliver, workVars
<1>2. stream \in Streams /\ stream.queue # <<>> /\ stream.queue \in Seq(Events)
  BY DEF Deliver, StreamInv, QueueInv, Streams, StreamOf, Queues, Results
<1>3. /\ 1 \in 1..Len(stream.queue) /\ stream.queue[1] \in Events
      /\ Head(stream.queue) = stream.queue[1]
  BY <1>2
<1>4. stream' = ClosedWith(stream, <<>>, Head(stream.queue))
  BY DEF Deliver, ClosedWith
<1>5. /\ stream' \in Streams /\ stream'.queue = <<>> /\ stream'.asked = stream.asked
      /\ stream'.ended = stream.queue[1]
  <2>1. <<>> \in Queues
    BY DEF Queues
  <2>2. stream.queue[1] \in Results /\ stream' = ClosedWith(stream, <<>>, stream.queue[1])
    BY <1>3, <1>4 DEF Results
  <2>3. stream \in StreamOf(Queues, Results)
    BY <1>2 DEF Streams
  <2>4. /\ stream' \in StreamOf(Queues, Results) /\ stream'.queue = <<>>
        /\ stream'.asked = stream.asked /\ stream'.ended = stream.queue[1]
    BY <2>1, <2>2, <2>3, Closed
  <2> QED BY <2>4 DEF Streams
<1>6. QueueInv'
  BY <1>3, <1>5 DEF StreamInv, QueueInv, NotOlder
<1> QED BY <1>1, <1>5, <1>6 DEF StreamInv, InTurn, LatestOwn, IsRunning

\* Every step keeps the invariant of the stream.
LEMMA NextStream == Types /\ StreamInv /\ [Next]_vars => StreamInv'
<1> SUFFICES ASSUME Types, StreamInv, [Next]_vars PROVE StreamInv'
  OBVIOUS
<1>1. CASE UNCHANGED <<pc, latest, stream>>
  BY <1>1 DEF StreamInv, InTurn, LatestOwn, QueueInv, NotOlder, IsRunning
<1>2. ASSUME NEW r \in RebuildIds,
             Post(r) \/ Proceed(r) \/ Compensate(r) \/ Raises(r) \/ Cancel(r)
      PROVE  StreamInv'
  BY <1>2, PostStream, RebuildStream
<1>3. CASE Crash
  <2>1. /\ stream' = NoStream
        /\ \A r \in RebuildIds : pc'[r] = (IF pc[r] = "idle" THEN "idle" ELSE "over")
    BY <1>3 DEF Crash
  <2>2. QueueInv' /\ stream'.asked = 0
    BY <2>1 DEF QueueInv, Streams, StreamOf, Queues, Results, NoStream, NotOlder
  <2>3. InTurn' /\ LatestOwn'
    BY <2>1 DEF StreamInv, InTurn, LatestOwn, IsRunning
  <2> QED BY <2>2, <2>3 DEF StreamInv
<1> QED BY <1>1, <1>2, <1>3, OpenStream, DeliverStream
        DEF Next, Upload, Reprocess, Delete, Ingest, Skip, Parse, CleanUp, Write, Seal, GiveUp,
            ClearVectors, ClearDrop, ClearRows, eventVars, workVars, quietVars, vars

\* A stream opened while a rebuild runs never ends with the result of an earlier
\* one.
THEOREM OwnOutcome == Spec => []StreamOfOwnRun
<1>1. Init => StreamInv
  BY DEF Init, StreamInv, InTurn, LatestOwn, QueueInv, Streams, StreamOf, Queues, Results,
         NoStream, NotOlder, IsRunning
<1>2. StreamInv => StreamOfOwnRun
  BY DEF StreamInv, QueueInv, NotOlder, StreamOfOwnRun
<1> QED BY <1>1, <1>2, InitTypes, NextTypes, NextStream, PTL DEF Spec
=============================================================================
