----------------------------- MODULE ContextProofs -----------------------------
(***************************************************************************)
(* What the model is shown and what it has forgotten, for any conversation *)
(* and any number of turns, calls, attempts and runs again.                *)
(*                                                                         *)
(* The summary (Compaction).  A job merges into what it loaded, so what it *)
(* writes can only lose what others merged in between.  The version rises  *)
(* with every merge, and so a job whose version still holds has loaded     *)
(* just what is stored.                                                    *)
(*                                                                         *)
(* The sources of a question (ToolTurn).  Every pass of the pruning is a   *)
(* fold that takes sources in hand, each of them once, and puts what it    *)
(* takes behind what is there.  So the source that each search gets first  *)
(* survives the cut if there is room for those of all searches, which the  *)
(* source limit counts.                                                    *)
(***************************************************************************)
EXTENDS Compaction, ToolTurn, FiniteSetTheorems, SequenceTheorems,
        WellFoundedInduction, TLAPS

-----------------------------------------------------------------------------
(* Folds                                                                     *)

\* Induction up to n: a set that holds 0, and with i - 1 also i, holds n.
LEMMA UpTo ==
  ASSUME NEW n \in Nat, NEW S, 0 \in S, \A i \in 1..n : i - 1 \in S => i \in S
  PROVE  \A i \in 0..n : i \in S
<1> DEFINE T == (0..n) \ S
<1> SUFFICES ASSUME T # {} PROVE FALSE
  OBVIOUS
<1>1. T \subseteq Nat
  OBVIOUS
<1>2. PICK x \in T : \A y \in T : ~(<<y, x>> \in OpToRel(<, Nat))
  <2> HIDE DEF T
  <2> QED BY <1>1, NatLessThanWellFounded, WFMin
<1>3. \A y \in T : ~(y < x)
  BY <1>1, <1>2 DEF OpToRel
<1>4. x \in 1..n /\ x - 1 \in 0..n /\ x - 1 < x
  OBVIOUS
<1>5. x - 1 \in S
  BY <1>3, <1>4
<1> QED BY <1>4, <1>5

\* Max yields the largest number of a set that has one.
LEMMA MaxIs ==
  ASSUME NEW S \in SUBSET Int, NEW m \in S, \A x \in S : m >= x
  PROVE  Max(S) = m
<1>1. \A x \in S : (\A y \in S : x >= y) => x = m
  OBVIOUS
<1> QED BY <1>1 DEF Max

LEMMA MaxExists ==
  ASSUME NEW n \in Nat, NEW S \in SUBSET (1..n), S # {}
  PROVE  Max(S) \in S /\ \A x \in S : x <= Max(S)
<1> DEFINE T == {i \in 0..n : \A X \in SUBSET (1..i) : X # {} =>
                   \E m \in X : \A x \in X : x <= m}
<1>1. 0 \in T
  <2>1. 1..0 = {} /\ 0 \in 0..n
    OBVIOUS
  <2> QED BY <2>1
<1>2. ASSUME NEW i \in 1..n, i - 1 \in T PROVE i \in T
  <2>1. ASSUME NEW X \in SUBSET (1..i), X # {}
        PROVE  \E m \in X : \A x \in X : x <= m
    <3>1. \A x \in X : x \in 1..i
      OBVIOUS
    <3>2. CASE i \in X
      BY <3>1, <3>2
    <3>3. CASE i \notin X
      <4>1. X \in SUBSET (1..(i - 1))
        BY <3>1, <3>3
      <4> QED BY <1>2, <2>1, <4>1
    <3> QED BY <3>2, <3>3
  <2> QED BY <2>1
<1>3. n \in T
  <2> HIDE DEF T
  <2>1. \A i \in 0..n : i \in T
    BY <1>1, <1>2, UpTo
  <2> QED BY <2>1
<1>4. PICK m \in S : \A x \in S : x <= m
  BY <1>3
<1>5. S \in SUBSET Int /\ \A x \in S : m >= x
  BY <1>4
<1> QED BY <1>4, <1>5, MaxIs

\* A fold: a function over the sets of the first n numbers that takes the largest
\* number out of a set, as long as there is one.
IsFold(g, n, V, base, step) ==
  /\ g \in [SUBSET (1..n) -> V]
  /\ \A t \in SUBSET (1..n) :
       g[t] = IF t = {} THEN base ELSE step[<<Max(t), g[t \ {Max(t)}]>>]

LEMMA FoldExists ==
  ASSUME NEW n \in Nat, NEW V, NEW base \in V, NEW step \in [(1..n) \X V -> V]
  PROVE  \E g : IsFold(g, n, V, base, step)
<1> DEFINE Runs(m, g) == \A t \in SUBSET (1..m) :
             g[t] = IF t = {} THEN base ELSE step[<<Max(t), g[t \ {Max(t)}]>>]
           S == {m \in 0..n : \E g \in [SUBSET (1..m) -> V] : Runs(m, g)}
<1>1. 0 \in S
  <2> DEFINE g == [t \in SUBSET (1..0) |-> base]
  <2>1. g \in [SUBSET (1..0) -> V] /\ Runs(0, g)
    OBVIOUS
  <2> HIDE DEF g, Runs
  <2>2. \E f \in [SUBSET (1..0) -> V] : Runs(0, f)
    BY <2>1
  <2>3. 0 \in 0..n
    OBVIOUS
  <2> QED BY <2>2, <2>3, Zenon
<1>2. ASSUME NEW m \in 1..n, m - 1 \in S PROVE m \in S
  <2>1. PICK g \in [SUBSET (1..(m - 1)) -> V] : Runs(m - 1, g)
    BY <1>2
  <2> DEFINE h == [t \in SUBSET (1..m) |-> IF m \in t THEN step[<<m, g[t \ {m}]>>] ELSE g[t]]
  <2>2. ASSUME NEW t \in SUBSET (1..m), m \in t
        PROVE  /\ t \ {m} \in SUBSET (1..(m - 1)) /\ t \ {m} \in SUBSET (1..m)
               /\ Max(t) = m /\ h[t] \in V
               /\ h[t] = step[<<m, h[t \ {m}]>>]
    <3>1. t \ {m} \in SUBSET (1..(m - 1)) /\ t \ {m} \in SUBSET (1..m)
      <4>1. \A x \in t \ {m} : x \in 1..(m - 1)
        <5>1. m \in Int /\ \A x \in t : x \in 1..m
          OBVIOUS
        <5> QED BY <5>1
      <4> QED BY <4>1
    <3>2. Max(t) = m
      BY <2>2, MaxIs
    <3>3. g[t \ {m}] \in V /\ m \in 1..n
      BY <3>1
    <3>4. <<m, g[t \ {m}]>> \in (1..n) \X V
      BY <3>3
    <3>5. h[t] = step[<<m, g[t \ {m}]>>] /\ h[t \ {m}] = g[t \ {m}]
      BY <2>2, <3>1
    <3> QED BY <3>1, <3>2, <3>4, <3>5
  <2>3. ASSUME NEW t \in SUBSET (1..m), m \notin t
        PROVE  /\ h[t] = g[t] /\ t \in SUBSET (1..(m - 1))
               /\ h[t \ {Max(t)}] = g[t \ {Max(t)}] /\ h[t] \in V
    <3>1. t \in SUBSET (1..(m - 1))
      BY <2>3
    <3>2. t \ {Max(t)} \in SUBSET (1..(m - 1)) /\ m \notin t \ {Max(t)}
          /\ t \ {Max(t)} \in SUBSET (1..m)
      BY <2>3, <3>1
    <3> QED BY <2>3, <3>1, <3>2
  <2>4. h \in [SUBSET (1..m) -> V]
    <3> HIDE DEF h
    <3>1. \A t \in SUBSET (1..m) : h[t] \in V
      BY <2>2, <2>3
    <3> QED BY <3>1 DEF h
  <2>5. Runs(m, h)
    <3> SUFFICES ASSUME NEW t \in SUBSET (1..m)
                 PROVE  h[t] = IF t = {} THEN base ELSE step[<<Max(t), h[t \ {Max(t)}]>>]
      OBVIOUS
    <3> HIDE DEF h
    <3>1. CASE m \in t
      BY <2>2, <3>1
    <3>2. CASE m \notin t
      BY <2>1, <2>3, <3>2
    <3> QED BY <3>1, <3>2
  <2> HIDE DEF h, Runs
  <2>6. \E f \in [SUBSET (1..m) -> V] : Runs(m, f)
    BY <2>4, <2>5
  <2> QED BY <2>6
<1>3. n \in S
  <2> HIDE DEF S
  <2>1. \A i \in 0..n : i \in S
    BY <1>1, <1>2, UpTo
  <2> QED BY <2>1
<1>4. PICK g \in [SUBSET (1..n) -> V] : Runs(n, g)
  BY <1>3
<1> QED BY <1>4 DEF IsFold

\* The steps of a fold, one number after another.
LEMMA FoldSteps ==
  ASSUME NEW n \in Nat, NEW g, NEW i \in 1..n
  PROVE  /\ 1..0 = {} /\ 1..i # {} /\ Max(1..i) = i /\ (1..i) \ {i} = 1..(i - 1)
         /\ 1..i \in SUBSET (1..n) /\ 1..(i - 1) \in SUBSET (1..n)
<1>1. Max(1..i) = i
  <2>1. i \in 1..i /\ (1..i) \in SUBSET Int /\ \A x \in 1..i : i >= x
    OBVIOUS
  <2> QED BY <2>1, MaxIs
<1>2. (1..i) \ {i} = 1..(i - 1)
  OBVIOUS
<1>3. 1..i \in SUBSET (1..n) /\ 1..(i - 1) \in SUBSET (1..n)
  <2>1. \A x \in 1..i : x \in 1..n
    OBVIOUS
  <2>2. \A x \in 1..(i - 1) : x \in 1..n
    OBVIOUS
  <2> QED BY <2>1, <2>2
<1>4. 1..0 = {} /\ i \in 1..i
  OBVIOUS
<1> QED BY <1>1, <1>2, <1>3, <1>4

\* The values of a fold, one number after another.
IsRun(r, n, V, base, step) ==
  /\ r \in [0..n -> V] /\ r[0] = base
  /\ \A i \in 1..n : r[i] = step[<<i, r[i - 1]>>]

\* What is known of the function that a fold chooses: it follows the steps.
Follows(h, n, V, base, step) ==
  /\ h[{}] = base
  /\ \A t \in SUBSET (1..n) :
       t # {} /\ h[t \ {Max(t)}] \in V => h[t] = step[<<Max(t), h[t \ {Max(t)}]>>]

LEMMA FoldRun ==
  ASSUME NEW n \in Nat, NEW V, NEW base \in V, NEW step \in [(1..n) \X V -> V], NEW h,
         Follows(h, n, V, base, step)
  PROVE  IsRun([i \in 0..n |-> h[1..i]], n, V, base, step)
<1> USE DEF Follows
<1> DEFINE S == {i \in 0..n : h[1..i] \in V}
<1>1. h[1..0] = base /\ 0 \in 0..n
  <2>1. 1..0 = {}
    OBVIOUS
  <2> QED BY <2>1
<1>2. ASSUME NEW i \in 1..n, h[1..(i - 1)] \in V
      PROVE  h[1..i] = step[<<i, h[1..(i - 1)]>>] /\ h[1..i] \in V
  <2>1. 1..i # {} /\ Max(1..i) = i /\ (1..i) \ {i} = 1..(i - 1) /\ 1..i \in SUBSET (1..n)
    BY FoldSteps
  <2>2. h[(1..i) \ {Max(1..i)}] = h[1..(i - 1)]
    BY <2>1, Zenon
  <2>3. h[1..i] = step[<<Max(1..i), h[(1..i) \ {Max(1..i)}]>>]
    BY <1>2, <2>1, <2>2, Zenon
  <2>4. h[1..i] = step[<<i, h[1..(i - 1)]>>]
    BY <2>1, <2>2, <2>3, Zenon
  <2> QED BY <1>2, <2>4
<1>3. 0 \in S
  BY <1>1
<1>4. ASSUME NEW i \in 1..n, i - 1 \in S PROVE i \in S
  <2>1. h[1..(i - 1)] \in V /\ i \in 0..n
    BY <1>4
  <2> QED BY <1>2, <2>1
<1>5. \A i \in 0..n : i \in S
  <2> HIDE DEF S
  <2> QED BY <1>3, <1>4, UpTo
<1> DEFINE r == [i \in 0..n |-> h[1..i]]
<1>6. r \in [0..n -> V]
  BY <1>5
<1>7. r[0] = base
  BY <1>1
<1>8. ASSUME NEW i \in 1..n PROVE r[i] = step[<<i, r[i - 1]>>]
  <2>1. i - 1 \in 0..n /\ i \in 0..n
    OBVIOUS
  <2>2. h[1..(i - 1)] \in V
    BY <1>5, <2>1
  <2> QED BY <1>2, <2>1, <2>2
<1> QED BY <1>6, <1>7, <1>8 DEF IsRun

LEMMA SeqDomain == ASSUME NEW E, NEW s \in Seq(E)
                   PROVE  DOMAIN s = 1..Len(s) /\ Len(s) \in Nat /\ \A i \in 1..Len(s) : s[i] \in E
OBVIOUS

-----------------------------------------------------------------------------
(* Merges                                                                    *)

\* What job k loaded, next to what is stored now.
FreshLoad(k) ==
  job[k].pc = "loaded" /\ alive =>
    /\ job[k].seen.version \in Nat
    /\ job[k].seen.version <= stored.version
    /\ job[k].seen.version = stored.version => job[k].seen = stored

Loaded ==
  /\ stored.version \in Nat
  /\ DOMAIN job = Keys
  /\ \A k \in Keys : FreshLoad(k)

LEMMA InitLoaded == Init => Loaded
BY DEF Init, Loaded, FreshLoad, Nothing, NoJob

\* A step that leaves the summary alone and gives no job a load leaves the loads fresh.
LEMMA SummaryLeft ==
  ASSUME Loaded, stored' = stored, alive' => alive, DOMAIN job' = Keys,
         \A k \in Keys : job'[k].pc = "loaded" => job'[k] = job[k]
  PROVE  Loaded'
BY DEF Loaded, FreshLoad

\* A merge leaves every other load behind.
LEMMA WriteLoaded ==
  ASSUME Loaded, NEW k \in Keys, Write(k)
  PROVE  Loaded' /\ stored.folded \subseteq stored'.folded
<1>1. /\ job[k].pc = "loaded" /\ alive /\ stored.version = job[k].seen.version
      /\ stored' = Merged(k, job[k].seen)
      /\ job' = [job EXCEPT ![k] = [NoJob EXCEPT !.pc = "written"]]
      /\ alive' = alive
  BY DEF Write, VersionHolds
<1>2. job[k].seen.folded = stored.folded /\ stored.version \in Nat
  BY <1>1 DEF Loaded, FreshLoad
<1>3. stored'.version = stored.version + 1 /\ stored'.folded = job[k].seen.folded \cup k
  BY <1>1 DEF Merged
<1>4. job'[k].pc = "written" /\ DOMAIN job' = Keys
  BY <1>1 DEF Loaded, NoJob
<1>5. ASSUME NEW m \in Keys PROVE FreshLoad(m)'
  <2>1. CASE m = k
    BY <1>4, <2>1 DEF FreshLoad
  <2>2. CASE m # k
    <3>1. job'[m] = job[m]
      BY <1>1, <2>2 DEF Loaded
    <3>2. FreshLoad(m)
      BY DEF Loaded
    <3> QED BY <1>1, <1>2, <1>3, <3>1, <3>2 DEF FreshLoad
  <2> QED BY <2>1, <2>2
<1> QED BY <1>2, <1>3, <1>4, <1>5 DEF Loaded

LEMMA StepLoaded == Loaded /\ [Next]_vars => Loaded'
<1> SUFFICES ASSUME Loaded, [Next]_vars PROVE Loaded'
  OBVIOUS
<1>1. ASSUME NEW t \in Turns, Ask(t) \/ Store(t) \/ LoadContext(t) \/ Finish(t)
      PROVE  Loaded'
  <2>1. UNCHANGED <<stored, alive, job>>
    BY <1>1 DEF Ask, Store, LoadContext, Finish
  <2> QED BY <2>1 DEF Loaded, FreshLoad
<1>2. ASSUME NEW t \in Turns, Request(t) PROVE Loaded'
  <2>1. PICK n \in 0..Final :
          job' = [k \in Keys |->
                    IF k = Pending(Dropped(t, n), turn[t].ctx) /\ job[k].pc = "none"
                    THEN [NoJob EXCEPT !.pc = "queued"] ELSE job[k]]
    BY <1>2 DEF Request
  <2>2. \A k \in Keys : job'[k].pc = "loaded" => job'[k] = job[k]
    BY <2>1 DEF NoJob
  <2>3. UNCHANGED <<stored, alive>> /\ DOMAIN job' = Keys
    BY <1>2, <2>1 DEF Request
  <2> QED BY <2>2, <2>3, SummaryLeft
<1>3. ASSUME NEW k \in Keys, Load(k) PROVE Loaded'
  <2>1. /\ UNCHANGED <<stored, alive>> /\ DOMAIN job' = Keys
        /\ \A m \in Keys \ {k} : job'[m] = job[m]
    BY <1>3 DEF Load, Loaded
  <2>2. job'[k].pc = "loaded" => job'[k].seen = stored
    BY <1>3 DEF Load, Loaded, NoJob
  <2> QED BY <2>1, <2>2 DEF Loaded, FreshLoad
<1>4. ASSUME NEW k \in Keys, Conflict(k) \/ Record(k) \/ Again(k) PROVE Loaded'
  <2>1. /\ UNCHANGED <<stored, alive>> /\ DOMAIN job' = Keys
        /\ \A m \in Keys \ {k} : job'[m] = job[m]
    BY <1>4 DEF Conflict, Record, Again, Loaded
  <2>2. job'[k].pc # "loaded"
    BY <1>4 DEF Conflict, Record, Again, Loaded, NoJob
  <2> QED BY <2>1, <2>2, SummaryLeft
<1>5. ASSUME NEW k \in Keys, Write(k) PROVE Loaded'
  BY <1>5, WriteLoaded
<1>6. CASE Crash
  <2>1. /\ UNCHANGED <<stored, alive>> /\ DOMAIN job' = Keys
        /\ \A k \in Keys : job'[k].pc = "loaded" => job'[k] = job[k]
    BY <1>6 DEF Crash, NoJob
  <2> QED BY <2>1, SummaryLeft
<1>7. CASE DeleteConversation
  BY <1>7 DEF DeleteConversation, Loaded, FreshLoad, Nothing
<1>8. CASE UNCHANGED vars
  BY <1>8 DEF vars, Loaded, FreshLoad
<1> QED BY <1>1, <1>2, <1>3, <1>4, <1>5, <1>6, <1>7, <1>8 DEF Next

LEMMA StepKeeps == Loaded /\ [Next]_vars => [alive' => stored.folded \subseteq stored'.folded]_stored
<1> SUFFICES ASSUME Loaded, Next, alive' PROVE stored' = stored \/ stored.folded \subseteq stored'.folded
  BY DEF vars
<1>1. ASSUME NEW k \in Keys, Write(k) PROVE stored.folded \subseteq stored'.folded
  BY <1>1, WriteLoaded
<1>2. ASSUME NEW t \in Turns, Ask(t) \/ Store(t) \/ LoadContext(t) \/ Request(t) \/ Finish(t)
      PROVE  stored' = stored
  <2>1. ASSUME Ask(t) \/ Store(t) \/ LoadContext(t) PROVE stored' = stored
    BY <2>1, Zenon DEF Ask, Store, LoadContext
  <2>2. ASSUME Request(t) \/ Finish(t) PROVE stored' = stored
    BY <2>2, Zenon DEF Request, Finish
  <2> QED BY <1>2, <2>1, <2>2
<1>3. ASSUME NEW k \in Keys, Load(k) \/ Conflict(k) \/ Record(k) \/ Again(k)
      PROVE  stored' = stored
  BY <1>3, Zenon DEF Load, Conflict, Record, Again
<1>4. CASE Crash
  BY <1>4, Zenon DEF Crash
<1>5. CASE DeleteConversation
  BY <1>5, Zenon DEF DeleteConversation
<1> HIDE DEF Keys, Turns
<1> QED BY <1>1, <1>2, <1>3, <1>4, <1>5, Zenon DEF Next

\* Whatever turns and jobs overlap, run twice or are cut off by a crash, what went
\* into the summary stays in it as long as the conversation exists
\* (compact_working_context of agent/context_state.py).
THEOREM SummaryKept == Spec => MergesKept
<1>1. Loaded /\ [Next]_vars => Loaded'
  BY StepLoaded
<1>2. Spec => [][alive' => stored.folded \subseteq stored'.folded]_stored
  BY InitLoaded, <1>1, StepKeeps, PTL DEF Spec
<1> QED BY <1>2 DEF MergesKept
-----------------------------------------------------------------------------
(***************************************************************************)
(* What was cut from a prompt is known.  The watermark of the summary is   *)
(* the number of a message, and all messages up to it were merged          *)
(* (StoredOk): a job merges all that is posted up to its last message or   *)
(* what is merged already (JobOk), because a turn leaves out of a job only *)
(* what the summary it loaded has (CtxOk), and messages are posted in the  *)
(* order of their numbers (Ordered).                                       *)
(***************************************************************************)
Lists(A) == {l \in Seq(A) : Len(l) <= Limit}

LEMMA ListsFacts ==
  ASSUME NEW A, NEW l \in Lists(A)
  PROVE  /\ ToSet(l) \subseteq A /\ Len(l) <= Limit /\ l \in Seq(A)
         /\ \A B : A \subseteq B => l \in Lists(B)
<1>1. l \in Seq(A) /\ Len(l) <= Limit
  BY DEF Lists
<1>2. ToSet(l) \subseteq A
  BY <1>1 DEF ToSet
<1>3. \A B : A \subseteq B => l \in Lists(B)
  BY <1>1 DEF Lists
<1> QED BY <1>1, <1>2, <1>3

\* One id more in the list, or the list as it was.
LEMMA AppendedList ==
  ASSUME NEW A, NEW l \in Lists(A), NEW i \in A
  PROVE  AppendUnique(l, i) \in Lists(A)
<1>1. l \in Seq(A) /\ Len(l) \in Nat /\ Len(l) <= Limit /\ Limit \in Nat \ {0}
  BY CompactionAssumption DEF Lists
<1> DEFINE more == Append(l, i)
<1>2. more \in Seq(A) /\ Len(more) = Len(l) + 1
  BY <1>1
<1>3. Tail(more) \in Seq(A) /\ Len(Tail(more)) = Len(l)
  <2> HIDE DEF more
  <2>1. more # <<>>
    BY <1>1, <1>2
  <2> QED BY <1>1, <1>2, <2>1
<1> HIDE DEF more
<1>4. (IF Len(more) > Limit THEN Tail(more) ELSE more) \in Lists(A)
  BY <1>1, <1>2, <1>3 DEF Lists
<1> QED BY <1>4 DEF AppendUnique, more

\* The list holds ids that were in it and ids that were merged, and keeps its bound.
LEMMA ListedIn ==
  ASSUME NEW A, NEW ids \in Lists(A), NEW k \in SUBSET Messages
  PROVE  Listed(ids, k) \in Lists(A \cup k)
<1> DEFINE V == Lists(A \cup k)
           s == [i \in Messages |-> i]
           op(l, i) == IF i \in k THEN AppendUnique(l, i) ELSE l
           step == [p \in (1..Final) \X V |-> op(p[2], s[p[1]])]
<1>1. Final \in Nat /\ Messages = 1..Final /\ DOMAIN s = 1..Final
  BY CompactionAssumption DEF Messages
<1>2. ids \in V
  BY ListsFacts
<1>3. \A l \in V, i \in 1..Final : op(l, s[i]) \in V
  <2>1. \A i \in 1..Final : s[i] = i
    BY <1>1
  <2>2. ASSUME NEW l \in Lists(A \cup k), NEW i \in k PROVE AppendUnique(l, i) \in Lists(A \cup k)
    <3>1. i \in A \cup k
      OBVIOUS
    <3> QED BY <3>1, AppendedList
  <2> QED BY <2>1, <2>2
<1> HIDE DEF V, s, op
<1>4. /\ step \in [(1..Final) \X V -> V]
      /\ \A l \in V, i \in 1..Final : step[<<i, l>>] = op(l, s[i])
  BY <1>3
<1> HIDE DEF step
<1>5. PICK g : IsFold(g, Final, V, ids, step)
  <2>1. Final \in Nat
    BY <1>1
  <2> QED BY <2>1, <1>2, <1>4, FoldExists
<1>6. g = [t \in SUBSET (1..Final) |-> IF t = {} THEN ids ELSE op(g[t \ {Max(t)}], s[Max(t)])]
  <2>1. \A t \in SUBSET (1..Final) : t # {} => Max(t) \in 1..Final /\ t \ {Max(t)} \in SUBSET (1..Final)
    BY <1>1, MaxExists
  <2>2. g \in [SUBSET (1..Final) -> V]
    BY <1>5 DEF IsFold
  <2>3. \A t \in SUBSET (1..Final) : t # {} => g[t] = op(g[t \ {Max(t)}], s[Max(t)])
    <3> QED BY <1>4, <1>5, <2>1, <2>2 DEF IsFold
  <2>4. g[{}] = ids
    BY <1>5 DEF IsFold
  <2> QED BY <2>2, <2>3, <2>4
<1>7. PICK h : /\ Listed(ids, k) = h[1..Final]
               /\ h = [t \in SUBSET (1..Final) |-> IF t = {} THEN ids ELSE op(h[t \ {Max(t)}], s[Max(t)])]
  <2>1. g = [t \in SUBSET DOMAIN s |->
              IF t = {} THEN ids
              ELSE IF s[Max(t)] \in k THEN AppendUnique(g[t \ {Max(t)}], s[Max(t)])
                   ELSE g[t \ {Max(t)}]]
    BY <1>1, <1>6 DEF op
  <2>2. Listed(ids, k) = FoldLeft(LAMBDA l, i : IF i \in k THEN AppendUnique(l, i) ELSE l, ids, s)
    BY Zenon DEF Listed, s
  <2>3. \E h : /\ Listed(ids, k) = h[DOMAIN s]
               /\ h = [t \in SUBSET DOMAIN s |->
                         IF t = {} THEN ids
                         ELSE IF s[Max(t)] \in k THEN AppendUnique(h[t \ {Max(t)}], s[Max(t)])
                              ELSE h[t \ {Max(t)}]]
    BY <2>1, <2>2, Zenon DEF FoldLeft, MapThenFoldSet
  <2> QED BY <1>1, <2>3 DEF op
<1> DEFINE S == {i \in 0..Final : h[1..i] \in V}
<1>8. 0 \in S
  <2>1. h[{}] = ids /\ 1..0 = {} /\ 0 \in 0..Final
    BY <1>1, <1>7
  <2> QED BY <2>1, <1>2
<1>9. ASSUME NEW i \in 1..Final, i - 1 \in S PROVE i \in S
  <2>1. h[1..i] = op(h[1..(i - 1)], s[i])
    <3>1. 1..i # {} /\ Max(1..i) = i /\ (1..i) \ {i} = 1..(i - 1) /\ 1..i \in SUBSET (1..Final)
      BY <1>1, FoldSteps
    <3>2. h[1..i] = op(h[(1..i) \ {Max(1..i)}], s[Max(1..i)])
      BY <1>7, <3>1, Zenon
    <3> QED BY <3>1, <3>2
  <2>2. h[1..(i - 1)] \in V /\ i \in 0..Final
    BY <1>1, <1>9
  <2>3. op(h[1..(i - 1)], s[i]) \in V
    BY <1>3, <2>2
  <2> QED BY <2>1, <2>2, <2>3
<1>10. Final \in S
  <2> HIDE DEF S
  <2>1. \A i \in 0..Final : i \in S
    BY <1>1, <1>8, <1>9, UpTo
  <2> QED BY <1>1, <2>1
<1> QED BY <1>7, <1>10 DEF V

Summaries == {s \in [ids : Seq(Messages), folded : SUBSET Messages, through : 0..Final,
                     key : SUBSET Messages, version : Nat] : s.ids \in Lists(s.folded)}
TurnPcs == {"idle", "asked", "stored", "loop", "over"}
JobPcs  == {"none", "queued", "loaded", "written", "raised", "done"}

Typed ==
  /\ posted \in SUBSET Messages /\ alive \in BOOLEAN /\ stored \in Summaries
  /\ turn \in [Turns -> [pc : TurnPcs, hist : SUBSET Messages, ctx : Summaries,
                         drop : SUBSET Messages, pass : SUBSET Messages, asked : Nat]]
  /\ job \in [Keys -> [pc : JobPcs, seen : Summaries, tries : Nat]]

LEMMA NothingTyped ==
  Nothing \in Summaries /\ NewTurn.ctx = Nothing /\ NoJob.seen = Nothing
  /\ Nothing.folded = {} /\ Nothing.through = 0
<1>1. <<>> \in Lists({}) /\ <<>> \in Seq(Messages) /\ 0 \in 0..Final
  BY CompactionAssumption DEF Lists
<1>2. Nothing \in [ids : Seq(Messages), folded : SUBSET Messages, through : 0..Final,
                   key : SUBSET Messages, version : Nat]
  BY <1>1 DEF Nothing
<1> QED BY <1>1, <1>2 DEF Summaries, Nothing, NewTurn, NoJob

\* What a merge makes of a summary and a job.
LEMMA MergedTyped ==
  ASSUME NEW seen \in Summaries, NEW k \in Keys
  PROVE  /\ Merged(k, seen) \in Summaries
         /\ Merged(k, seen).through = Max(k) /\ Merged(k, seen).folded = seen.folded \cup k
         /\ Max(k) \in k /\ \A i \in k : i <= Max(k)
<1>1. Final \in Nat /\ k \in SUBSET (1..Final) /\ k # {}
  <2>1. Final \in Nat
    BY CompactionAssumption
  <2>2. k \in SUBSET Messages /\ k # {}
    BY DEF Keys
  <2> QED BY <2>1, <2>2 DEF Messages
<1>2. Max(k) \in k /\ \A i \in k : i <= Max(k)
  BY <1>1, MaxExists
<1>3. seen.ids \in Lists(seen.folded) /\ seen.folded \in SUBSET Messages /\ seen.version \in Nat
  BY DEF Summaries
<1>4. k \in SUBSET Messages
  BY DEF Keys
<1> DEFINE more == seen.folded \cup k
<1>5. Listed(seen.ids, k) \in Lists(more)
  BY <1>3, <1>4, ListedIn
<1>6. Listed(seen.ids, k) \in Seq(Messages) /\ more \in SUBSET Messages
  <2>1. more \in SUBSET Messages
    BY <1>3, <1>4
  <2> HIDE DEF more
  <2>2. Listed(seen.ids, k) \in Lists(Messages)
    BY <1>5, <2>1, ListsFacts
  <2> QED BY <2>1, <2>2 DEF Lists
<1>7. Max(k) \in 0..Final
  <2>1. \A i \in k : i \in 0..Final
    BY <1>1
  <2> QED BY <1>2, <2>1
<1>8. Merged(k, seen) = [ids |-> Listed(seen.ids, k), folded |-> more, through |-> Max(k),
                         key |-> k, version |-> seen.version + 1]
  BY DEF Merged
<1> HIDE DEF more
<1>9. Merged(k, seen) \in Summaries
  BY <1>3, <1>4, <1>5, <1>6, <1>7, <1>8 DEF Summaries
<1> QED BY <1>2, <1>8, <1>9 DEF more

LEMMA InitTyped == Init => Typed
<1> SUFFICES ASSUME Init PROVE Typed
  OBVIOUS
<1>1. posted \in SUBSET Messages
  BY CompactionAssumption DEF Init, Messages
<1> QED BY <1>1, NothingTyped DEF Init, Typed, NewTurn, NoJob, TurnPcs, JobPcs

LEMMA StepTyped == Typed /\ [Next]_vars => Typed'
<1> SUFFICES ASSUME Typed, [Next]_vars PROVE Typed'
  OBVIOUS
<1> USE DEF TurnPcs, JobPcs
<1>1. ASSUME NEW t \in Turns, Ask(t) \/ LoadContext(t) PROVE Typed'
  BY <1>1, NothingTyped DEF Ask, LoadContext, Typed
<1>2. ASSUME NEW t \in Turns, Store(t) PROVE Typed'
  <2>1. t \in Messages
    BY CompactionAssumption DEF Turns, Messages
  <2> QED BY <1>2, <2>1 DEF Store, Typed
<1>3. ASSUME NEW t \in Turns, Request(t) PROVE Typed'
  <2>1. PICK n \in 0..Final :
          /\ turn' = [turn EXCEPT ![t].drop = Dropped(t, n),
                                  ![t].pass = Pending(Dropped(t, n), turn[t].ctx), ![t].asked = @ + 1]
          /\ job' = [k \in Keys |->
                    IF k = Pending(Dropped(t, n), turn[t].ctx) /\ job[k].pc = "none"
                    THEN [NoJob EXCEPT !.pc = "queued"] ELSE job[k]]
    BY <1>3 DEF Request
  <2>2. Dropped(t, n) \in SUBSET Messages
    BY DEF Dropped, Typed
  <2>3. Pending(Dropped(t, n), turn[t].ctx) \in SUBSET Messages
    BY <2>2 DEF Pending
  <2>4. [NoJob EXCEPT !.pc = "queued"] \in [pc : JobPcs, seen : Summaries, tries : Nat]
    BY NothingTyped DEF NoJob
  <2>5. job' \in [Keys -> [pc : JobPcs, seen : Summaries, tries : Nat]]
    BY <2>1, <2>4 DEF Typed
  <2>6. UNCHANGED <<posted, stored, alive>>
    BY <1>3 DEF Request
  <2> QED BY <2>1, <2>2, <2>3, <2>5, <2>6 DEF Typed
<1>4. ASSUME NEW t \in Turns, Finish(t) PROVE Typed'
  BY <1>4, NothingTyped DEF Finish, Typed, NewTurn
<1>5. ASSUME NEW k \in Keys, Load(k) \/ Conflict(k) \/ Record(k) \/ Again(k) PROVE Typed'
  <2>1. UNCHANGED <<posted, turn, stored, alive>>
    BY <1>5 DEF Load, Conflict, Record, Again
  <2>2. job' \in [Keys -> [pc : JobPcs, seen : Summaries, tries : Nat]]
    <3>1. NoJob \in [pc : JobPcs, seen : Summaries, tries : Nat]
          /\ job \in [Keys -> [pc : JobPcs, seen : Summaries, tries : Nat]] /\ stored \in Summaries
      BY NothingTyped DEF NoJob, Typed
    <3>2. CASE Load(k)
      BY <3>1, <3>2 DEF Load
    <3>3. CASE Conflict(k)
      <4>1. job[k].tries + 1 \in Nat
        BY <3>1
      <4>2. job' = [job EXCEPT ![k] = [NoJob EXCEPT !.pc = "queued", !.tries = job[k].tries + 1]]
            \/ job' = [job EXCEPT ![k] = [NoJob EXCEPT !.pc = "raised"]]
        BY <3>1, <3>3 DEF Conflict
      <4>3. [NoJob EXCEPT !.pc = "raised"] \in [pc : JobPcs, seen : Summaries, tries : Nat]
            /\ [NoJob EXCEPT !.pc = "queued", !.tries = job[k].tries + 1]
                 \in [pc : JobPcs, seen : Summaries, tries : Nat]
        BY <3>1, <4>1
      <4> QED BY <3>1, <4>2, <4>3
    <3>4. CASE Record(k) \/ Again(k)
      BY <3>1, <3>4 DEF Record, Again
    <3> QED BY <1>5, <3>2, <3>3, <3>4
  <2> QED BY <2>1, <2>2 DEF Typed
<1>6. ASSUME NEW k \in Keys, Write(k) PROVE Typed'
  <2>1. stored' \in Summaries
    BY <1>6, MergedTyped DEF Write, Typed
  <2>2. job' \in [Keys -> [pc : JobPcs, seen : Summaries, tries : Nat]]
    BY <1>6, NothingTyped DEF Write, Typed, NoJob
  <2> QED BY <1>6, <2>1, <2>2 DEF Write, Typed
<1>7. CASE Crash
  BY <1>7, NothingTyped DEF Crash, Typed, NewTurn, NoJob
<1>8. CASE DeleteConversation
  BY <1>8, NothingTyped DEF DeleteConversation, Typed
<1>9. CASE UNCHANGED vars
  BY <1>9 DEF vars, Typed
<1> QED BY <1>1, <1>2, <1>3, <1>4, <1>5, <1>6, <1>7, <1>8, <1>9 DEF Next

\* The summary: what is posted up to its watermark was merged.
Covered ==
  /\ alive => /\ stored.through \in posted \cup {0}
              /\ \A i \in posted : i <= stored.through => i \in stored.folded
  /\ ~alive => stored = Nothing

\* Messages are posted in the order of their numbers, and a history has no gaps.
Ordered(t) ==
  /\ turn[t].pc \in {"idle", "asked"} => \A i \in posted : i < t
  /\ turn[t].pc \in {"asked", "stored", "loop"} /\ alive =>
       /\ turn[t].hist \subseteq posted
       /\ \A i \in posted, h \in turn[t].hist : i <= h => i \in turn[t].hist

\* The summary a turn loaded covers its history up to the watermark.
CtxOk(t) ==
  turn[t].pc = "loop" =>
    /\ \A i \in turn[t].hist : i <= turn[t].ctx.through => i \in turn[t].ctx.folded
    /\ alive => turn[t].ctx.folded \subseteq stored.folded

DropOk(t) ==
  /\ turn[t].pc \in {"idle", "asked", "stored"} => turn[t].drop = {}
  /\ turn[t].pc = "loop" => turn[t].drop \ turn[t].pass \subseteq turn[t].ctx.folded

TurnOk(t) == Ordered(t) /\ CtxOk(t) /\ DropOk(t)

\* What is posted up to the last message of a job is in the job or merged.
JobOk(k) ==
  job[k].pc # "none" /\ alive =>
    /\ k \subseteq posted
    /\ \A i \in posted, m \in k : i <= m => i \in k \cup stored.folded

ContextInv ==
  Typed /\ Loaded /\ Covered /\ (\A t \in Turns : TurnOk(t)) /\ (\A k \in Keys : JobOk(k))

LEMMA InitContext == Init => ContextInv
<1> SUFFICES ASSUME Init PROVE ContextInv
  OBVIOUS
<1>1. Covered
  BY DEF Init, Covered, Nothing
<1>2. ASSUME NEW t \in Turns PROVE TurnOk(t)
  <2>1. turn[t].pc = "idle" /\ turn[t].drop = {} /\ \A i \in posted : i < t
    BY CompactionAssumption DEF Init, NewTurn, Turns
  <2> QED BY <2>1 DEF TurnOk, Ordered, CtxOk, DropOk
<1>3. \A k \in Keys : JobOk(k)
  BY DEF Init, JobOk, NoJob
<1> QED BY <1>1, <1>2, <1>3, InitTyped, InitLoaded DEF ContextInv

\* A turn that does not move, while nothing is posted and the summary only grows.
LEMMA TurnKept ==
  ASSUME NEW t, TurnOk(t), turn'[t] = turn[t], posted' = posted, alive' => alive,
         alive' => stored.folded \subseteq stored'.folded
  PROVE  TurnOk(t)'
BY DEF TurnOk, Ordered, CtxOk, DropOk

LEMMA JobKept ==
  ASSUME NEW k, JobOk(k), job'[k].pc # "none" => job[k].pc # "none", posted' = posted,
         alive' => alive, alive' => stored.folded \subseteq stored'.folded
  PROVE  JobOk(k)'
BY DEF JobOk

LEMMA AskContext ==
  ASSUME ContextInv, NEW t \in Turns, Ask(t)
  PROVE  Covered' /\ (\A s \in Turns : TurnOk(s)') /\ (\A k \in Keys : JobOk(k)')
<1>1. UNCHANGED <<posted, stored, alive, job>> /\ turn[t].pc = "idle"
  BY DEF Ask
<1>2. Covered' /\ \A k \in Keys : JobOk(k)'
  BY <1>1, JobKept DEF Covered, ContextInv
<1>3. ASSUME NEW s \in Turns, s # t PROVE TurnOk(s)'
  <2>1. turn'[s] = turn[s]
    BY <1>3 DEF Ask, ContextInv, Typed
  <2> QED BY <1>1, <2>1, TurnKept DEF ContextInv
<1>4. TurnOk(t)'
  <2>1. turn'[t].pc = "asked" /\ turn'[t].hist = posted /\ turn'[t].drop = turn[t].drop
    BY DEF Ask, ContextInv, Typed
  <2> QED BY <1>1, <2>1 DEF TurnOk, Ordered, CtxOk, DropOk, ContextInv
<1> QED BY <1>2, <1>3, <1>4

LEMMA StoreContext ==
  ASSUME ContextInv, NEW t \in Turns, Store(t)
  PROVE  Covered' /\ (\A s \in Turns : TurnOk(s)') /\ (\A k \in Keys : JobOk(k)')
<1>1. /\ UNCHANGED <<stored, alive, job>> /\ turn[t].pc = "asked" /\ alive
      /\ posted' = posted \cup {t}
      /\ \A s \in Turns : s < t => turn[s].pc \notin {"idle", "asked"}
      /\ turn'[t].pc = "stored" /\ turn'[t].hist = turn[t].hist /\ turn'[t].drop = turn[t].drop
      /\ \A s \in Turns \ {t} : turn'[s] = turn[s]
  BY DEF Store, ContextInv, Typed
<1>2. t \in Int /\ posted \subseteq Int /\ Turns \subseteq Int /\ stored.through \in Int
      /\ Keys \subseteq SUBSET Int
  BY CompactionAssumption DEF ContextInv, Typed, Turns, Messages, Keys, Summaries
<1>3. \A i \in posted : i < t
  BY <1>1 DEF ContextInv, TurnOk, Ordered
<1>4. t > 0
  BY CompactionAssumption DEF Turns
<1>5. Covered'
  <2>1. stored.through < t
    BY <1>1, <1>3, <1>4 DEF ContextInv, Covered
  <2> QED BY <1>1, <1>2, <2>1 DEF ContextInv, Covered
<1>6. ASSUME NEW s \in Turns PROVE TurnOk(s)'
  <2>1. TurnOk(s)
    BY DEF ContextInv
  <2>2. turn'[s].pc \in {"idle", "asked"} => \A i \in posted' : i < s
    <3> SUFFICES ASSUME turn'[s].pc \in {"idle", "asked"} PROVE t < s /\ \A i \in posted : i < s
      BY <1>1
    <3>1. s # t /\ turn[s].pc \in {"idle", "asked"}
      BY <1>1
    <3> QED BY <1>1, <1>2, <2>1, <3>1 DEF TurnOk, Ordered
  <2>3. turn'[s].pc \in {"asked", "stored", "loop"} /\ alive' =>
          /\ turn'[s].hist \subseteq posted'
          /\ \A i \in posted', h \in turn'[s].hist : i <= h => i \in turn'[s].hist
    <3>1. turn'[s].pc \in {"asked", "stored", "loop"} => turn[s].pc \in {"asked", "stored", "loop"}
          /\ turn'[s].hist = turn[s].hist
      BY <1>1
    <3> SUFFICES ASSUME turn'[s].pc \in {"asked", "stored", "loop"}
                 PROVE  /\ turn[s].hist \subseteq posted'
                        /\ \A i \in posted', h \in turn[s].hist : i <= h => i \in turn[s].hist
      BY <3>1
    <3>2. /\ turn[s].hist \subseteq posted
          /\ \A i \in posted, h \in turn[s].hist : i <= h => i \in turn[s].hist
      BY <1>1, <2>1, <3>1 DEF TurnOk, Ordered
    <3>3. ASSUME NEW h \in turn[s].hist PROVE ~(t <= h)
      <4>1. h \in Int /\ h < t
        BY <1>2, <1>3, <3>2
      <4> QED BY <1>2, <4>1
    <3> QED BY <1>1, <3>2, <3>3
  <2>4. CtxOk(s)' /\ DropOk(s)'
    BY <1>1, <2>1 DEF TurnOk, CtxOk, DropOk
  <2> QED BY <2>2, <2>3, <2>4 DEF TurnOk, Ordered
<1>7. ASSUME NEW k \in Keys PROVE JobOk(k)'
  <2> SUFFICES ASSUME job[k].pc # "none"
               PROVE  /\ k \subseteq posted'
                      /\ \A i \in posted', m \in k : i <= m => i \in k \cup stored.folded
    BY <1>1 DEF JobOk
  <2>1. k \subseteq posted /\ \A i \in posted, m \in k : i <= m => i \in k \cup stored.folded
    BY <1>1 DEF ContextInv, JobOk
  <2>2. \A m \in k : ~(t <= m)
    BY <1>2, <1>3, <2>1
  <2> QED BY <1>1, <2>1, <2>2
<1> QED BY <1>5, <1>6, <1>7

LEMMA LoadContextContext ==
  ASSUME ContextInv, NEW t \in Turns, LoadContext(t)
  PROVE  Covered' /\ (\A s \in Turns : TurnOk(s)') /\ (\A k \in Keys : JobOk(k)')
<1>1. UNCHANGED <<posted, stored, alive, job>> /\ turn[t].pc = "stored"
  BY DEF LoadContext
<1>2. Covered' /\ \A k \in Keys : JobOk(k)'
  BY <1>1, JobKept DEF Covered, ContextInv
<1>3. PICK ctx \in {stored, Nothing} : turn' = [turn EXCEPT ![t].pc = "loop", ![t].ctx = ctx]
  BY DEF LoadContext
<1>4. ASSUME NEW s \in Turns, s # t PROVE TurnOk(s)'
  <2>1. turn'[s] = turn[s]
    BY <1>3, <1>4 DEF ContextInv, Typed
  <2> QED BY <1>1, <2>1, TurnKept DEF ContextInv
<1>5. TurnOk(t)'
  <2>1. /\ turn'[t].pc = "loop" /\ turn'[t].ctx = ctx /\ turn'[t].hist = turn[t].hist
        /\ turn'[t].drop = turn[t].drop /\ turn'[t].pass = turn[t].pass
    BY <1>3 DEF ContextInv, Typed
  <2>2. TurnOk(t) /\ Covered /\ Typed
    BY DEF ContextInv
  <2>3. Ordered(t)'
    BY <1>1, <2>1, <2>2 DEF TurnOk, Ordered
  <2>4. DropOk(t)'
    BY <1>1, <2>1, <2>2 DEF TurnOk, DropOk
  <2>5. \A i \in turn[t].hist : i \in Int /\ ~(i <= 0)
    BY <2>2, CompactionAssumption DEF Typed, Messages
  <2>6. CtxOk(t)'
    <3>1. CASE ctx = Nothing
      BY <1>1, <2>1, <2>5, <3>1, NothingTyped DEF CtxOk
    <3>2. CASE ctx = stored /\ alive
      BY <1>1, <2>1, <2>2, <3>2 DEF TurnOk, Ordered, CtxOk, Covered
    <3>3. CASE ctx = stored /\ ~alive
      BY <1>1, <2>1, <2>2, <2>5, <3>3, NothingTyped DEF CtxOk, Covered
    <3> QED BY <1>3, <3>1, <3>2, <3>3
  <2> QED BY <2>3, <2>4, <2>6 DEF TurnOk
<1> QED BY <1>2, <1>4, <1>5

LEMMA RequestContext ==
  ASSUME ContextInv, NEW t \in Turns, Request(t)
  PROVE  Covered' /\ (\A s \in Turns : TurnOk(s)') /\ (\A k \in Keys : JobOk(k)')
<1> DEFINE ctx == turn[t].ctx
<1>1. UNCHANGED <<posted, stored, alive>> /\ turn[t].pc = "loop"
  BY DEF Request
<1>2. PICK n \in 0..Final :
        /\ turn' = [turn EXCEPT ![t].drop = Dropped(t, n),
                                ![t].pass = Pending(Dropped(t, n), ctx), ![t].asked = @ + 1]
        /\ job' = [k \in Keys |->
                     IF k = Pending(Dropped(t, n), ctx) /\ job[k].pc = "none"
                     THEN [NoJob EXCEPT !.pc = "queued"] ELSE job[k]]
  BY DEF Request
<1>3. PICK drop : drop = Dropped(t, n)
  OBVIOUS
<1>4. PICK pass : pass = Pending(drop, ctx)
  OBVIOUS
<1>5. /\ TurnOk(t) /\ Typed
      /\ \A i \in turn[t].hist : i \in Int /\ i > 0 /\ i \in Messages
      /\ ctx.through \in Int /\ ToSet(ctx.ids) \subseteq ctx.folded /\ n \in Int
  <2>1. TurnOk(t) /\ Typed
    BY DEF ContextInv
  <2>2. turn[t].hist \in SUBSET Messages /\ ctx \in Summaries
    BY <2>1 DEF Typed
  <2>3. ctx.through \in 0..Final /\ ctx.ids \in Lists(ctx.folded)
    BY <2>2 DEF Summaries
  <2> QED BY <2>1, <2>2, <2>3, ListsFacts DEF Messages
<1>6. drop = {i \in turn[t].hist : i <= n}
  BY <1>3 DEF Dropped
\* What is cut and not passed on is in the summary that was loaded.
<1>7. \A i \in drop : i \in pass \/ i \in ctx.folded
  <2>1. CASE ctx.through \in drop
    <3>1. pass = {i \in drop : i > ctx.through}
      BY <1>4, <2>1 DEF Pending
    <3>2. \A i \in turn[t].hist : i <= ctx.through => i \in ctx.folded
      BY <1>1, <1>5 DEF TurnOk, CtxOk
    <3> QED BY <1>5, <1>6, <3>1, <3>2
  <2>2. CASE ctx.through \notin drop
    <3>1. pass = drop \ ToSet(ctx.ids)
      BY <1>4, <2>2 DEF Pending
    <3> QED BY <1>5, <3>1
  <2> QED BY <2>1, <2>2
<1>8. pass \subseteq drop
  BY <1>4 DEF Pending
<1> HIDE DEF ctx
<1>9. Covered'
  BY <1>1 DEF Covered, ContextInv
<1>10. ASSUME NEW s \in Turns, s # t PROVE TurnOk(s)'
  <2>1. turn'[s] = turn[s]
    BY <1>2, <1>10 DEF ContextInv, Typed
  <2> QED BY <1>1, <2>1, TurnKept DEF ContextInv
<1>11. TurnOk(t)'
  <2>1. /\ turn'[t].pc = "loop" /\ turn'[t].ctx = turn[t].ctx /\ turn'[t].hist = turn[t].hist
        /\ turn'[t].drop = drop /\ turn'[t].pass = pass
    BY <1>1, <1>2, <1>3, <1>4, <1>5 DEF Typed
  <2>2. DropOk(t)'
    BY <1>7, <2>1 DEF DropOk, ctx
  <2>3. Ordered(t)' /\ CtxOk(t)'
    BY <1>1, <1>5, <2>1 DEF TurnOk, Ordered, CtxOk
  <2> QED BY <2>2, <2>3 DEF TurnOk
<1>12. ASSUME NEW k \in Keys PROVE JobOk(k)'
  <2>1. JobOk(k)
    BY DEF ContextInv
  <2>2. job'[k] = IF k = pass /\ job[k].pc = "none" THEN [NoJob EXCEPT !.pc = "queued"] ELSE job[k]
    BY <1>2, <1>3, <1>4
  <2>3. CASE job[k].pc # "none" \/ k # pass
    <3>1. job'[k] = job[k]
      BY <2>2, <2>3
    <3> QED BY <1>1, <2>1, <3>1, JobKept
  <2>4. CASE job[k].pc = "none" /\ k = pass
    <3> SUFFICES ASSUME alive
                 PROVE  /\ pass \subseteq posted
                        /\ \A i \in posted, m \in pass : i <= m => i \in pass \cup stored.folded
      BY <1>1, <2>4 DEF JobOk
    <3>1. /\ turn[t].hist \subseteq posted
          /\ \A i \in posted, h \in turn[t].hist : i <= h => i \in turn[t].hist
          /\ ctx.folded \subseteq stored.folded
      BY <1>1, <1>5 DEF TurnOk, Ordered, CtxOk, ctx
    <3>2. pass \subseteq turn[t].hist
      BY <1>6, <1>8
    <3>3. ASSUME NEW i \in posted, NEW m \in pass, i <= m PROVE i \in pass \cup stored.folded
      <4>1. i \in turn[t].hist /\ m \in turn[t].hist /\ m <= n
        BY <1>6, <1>8, <3>1, <3>2, <3>3
      <4>2. i \in Int /\ m \in Int /\ n \in Int
        BY <1>5, <4>1
      <4>3. i \in drop
        BY <1>6, <3>3, <4>1, <4>2
      <4> QED BY <1>7, <3>1, <4>3
    <3> QED BY <3>1, <3>2, <3>3
  <2> QED BY <2>3, <2>4
<1> QED BY <1>9, <1>10, <1>11, <1>12

LEMMA WriteContext ==
  ASSUME ContextInv, NEW k \in Keys, Write(k)
  PROVE  Covered' /\ (\A t \in Turns : TurnOk(t)') /\ (\A m \in Keys : JobOk(m)')
<1>1. /\ UNCHANGED <<posted, turn, alive>> /\ alive
      /\ job[k].pc = "loaded" /\ stored.version = job[k].seen.version
      /\ stored' = Merged(k, job[k].seen)
      /\ job' = [job EXCEPT ![k] = [NoJob EXCEPT !.pc = "written"]]
  BY DEF Write, VersionHolds
<1>2. job[k].seen = stored /\ Typed /\ JobOk(k) /\ DOMAIN job = Keys
  BY <1>1 DEF ContextInv, Loaded, FreshLoad
<1>3. /\ stored'.folded = stored.folded \cup k /\ stored'.through = Max(k)
      /\ Max(k) \in k /\ \A i \in k : i <= Max(k)
  BY <1>1, <1>2, MergedTyped DEF Typed
<1>4. /\ k \subseteq posted
      /\ \A i \in posted, m \in k : i <= m => i \in k \cup stored.folded
  BY <1>1, <1>2 DEF JobOk
<1>5. Covered'
  BY <1>1, <1>3, <1>4 DEF Covered
<1>6. \A t \in Turns : TurnOk(t)'
  BY <1>1, <1>3, TurnKept DEF ContextInv
<1>7. ASSUME NEW m \in Keys PROVE JobOk(m)'
  <2>1. job'[m].pc # "none" => job[m].pc # "none"
    BY <1>1, <1>2
  <2>2. JobOk(m)
    BY DEF ContextInv
  <2>3. posted' = posted /\ (alive' => alive) /\ (alive' => stored.folded \subseteq stored'.folded)
    BY <1>1, <1>3
  <2> QED BY <2>1, <2>2, <2>3, JobKept
<1> QED BY <1>5, <1>6, <1>7

LEMMA JobContext ==
  ASSUME ContextInv, NEW k \in Keys, Load(k) \/ Conflict(k) \/ Record(k) \/ Again(k)
  PROVE  Covered' /\ (\A t \in Turns : TurnOk(t)') /\ (\A m \in Keys : JobOk(m)')
<1>1. UNCHANGED <<posted, turn, stored, alive>> /\ job[k].pc # "none"
  BY DEF Load, Conflict, Record, Again
<1>2. \A m \in Keys \ {k} : job'[m] = job[m]
  BY DEF Load, Conflict, Record, Again, ContextInv, Loaded
<1>3. Covered' /\ \A t \in Turns : TurnOk(t)'
  BY <1>1, TurnKept DEF Covered, ContextInv
<1>4. \A m \in Keys : JobOk(m)'
  BY <1>1, <1>2, JobKept DEF ContextInv
<1> QED BY <1>3, <1>4

LEMMA StepContext == ContextInv /\ [Next]_vars => ContextInv'
<1> SUFFICES ASSUME ContextInv, [Next]_vars PROVE ContextInv'
  OBVIOUS
<1>1. Typed' /\ Loaded'
  BY StepTyped, StepLoaded DEF ContextInv
<1> SUFFICES Covered' /\ (\A t \in Turns : TurnOk(t)') /\ (\A k \in Keys : JobOk(k)')
  BY <1>1 DEF ContextInv
<1>2. ASSUME NEW t \in Turns, Ask(t) \/ Store(t) \/ LoadContext(t) \/ Request(t)
      PROVE  Covered' /\ (\A s \in Turns : TurnOk(s)') /\ (\A k \in Keys : JobOk(k)')
  BY <1>2, AskContext, StoreContext, LoadContextContext, RequestContext
<1>3. ASSUME NEW t \in Turns, Finish(t)
      PROVE  Covered' /\ (\A s \in Turns : TurnOk(s)') /\ (\A k \in Keys : JobOk(k)')
  <2>1. UNCHANGED <<posted, stored, alive, job>>
    BY <1>3 DEF Finish
  <2>2. Covered' /\ \A k \in Keys : JobOk(k)'
    BY <2>1, JobKept DEF Covered, ContextInv
  <2>3. ASSUME NEW s \in Turns PROVE TurnOk(s)'
    <3>1. turn'[s] = turn[s] \/ turn'[s].pc = "over"
      BY <1>3 DEF Finish, ContextInv, Typed, NewTurn
    <3>2. CASE turn'[s] = turn[s]
      BY <2>1, <3>2, TurnKept DEF ContextInv
    <3>3. CASE turn'[s].pc = "over"
      BY <3>3 DEF TurnOk, Ordered, CtxOk, DropOk
    <3> QED BY <3>1, <3>2, <3>3
  <2> QED BY <2>2, <2>3
<1>4. ASSUME NEW k \in Keys, Load(k) \/ Write(k) \/ Conflict(k) \/ Record(k) \/ Again(k)
      PROVE  Covered' /\ (\A t \in Turns : TurnOk(t)') /\ (\A m \in Keys : JobOk(m)')
  BY <1>4, WriteContext, JobContext
<1>5. CASE Crash
  <2>1. UNCHANGED <<posted, stored, alive>>
        /\ turn' = [t \in Turns |-> IF turn[t].pc = "idle" THEN NewTurn
                                    ELSE [NewTurn EXCEPT !.pc = "over"]]
        /\ job' = [k \in Keys |-> IF job[k].pc \in {"none", "done"} THEN job[k]
                                  ELSE [NoJob EXCEPT !.pc = "queued"]]
    BY <1>5 DEF Crash
  <2>2. ASSUME NEW k \in Keys PROVE JobOk(k)'
    <3>1. job'[k].pc # "none" => job[k].pc # "none"
      BY <2>1
    <3> QED BY <2>1, <3>1, JobKept DEF ContextInv
  <2>3. ASSUME NEW t \in Turns PROVE TurnOk(t)'
    <3>1. TurnOk(t)
      BY DEF ContextInv
    <3>2. CASE turn[t].pc = "idle"
      <4>1. turn'[t].pc = "idle" /\ turn'[t].drop = {}
        BY <2>1, <3>2 DEF NewTurn
      <4> QED BY <2>1, <3>1, <3>2, <4>1 DEF TurnOk, Ordered, CtxOk, DropOk
    <3>3. CASE turn[t].pc # "idle"
      <4>1. turn'[t].pc = "over"
        BY <2>1, <3>3 DEF NewTurn
      <4> QED BY <4>1 DEF TurnOk, Ordered, CtxOk, DropOk
    <3> QED BY <3>2, <3>3
  <2>4. Covered'
    BY <2>1 DEF Covered, ContextInv
  <2> QED BY <2>2, <2>3, <2>4
<1>6. CASE DeleteConversation
  <2>1. alive' = FALSE /\ posted' = {} /\ stored' = Nothing /\ turn' = turn /\ job' = job
    BY <1>6 DEF DeleteConversation
  <2>2. \A t \in Turns : TurnOk(t)'
    BY <2>1 DEF ContextInv, TurnOk, Ordered, CtxOk, DropOk
  <2> QED BY <2>1, <2>2 DEF Covered, JobOk
<1>7. CASE UNCHANGED vars
  <2>1. UNCHANGED <<posted, turn, stored, alive, job>>
    BY <1>7 DEF vars
  <2> QED BY <2>1, TurnKept, JobKept DEF ContextInv, Covered
<1> QED BY <1>2, <1>3, <1>4, <1>5, <1>6, <1>7 DEF Next

LEMMA AlwaysContext == Spec => []ContextInv
BY InitContext, StepContext, PTL DEF Spec

\* The type invariant, with the bound of the list of ids.
THEOREM CompactionTyped == Spec => []TypeOK
<1>1. ContextInv => TypeOK
  <2> SUFFICES ASSUME Typed PROVE TypeOK
    BY DEF ContextInv
  <2>1. stored.ids \in Lists(stored.folded) /\ stored.through \in 0..Final /\ stored.version \in Nat
    BY DEF Typed, Summaries
  <2>2. ToSet(stored.ids) \subseteq stored.folded /\ Len(stored.ids) <= Limit
    BY <2>1, ListsFacts
  <2>3. /\ \A t \in Turns : turn[t].pc \in TurnPcs
        /\ \A k \in Keys : job[k].pc \in JobPcs
    BY DEF Typed
  <2> QED BY <2>1, <2>2, <2>3 DEF Typed, TypeOK, TurnPcs, JobPcs
<1> QED BY AlwaysContext, <1>1, PTL

\* In every request of every turn, whichever jobs ran in whichever order, twice or
\* not at all, a message that was cut from the prompt is in the summary the turn
\* loaded or passed on (_pending_dropped_messages and compact_working_context of
\* agent/context_state.py).
THEOREM CutIsKnown == Spec => []NothingForgotten
<1>1. ContextInv => NothingForgotten
  BY DEF ContextInv, TurnOk, DropOk, NothingForgotten
<1> QED BY AlwaysContext, <1>1, PTL

-----------------------------------------------------------------------------
(* Sequences without repetitions: what is selected                           *)

Picks(A) == {l \in Seq(A) : IsInjective(l)}

\* Nothing selected yet.
LEMMA EmptyPick == \A A : <<>> \in Picks(A) /\ ToSet(<<>>) = {}
BY DEF Picks, IsInjective, ToSet

\* What is selected grows by an element that is not in it.
LEMMA AppendPick ==
  ASSUME NEW A, NEW l \in Picks(A), NEW x \in A, x \notin ToSet(l)
  PROVE  Append(l, x) \in Picks(A) /\ ToSet(Append(l, x)) = ToSet(l) \cup {x}
<1>1. l \in Seq(A) /\ \A i, j \in 1..Len(l) : l[i] = l[j] => i = j
  BY DEF Picks, IsInjective
<1>2. \A i \in 1..Len(l) : l[i] # x
  BY <1>1 DEF ToSet
<1> DEFINE m == Append(l, x)
<1>3. /\ m \in Seq(A) /\ Len(m) = Len(l) + 1 /\ DOMAIN m = 1..(Len(l) + 1)
      /\ \A i \in 1..Len(l) : m[i] = l[i]
      /\ m[Len(l) + 1] = x
  BY <1>1
<1>4. Len(l) \in Nat /\ DOMAIN l = 1..Len(l)
  BY <1>1
<1> HIDE DEF m
<1>5. ASSUME NEW i \in DOMAIN m, NEW j \in DOMAIN m, m[i] = m[j] PROVE i = j
  <2>1. i \in 1..Len(l) \/ i = Len(l) + 1
    BY <1>3, <1>4
  <2>2. j \in 1..Len(l) \/ j = Len(l) + 1
    BY <1>3, <1>4
  <2> QED BY <1>1, <1>2, <1>3, <1>5, <2>1, <2>2
<1>6. ToSet(m) = ToSet(l) \cup {x}
  <2>1. ASSUME NEW y \in ToSet(m) PROVE y \in ToSet(l) \cup {x}
    <3>1. PICK i \in 1..(Len(l) + 1) : m[i] = y
      BY <1>3 DEF ToSet
    <3>2. i \in 1..Len(l) \/ i = Len(l) + 1
      BY <1>4
    <3> QED BY <1>3, <1>4, <3>1, <3>2 DEF ToSet
  <2>2. ASSUME NEW y \in ToSet(l) PROVE y \in ToSet(m)
    <3>1. PICK i \in 1..Len(l) : l[i] = y
      BY <1>4 DEF ToSet
    <3>2. i \in 1..(Len(l) + 1)
      BY <1>4
    <3> QED BY <1>3, <3>1, <3>2 DEF ToSet
  <2>3. x \in ToSet(m)
    <3>1. Len(l) + 1 \in 1..(Len(l) + 1)
      BY <1>4
    <3> QED BY <1>3, <3>1 DEF ToSet
  <2> QED BY <2>1, <2>2, <2>3
<1> QED BY <1>3, <1>5, <1>6 DEF Picks, IsInjective, m

\* The beginning of a selection is one.
LEMMA HeadPick ==
  ASSUME NEW A, NEW l \in Picks(A), NEW m \in Nat, m <= Len(l)
  PROVE  /\ SubSeq(l, 1, m) \in Picks(A)
         /\ Len(SubSeq(l, 1, m)) = m /\ \A i \in 1..m : SubSeq(l, 1, m)[i] = l[i]
<1>1. l \in Seq(A) /\ \A i, j \in 1..Len(l) : l[i] = l[j] => i = j
  BY DEF Picks, IsInjective
<1> DEFINE h == SubSeq(l, 1, m)
<1>2. \A i \in 1..m : i \in 1..Len(l)
  BY <1>1
<1>3. h \in Seq(A) /\ Len(h) = m /\ DOMAIN h = 1..m /\ \A i \in 1..m : h[i] = l[i]
  BY <1>1, <1>2
<1> HIDE DEF h
<1>4. \A i, j \in DOMAIN h : h[i] = h[j] => i = j
  BY <1>1, <1>2, <1>3
<1> QED BY <1>3, <1>4 DEF Picks, IsInjective, h

Apart(p, q, A) == p \in Picks(A) /\ q \in Picks(A) /\ ToSet(p) \cap ToSet(q) = {}

LEMMA JoinPick ==
  ASSUME NEW A, NEW p, NEW q, Apart(p, q, A)
  PROVE  p \o q \in Picks(A) /\ ToSet(p \o q) = ToSet(p) \cup ToSet(q)
<1>1. /\ p \in Seq(A) /\ \A i, j \in 1..Len(p) : p[i] = p[j] => i = j
      /\ q \in Seq(A) /\ \A i, j \in 1..Len(q) : q[i] = q[j] => i = j
      /\ ToSet(p) \cap ToSet(q) = {}
  <2>1. \A l \in Picks(A) : l \in Seq(A) /\ \A i, j \in 1..Len(l) : l[i] = l[j] => i = j
    BY DEF Picks, IsInjective
  <2> QED BY <2>1 DEF Apart
<1>2. /\ Len(p) \in Nat /\ Len(q) \in Nat /\ DOMAIN p = 1..Len(p) /\ DOMAIN q = 1..Len(q)
  BY <1>1
<1> DEFINE s == p \o q
<1>3. /\ s \in Seq(A) /\ DOMAIN s = 1..(Len(p) + Len(q))
      /\ \A i \in 1..Len(p) : s[i] = p[i]
      /\ \A i \in (Len(p) + 1)..(Len(p) + Len(q)) : s[i] = q[i - Len(p)]
  BY <1>1, <1>2
<1> HIDE DEF s
<1>4. \A i \in DOMAIN s : \/ i \in 1..Len(p) /\ s[i] = p[i] /\ s[i] \in ToSet(p)
                          \/ /\ i - Len(p) \in 1..Len(q) /\ s[i] = q[i - Len(p)]
                             /\ s[i] \in ToSet(q)
  <2> SUFFICES ASSUME NEW i \in DOMAIN s
               PROVE \/ i \in 1..Len(p) /\ s[i] = p[i] /\ s[i] \in ToSet(p)
                     \/ i - Len(p) \in 1..Len(q) /\ s[i] = q[i - Len(p)] /\ s[i] \in ToSet(q)
    OBVIOUS
  <2>1. \/ i \in 1..Len(p)
        \/ i - Len(p) \in 1..Len(q) /\ i \in (Len(p) + 1)..(Len(p) + Len(q))
    BY <1>2, <1>3
  <2> QED BY <1>2, <1>3, <2>1 DEF ToSet
<1>5. ASSUME NEW i \in DOMAIN s, NEW j \in DOMAIN s, s[i] = s[j] PROVE i = j
  <2>1. i \in Int /\ j \in Int
    BY <1>3
  <2>2. CASE i \in 1..Len(p) /\ s[i] = p[i] /\ s[i] \in ToSet(p)
    <3>1. j \in 1..Len(p) /\ s[j] = p[j]
      BY <1>1, <1>4, <1>5, <2>2
    <3> QED BY <1>1, <1>5, <2>2, <3>1
  <2>3. CASE i - Len(p) \in 1..Len(q) /\ s[i] = q[i - Len(p)] /\ s[i] \in ToSet(q)
    <3>1. j - Len(p) \in 1..Len(q) /\ s[j] = q[j - Len(p)]
      BY <1>1, <1>4, <1>5, <2>3
    <3>2. i - Len(p) = j - Len(p)
      BY <1>1, <1>5, <2>3, <3>1
    <3> QED BY <1>2, <2>1, <3>2
  <2> QED BY <1>4, <2>2, <2>3
<1>6. ToSet(s) = ToSet(p) \cup ToSet(q)
  <2>1. \A x \in ToSet(s) : x \in ToSet(p) \cup ToSet(q)
    BY <1>4 DEF ToSet
  <2>2. ASSUME NEW i \in 1..Len(p) PROVE p[i] \in ToSet(s)
    <3>1. i \in DOMAIN s
      BY <1>2, <1>3
    <3> QED BY <1>3, <3>1 DEF ToSet
  <2>3. ASSUME NEW i \in 1..Len(q) PROVE q[i] \in ToSet(s)
    <3>1. /\ Len(p) + i \in DOMAIN s /\ Len(p) + i \in (Len(p) + 1)..(Len(p) + Len(q))
          /\ (Len(p) + i) - Len(p) = i
      BY <1>2, <1>3
    <3>2. s[Len(p) + i] = q[i]
      BY <1>3, <3>1
    <3> QED BY <3>1, <3>2 DEF ToSet
  <2> QED BY <1>2, <2>1, <2>2, <2>3 DEF ToSet
<1> QED BY <1>3, <1>5, <1>6 DEF Picks, IsInjective, s

\* The way through a sequence that takes some of its elements, in their order.
Thins(r, s, E, T) ==
  /\ r \in [0..Len(s) -> Seq(E)] /\ r[0] = <<>>
  /\ \A i \in 1..Len(s) : \/ r[i] = r[i - 1]
                          \/ s[i] \in T /\ r[i] = Append(r[i - 1], s[i])

\* What was taken is in the sequence and in T, and each once if it was there once.
LEMMA Thinned ==
  ASSUME NEW E, NEW T, NEW s \in Seq(E), NEW r, Thins(r, s, E, T)
  PROVE  /\ r[Len(s)] \in Seq(E \cap T) /\ ToSet(r[Len(s)]) \subseteq ToSet(s) \cap T
         /\ IsInjective(s) => r[Len(s)] \in Picks(E \cap T)
<1> DEFINE n == Len(s)
           S == {i \in 0..n : r[i] \in Seq(E \cap T)}
           P == {i \in 0..n : \A x \in ToSet(r[i]) : \E j \in 1..i : s[j] = x}
           Q == {i \in 0..n : IsInjective(s) => r[i] \in Picks(E \cap T)}
<1>1. n \in Nat /\ DOMAIN s = 1..n /\ \A i \in 1..n : s[i] \in E
  BY SeqDomain
<1> USE DEF Thins
<1>2. 0 \in 0..n /\ 0 \in S
  <2>1. 0 \in 0..n /\ r[0] \in Seq(E \cap T)
    BY <1>1
  <2> QED BY <2>1
<1>3. ASSUME NEW i \in 1..n, i - 1 \in S PROVE i \in S
  <2>1. s[i] \in E /\ i \in 0..n /\ r[i - 1] \in Seq(E \cap T)
    BY <1>1, <1>3
  <2>2. s[i] \in T => Append(r[i - 1], s[i]) \in Seq(E \cap T)
    BY <2>1
  <2>3. r[i] \in Seq(E \cap T)
    BY <2>1, <2>2
  <2> QED BY <2>1, <2>3
<1>4. \A i \in 0..n : i \in S
  <2> HIDE DEF S
  <2> QED BY <1>1, <1>2, <1>3, UpTo
<1>5. 0 \in P
  BY <1>2, EmptyPick
<1>6. ASSUME NEW i \in 1..n, i - 1 \in P PROVE i \in P
  <2>1. i \in 0..n /\ i - 1 \in 0..n /\ i \in 1..i /\ \A j \in 1..(i - 1) : j \in 1..i
    BY <1>1
  <2>2. r[i - 1] \in Seq(E)
    BY <1>1, <2>1
  <2>3. \A x \in ToSet(r[i - 1]) : \E j \in 1..i : s[j] = x
    BY <1>6, <2>1
  <2>4. ToSet(Append(r[i - 1], s[i])) \subseteq ToSet(r[i - 1]) \cup {s[i]}
    <3> DEFINE l == r[i - 1]
               m == Append(l, s[i])
    <3>1. /\ Len(l) \in Nat /\ DOMAIN l = 1..Len(l) /\ DOMAIN m = 1..(Len(l) + 1)
          /\ m[Len(l) + 1] = s[i] /\ \A k \in 1..Len(l) : m[k] = l[k]
      BY <1>1, <2>2
    <3> HIDE DEF l, m
    <3>2. \A k \in 1..(Len(l) + 1) : k \in 1..Len(l) \/ k = Len(l) + 1
      BY <3>1
    <3>3. \A x \in ToSet(m) : x \in ToSet(l) \cup {s[i]}
      BY <3>1, <3>2 DEF ToSet
    <3> QED BY <3>3 DEF l, m
  <2>5. \A x \in ToSet(r[i]) : x \in ToSet(r[i - 1]) \/ x = s[i]
    BY <2>4
  <2>6. \A x \in ToSet(r[i]) : \E j \in 1..i : s[j] = x
    BY <2>1, <2>3, <2>5
  <2> QED BY <2>1, <2>6
<1>7. \A i \in 0..n : i \in P
  <2> HIDE DEF P
  <2> QED BY <1>1, <1>5, <1>6, UpTo
<1>8. 0 \in Q
  BY <1>2, EmptyPick
<1>9. ASSUME NEW i \in 1..n, i - 1 \in Q PROVE i \in Q
  <2>1. i \in 0..n
    BY <1>1
  <2> SUFFICES ASSUME IsInjective(s) PROVE r[i] \in Picks(E \cap T)
    BY <2>1
  <2>2. i - 1 \in 0..n /\ r[i - 1] \in Picks(E \cap T) /\ s[i] \in E
    BY <1>1, <1>9
  <2>3. \A x \in ToSet(r[i - 1]) : \E j \in 1..(i - 1) : s[j] = x
    BY <1>7, <2>2
  <2>4. \A j \in 1..(i - 1) : s[j] # s[i]
    <3>1. \A j \in 1..(i - 1) : j \in 1..n /\ j # i
      BY <1>1
    <3> QED BY <1>1, <3>1 DEF IsInjective
  <2>5. s[i] \notin ToSet(r[i - 1])
    BY <2>3, <2>4
  <2>6. s[i] \in T => Append(r[i - 1], s[i]) \in Picks(E \cap T)
    BY <2>2, <2>5, AppendPick
  <2> QED BY <2>2, <2>6
<1>10. \A i \in 0..n : i \in Q
  <2> HIDE DEF Q
  <2> QED BY <1>1, <1>8, <1>9, UpTo
<1>11. n \in 0..n /\ n \in S /\ n \in P /\ n \in Q
  <2>1. n \in 0..n
    BY <1>1
  <2> QED BY <2>1, <1>4, <1>7, <1>10
<1>12. ToSet(r[n]) \subseteq ToSet(s)
  BY <1>1, <1>11 DEF ToSet
<1>13. ToSet(r[n]) \subseteq T
  <2>1. r[n] \in Seq(E \cap T)
    BY <1>11
  <2> QED BY <2>1 DEF ToSet
<1> QED BY <1>11, <1>12, <1>13

\* It takes every element that is in T.
Takes(r, s, T) == \A i \in 1..Len(s) : s[i] \in T => r[i] = Append(r[i - 1], s[i])

\* Appending loses nothing.
LEMMA AppendSet ==
  ASSUME NEW E, NEW l \in Seq(E), NEW x
  PROVE  ToSet(l) \subseteq ToSet(Append(l, x)) /\ x \in ToSet(Append(l, x))
<1> DEFINE m == Append(l, x)
<1>1. /\ Len(l) \in Nat /\ DOMAIN l = 1..Len(l) /\ DOMAIN m = 1..(Len(l) + 1)
      /\ m[Len(l) + 1] = x /\ \A i \in 1..Len(l) : m[i] = l[i]
  OBVIOUS
<1> HIDE DEF m
<1>2. Len(l) + 1 \in DOMAIN m /\ \A i \in 1..Len(l) : i \in DOMAIN m
  BY <1>1
<1>3. ToSet(l) \subseteq ToSet(m) /\ x \in ToSet(m)
  BY <1>1, <1>2 DEF ToSet
<1> QED BY <1>3 DEF m

\* If all of T is taken, nothing of T is missing.
LEMMA Taken ==
  ASSUME NEW E, NEW T, NEW s \in Seq(E), NEW r, Thins(r, s, E, T), Takes(r, s, T)
  PROVE  ToSet(s) \cap T \subseteq ToSet(r[Len(s)])
<1> DEFINE n == Len(s)
           S == {i \in 0..n : \A j \in 1..i : s[j] \in T => s[j] \in ToSet(r[i])}
<1>1. n \in Nat /\ DOMAIN s = 1..n /\ r \in [0..n -> Seq(E)]
  BY SeqDomain DEF Thins
<1>2. 0 \in S
  <2>1. 0 \in 0..n /\ 1..0 = {}
    BY <1>1
  <2> QED BY <2>1
<1>3. ASSUME NEW i \in 1..n, i - 1 \in S PROVE i \in S
  <2>1. i \in 0..n /\ i - 1 \in 0..n /\ \A j \in 1..i : j = i \/ j \in 1..(i - 1)
    BY <1>1
  <2>2. r[i - 1] \in Seq(E)
    BY <1>1, <2>1
  <2>3. ToSet(r[i - 1]) \subseteq ToSet(r[i])
    BY <2>2, AppendSet DEF Thins
  <2>4. s[i] \in T => s[i] \in ToSet(r[i])
    BY <2>2, AppendSet DEF Takes
  <2>5. \A j \in 1..(i - 1) : s[j] \in T => s[j] \in ToSet(r[i - 1])
    BY <1>3
  <2>6. \A j \in 1..i : s[j] \in T => s[j] \in ToSet(r[i])
    BY <2>1, <2>3, <2>4, <2>5
  <2> QED BY <2>1, <2>6
<1>4. \A i \in 0..n : i \in S
  <2> HIDE DEF S
  <2> QED BY <1>1, <1>2, <1>3, UpTo
<1>5. n \in 0..n
  BY <1>1
<1>6. \A j \in 1..n : s[j] \in T => s[j] \in ToSet(r[n])
  BY <1>4, <1>5
<1> QED BY <1>1, <1>6 DEF ToSet

\* It takes the first element.
Starts(r, s) == s # <<>> => r[1] = Append(<<>>, s[1])

\* If the first is taken, something is.
LEMMA Started ==
  ASSUME NEW E, NEW T, NEW s \in Seq(E), NEW r, Thins(r, s, E, T), Starts(r, s), s # <<>>
  PROVE  r[Len(s)] # <<>>
<1> DEFINE n == Len(s)
           S == {i \in 0..n : i = 0 \/ Len(r[i]) > 0}
<1>1. n \in Nat \ {0} /\ DOMAIN s = 1..n /\ r \in [0..n -> Seq(E)] /\ \A i \in 1..n : s[i] \in E
  BY SeqDomain DEF Thins
<1>2. n \in Nat /\ 0 \in S
  BY <1>1
<1>3. ASSUME NEW i \in 1..n, i - 1 \in S PROVE i \in S
  <2>1. i \in 0..n /\ i - 1 \in 0..n
    BY <1>1
  <2>2. CASE i = 1
    <3>1. s[1] \in E /\ r[1] = Append(<<>>, s[1]) /\ <<>> \in Seq(E)
      BY <1>1 DEF Starts
    <3>2. Len(r[1]) > 0
      BY <3>1
    <3> QED BY <2>1, <2>2, <3>2
  <2>3. CASE i # 1
    <3>1. Len(r[i - 1]) > 0 /\ r[i - 1] \in Seq(E) /\ s[i] \in E
      BY <1>1, <1>3, <2>1, <2>3
    <3>2. Len(Append(r[i - 1], s[i])) > 0
      BY <3>1
    <3>3. r[i] = r[i - 1] \/ r[i] = Append(r[i - 1], s[i])
      BY DEF Thins
    <3>4. Len(r[i]) > 0
      BY <3>1, <3>2, <3>3
    <3> QED BY <2>1, <3>4
  <2> QED BY <2>2, <2>3
<1>4. \A i \in 0..n : i \in S
  <2> HIDE DEF S
  <2> QED BY <1>2, <1>3, UpTo
<1>5. n \in 0..n /\ n # 0
  BY <1>1
<1>6. Len(r[n]) > 0
  BY <1>4, <1>5
<1> QED BY <1>6

\* A selection selects from its own elements.
LEMMA OwnPick ==
  ASSUME NEW A, NEW l \in Picks(A)
  PROVE  l \in Picks(ToSet(l)) /\ ToSet(l) \subseteq A
<1>1. l \in Seq(A) /\ IsInjective(l)
  BY DEF Picks
<1>2. Len(l) \in Nat /\ DOMAIN l = 1..Len(l) /\ l = [i \in 1..Len(l) |-> l[i]]
  BY <1>1
<1>3. ToSet(l) \subseteq A
  BY <1>1, <1>2 DEF ToSet
<1>4. \A i \in 1..Len(l) : l[i] \in ToSet(l)
  BY <1>2 DEF ToSet
<1>5. l \in Seq(ToSet(l))
  BY <1>2, <1>4
<1> QED BY <1>1, <1>3, <1>5 DEF Picks

\* What a cap leaves of a sequence.
LEMMA LeastPick ==
  ASSUME NEW A, NEW l \in Picks(A), NEW m \in Nat
  PROVE  /\ SubSeq(l, 1, Least(m, Len(l))) \in Picks(A)
         /\ ToSet(SubSeq(l, 1, Least(m, Len(l)))) \subseteq ToSet(l)
<1> DEFINE k == Least(m, Len(l))
           h == SubSeq(l, 1, k)
<1>1. Len(l) \in Nat /\ DOMAIN l = 1..Len(l)
  BY DEF Picks
<1>2. k \in Nat /\ k <= Len(l)
  BY <1>1 DEF Least
<1> HIDE DEF k
<1>3. h \in Picks(A) /\ Len(h) = k /\ \A i \in 1..k : h[i] = l[i]
  BY <1>2, HeadPick
<1>4. DOMAIN h = 1..k /\ \A i \in 1..k : i \in 1..Len(l)
  <2> HIDE DEF h
  <2> QED BY <1>1, <1>2, <1>3 DEF Picks
<1>5. ToSet(h) \subseteq ToSet(l)
  <2> HIDE DEF h
  <2> QED BY <1>1, <1>3, <1>4 DEF ToSet
<1> QED BY <1>3, <1>5 DEF k
-----------------------------------------------------------------------------
(***************************************************************************)
(* The folds of the selection.  FoldLeft takes an operator, which a lemma  *)
(* cannot have as a parameter, so each fold has a lemma of its own with    *)
(* the same steps: the step operator is a function on the set V it stays   *)
(* in, FoldExists gives the function that FoldLeft chooses, and FoldRun    *)
(* its values r[0], r[1], ... one element after another.                   *)
(***************************************************************************)

\* How Within goes through a sequence.
LEMMA WithinRun ==
  ASSUME NEW E, NEW s \in Seq(E), NEW T
  PROVE  \E r : Thins(r, s, E, T) /\ Takes(r, s, T) /\ Within(s, T) = r[Len(s)]
<1> DEFINE n == Len(s)
           V == Seq(E)
           op(l, x) == IF x \in T THEN Append(l, x) ELSE l
           step == [p \in (1..n) \X V |-> op(p[2], s[p[1]])]
<1>1. DOMAIN s = 1..n /\ n \in Nat /\ <<>> \in V
  BY SeqDomain
<1>2. \A l \in V, i \in 1..n : op(l, s[i]) \in V
  BY SeqDomain
<1> HIDE DEF n, V, op
<1>3. /\ step \in [(1..n) \X V -> V]
      /\ \A l \in V, i \in 1..n : step[<<i, l>>] = op(l, s[i])
  BY <1>2
<1> HIDE DEF step
<1>4. PICK g : IsFold(g, n, V, <<>>, step)
  BY <1>1, <1>3, FoldExists
<1>5. /\ g[{}] = <<>> /\ g \in [SUBSET (1..n) -> V]
      /\ \A t \in SUBSET (1..n) : t # {} => g[t] = op(g[t \ {Max(t)}], s[Max(t)])
  <2>1. g[{}] = <<>> /\ g \in [SUBSET (1..n) -> V]
    BY <1>4 DEF IsFold
  <2>2. \A t \in SUBSET (1..n) : t # {} => Max(t) \in 1..n /\ t \ {Max(t)} \in SUBSET (1..n)
    BY <1>1, MaxExists
  <2>3. \A t \in SUBSET (1..n) : t # {} => g[t] = op(g[t \ {Max(t)}], s[Max(t)])
    BY <1>3, <1>4, <2>1, <2>2 DEF IsFold
  <2> QED BY <2>1, <2>3
<1>6. g = [t \in SUBSET DOMAIN s |->
            IF t = {} THEN <<>> ELSE op(g[t \ {Max(t)}], s[Max(t)])]
  BY <1>1, <1>5
<1>7. PICK h : /\ Within(s, T) = h[DOMAIN s]
               /\ h = [t \in SUBSET DOMAIN s |->
                         IF t = {} THEN <<>> ELSE op(h[t \ {Max(t)}], s[Max(t)])]
  BY <1>6, Zenon DEF Within, FoldLeft, MapThenFoldSet, op
<1>8. /\ h[{}] = <<>>
      /\ \A t \in SUBSET (1..n) : t # {} => h[t] = op(h[t \ {Max(t)}], s[Max(t)])
  BY <1>1, <1>7
<1>9. IsRun([i \in 0..n |-> h[1..i]], n, V, <<>>, step)
  <2>1. ASSUME NEW t \in SUBSET (1..n), t # {}, h[t \ {Max(t)}] \in V
        PROVE  h[t] = step[<<Max(t), h[t \ {Max(t)}]>>]
    <3>1. Max(t) \in 1..n
      BY <1>1, <2>1, MaxExists
    <3>2. step[<<Max(t), h[t \ {Max(t)}]>>] = op(h[t \ {Max(t)}], s[Max(t)])
      BY <1>3, <2>1, <3>1, Zenon
    <3> QED BY <1>8, <2>1, <3>2, Zenon
  <2>2. Follows(h, n, V, <<>>, step)
    BY <1>8, <2>1 DEF Follows
  <2> QED BY <1>1, <1>3, <2>2, FoldRun
<1> DEFINE r == [i \in 0..n |-> h[1..i]]
<1>10. r[n] = Within(s, T)
  BY <1>1, <1>7
<1> HIDE DEF r
<1>11. r \in [0..n -> V] /\ r[0] = <<>> /\ \A i \in 1..n : r[i] = op(r[i - 1], s[i])
  <2>1. IsRun(r, n, V, <<>>, step)
    BY <1>9 DEF r
  <2>2. \A i \in 1..n : i - 1 \in 0..n
    BY <1>1
  <2> QED BY <1>3, <2>1, <2>2 DEF IsRun
<1>12. Thins(r, s, E, T)
  BY <1>1, <1>11, SeqDomain DEF Thins, n, V, op
<1>13. Takes(r, s, T)
  BY <1>1, <1>11, SeqDomain DEF Takes, n, op
<1> QED BY <1>10, <1>11, <1>12, <1>13 DEF n

\* Within keeps the elements of s that are in T, all of them.
LEMMA WithinIs ==
  ASSUME NEW E, NEW s \in Seq(E), NEW T
  PROVE  /\ Within(s, T) \in Seq(E \cap T) /\ ToSet(Within(s, T)) \subseteq ToSet(s) \cap T
         /\ IsInjective(s) => Within(s, T) \in Picks(E \cap T)
         /\ ToSet(s) \cap T \subseteq ToSet(Within(s, T))
<1>1. PICK r : Thins(r, s, E, T) /\ Takes(r, s, T) /\ Within(s, T) = r[Len(s)]
  BY WithinRun
<1>2. /\ r[Len(s)] \in Seq(E \cap T) /\ ToSet(r[Len(s)]) \subseteq ToSet(s) \cap T
      /\ IsInjective(s) => r[Len(s)] \in Picks(E \cap T)
  BY <1>1, Thinned
<1>3. ToSet(s) \cap T \subseteq ToSet(r[Len(s)])
  BY <1>1, Taken
<1> QED BY <1>1, <1>2, <1>3

\* How Dedup goes through a sequence.
LEMMA DedupRun ==
  ASSUME NEW E, NEW s \in Seq(E)
  PROVE  \E r : Thins(r, s, E, E) /\ Starts(r, s) /\ Dedup(s) = r[Len(s)]
<1> DEFINE n == Len(s)
           V == Seq(E)
           op(l, x) == IF \E k \in ToSet(l) : <<k, x>> \in Overlap THEN l ELSE Append(l, x)
           step == [p \in (1..n) \X V |-> op(p[2], s[p[1]])]
<1>1. DOMAIN s = 1..n /\ n \in Nat /\ <<>> \in V
  BY SeqDomain
<1>2. \A l \in V, i \in 1..n : op(l, s[i]) \in V
  BY SeqDomain
<1> HIDE DEF n, V, op
<1>3. /\ step \in [(1..n) \X V -> V]
      /\ \A l \in V, i \in 1..n : step[<<i, l>>] = op(l, s[i])
  BY <1>2
<1> HIDE DEF step
<1>4. PICK g : IsFold(g, n, V, <<>>, step)
  BY <1>1, <1>3, FoldExists
<1>5. /\ g[{}] = <<>> /\ g \in [SUBSET (1..n) -> V]
      /\ \A t \in SUBSET (1..n) : t # {} => g[t] = op(g[t \ {Max(t)}], s[Max(t)])
  <2>1. g[{}] = <<>> /\ g \in [SUBSET (1..n) -> V]
    BY <1>4 DEF IsFold
  <2>2. \A t \in SUBSET (1..n) : t # {} => Max(t) \in 1..n /\ t \ {Max(t)} \in SUBSET (1..n)
    BY <1>1, MaxExists
  <2>3. \A t \in SUBSET (1..n) : t # {} => g[t] = op(g[t \ {Max(t)}], s[Max(t)])
    BY <1>3, <1>4, <2>1, <2>2 DEF IsFold
  <2> QED BY <2>1, <2>3
<1>6. g = [t \in SUBSET DOMAIN s |->
            IF t = {} THEN <<>> ELSE op(g[t \ {Max(t)}], s[Max(t)])]
  BY <1>1, <1>5
<1>7. PICK h : /\ Dedup(s) = h[DOMAIN s]
               /\ h = [t \in SUBSET DOMAIN s |->
                         IF t = {} THEN <<>> ELSE op(h[t \ {Max(t)}], s[Max(t)])]
  BY <1>6, Zenon DEF Dedup, FoldLeft, MapThenFoldSet, op
<1>8. /\ h[{}] = <<>>
      /\ \A t \in SUBSET (1..n) : t # {} => h[t] = op(h[t \ {Max(t)}], s[Max(t)])
  BY <1>1, <1>7
<1>9. IsRun([i \in 0..n |-> h[1..i]], n, V, <<>>, step)
  <2>1. ASSUME NEW t \in SUBSET (1..n), t # {}, h[t \ {Max(t)}] \in V
        PROVE  h[t] = step[<<Max(t), h[t \ {Max(t)}]>>]
    <3>1. Max(t) \in 1..n
      BY <1>1, <2>1, MaxExists
    <3>2. step[<<Max(t), h[t \ {Max(t)}]>>] = op(h[t \ {Max(t)}], s[Max(t)])
      BY <1>3, <2>1, <3>1, Zenon
    <3> QED BY <1>8, <2>1, <3>2, Zenon
  <2>2. Follows(h, n, V, <<>>, step)
    BY <1>8, <2>1 DEF Follows
  <2> QED BY <1>1, <1>3, <2>2, FoldRun
<1> DEFINE r == [i \in 0..n |-> h[1..i]]
<1>10. r[n] = Dedup(s)
  BY <1>1, <1>7
<1> HIDE DEF r
<1>11. r \in [0..n -> V] /\ r[0] = <<>> /\ \A i \in 1..n : r[i] = op(r[i - 1], s[i])
  <2>1. IsRun(r, n, V, <<>>, step)
    BY <1>9 DEF r
  <2>2. \A i \in 1..n : i - 1 \in 0..n
    BY <1>1
  <2> QED BY <1>3, <2>1, <2>2 DEF IsRun
<1>12. Thins(r, s, E, E)
  BY <1>1, <1>11, SeqDomain DEF Thins, n, V, op
<1>13. Starts(r, s)
  <2> SUFFICES ASSUME s # <<>> PROVE r[1] = Append(<<>>, s[1])
    BY DEF Starts
  <2>1. 1 \in 1..n /\ 1 - 1 = 0
    BY <1>1 DEF n
  <2>2. r[1] = op(<<>>, s[1])
    BY <1>11, <2>1
  <2> QED BY <2>2, EmptyPick DEF op
<1> QED BY <1>10, <1>11, <1>12, <1>13 DEF n

\* Dedup keeps some of the elements, at least one if there is one.
LEMMA DedupIs ==
  ASSUME NEW E, NEW s \in Picks(E)
  PROVE  /\ Dedup(s) \in Picks(E) /\ ToSet(Dedup(s)) \subseteq ToSet(s)
         /\ s # <<>> => Dedup(s) # <<>>
<1>1. s \in Seq(E) /\ IsInjective(s)
  BY DEF Picks
<1>2. PICK r : Thins(r, s, E, E) /\ Starts(r, s) /\ Dedup(s) = r[Len(s)]
  BY <1>1, DedupRun
<1>3. ToSet(r[Len(s)]) \subseteq ToSet(s) \cap E /\ r[Len(s)] \in Picks(E \cap E)
  BY <1>1, <1>2, Thinned
<1>4. E \cap E = E
  OBVIOUS
<1>5. s # <<>> => r[Len(s)] # <<>>
  BY <1>1, <1>2, Started
<1> QED BY <1>2, <1>3, <1>4, <1>5

\* AddNew selects, and does not select twice.
LEMMA AddNewPick ==
  ASSUME NEW A, NEW l \in Picks(A), NEW x \in A
  PROVE  AddNew(l, x) \in Picks(A)
BY AppendPick DEF AddNew

\* What the later passes add comes behind what the first two chose.
Longer(A, b) == {l \in Picks(A) : Len(b) <= Len(l) /\ \A i \in 1..Len(b) : l[i] = b[i]}

LEMMA AddNewLonger ==
  ASSUME NEW A, NEW b \in Picks(A), NEW l \in Longer(A, b), NEW x \in A
  PROVE  AddNew(l, x) \in Longer(A, b)
<1>1. Len(b) \in Nat /\ Len(l) \in Nat /\ l \in Picks(A) /\ l \in Seq(A)
      /\ Len(b) <= Len(l) /\ \A i \in 1..Len(b) : l[i] = b[i]
  BY DEF Longer, Picks
<1>2. CASE x \in ToSet(l)
  BY <1>2 DEF AddNew
<1>3. CASE x \notin ToSet(l)
  <2> DEFINE m == Append(l, x)
  <2>1. m \in Picks(A)
    BY <1>1, <1>3, AppendPick
  <2>2. Len(m) = Len(l) + 1 /\ \A i \in 1..Len(l) : m[i] = l[i]
    BY <1>1
  <2>3. \A i \in 1..Len(b) : i \in 1..Len(l)
    BY <1>1
  <2> HIDE DEF m
  <2>4. m \in Longer(A, b)
    BY <1>1, <2>1, <2>2, <2>3 DEF Longer
  <2> QED BY <1>3, <2>4 DEF AddNew, m
<1> QED BY <1>2, <1>3

\* The folds of the selection put sources of a set A into it, each of them once.
LEMMA AddAllIs ==
  ASSUME NEW A, NEW sel \in Picks(A), NEW s \in Seq(A)
  PROVE  AddAll(sel, s) \in Picks(A)
<1> DEFINE n == Len(s)
           V == Picks(A)
           op(l, x) == AddNew(l, x)
           step == [p \in (1..n) \X V |-> op(p[2], s[p[1]])]
<1>1. DOMAIN s = 1..n /\ n \in Nat /\ sel \in V
  BY SeqDomain
<1>2. \A l \in V, i \in 1..n : op(l, s[i]) \in V
  BY SeqDomain, AddNewPick
<1> HIDE DEF n, V, op
<1>3. /\ step \in [(1..n) \X V -> V]
      /\ \A l \in V, i \in 1..n : step[<<i, l>>] = op(l, s[i])
  BY <1>2
<1> HIDE DEF step
<1>4. PICK g : IsFold(g, n, V, sel, step)
  BY <1>1, <1>3, FoldExists
<1>5. /\ g[{}] = sel /\ g \in [SUBSET (1..n) -> V]
      /\ \A t \in SUBSET (1..n) : t # {} => g[t] = op(g[t \ {Max(t)}], s[Max(t)])
  <2>1. g[{}] = sel /\ g \in [SUBSET (1..n) -> V]
    BY <1>4 DEF IsFold
  <2>2. \A t \in SUBSET (1..n) : t # {} => Max(t) \in 1..n /\ t \ {Max(t)} \in SUBSET (1..n)
    BY <1>1, MaxExists
  <2>3. \A t \in SUBSET (1..n) : t # {} => g[t] = op(g[t \ {Max(t)}], s[Max(t)])
    BY <1>3, <1>4, <2>1, <2>2 DEF IsFold
  <2> QED BY <2>1, <2>3
<1>6. g = [t \in SUBSET DOMAIN s |->
            IF t = {} THEN sel ELSE op(g[t \ {Max(t)}], s[Max(t)])]
  BY <1>1, <1>5
<1>7. PICK h : /\ AddAll(sel, s) = h[DOMAIN s]
               /\ h = [t \in SUBSET DOMAIN s |->
                         IF t = {} THEN sel ELSE op(h[t \ {Max(t)}], s[Max(t)])]
  BY <1>6, Zenon DEF AddAll, FoldLeft, MapThenFoldSet, op
<1>8. /\ h[{}] = sel
      /\ \A t \in SUBSET (1..n) : t # {} => h[t] = op(h[t \ {Max(t)}], s[Max(t)])
  BY <1>1, <1>7
<1>9. IsRun([i \in 0..n |-> h[1..i]], n, V, sel, step)
  <2>1. ASSUME NEW t \in SUBSET (1..n), t # {}, h[t \ {Max(t)}] \in V
        PROVE  h[t] = step[<<Max(t), h[t \ {Max(t)}]>>]
    <3>1. Max(t) \in 1..n
      BY <1>1, <2>1, MaxExists
    <3>2. step[<<Max(t), h[t \ {Max(t)}]>>] = op(h[t \ {Max(t)}], s[Max(t)])
      BY <1>3, <2>1, <3>1, Zenon
    <3> QED BY <1>8, <2>1, <3>2, Zenon
  <2>2. Follows(h, n, V, sel, step)
    BY <1>8, <2>1 DEF Follows
  <2> QED BY <1>1, <1>3, <2>2, FoldRun
<1> DEFINE r == [i \in 0..n |-> h[1..i]]
<1>10. r[n] = AddAll(sel, s)
  BY <1>1, <1>7
<1> HIDE DEF r
<1>11. r \in [0..n -> V] /\ r[0] = sel /\ \A i \in 1..n : r[i] = op(r[i - 1], s[i])
  <2>1. IsRun(r, n, V, sel, step)
    BY <1>9 DEF r
  <2>2. \A i \in 1..n : i - 1 \in 0..n
    BY <1>1
  <2> QED BY <1>3, <2>1, <2>2 DEF IsRun
<1>12. n \in 0..n
  BY <1>1
<1> QED BY <1>10, <1>11, <1>12 DEF V

\* The two passes over the searches, and the account of what they may take.
OpportunityRun(r, A) ==
  /\ r \in [0..(2 * Len(Groups)) -> Picks(A)] /\ r[0] = <<>>
  /\ \A i \in 1..Len(Groups) :
       /\ r[i] = Opportunity(r[i - 1], Groups[i])
       /\ r[Len(Groups) + i] = Opportunity(r[Len(Groups) + i - 1], Groups[i])

ShareRun(r) ==
  /\ r \in [0..Len(Groups) -> Nat] /\ r[0] = 0
  /\ \A i \in 1..Len(Groups) : r[i] = r[i - 1] + Least(2, Len(Ranked(Groups[i])))

LEMMA FairShareRun ==
  ASSUME Groups \in Seq(Calls), \A g \in Calls : Len(Ranked(g)) \in Nat
  PROVE  \E r : ShareRun(r) /\ FairShare = r[Len(Groups)]
<1> DEFINE n == Len(Groups)
           V == Nat
           op(l, x) == l + Least(2, Len(Ranked(x)))
           step == [p \in (1..n) \X V |-> op(p[2], Groups[p[1]])]
<1>1. DOMAIN Groups = 1..n /\ n \in Nat /\ 0 \in V
  BY SeqDomain
<1>2. \A l \in V, i \in 1..n : op(l, Groups[i]) \in V
  BY SeqDomain DEF Least
<1> HIDE DEF n, V, op
<1>3. /\ step \in [(1..n) \X V -> V]
      /\ \A l \in V, i \in 1..n : step[<<i, l>>] = op(l, Groups[i])
  BY <1>2
<1> HIDE DEF step
<1>4. PICK g : IsFold(g, n, V, 0, step)
  BY <1>1, <1>3, FoldExists
<1>5. /\ g[{}] = 0 /\ g \in [SUBSET (1..n) -> V]
      /\ \A t \in SUBSET (1..n) : t # {} => g[t] = op(g[t \ {Max(t)}], Groups[Max(t)])
  <2>1. g[{}] = 0 /\ g \in [SUBSET (1..n) -> V]
    BY <1>4 DEF IsFold
  <2>2. \A t \in SUBSET (1..n) : t # {} => Max(t) \in 1..n /\ t \ {Max(t)} \in SUBSET (1..n)
    BY <1>1, MaxExists
  <2>3. \A t \in SUBSET (1..n) : t # {} => g[t] = op(g[t \ {Max(t)}], Groups[Max(t)])
    BY <1>3, <1>4, <2>1, <2>2 DEF IsFold
  <2> QED BY <2>1, <2>3
<1>6. g = [t \in SUBSET DOMAIN Groups |->
            IF t = {} THEN 0 ELSE op(g[t \ {Max(t)}], Groups[Max(t)])]
  BY <1>1, <1>5
<1>7. PICK h : /\ FairShare = h[DOMAIN Groups]
               /\ h = [t \in SUBSET DOMAIN Groups |->
                         IF t = {} THEN 0 ELSE op(h[t \ {Max(t)}], Groups[Max(t)])]
  BY <1>6, Zenon DEF FairShare, FoldLeft, MapThenFoldSet, op
<1>8. /\ h[{}] = 0
      /\ \A t \in SUBSET (1..n) : t # {} => h[t] = op(h[t \ {Max(t)}], Groups[Max(t)])
  BY <1>1, <1>7
<1>9. IsRun([i \in 0..n |-> h[1..i]], n, V, 0, step)
  <2>1. ASSUME NEW t \in SUBSET (1..n), t # {}, h[t \ {Max(t)}] \in V
        PROVE  h[t] = step[<<Max(t), h[t \ {Max(t)}]>>]
    <3>1. Max(t) \in 1..n
      BY <1>1, <2>1, MaxExists
    <3>2. step[<<Max(t), h[t \ {Max(t)}]>>] = op(h[t \ {Max(t)}], Groups[Max(t)])
      BY <1>3, <2>1, <3>1, Zenon
    <3> QED BY <1>8, <2>1, <3>2, Zenon
  <2>2. Follows(h, n, V, 0, step)
    BY <1>8, <2>1 DEF Follows
  <2> QED BY <1>1, <1>3, <2>2, FoldRun
<1> DEFINE r == [i \in 0..n |-> h[1..i]]
<1>10. r[n] = FairShare
  BY <1>1, <1>7
<1> HIDE DEF r
<1>11. r \in [0..n -> V] /\ r[0] = 0 /\ \A i \in 1..n : r[i] = op(r[i - 1], Groups[i])
  <2>1. IsRun(r, n, V, 0, step)
    BY <1>9 DEF r
  <2>2. \A i \in 1..n : i - 1 \in 0..n
    BY <1>1
  <2> QED BY <1>3, <2>1, <2>2 DEF IsRun
<1>12. ShareRun(r)
  BY <1>1, <1>11, SeqDomain DEF ShareRun, n, V, op
<1> QED BY <1>10, <1>11, <1>12 DEF n

\* A search selects one of its own sources.
LEMMA OpportunityPick ==
  ASSUME NEW A, NEW l \in Picks(A), NEW g \in Calls, Ranked(g) \in Seq(A)
  PROVE  Opportunity(l, g) \in Picks(A)
<1> DEFINE left == Within(Ranked(g), Chunks \ ToSet(l))
<1>1. left \in Seq(A \cap (Chunks \ ToSet(l)))
  BY WithinIs
<1>2. CASE left # <<>>
  <2>1. Head(left) \in A \cap (Chunks \ ToSet(l))
    <3> HIDE DEF left
    <3> QED BY <1>1, <1>2
  <2>2. Append(l, Head(left)) \in Picks(A)
    <3> HIDE DEF left
    <3> QED BY <2>1, AppendPick
  <2> QED BY <1>2, <2>2 DEF Opportunity
<1> QED BY <1>2 DEF Opportunity

LEMMA OpportunitiesRun ==
  ASSUME NEW A, Groups \in Seq(Calls), \A g \in Calls : Ranked(g) \in Seq(A)
  PROVE  \E r : OpportunityRun(r, A) /\ Opportunities = r[2 * Len(Groups)]
<1> DEFINE rounds == Groups \o Groups
           n == Len(rounds)
           V == Picks(A)
           op(l, x) == Opportunity(l, x)
           step == [p \in (1..n) \X V |-> op(p[2], rounds[p[1]])]
<1>1. DOMAIN rounds = 1..n /\ n \in Nat /\ <<>> \in V
  <2>1. rounds \in Seq(Calls)
    OBVIOUS
  <2> QED BY <2>1, SeqDomain, EmptyPick
<1>2. \A l \in V, i \in 1..n : op(l, rounds[i]) \in V
  <2>1. rounds \in Seq(Calls)
    OBVIOUS
  <2> QED BY <2>1, SeqDomain, OpportunityPick
<1> HIDE DEF rounds, n, V, op
<1>3. /\ step \in [(1..n) \X V -> V]
      /\ \A l \in V, i \in 1..n : step[<<i, l>>] = op(l, rounds[i])
  BY <1>2
<1> HIDE DEF step
<1>4. PICK g : IsFold(g, n, V, <<>>, step)
  BY <1>1, <1>3, FoldExists
<1>5. /\ g[{}] = <<>> /\ g \in [SUBSET (1..n) -> V]
      /\ \A t \in SUBSET (1..n) : t # {} => g[t] = op(g[t \ {Max(t)}], rounds[Max(t)])
  <2>1. g[{}] = <<>> /\ g \in [SUBSET (1..n) -> V]
    BY <1>4 DEF IsFold
  <2>2. \A t \in SUBSET (1..n) : t # {} => Max(t) \in 1..n /\ t \ {Max(t)} \in SUBSET (1..n)
    BY <1>1, MaxExists
  <2>3. \A t \in SUBSET (1..n) : t # {} => g[t] = op(g[t \ {Max(t)}], rounds[Max(t)])
    BY <1>3, <1>4, <2>1, <2>2 DEF IsFold
  <2> QED BY <2>1, <2>3
<1>6. g = [t \in SUBSET DOMAIN rounds |->
            IF t = {} THEN <<>> ELSE op(g[t \ {Max(t)}], rounds[Max(t)])]
  BY <1>1, <1>5
<1>7. PICK h : /\ Opportunities = h[DOMAIN rounds]
               /\ h = [t \in SUBSET DOMAIN rounds |->
                         IF t = {} THEN <<>> ELSE op(h[t \ {Max(t)}], rounds[Max(t)])]
  <2>1. Opportunities = FoldLeft(Opportunity, <<>>, rounds)
    BY Zenon DEF Opportunities, rounds
  <2> QED BY <1>6, <2>1, Zenon DEF FoldLeft, MapThenFoldSet, op
<1>8. /\ h[{}] = <<>>
      /\ \A t \in SUBSET (1..n) : t # {} => h[t] = op(h[t \ {Max(t)}], rounds[Max(t)])
  BY <1>1, <1>7
<1>9. IsRun([i \in 0..n |-> h[1..i]], n, V, <<>>, step)
  <2>1. ASSUME NEW t \in SUBSET (1..n), t # {}, h[t \ {Max(t)}] \in V
        PROVE  h[t] = step[<<Max(t), h[t \ {Max(t)}]>>]
    <3>1. Max(t) \in 1..n
      BY <1>1, <2>1, MaxExists
    <3>2. step[<<Max(t), h[t \ {Max(t)}]>>] = op(h[t \ {Max(t)}], rounds[Max(t)])
      BY <1>3, <2>1, <3>1, Zenon
    <3> QED BY <1>8, <2>1, <3>2, Zenon
  <2>2. Follows(h, n, V, <<>>, step)
    BY <1>8, <2>1 DEF Follows
  <2> QED BY <1>1, <1>3, <2>2, FoldRun
<1> DEFINE r == [i \in 0..n |-> h[1..i]]
<1>10. r[n] = Opportunities
  BY <1>1, <1>7
<1> HIDE DEF r
<1>11. r \in [0..n -> V] /\ r[0] = <<>> /\ \A i \in 1..n : r[i] = op(r[i - 1], rounds[i])
  <2>1. IsRun(r, n, V, <<>>, step)
    BY <1>9 DEF r
  <2>2. \A i \in 1..n : i - 1 \in 0..n
    BY <1>1
  <2> QED BY <1>3, <2>1, <2>2 DEF IsRun
<1>12. /\ n = 2 * Len(Groups) /\ Len(Groups) \in Nat
       /\ \A i \in 1..Len(Groups) :
            /\ i \in 1..n /\ rounds[i] = Groups[i]
            /\ Len(Groups) + i \in 1..n /\ rounds[Len(Groups) + i] = Groups[i]
  BY DEF n, rounds
<1>13. OpportunityRun(r, A)
  BY <1>11, <1>12 DEF OpportunityRun, V, op
<1> QED BY <1>10, <1>12, <1>13

LEMMA EligibleIs ==
  ASSUME NEW A, Groups \in Seq(Calls), \A g \in Calls : Ranked(g) \in Seq(A)
  PROVE  Eligible \in Picks(A)
<1> DEFINE n == Len(Groups)
           V == Picks(A)
           op(l, x) == AddAll(l, Ranked(x))
           step == [p \in (1..n) \X V |-> op(p[2], Groups[p[1]])]
<1>1. DOMAIN Groups = 1..n /\ n \in Nat /\ <<>> \in V
  BY SeqDomain, EmptyPick
<1>2. \A l \in V, i \in 1..n : op(l, Groups[i]) \in V
  BY SeqDomain, AddAllIs
<1> HIDE DEF n, V, op
<1>3. /\ step \in [(1..n) \X V -> V]
      /\ \A l \in V, i \in 1..n : step[<<i, l>>] = op(l, Groups[i])
  BY <1>2
<1> HIDE DEF step
<1>4. PICK g : IsFold(g, n, V, <<>>, step)
  BY <1>1, <1>3, FoldExists
<1>5. /\ g[{}] = <<>> /\ g \in [SUBSET (1..n) -> V]
      /\ \A t \in SUBSET (1..n) : t # {} => g[t] = op(g[t \ {Max(t)}], Groups[Max(t)])
  <2>1. g[{}] = <<>> /\ g \in [SUBSET (1..n) -> V]
    BY <1>4 DEF IsFold
  <2>2. \A t \in SUBSET (1..n) : t # {} => Max(t) \in 1..n /\ t \ {Max(t)} \in SUBSET (1..n)
    BY <1>1, MaxExists
  <2>3. \A t \in SUBSET (1..n) : t # {} => g[t] = op(g[t \ {Max(t)}], Groups[Max(t)])
    BY <1>3, <1>4, <2>1, <2>2 DEF IsFold
  <2> QED BY <2>1, <2>3
<1>6. g = [t \in SUBSET DOMAIN Groups |->
            IF t = {} THEN <<>> ELSE op(g[t \ {Max(t)}], Groups[Max(t)])]
  BY <1>1, <1>5
<1>7. PICK h : /\ Eligible = h[DOMAIN Groups]
               /\ h = [t \in SUBSET DOMAIN Groups |->
                         IF t = {} THEN <<>> ELSE op(h[t \ {Max(t)}], Groups[Max(t)])]
  BY <1>6, Zenon DEF Eligible, FoldLeft, MapThenFoldSet, op
<1>8. /\ h[{}] = <<>>
      /\ \A t \in SUBSET (1..n) : t # {} => h[t] = op(h[t \ {Max(t)}], Groups[Max(t)])
  BY <1>1, <1>7
<1>9. IsRun([i \in 0..n |-> h[1..i]], n, V, <<>>, step)
  <2>1. ASSUME NEW t \in SUBSET (1..n), t # {}, h[t \ {Max(t)}] \in V
        PROVE  h[t] = step[<<Max(t), h[t \ {Max(t)}]>>]
    <3>1. Max(t) \in 1..n
      BY <1>1, <2>1, MaxExists
    <3>2. step[<<Max(t), h[t \ {Max(t)}]>>] = op(h[t \ {Max(t)}], Groups[Max(t)])
      BY <1>3, <2>1, <3>1, Zenon
    <3> QED BY <1>8, <2>1, <3>2, Zenon
  <2>2. Follows(h, n, V, <<>>, step)
    BY <1>8, <2>1 DEF Follows
  <2> QED BY <1>1, <1>3, <2>2, FoldRun
<1> DEFINE r == [i \in 0..n |-> h[1..i]]
<1>10. r[n] = Eligible
  BY <1>1, <1>7
<1> HIDE DEF r
<1>11. r \in [0..n -> V] /\ r[0] = <<>> /\ \A i \in 1..n : r[i] = op(r[i - 1], Groups[i])
  <2>1. IsRun(r, n, V, <<>>, step)
    BY <1>9 DEF r
  <2>2. \A i \in 1..n : i - 1 \in 0..n
    BY <1>1
  <2> QED BY <1>3, <2>1, <2>2 DEF IsRun
<1>12. n \in 0..n
  BY <1>1
<1> QED BY <1>10, <1>11, <1>12 DEF V

DocPicks(A, D, b) == [sel : Longer(A, b), docs : SUBSET D]

\* A document that is not covered adds a source behind the selected ones.
LEMMA DocumentPick ==
  ASSUME NEW A, NEW D, NEW b \in Picks(A), NEW acc \in DocPicks(A, D, b), NEW c \in A, DocOf[c] \in D
  PROVE  AddDocument(acc, c) \in DocPicks(A, D, b)
<1>1. AddNew(acc.sel, c) \in Longer(A, b) /\ acc.docs \cup {DocOf[c]} \in SUBSET D
  BY AddNewLonger DEF DocPicks
<1>2. [sel |-> AddNew(acc.sel, c), docs |-> acc.docs \cup {DocOf[c]}] \in DocPicks(A, D, b)
  BY <1>1 DEF DocPicks
<1> QED BY <1>2 DEF AddDocument

LEMMA DocumentsIs ==
  ASSUME NEW A, NEW b \in Picks(A), NEW sel \in Longer(A, b), Eligible \in Seq(A),
         NEW D, \A c \in A : DocOf[c] \in D
  PROVE  FoldLeft(AddDocument, [sel |-> sel, docs |-> {}], Eligible) \in DocPicks(A, D, b)
<1> DEFINE n == Len(Eligible)
           V == DocPicks(A, D, b)
           op(l, x) == AddDocument(l, x)
           step == [p \in (1..n) \X V |-> op(p[2], Eligible[p[1]])]
<1>1. DOMAIN Eligible = 1..n /\ n \in Nat /\ [sel |-> sel, docs |-> {}] \in V
  <2>1. [sel |-> sel, docs |-> {}] \in V
    BY DEF DocPicks
  <2>2. DOMAIN Eligible = 1..n /\ n \in Nat
    BY SeqDomain
  <2> QED BY <2>1, <2>2
<1>2. \A l \in V, i \in 1..n : op(l, Eligible[i]) \in V
  <2> SUFFICES ASSUME NEW l \in V, NEW i \in 1..n PROVE op(l, Eligible[i]) \in V
    OBVIOUS
  <2>1. Eligible[i] \in A /\ DocOf[Eligible[i]] \in D
    BY SeqDomain
  <2>2. AddDocument(l, Eligible[i]) \in DocPicks(A, D, b)
    BY <2>1, DocumentPick
  <2> QED BY <2>2
<1> HIDE DEF n, V, op
<1>3. /\ step \in [(1..n) \X V -> V]
      /\ \A l \in V, i \in 1..n : step[<<i, l>>] = op(l, Eligible[i])
  BY <1>2
<1> HIDE DEF step
<1>4. PICK g : IsFold(g, n, V, [sel |-> sel, docs |-> {}], step)
  BY <1>1, <1>3, FoldExists
<1>5. /\ g[{}] = [sel |-> sel, docs |-> {}] /\ g \in [SUBSET (1..n) -> V]
      /\ \A t \in SUBSET (1..n) : t # {} => g[t] = op(g[t \ {Max(t)}], Eligible[Max(t)])
  <2>1. g[{}] = [sel |-> sel, docs |-> {}] /\ g \in [SUBSET (1..n) -> V]
    BY <1>4 DEF IsFold
  <2>2. \A t \in SUBSET (1..n) : t # {} => Max(t) \in 1..n /\ t \ {Max(t)} \in SUBSET (1..n)
    BY <1>1, MaxExists
  <2>3. \A t \in SUBSET (1..n) : t # {} => g[t] = op(g[t \ {Max(t)}], Eligible[Max(t)])
    BY <1>3, <1>4, <2>1, <2>2 DEF IsFold
  <2> QED BY <2>1, <2>3
<1>6. g = [t \in SUBSET DOMAIN Eligible |->
            IF t = {} THEN [sel |-> sel, docs |-> {}] ELSE op(g[t \ {Max(t)}], Eligible[Max(t)])]
  BY <1>1, <1>5
<1>7. PICK h : /\ FoldLeft(AddDocument, [sel |-> sel, docs |-> {}], Eligible) = h[DOMAIN Eligible]
               /\ h = [t \in SUBSET DOMAIN Eligible |->
                         IF t = {} THEN [sel |-> sel, docs |-> {}] ELSE op(h[t \ {Max(t)}], Eligible[Max(t)])]
  BY <1>6, Zenon DEF FoldLeft, MapThenFoldSet, op
<1>8. /\ h[{}] = [sel |-> sel, docs |-> {}]
      /\ \A t \in SUBSET (1..n) : t # {} => h[t] = op(h[t \ {Max(t)}], Eligible[Max(t)])
  BY <1>1, <1>7
<1>9. IsRun([i \in 0..n |-> h[1..i]], n, V, [sel |-> sel, docs |-> {}], step)
  <2>1. ASSUME NEW t \in SUBSET (1..n), t # {}, h[t \ {Max(t)}] \in V
        PROVE  h[t] = step[<<Max(t), h[t \ {Max(t)}]>>]
    <3>1. Max(t) \in 1..n
      BY <1>1, <2>1, MaxExists
    <3>2. step[<<Max(t), h[t \ {Max(t)}]>>] = op(h[t \ {Max(t)}], Eligible[Max(t)])
      BY <1>3, <2>1, <3>1, Zenon
    <3> QED BY <1>8, <2>1, <3>2, Zenon
  <2>2. Follows(h, n, V, [sel |-> sel, docs |-> {}], step)
    BY <1>8, <2>1 DEF Follows
  <2> QED BY <1>1, <1>3, <2>2, FoldRun
<1> DEFINE r == [i \in 0..n |-> h[1..i]]
<1>10. r[n] = FoldLeft(AddDocument, [sel |-> sel, docs |-> {}], Eligible)
  BY <1>1, <1>7
<1> HIDE DEF r
<1>11. r \in [0..n -> V] /\ r[0] = [sel |-> sel, docs |-> {}] /\ \A i \in 1..n : r[i] = op(r[i - 1], Eligible[i])
  <2>1. IsRun(r, n, V, [sel |-> sel, docs |-> {}], step)
    BY <1>9 DEF r
  <2>2. \A i \in 1..n : i - 1 \in 0..n
    BY <1>1
  <2> QED BY <1>3, <2>1, <2>2 DEF IsRun
<1>12. n \in 0..n
  BY <1>1
<1> QED BY <1>10, <1>11, <1>12 DEF V

LEMMA AddRankIs ==
  ASSUME NEW A, NEW b \in Picks(A), Groups \in Seq(Calls), \A g \in Calls : Ranked(g) \in Seq(A),
         NEW sel \in Longer(A, b), NEW k \in Nat \ {0}
  PROVE  AddRank(sel, k) \in Longer(A, b)
<1> DEFINE n == Len(Groups)
           V == Longer(A, b)
           op(l, x) == IF Len(l) < Room /\ k <= Len(Ranked(x)) THEN AddNew(l, Ranked(x)[k]) ELSE l
           step == [p \in (1..n) \X V |-> op(p[2], Groups[p[1]])]
<1>1. DOMAIN Groups = 1..n /\ n \in Nat /\ sel \in V
  BY SeqDomain
<1>2. \A l \in V, i \in 1..n : op(l, Groups[i]) \in V
  <2>1. \A g \in Calls : k <= Len(Ranked(g)) => Ranked(g)[k] \in A
    BY SeqDomain
  <2>2. \A i \in 1..n : Groups[i] \in Calls
    BY SeqDomain
  <2> QED BY <2>1, <2>2, AddNewLonger
<1> HIDE DEF n, V, op
<1>3. /\ step \in [(1..n) \X V -> V]
      /\ \A l \in V, i \in 1..n : step[<<i, l>>] = op(l, Groups[i])
  BY <1>2
<1> HIDE DEF step
<1>4. PICK g : IsFold(g, n, V, sel, step)
  BY <1>1, <1>3, FoldExists
<1>5. /\ g[{}] = sel /\ g \in [SUBSET (1..n) -> V]
      /\ \A t \in SUBSET (1..n) : t # {} => g[t] = op(g[t \ {Max(t)}], Groups[Max(t)])
  <2>1. g[{}] = sel /\ g \in [SUBSET (1..n) -> V]
    BY <1>4 DEF IsFold
  <2>2. \A t \in SUBSET (1..n) : t # {} => Max(t) \in 1..n /\ t \ {Max(t)} \in SUBSET (1..n)
    BY <1>1, MaxExists
  <2>3. \A t \in SUBSET (1..n) : t # {} => g[t] = op(g[t \ {Max(t)}], Groups[Max(t)])
    BY <1>3, <1>4, <2>1, <2>2 DEF IsFold
  <2> QED BY <2>1, <2>3
<1>6. g = [t \in SUBSET DOMAIN Groups |->
            IF t = {} THEN sel ELSE op(g[t \ {Max(t)}], Groups[Max(t)])]
  BY <1>1, <1>5
<1>7. PICK h : /\ AddRank(sel, k) = h[DOMAIN Groups]
               /\ h = [t \in SUBSET DOMAIN Groups |->
                         IF t = {} THEN sel ELSE op(h[t \ {Max(t)}], Groups[Max(t)])]
  BY <1>6, Zenon DEF AddRank, FoldLeft, MapThenFoldSet, op
<1>8. /\ h[{}] = sel
      /\ \A t \in SUBSET (1..n) : t # {} => h[t] = op(h[t \ {Max(t)}], Groups[Max(t)])
  BY <1>1, <1>7
<1>9. IsRun([i \in 0..n |-> h[1..i]], n, V, sel, step)
  <2>1. ASSUME NEW t \in SUBSET (1..n), t # {}, h[t \ {Max(t)}] \in V
        PROVE  h[t] = step[<<Max(t), h[t \ {Max(t)}]>>]
    <3>1. Max(t) \in 1..n
      BY <1>1, <2>1, MaxExists
    <3>2. step[<<Max(t), h[t \ {Max(t)}]>>] = op(h[t \ {Max(t)}], Groups[Max(t)])
      BY <1>3, <2>1, <3>1, Zenon
    <3> QED BY <1>8, <2>1, <3>2, Zenon
  <2>2. Follows(h, n, V, sel, step)
    BY <1>8, <2>1 DEF Follows
  <2> QED BY <1>1, <1>3, <2>2, FoldRun
<1> DEFINE r == [i \in 0..n |-> h[1..i]]
<1>10. r[n] = AddRank(sel, k)
  BY <1>1, <1>7
<1> HIDE DEF r
<1>11. r \in [0..n -> V] /\ r[0] = sel /\ \A i \in 1..n : r[i] = op(r[i - 1], Groups[i])
  <2>1. IsRun(r, n, V, sel, step)
    BY <1>9 DEF r
  <2>2. \A i \in 1..n : i - 1 \in 0..n
    BY <1>1
  <2> QED BY <1>3, <2>1, <2>2 DEF IsRun
<1>12. n \in 0..n
  BY <1>1
<1> QED BY <1>10, <1>11, <1>12 DEF V

LEMMA FillByRankIs ==
  ASSUME NEW A, NEW b \in Picks(A), Groups \in Seq(Calls), \A g \in Calls : Ranked(g) \in Seq(A),
         NEW sel \in Longer(A, b)
  PROVE  FillByRank(sel) \in Longer(A, b)
<1> DEFINE ranks == [k \in 1..MaxResults |-> k]
           n == Len(ranks)
           V == Longer(A, b)
           op(l, x) == AddRank(l, x)
           step == [p \in (1..n) \X V |-> op(p[2], ranks[p[1]])]
<1>1. DOMAIN ranks = 1..n /\ n \in Nat /\ sel \in V
  <2>1. MaxResults \in Nat /\ ranks \in Seq(Nat)
    BY ToolTurnAssumption
  <2> QED BY <2>1, SeqDomain
<1>2. \A l \in V, i \in 1..n : op(l, ranks[i]) \in V
  <2>1. \A i \in 1..n : ranks[i] \in Nat \ {0}
    BY ToolTurnAssumption
  <2> QED BY <2>1, AddRankIs
<1> HIDE DEF ranks, n, V, op
<1>3. /\ step \in [(1..n) \X V -> V]
      /\ \A l \in V, i \in 1..n : step[<<i, l>>] = op(l, ranks[i])
  BY <1>2
<1> HIDE DEF step
<1>4. PICK g : IsFold(g, n, V, sel, step)
  BY <1>1, <1>3, FoldExists
<1>5. /\ g[{}] = sel /\ g \in [SUBSET (1..n) -> V]
      /\ \A t \in SUBSET (1..n) : t # {} => g[t] = op(g[t \ {Max(t)}], ranks[Max(t)])
  <2>1. g[{}] = sel /\ g \in [SUBSET (1..n) -> V]
    BY <1>4 DEF IsFold
  <2>2. \A t \in SUBSET (1..n) : t # {} => Max(t) \in 1..n /\ t \ {Max(t)} \in SUBSET (1..n)
    BY <1>1, MaxExists
  <2>3. \A t \in SUBSET (1..n) : t # {} => g[t] = op(g[t \ {Max(t)}], ranks[Max(t)])
    BY <1>3, <1>4, <2>1, <2>2 DEF IsFold
  <2> QED BY <2>1, <2>3
<1>6. g = [t \in SUBSET DOMAIN ranks |->
            IF t = {} THEN sel ELSE op(g[t \ {Max(t)}], ranks[Max(t)])]
  BY <1>1, <1>5
<1>7. PICK h : /\ FillByRank(sel) = h[DOMAIN ranks]
               /\ h = [t \in SUBSET DOMAIN ranks |->
                         IF t = {} THEN sel ELSE op(h[t \ {Max(t)}], ranks[Max(t)])]
  <2>1. FillByRank(sel) = FoldLeft(AddRank, sel, ranks)
    BY Zenon DEF FillByRank, ranks
  <2> QED BY <1>6, <2>1, Zenon DEF FoldLeft, MapThenFoldSet, op
<1>8. /\ h[{}] = sel
      /\ \A t \in SUBSET (1..n) : t # {} => h[t] = op(h[t \ {Max(t)}], ranks[Max(t)])
  BY <1>1, <1>7
<1>9. IsRun([i \in 0..n |-> h[1..i]], n, V, sel, step)
  <2>1. ASSUME NEW t \in SUBSET (1..n), t # {}, h[t \ {Max(t)}] \in V
        PROVE  h[t] = step[<<Max(t), h[t \ {Max(t)}]>>]
    <3>1. Max(t) \in 1..n
      BY <1>1, <2>1, MaxExists
    <3>2. step[<<Max(t), h[t \ {Max(t)}]>>] = op(h[t \ {Max(t)}], ranks[Max(t)])
      BY <1>3, <2>1, <3>1, Zenon
    <3> QED BY <1>8, <2>1, <3>2, Zenon
  <2>2. Follows(h, n, V, sel, step)
    BY <1>8, <2>1 DEF Follows
  <2> QED BY <1>1, <1>3, <2>2, FoldRun
<1> DEFINE r == [i \in 0..n |-> h[1..i]]
<1>10. r[n] = FillByRank(sel)
  BY <1>1, <1>7
<1> HIDE DEF r
<1>11. r \in [0..n -> V] /\ r[0] = sel /\ \A i \in 1..n : r[i] = op(r[i - 1], ranks[i])
  <2>1. IsRun(r, n, V, sel, step)
    BY <1>9 DEF r
  <2>2. \A i \in 1..n : i - 1 \in 0..n
    BY <1>1
  <2> QED BY <1>3, <2>1, <2>2 DEF IsRun
<1>12. n \in 0..n
  BY <1>1
<1> QED BY <1>10, <1>11, <1>12 DEF V

-----------------------------------------------------------------------------
(* The selection: it takes sources in hand, each of them once                *)

\* What the selection reads: the sources in hand and the results of the searches.
Hand == sources \in Picks(Citable) /\ found \in [Calls -> Picks(Chunks)]

\* Most yields the largest number of a set that has one.
LEMMA MostIs ==
  ASSUME NEW S \in SUBSET Int, NEW m \in S, \A x \in S : x <= m
  PROVE  Most(S) = m
<1>1. \A x \in S : (\A y \in S : y <= x) => x = m
  OBVIOUS
<1> QED BY <1>1 DEF Most

\* It is no smaller than any of three numbers, and exists for the sizes of the searches.
LEMMA MostOfThree ==
  ASSUME NEW a \in Int, NEW b \in Int, NEW c \in Int
  PROVE  LET m == Most({a, b, c}) IN m \in Int /\ a <= m /\ b <= m /\ c <= m
<1>1. \E m \in {a, b, c} : a <= m /\ b <= m /\ c <= m
  OBVIOUS
<1>2. PICK m \in {a, b, c} : a <= m /\ b <= m /\ c <= m
  BY <1>1
<1>3. Most({a, b, c}) = m
  <2>1. {a, b, c} \in SUBSET Int /\ \A x \in {a, b, c} : x <= m
    BY <1>2
  <2> HIDE DEF Most
  <2> QED BY <1>2, <2>1, MostIs
<1> QED BY <1>2, <1>3

LEMMA MostOfMany ==
  ASSUME NEW n \in Nat \ {0}, NEW f \in [1..n -> Nat]
  PROVE  Most({f[i] : i \in 1..n}) \in Nat
<1> DEFINE S == {k \in 0..n : k = 0 \/ \E m \in 1..k : \A i \in 1..k : f[i] <= f[m]}
<1>1. n \in Nat /\ 0 \in S
  OBVIOUS
<1>2. ASSUME NEW k \in 1..n, k - 1 \in S PROVE k \in S
  <2>1. k \in 0..n /\ k \in 1..k /\ \A i \in 1..k : i = k \/ i \in 1..(k - 1)
    BY <1>1
  <2>2. CASE k - 1 = 0
    <3>1. \A i \in 1..k : i = k /\ f[i] <= f[k]
      BY <2>2
    <3> QED BY <2>1, <3>1
  <2>3. CASE k - 1 # 0
    <3>1. PICK m \in 1..(k - 1) : \A i \in 1..(k - 1) : f[i] <= f[m]
      BY <1>2, <2>3
    <3>2. m \in 1..k /\ m \in 1..n /\ f[m] \in Nat /\ f[k] \in Nat
      BY <1>1
    <3>3. CASE f[k] <= f[m]
      <4>1. \A i \in 1..k : f[i] <= f[m]
        BY <2>1, <3>1, <3>3
      <4> QED BY <2>1, <3>2, <4>1
    <3>4. CASE f[m] <= f[k]
      <4>1. \A i \in 1..(k - 1) : f[i] \in Nat
        BY <1>1
      <4>2. \A i \in 1..k : f[i] <= f[k]
        BY <2>1, <3>1, <3>2, <3>4, <4>1
      <4> QED BY <2>1, <4>2
    <3> QED BY <3>2, <3>3, <3>4
  <2> QED BY <2>2, <2>3
<1>3. \A k \in 0..n : k \in S
  <2> HIDE DEF S
  <2> QED BY <1>1, <1>2, UpTo
<1>4. PICK m \in 1..n : \A i \in 1..n : f[i] <= f[m]
  <2>1. n \in 0..n /\ n # 0
    OBVIOUS
  <2>2. n \in S
    BY <1>3, <2>1
  <2> QED BY <2>1, <2>2
<1>5. /\ {f[i] : i \in 1..n} \in SUBSET Int /\ f[m] \in {f[i] : i \in 1..n}
      /\ \A x \in {f[i] : i \in 1..n} : x <= f[m]
  BY <1>4
<1>6. Most({f[i] : i \in 1..n}) = f[m]
  BY <1>5, MostIs
<1> QED BY <1>6

\* The groups are calls.
LEMMA GroupsIs == Groups \in Seq(Calls)
<1>1. [k \in Calls |-> k] \in Seq(Calls)
  BY ToolTurnAssumption DEF Calls
<1>2. Groups \in Seq(Calls \cap Searches)
  BY <1>1, WithinIs DEF Groups
<1> QED BY <1>2

\* Pinned and candidates are sources in hand.
LEMMA InHand ==
  ASSUME Hand
  PROVE  /\ Pinned \in Picks({Inventory}) /\ ToSet(Pinned) \subseteq ToSet(sources)
         /\ Candidates \in Picks(Chunks) /\ ToSet(Candidates) \subseteq ToSet(sources)
         /\ Candidates \in Picks(ToSet(Candidates))
<1>1. sources \in Seq(Citable) /\ IsInjective(sources)
  BY DEF Hand, Picks
<1>2. Citable \cap {Inventory} = {Inventory} /\ Citable \cap Chunks = Chunks
  BY DEF Citable
<1>3. Pinned \in Picks({Inventory}) /\ ToSet(Pinned) \subseteq ToSet(sources)
  <2> DEFINE pinned == Within(sources, {Inventory})
  <2>1. pinned \in Picks({Inventory}) /\ ToSet(pinned) \subseteq ToSet(sources)
    BY <1>1, <1>2, WithinIs
  <2>2. Pinned = SubSeq(pinned, 1, Least(MinSources, Len(pinned)))
    BY DEF Pinned
  <2> HIDE DEF pinned
  <2>3. Pinned \in Picks({Inventory}) /\ ToSet(Pinned) \subseteq ToSet(pinned)
    BY <2>1, <2>2, ToolTurnAssumption, LeastPick
  <2> QED BY <2>1, <2>3
<1>4. Candidates \in Picks(Chunks) /\ ToSet(Candidates) \subseteq ToSet(sources)
  BY <1>1, <1>2, WithinIs DEF Candidates
<1>5. Candidates \in Picks(ToSet(Candidates))
  BY <1>4, OwnPick
<1> QED BY <1>3, <1>4, <1>5

\* What is left of a search's results are candidates.
LEMMA RankedIs ==
  ASSUME Hand, NEW g \in Calls
  PROVE  /\ Ranked(g) \in Picks(ToSet(Candidates)) /\ Ranked(g) \in Seq(ToSet(Candidates))
         /\ Len(Ranked(g)) \in Nat
<1> DEFINE A == ToSet(Candidates)
           left == Within(found[g], A)
<1>1. found[g] \in Seq(Chunks) /\ IsInjective(found[g])
  BY DEF Hand, Picks
<1>2. left \in Picks(Chunks \cap A)
  BY <1>1, WithinIs
<1>3. Chunks \cap A = A
  BY InHand DEF Picks, ToSet
<1>4. Dedup(left) \in Picks(A)
  BY <1>2, <1>3, DedupIs
<1>5. Ranked(g) \in Picks(A)
  BY <1>4 DEF Ranked
<1>6. Ranked(g) \in Seq(A)
  BY <1>5 DEF Picks
<1> QED BY <1>5, <1>6, SeqDomain

\* There is room for the largest search and for the fair share.
LEMMA RoomIs ==
  ASSUME Hand
  PROVE  /\ Room \in Nat /\ LargestSearch \in Nat /\ FairShare \in Nat
         /\ LargestSearch <= Room /\ FairShare <= Room
<1> DEFINE p == Len(Pinned)
<1>1. p \in Nat
  BY InHand DEF Picks
<1>2. LargestSearch \in Nat
  <2>1. Len(Candidates) \in Nat
    BY InHand DEF Picks
  <2>2. CASE Groups # <<>>
    <3> DEFINE n == Len(Groups)
               f == [i \in 1..n |-> Len(Ranked(Groups[i]))]
    <3>1. n \in Nat \ {0} /\ DOMAIN Groups = 1..n /\ \A i \in 1..n : Groups[i] \in Calls
      BY <2>2, GroupsIs
    <3>2. f \in [1..n -> Nat]
      BY <3>1, RankedIs
    <3>3. {Len(Ranked(g)) : g \in ToSet(Groups)} = {f[i] : i \in 1..n}
      BY <3>1 DEF ToSet
    <3>4. Most({f[i] : i \in 1..n}) \in Nat
      <4> HIDE DEF f, n
      <4> QED BY <3>1, <3>2, MostOfMany
    <3> QED BY <2>2, <3>3, <3>4 DEF LargestSearch
  <2> QED BY <2>1, <2>2 DEF LargestSearch
<1>3. FairShare \in Nat
  <2>1. PICK r : ShareRun(r) /\ FairShare = r[Len(Groups)]
    BY GroupsIs, RankedIs, FairShareRun
  <2>2. Len(Groups) \in 0..Len(Groups)
    BY GroupsIs
  <2> QED BY <2>1, <2>2 DEF ShareRun
<1>4. /\ SourceLimit \in Int /\ p + LargestSearch <= SourceLimit
      /\ p + FairShare <= SourceLimit
  <2>1. MinSources \in Int /\ p + LargestSearch \in Int /\ p + FairShare \in Int
    BY <1>1, <1>2, <1>3, ToolTurnAssumption
  <2> QED BY <2>1, MostOfThree DEF SourceLimit
<1> QED BY <1>1, <1>2, <1>3, <1>4 DEF Room

\* The two passes select candidates.
LEMMA OpportunitiesPick ==
  ASSUME Hand
  PROVE  Opportunities \in Picks(ToSet(Candidates))
<1>1. Groups \in Seq(Calls) /\ \A g \in Calls : Ranked(g) \in Seq(ToSet(Candidates))
  BY GroupsIs, RankedIs
<1>2. PICK r : OpportunityRun(r, ToSet(Candidates)) /\ Opportunities = r[2 * Len(Groups)]
  BY <1>1, OpportunitiesRun
<1>3. 2 * Len(Groups) \in 0..(2 * Len(Groups))
  BY <1>1
<1> QED BY <1>2, <1>3 DEF OpportunityRun

\* The later passes keep what the first two selected, in front.
LEMMA ManyIs ==
  ASSUME Hand
  PROVE  FillByRank(DistinctDocuments(Opportunities)) \in Longer(ToSet(Candidates), Opportunities)
<1> DEFINE A == ToSet(Candidates)
           b == Opportunities
<1>1. Groups \in Seq(Calls) /\ \A g \in Calls : Ranked(g) \in Seq(A)
  BY GroupsIs, RankedIs
<1>2. b \in Picks(A) /\ Eligible \in Picks(A) /\ Eligible \in Seq(A)
  <2>1. Eligible \in Picks(A)
    BY <1>1, EligibleIs
  <2> QED BY <2>1, OpportunitiesPick DEF Picks
<1>3. b \in Longer(A, b)
  <2>1. Len(b) \in Nat
    BY <1>2 DEF Picks
  <2> QED BY <1>2, <2>1 DEF Longer
<1> DEFINE D == {DocOf[c] : c \in A}
           docs == FoldLeft(AddDocument, [sel |-> b, docs |-> {}], Eligible)
<1>4. \A c \in A : DocOf[c] \in D
  OBVIOUS
<1> HIDE DEF D
<1>5. docs \in DocPicks(A, D, b)
  BY <1>2, <1>3, <1>4, DocumentsIs
<1>6. DistinctDocuments(b) \in Longer(A, b)
  <2> HIDE DEF docs
  <2>1. docs.sel \in Longer(A, b)
    BY <1>5 DEF DocPicks
  <2> QED BY <2>1 DEF DistinctDocuments, docs
<1> QED BY <1>1, <1>2, <1>6, FillByRankIs

\* Whatever is selected are candidates, each once.
LEMMA SelectedIs == ASSUME Hand PROVE Selected \in Picks(ToSet(Candidates))
<1> DEFINE A == ToSet(Candidates)
<1>1. Room \in Nat /\ Candidates \in Picks(A) /\ Candidates \in Seq(A)
  BY RoomIs, InHand DEF Picks
<1>2. PruneOverlapping(Candidates, Room) \in Picks(A)
  <2>1. ASSUME NEW K PROVE LET all == Within(Candidates, K)
                           IN  SubSeq(all, 1, Least(Room, Len(all))) \in Picks(A)
    <3> DEFINE all == Within(Candidates, K)
    <3>1. all \in Picks(A \cap K)
      BY <1>1, WithinIs DEF Picks
    <3>2. all \in Picks(A)
      BY <3>1 DEF Picks
    <3> QED BY <1>1, <3>2, LeastPick
  <2>2. Dedup(Candidates) \in Picks(A)
    BY <1>1, DedupIs
  <2> QED BY <2>1, <2>2 DEF PruneOverlapping
<1>3. FillByRank(DistinctDocuments(Opportunities)) \in Picks(A)
  BY ManyIs DEF Longer
<1> QED BY <1>1, <1>2, <1>3, LeastPick DEF Selected

\* Pruning only takes sources away.
LEMMA PrunedIs ==
  ASSUME Hand
  PROVE  /\ Pruned \in Picks(Citable) /\ ToSet(Pruned) \subseteq ToSet(sources)
         /\ ToSet(Selected) \subseteq ToSet(Pruned)
<1> DEFINE A == ToSet(Candidates)
<1>1. Pinned \in Picks({Inventory}) /\ ToSet(Pinned) \subseteq ToSet(sources)
  BY InHand
<1>2. Selected \in Picks(A) /\ ToSet(Selected) \subseteq A /\ A \subseteq Chunks
  BY SelectedIs, InHand DEF Picks, ToSet
<1>3. ToSet(Pinned) \subseteq {Inventory}
  BY <1>1 DEF Picks, ToSet
<1>4. ToSet(Pinned) \cap ToSet(Selected) = {}
  BY <1>2, <1>3, ToolTurnAssumption
<1>5. Selected \in Picks(Citable) /\ Pinned \in Picks(Citable)
  BY <1>1, <1>2 DEF Picks, Citable
<1>6. /\ Pinned \o Selected \in Picks(Citable)
      /\ ToSet(Pinned \o Selected) = ToSet(Pinned) \cup ToSet(Selected)
  <2>1. Apart(Pinned, Selected, Citable)
    BY <1>4, <1>5 DEF Apart
  <2> QED BY <2>1, JoinPick
<1> QED BY <1>1, <1>2, <1>6, InHand DEF Pruned

-----------------------------------------------------------------------------
(* One turn after another                                                    *)

Message == [call : Calls, turn : Calls, catalog : Seq(Citable)]

TurnTyped ==
  /\ tool \in [Calls -> Tools \cup {"none"}]
  /\ phase \in [Calls -> {"none", "running", "silent", "done"}]
  /\ results \in [Calls -> Nat]
  /\ batch \in Seq(Calls) /\ serial \in BOOLEAN
  /\ citation \in [Citable -> Nat]
  /\ messages \in Seq(Message)

\* The numbers given so far are the first ones, each given once.
Numbered ==
  /\ IsFiniteSet(Cited)
  /\ \A c \in Cited : citation[c] <= Cardinality(Cited)
  /\ \A c, d \in Cited : citation[c] = citation[d] => c = d
  /\ ToSet(sources) \subseteq Cited

ToolInv == TurnTyped /\ Hand /\ Numbered /\ CatalogIsEvidence

\* As many elements as places.
LEMMA CountPick ==
  ASSUME NEW A, NEW l \in Picks(A)
  PROVE  IsFiniteSet(ToSet(l)) /\ Cardinality(ToSet(l)) = Len(l)
<1>1. l \in Seq(A) /\ Len(l) \in Nat /\ DOMAIN l = 1..Len(l)
      /\ \A i, j \in 1..Len(l) : l[i] = l[j] => i = j
  BY DEF Picks, IsInjective
<1>2. l \in [1..Len(l) -> ToSet(l)]
  BY <1>1 DEF ToSet
<1>3. l \in Bijection(1..Len(l), ToSet(l))
  BY <1>1, <1>2, Zenon DEF Bijection, Injection, Surjection, IsInjective, ToSet
<1>4. ExistsBijection(1..Len(l), ToSet(l))
  BY <1>3 DEF ExistsBijection
<1> QED BY <1>1, <1>4, FS_NatBijection, FS_CountingElements

\* Registering numbers the new sources after the ones cited so far.
LEMMA RegisterNumbers ==
  ASSUME TurnTyped, Hand, Numbered, NEW result \in Picks(Citable), Register(result)
  PROVE  citation' \in [Citable -> Nat] /\ sources' \in Picks(Citable) /\ Numbered'
<1> DEFINE new == Fresh(result)
           N == Cardinality(Cited)
           num(c) == CHOOSE i \in 1..Len(new) : new[i] = c
<1>1. new \in Picks(Citable \ Cited) /\ new \in Picks(Citable)
  <2>1. new \in Picks(Citable \cap (Citable \ Cited))
    BY WithinIs DEF Picks, Fresh
  <2>2. Citable \cap (Citable \ Cited) = Citable \ Cited
    OBVIOUS
  <2> QED BY <2>1, <2>2 DEF Picks
<1>2. Len(new) \in Nat /\ DOMAIN new = 1..Len(new) /\ \A i \in 1..Len(new) : new[i] \in Citable \ Cited
  <2> HIDE DEF new
  <2>1. new \in Seq(Citable \ Cited)
    BY <1>1 DEF Picks
  <2> QED BY <2>1
<1>3. N \in Nat /\ IsFiniteSet(Cited)
  BY FS_CardinalityType DEF Numbered
<1>4. /\ \A c \in ToSet(new) : num(c) \in 1..Len(new) /\ new[num(c)] = c
      /\ \A c \in Citable : c \in ToSet(new) <=> \E i \in 1..Len(new) : new[i] = c
  <2> HIDE DEF new
  <2> QED BY <1>2 DEF ToSet
<1>5. citation' = [c \in Citable |-> IF \E i \in 1..Len(new) : new[i] = c
                                     THEN N + num(c) ELSE citation[c]]
  BY DEF Register
<1> HIDE DEF num, new
<1>6. \A c \in Citable : citation'[c] = IF c \in ToSet(new) THEN N + num(c) ELSE citation[c]
  BY <1>4, <1>5
<1>7. citation' \in [Citable -> Nat]
  BY <1>2, <1>3, <1>4, <1>5 DEF TurnTyped
<1>8. Cited' = Cited \cup ToSet(new) /\ Cited \cap ToSet(new) = {} /\ ToSet(new) \subseteq Citable
  <2>1. Cited \cap ToSet(new) = {} /\ ToSet(new) \subseteq Citable
    BY <1>2 DEF ToSet
  <2>2. \A c \in ToSet(new) : citation'[c] # 0
    BY <1>3, <1>4, <1>6, <2>1
  <2>3. Cited' = {c \in Citable : citation'[c] # 0}
    BY DEF Cited
  <2>4. Cited = {c \in Citable : citation[c] # 0}
    BY DEF Cited
  <2> QED BY <1>6, <2>1, <2>2, <2>3, <2>4
<1>9. IsFiniteSet(Cited') /\ Cardinality(Cited') = N + Len(new)
  <2>1. IsFiniteSet(ToSet(new)) /\ Cardinality(ToSet(new)) = Len(new)
    BY <1>1, CountPick
  <2>2. Cardinality(Cited \cap ToSet(new)) = 0
    BY <1>8, FS_EmptySet
  <2>3. /\ IsFiniteSet(Cited \cup ToSet(new))
        /\ Cardinality(Cited \cup ToSet(new))
             = Cardinality(Cited) + Cardinality(ToSet(new)) - Cardinality(Cited \cap ToSet(new))
    BY <1>3, <2>1, FS_Union
  <2> QED BY <1>2, <1>3, <1>8, <2>1, <2>2, <2>3
<1>10. \A c \in Cited : citation'[c] = citation[c] /\ citation'[c] \in Nat /\ citation'[c] <= N
  <2>1. \A c \in Cited : c \in Citable /\ c \notin ToSet(new)
    BY <1>8 DEF Cited
  <2> QED BY <1>6, <2>1 DEF TurnTyped, Numbered
<1>11. \A c \in ToSet(new) : citation'[c] = N + num(c) /\ num(c) \in 1..Len(new) /\ new[num(c)] = c
  BY <1>4, <1>6, <1>8
<1>12. \A c \in Cited' : citation'[c] <= Cardinality(Cited')
  BY <1>2, <1>3, <1>8, <1>9, <1>10, <1>11
<1>13. ASSUME NEW c \in Cited', NEW d \in Cited', citation'[c] = citation'[d] PROVE c = d
  <2>1. CASE c \in Cited /\ d \in Cited
    BY <1>10, <1>13, <2>1 DEF Numbered
  <2>2. CASE c \in ToSet(new) /\ d \in ToSet(new)
    <3>1. num(c) = num(d)
      BY <1>3, <1>11, <1>13, <2>2
    <3> QED BY <1>11, <2>2, <3>1
  <2>3. CASE c \in Cited /\ d \in ToSet(new)
    BY <1>3, <1>10, <1>11, <1>13, <2>3
  <2>4. CASE c \in ToSet(new) /\ d \in Cited
    BY <1>3, <1>10, <1>11, <1>13, <2>4
  <2> QED BY <1>8, <2>1, <2>2, <2>3, <2>4
<1>14. sources' \in Picks(Citable) /\ ToSet(sources') = ToSet(sources) \cup ToSet(new)
  <2>1. sources \in Picks(Citable) /\ ToSet(sources) \cap ToSet(new) = {}
    BY <1>8 DEF Hand, Numbered
  <2>2. /\ sources \o new \in Picks(Citable)
        /\ ToSet(sources \o new) = ToSet(sources) \cup ToSet(new)
    <3>1. Apart(sources, new, Citable)
      BY <1>1, <2>1 DEF Apart
    <3> QED BY <3>1, JoinPick
  <2>3. sources' = sources \o new
    BY DEF Register, new
  <2> QED BY <2>2, <2>3
<1>15. ToSet(sources') \subseteq Cited'
  BY <1>8, <1>14 DEF Numbered
<1> QED BY <1>7, <1>9, <1>12, <1>13, <1>14, <1>15 DEF Numbered

LEMMA InitTurn == ToolInit => ToolInv
<1> SUFFICES ASSUME ToolInit PROVE ToolInv
  OBVIOUS
<1>1. TurnTyped
  <2>1. tool \in [Calls -> Tools \cup {"none"}]
    <3>1. "none" \in Tools \cup {"none"} /\ tool = [k \in Calls |-> "none"]
      BY DEF ToolInit
    <3> HIDE DEF Tools
    <3> QED BY <3>1
  <2>2. phase \in [Calls -> {"none", "running", "silent", "done"}] /\ results \in [Calls -> Nat]
    BY DEF ToolInit
  <2>3. batch \in Seq(Calls) /\ serial \in BOOLEAN /\ messages \in Seq(Message)
    BY EmptySeq DEF ToolInit
  <2>4. citation \in [Citable -> Nat]
    BY DEF ToolInit
  <2> QED BY <2>1, <2>2, <2>3, <2>4 DEF TurnTyped
<1>2. Hand
  BY EmptyPick DEF ToolInit, Hand
<1>3. Cited = {}
  BY DEF ToolInit, Cited
<1>4. ToSet(sources) = {}
  BY EmptyPick DEF ToolInit
<1>5. Numbered
  BY <1>3, <1>4, FS_EmptySet DEF Numbered
<1>6. CatalogIsEvidence
  BY DEF ToolInit, CatalogIsEvidence
<1> QED BY <1>1, <1>2, <1>5, <1>6 DEF ToolInv

LEMMA AnnounceTurn == ToolInv /\ Announce => ToolInv'
<1> SUFFICES ASSUME ToolInv, Announce PROVE ToolInv'
  OBVIOUS
<1>1. PICK n \in 1..MaxBatch :
        /\ NextCall + n - 1 <= MaxCalls
        /\ batch' = [i \in 1..n |-> NextCall + i - 1]
        /\ \E f \in [1..n -> Tools] :
             tool' = [k \in Calls |-> IF k \in ToSet(batch') THEN f[k - NextCall + 1] ELSE tool[k]]
        /\ serial' \in BOOLEAN
  <2>1. \A b, x : (b \in BOOLEAN /\ x = (b \/ TRUE)) => x \in BOOLEAN
    OBVIOUS
  <2> QED BY DEF Announce
<1>2. NextCall \in Nat \ {0}
  <2>1. MaxCalls \in Int /\ 1 \in Int
    BY ToolTurnAssumption
  <2>2. IsFiniteSet(Calls)
    BY <2>1, FS_Interval DEF Calls
  <2>3. {k \in Calls : tool[k] # "none"} \in SUBSET Calls
    OBVIOUS
  <2>4. IsFiniteSet({k \in Calls : tool[k] # "none"})
    BY <2>2, <2>3, FS_Subset
  <2>5. Cardinality({k \in Calls : tool[k] # "none"}) \in Nat
    BY <2>4, FS_CardinalityType
  <2> QED BY <2>5 DEF NextCall
<1>3. n \in Nat \ {0} /\ MaxCalls \in Nat
  BY ToolTurnAssumption
<1> HIDE DEF NextCall
<1>4. \A i \in 1..n : NextCall + i - 1 \in Calls
  BY <1>1, <1>2, <1>3 DEF Calls
<1>5. batch' \in Seq(Calls) /\ Len(batch') = n /\ batch' # <<>>
  <2> DEFINE b == batch'
  <2>1. \A i \in 1..n : b[i] \in Calls
    BY <1>1, <1>4
  <2>2. b = [i \in 1..n |-> b[i]]
    BY <1>1
  <2> HIDE DEF b
  <2>3. b \in Seq(Calls) /\ Len(b) = n
    BY <1>3, <2>1, <2>2
  <2>4. b # <<>>
    BY <1>3, <2>3
  <2> QED BY <2>3, <2>4 DEF b
<1>6. tool' \in [Calls -> Tools \cup {"none"}]
  <2>1. PICK f \in [1..n -> Tools] :
          tool' = [k \in Calls |-> IF k \in ToSet(batch') THEN f[k - NextCall + 1] ELSE tool[k]]
    BY <1>1
  <2>2. ASSUME NEW k \in ToSet(batch') PROVE f[k - NextCall + 1] \in Tools
    <3>1. PICK i \in 1..n : k = NextCall + i - 1
      BY <1>1, <1>3 DEF ToSet
    <3>2. k - NextCall + 1 = i
      BY <1>2, <1>3, <3>1
    <3> QED BY <3>2
  <2> QED BY <2>1, <2>2 DEF ToolInv, TurnTyped
<1>7. TurnTyped'
  BY <1>1, <1>5, <1>6 DEF ToolInv, TurnTyped, Announce
<1>8. Hand' /\ Numbered'
  BY DEF ToolInv, Announce, Hand, Numbered, Cited
<1>9. CatalogIsEvidence'
  BY <1>5 DEF CatalogIsEvidence
<1> QED BY <1>7, <1>8, <1>9 DEF ToolInv

LEMMA SucceedTurn == ASSUME ToolInv, NEW k \in Calls, Succeed(k) PROVE ToolInv'
<1>1. /\ batch # <<>> /\ UNCHANGED <<tool, batch, serial, messages>>
      /\ phase' = [phase EXCEPT ![k] = "done"]
      /\ results' = [results EXCEPT ![k] = @ + 1]
  BY DEF Succeed, MayComplete, ToSet
<1>2. citation' \in [Citable -> Nat] /\ Hand' /\ Numbered'
  <2>1. ASSUME NEW s \in SearchResults, found' = [found EXCEPT ![k] = s], Register(s)
        PROVE  citation' \in [Citable -> Nat] /\ Hand' /\ Numbered'
    <3>1. s \in Picks(Chunks)
      <4>1. PICK m \in 0..MaxResults : s \in [1..m -> Chunks]
        BY DEF SearchResults, SeqOf
      <4>2. s \in Seq(Chunks)
        BY <4>1, ToolTurnAssumption
      <4> QED BY <4>2 DEF SearchResults, Picks
    <3>2. s \in Picks(Citable)
      BY <3>1 DEF Picks, Citable
    <3>3. citation' \in [Citable -> Nat] /\ sources' \in Picks(Citable) /\ Numbered'
      BY <2>1, <3>2, RegisterNumbers DEF ToolInv
    <3> QED BY <2>1, <3>1, <3>3 DEF ToolInv, Hand
  <2>2. ASSUME Register(<<Inventory>>), UNCHANGED found
        PROVE  citation' \in [Citable -> Nat] /\ Hand' /\ Numbered'
    <3>1. <<Inventory>> \in Picks(Citable)
      BY DEF Picks, IsInjective, Citable
    <3>2. citation' \in [Citable -> Nat] /\ sources' \in Picks(Citable) /\ Numbered'
      BY <2>2, <3>1, RegisterNumbers DEF ToolInv
    <3> QED BY <2>2, <3>2 DEF ToolInv, Hand
  <2>3. ASSUME UNCHANGED <<found, citation, sources>>
        PROVE  citation' \in [Citable -> Nat] /\ Hand' /\ Numbered'
    BY <2>3 DEF ToolInv, TurnTyped, Hand, Numbered, Cited
  <2> QED BY <2>1, <2>2, <2>3 DEF Succeed
<1>3. TurnTyped'
  BY <1>1, <1>2 DEF ToolInv, TurnTyped
<1>4. CatalogIsEvidence'
  BY <1>1 DEF CatalogIsEvidence
<1> QED BY <1>2, <1>3, <1>4 DEF ToolInv

\* The turn's messages with the catalog, and what a trimming leaves of them.
LEMMA CatalogAtTheEnd ==
  ASSUME NEW msgs \in Seq(Message), NEW catalog \in Seq(Citable),
         NEW kept \in Trimmed(Rewritten(msgs, catalog))
  PROVE  /\ kept \in Seq(Message)
         /\ \A i \in 1..Len(kept) : kept[i].catalog = IF i = Len(kept) THEN catalog ELSE <<>>
<1> DEFINE n == Len(msgs)
           all == Rewritten(msgs, catalog)
<1>1. n \in Nat /\ <<>> \in Seq(Citable)
  OBVIOUS
<1>2. ASSUME NEW i \in 1..n
      PROVE  /\ all[i] \in Message
             /\ all[i].catalog = IF i = n THEN catalog ELSE <<>>
  <2>1. msgs[i] \in Message
    OBVIOUS
  <2>2. all[i] = [msgs[i] EXCEPT !.catalog = IF i = n THEN catalog ELSE <<>>]
    BY DEF Rewritten
  <2> QED BY <1>1, <2>1, <2>2 DEF Message
<1>3. all \in Seq(Message) /\ Len(all) = n
  <2>1. all = [i \in 1..n |-> all[i]]
    BY DEF Rewritten
  <2> HIDE DEF all
  <2> QED BY <1>1, <1>2, <2>1
<1> HIDE DEF all
<1>4. PICK first \in 1..(n + 1) : kept = SubSeq(all, first, n)
  BY <1>3 DEF Trimmed, all
<1>5. kept \in Seq(Message) /\ Len(kept) = n - first + 1
      /\ \A i \in 1..(n - first + 1) : kept[i] = all[first + i - 1]
  BY <1>1, <1>3, <1>4, SubSeqProperties
<1>6. ASSUME NEW i \in 1..Len(kept)
      PROVE  kept[i].catalog = IF i = Len(kept) THEN catalog ELSE <<>>
  <2>1. first + i - 1 \in 1..n /\ (first + i - 1 = n <=> i = Len(kept))
    BY <1>1, <1>5
  <2> QED BY <1>2, <1>5, <2>1
<1> QED BY <1>5, <1>6

LEMMA CollectTurn == ToolInv /\ Collect => ToolInv'
<1> SUFFICES ASSUME ToolInv, Collect PROVE ToolInv'
  OBVIOUS
<1>1. Pruned \in Picks(Citable) /\ ToSet(Pruned) \subseteq ToSet(sources) /\ Pruned \in Seq(Citable)
  BY PrunedIs DEF ToolInv, Picks
<1>2. messages \o TurnMessages \in Seq(Message)
  <2>1. batch \in Seq(Calls) /\ batch # <<>> /\ messages \in Seq(Message)
    BY DEF ToolInv, TurnTyped, Collect
  <2> DEFINE calls == Within(batch, Searches)
  <2>2. calls \in Seq(Calls)
    <3>1. calls \in Seq(Calls \cap Searches)
      BY <2>1, WithinIs
    <3> HIDE DEF calls
    <3> QED BY <3>1
  <2>3. Head(batch) \in Calls /\ <<>> \in Seq(Citable)
    BY <2>1
  <2>4. TurnMessages \in Seq(Message)
    <3>1. TurnMessages = [i \in 1..Len(calls) |-> [call |-> calls[i], turn |-> Head(batch), catalog |-> <<>>]]
      BY DEF TurnMessages
    <3> HIDE DEF calls
    <3> QED BY <2>2, <2>3, <3>1 DEF Message
  <2> QED BY <2>1, <2>4
<1>3. messages' \in Trimmed(Rewritten(messages \o TurnMessages, Pruned)) /\ sources' = Pruned
      /\ UNCHANGED <<tool, found, citation>> /\ batch' = <<>> /\ serial' = FALSE
  BY DEF Collect
<1>4. /\ messages' \in Seq(Message)
      /\ \A i \in 1..Len(messages') :
           messages'[i].catalog = IF i = Len(messages') THEN Pruned ELSE <<>>
  BY <1>1, <1>2, <1>3, CatalogAtTheEnd
<1>5. CatalogIsEvidence'
  BY <1>3, <1>4 DEF CatalogIsEvidence
<1>6. Hand' /\ Numbered'
  BY <1>1, <1>3 DEF ToolInv, Hand, Numbered, Cited
<1>7. TurnTyped'
  <2>1. results' = [k \in Calls |-> IF phase[k] = "silent" THEN results[k] + 1 ELSE results[k]]
        /\ phase' = [k \in Calls |-> IF k \in ToSet(batch) THEN "done" ELSE phase[k]]
    BY DEF Collect, Announced
  <2>2. results \in [Calls -> Nat]
        /\ phase \in [Calls -> {"none", "running", "silent", "done"}]
    BY DEF ToolInv, TurnTyped
  <2>3. results' \in [Calls -> Nat]
    BY <2>1, <2>2
  <2>4. phase' \in [Calls -> {"none", "running", "silent", "done"}]
    BY <2>1, <2>2
  <2>5. batch' \in Seq(Calls) /\ serial' \in BOOLEAN
    BY <1>3, EmptySeq
  <2>6. tool' \in [Calls -> Tools \cup {"none"}] /\ citation' \in [Citable -> Nat]
    BY <1>3 DEF ToolInv, TurnTyped
  <2> QED BY <1>4, <2>3, <2>4, <2>5, <2>6 DEF TurnTyped
<1> QED BY <1>5, <1>6, <1>7 DEF ToolInv

LEMMA StepTurn == ToolInv /\ [ToolNext]_toolVars => ToolInv'
<1> SUFFICES ASSUME ToolInv, [ToolNext]_toolVars PROVE ToolInv'
  OBVIOUS
<1>1. ASSUME NEW k \in Calls, FailCall(k) \/ Invalid(k) PROVE ToolInv'
  <2>1. batch # <<>> /\ UNCHANGED <<tool, found, batch, serial, citation, sources, messages>>
    BY <1>1 DEF FailCall, Invalid, MayComplete, ToSet
  <2>2. results \in [Calls -> Nat] /\ phase \in [Calls -> {"none", "running", "silent", "done"}]
    BY DEF ToolInv, TurnTyped
  <2>3. phase' = [phase EXCEPT ![k] = "done"] \/ phase' = [phase EXCEPT ![k] = "silent"]
    BY <1>1 DEF FailCall, Invalid
  <2>4. results' = [results EXCEPT ![k] = @ + 1] \/ results' = results
    BY <1>1 DEF FailCall, Invalid
  <2>5. phase' \in [Calls -> {"none", "running", "silent", "done"}]
    BY <2>2, <2>3
  <2>6. results' \in [Calls -> Nat]
    BY <2>2, <2>4
  <2> QED BY <2>1, <2>5, <2>6 DEF ToolInv, TurnTyped, Hand, Numbered, Cited, CatalogIsEvidence
<1>2. CASE UNCHANGED toolVars
  BY <1>2 DEF toolVars, ToolInv, TurnTyped, Hand, Numbered, Cited, CatalogIsEvidence
<1> QED BY <1>1, <1>2, AnnounceTurn, CollectTurn, SucceedTurn DEF ToolNext, Complete

LEMMA AlwaysTurn == ToolSpec => []ToolInv
BY InitTurn, StepTurn, PTL DEF ToolSpec

\* The type invariant of a question's tool turns.
THEOREM ToolTurnTyped == ToolSpec => []ToolTypeOK
<1>1. ToolInv => ToolTypeOK
  BY DEF ToolInv, TurnTyped, Hand, Picks, Message, ToolTypeOK
<1> QED BY AlwaysTurn, <1>1, PTL

\* However many searches run, in whichever order their results arrive and however
\* often the sources are pruned, a citation number names one source of the question
\* and every source in hand has one (loop_tools.py: citation_by_source).
THEOREM NumbersNameOneSource == ToolSpec => []CitationsName
<1>1. ToolInv => CitationsName
  BY DEF ToolInv, Numbered, Hand, Picks, CitationsName
<1> QED BY AlwaysTurn, <1>1, PTL

\* Between two turns the last retrieval message shows the sources that the answer
\* is verified against, and no earlier one shows any, whatever was trimmed
\* (loop_tools.py: the rewriting of the retrieval messages).
THEOREM ModelReadsTheEvidence == ToolSpec => []CatalogIsEvidence
<1>1. ToolInv => CatalogIsEvidence
  BY DEF ToolInv
<1> QED BY AlwaysTurn, <1>1, PTL

-----------------------------------------------------------------------------
(* Pruning is fair                                                           *)

\* How many of the first i numbers are in T.
CountTo(T, i) == Cardinality(T \cap (1..i))

\* One number further.
LEMMA CountStep ==
  ASSUME NEW T, NEW i \in Nat \ {0}
  PROVE  /\ CountTo(T, i - 1) \in Nat /\ CountTo(T, i) \in Nat
         /\ i \in T => CountTo(T, i) = CountTo(T, i - 1) + 1
         /\ i \notin T => CountTo(T, i) = CountTo(T, i - 1)
<1> DEFINE P == T \cap (1..(i - 1))
           Q == T \cap (1..i)
<1>1. IsFiniteSet(1..(i - 1)) /\ IsFiniteSet(1..i)
  <2>1. i - 1 \in Int /\ i \in Int /\ 1 \in Int
    OBVIOUS
  <2> QED BY <2>1, FS_Interval
<1>2. P \in SUBSET (1..(i - 1)) /\ Q \in SUBSET (1..i)
  OBVIOUS
<1>3. IsFiniteSet(P) /\ IsFiniteSet(Q)
  BY <1>1, <1>2, FS_Subset
<1>4. Cardinality(P) \in Nat /\ Cardinality(Q) \in Nat
  BY <1>3, FS_CardinalityType
<1>5. i \notin P /\ (i \in T => Q = P \cup {i}) /\ (i \notin T => Q = P)
  OBVIOUS
<1> HIDE DEF P, Q
<1>6. i \in T => Cardinality(Q) = Cardinality(P) + 1
  BY <1>3, <1>5, FS_AddElement
<1> QED BY <1>4, <1>5, <1>6 DEF CountTo, P, Q

LEMMA CountNone == ASSUME NEW T PROVE CountTo(T, 0) = 0
<1>1. T \cap (1..0) = {}
  OBVIOUS
<1> QED BY <1>1, FS_EmptySet DEF CountTo

\* The searches with a result left, and those with a second one.
Ones == {i \in 1..Len(Groups) : Len(Ranked(Groups[i])) >= 1}
Twos == {i \in 1..Len(Groups) : Len(Ranked(Groups[i])) >= 2}

\* The fair share is one source for each search with a result, and a second for each with two.
LEMMA ShareCounts ==
  ASSUME Hand
  PROVE  FairShare = CountTo(Ones, Len(Groups)) + CountTo(Twos, Len(Groups))
<1> DEFINE n == Len(Groups)
<1>1. n \in Nat /\ \A i \in 1..n : Groups[i] \in Calls /\ Len(Ranked(Groups[i])) \in Nat
  BY GroupsIs, RankedIs
<1>2. PICK r : ShareRun(r) /\ FairShare = r[n]
  BY <1>1, GroupsIs, RankedIs, FairShareRun
<1> DEFINE S == {i \in 0..n : r[i] = CountTo(Ones, i) + CountTo(Twos, i)}
<1>3. 0 \in S
  <2>1. 0 \in 0..n /\ r[0] = 0
    BY <1>1, <1>2 DEF ShareRun
  <2> QED BY <2>1, CountNone
<1>4. ASSUME NEW i \in 1..n, i - 1 \in S PROVE i \in S
  <2>1. i \in Nat \ {0} /\ i \in 0..n
    BY <1>1
  <2>2. r[i - 1] = CountTo(Ones, i - 1) + CountTo(Twos, i - 1)
    BY <1>4
  <2>3. r[i] = r[i - 1] + Least(2, Len(Ranked(Groups[i])))
    BY <1>2 DEF ShareRun
  <2>4. /\ CountTo(Ones, i - 1) \in Nat /\ CountTo(Twos, i - 1) \in Nat
        /\ CountTo(Ones, i) = CountTo(Ones, i - 1) + (IF i \in Ones THEN 1 ELSE 0)
        /\ CountTo(Twos, i) = CountTo(Twos, i - 1) + (IF i \in Twos THEN 1 ELSE 0)
    <3> HIDE DEF n
    <3>1. \A T : /\ CountTo(T, i - 1) \in Nat
                 /\ CountTo(T, i) = CountTo(T, i - 1) + (IF i \in T THEN 1 ELSE 0)
      BY <2>1, CountStep
    <3> QED BY <3>1
  <2>5. /\ i \in Ones <=> Len(Ranked(Groups[i])) >= 1
        /\ i \in Twos <=> Len(Ranked(Groups[i])) >= 2
    BY DEF Ones, Twos
  <2>6. Len(Ranked(Groups[i])) \in Nat
    BY <1>1
  <2>7. Least(2, Len(Ranked(Groups[i]))) = (IF i \in Ones THEN 1 ELSE 0) + (IF i \in Twos THEN 1 ELSE 0)
    BY <2>5, <2>6 DEF Least
  <2>8. r[i] = CountTo(Ones, i) + CountTo(Twos, i)
    BY SMTT(30), <2>2, <2>3, <2>4, <2>7
  <2> QED BY <2>1, <2>8
<1>5. \A i \in 0..n : i \in S
  <2> HIDE DEF S
  <2> QED BY <1>1, <1>3, <1>4, UpTo
<1>6. n \in 0..n
  BY <1>1
<1> QED BY <1>2, <1>5, <1>6

\* Three ways to say that there is an element.
LEMMA NotEmpty ==
  ASSUME NEW E, NEW s \in Seq(E)
  PROVE  /\ s # <<>> <=> Len(s) >= 1
         /\ s # <<>> <=> ToSet(s) # {}
<1>1. Len(s) \in Nat /\ DOMAIN s = 1..Len(s) /\ (s # <<>> <=> Len(s) # 0)
  OBVIOUS
<1>2. s # <<>> <=> Len(s) >= 1
  BY <1>1
<1>3. Len(s) >= 1 => s[1] \in ToSet(s)
  BY <1>1 DEF ToSet
<1>4. ASSUME NEW x \in ToSet(s) PROVE Len(s) >= 1
  BY <1>1 DEF ToSet
<1> QED BY <1>2, <1>3, <1>4

LEMMA SingleSet ==
  ASSUME NEW E, NEW s \in Seq(E), Len(s) = 1
  PROVE  ToSet(s) = {s[1]}
<1>1. DOMAIN s = {1}
  <2>1. DOMAIN s = 1..Len(s) /\ 1..1 = {1}
    OBVIOUS
  <2> QED BY <2>1
<1>2. ToSet(s) = {s[i] : i \in DOMAIN s}
  BY Zenon DEF ToSet
<1>3. {s[i] : i \in {1}} = {s[1]}
  OBVIOUS
<1> QED BY <1>1, <1>2, <1>3

\* What a search takes in a pass.
LEMMA OpportunityStep ==
  ASSUME Hand, NEW l \in Picks(ToSet(Candidates)), NEW g \in Calls
  PROVE  /\ Opportunity(l, g) \in Picks(ToSet(Candidates))
         /\ ToSet(l) \subseteq ToSet(Opportunity(l, g))
         /\ Len(Opportunity(l, g)) <= Len(l) + 1
         /\ ToSet(Ranked(g)) \subseteq ToSet(l) => Opportunity(l, g) = l
         /\ Ranked(g) # <<>> => ToSet(Ranked(g)) \cap ToSet(Opportunity(l, g)) # {}
<1> DEFINE A == ToSet(Candidates)
           free == Chunks \ ToSet(l)
           left == Within(Ranked(g), free)
<1>1. Ranked(g) \in Seq(A) /\ A \subseteq Chunks
  <2>1. \A x \in A : x \in Chunks
    BY InHand DEF Picks, ToSet
  <2> QED BY <2>1, RankedIs
<1>2. /\ left \in Seq(A \cap free) /\ ToSet(left) \subseteq ToSet(Ranked(g)) \cap free
      /\ ToSet(Ranked(g)) \cap free \subseteq ToSet(left)
  BY <1>1, WithinIs
<1>3. ToSet(Ranked(g)) \subseteq Chunks
  <2>1. \A x \in ToSet(Ranked(g)) : x \in A
    BY <1>1 DEF ToSet
  <2> QED BY <1>1, <2>1
<1>4. l \in Seq(A) /\ Len(l) \in Nat
  BY DEF Picks
<1>5. Opportunity(l, g) = IF left = <<>> THEN l ELSE Append(l, Head(left))
  BY DEF Opportunity
<1>6. Opportunity(l, g) \in Picks(A)
  BY <1>1, OpportunityPick
<1> HIDE DEF left
<1>7. CASE left = <<>>
  <2>1. ToSet(left) = {}
    BY <1>7, EmptyPick
  <2>2. ToSet(Ranked(g)) \subseteq ToSet(l)
    BY <1>2, <1>3, <2>1
  <2>3. Ranked(g) # <<>> => ToSet(Ranked(g)) # {}
    BY <1>1, NotEmpty
  <2>4. Ranked(g) # <<>> => ToSet(Ranked(g)) \cap ToSet(l) # {}
    BY <2>2, <2>3
  <2>5. Opportunity(l, g) = l /\ Len(l) <= Len(l) + 1
    BY <1>4, <1>5, <1>7
  <2> QED BY <1>6, <2>4, <2>5
<1>8. CASE left # <<>>
  <2>1. Head(left) \in ToSet(left)
    <3>1. 1 \in DOMAIN left /\ Head(left) = left[1]
      BY <1>2, <1>8
    <3> QED BY <3>1 DEF ToSet
  <2>2. Head(left) \in ToSet(Ranked(g)) /\ Head(left) \notin ToSet(l)
    BY <1>2, <2>1
  <2>3. Opportunity(l, g) = Append(l, Head(left))
    BY <1>5, <1>8
  <2>4. Len(Append(l, Head(left))) = Len(l) + 1
    BY <1>4
  <2>5. ToSet(l) \subseteq ToSet(Append(l, Head(left))) /\ Head(left) \in ToSet(Append(l, Head(left)))
    BY <1>4, AppendSet
  <2>6. Len(Opportunity(l, g)) <= Len(l) + 1
    BY <1>4, <2>3, <2>4
  <2>7. ~(ToSet(Ranked(g)) \subseteq ToSet(l))
    BY <2>2
  <2>8. ToSet(Ranked(g)) \cap ToSet(Opportunity(l, g)) # {}
    BY <2>2, <2>3, <2>5
  <2> QED BY <1>6, <2>3, <2>5, <2>6, <2>7, <2>8
<1> QED BY <1>7, <1>8

\* What is so after the two passes: each search with a result left has one chosen,
\* and there is room for all that was chosen.
LEMMA TwoPasses ==
  ASSUME Hand
  PROVE  /\ Opportunities \in Picks(ToSet(Candidates)) /\ Len(Opportunities) <= FairShare
         /\ \A i \in 1..Len(Groups) : Ranked(Groups[i]) # <<>> =>
              ToSet(Ranked(Groups[i])) \cap ToSet(Opportunities) # {}
<1> DEFINE n == Len(Groups)
           A == ToSet(Candidates)
           R(i) == Ranked(Groups[i])
<1>1. n \in Nat /\ \A i \in 1..n : /\ Groups[i] \in Calls /\ R(i) \in Seq(A) /\ R(i) \in Picks(A)
                                   /\ Len(R(i)) \in Nat
  BY GroupsIs, RankedIs
<1>2. PICK r : OpportunityRun(r, A) /\ Opportunities = r[2 * n]
  <2>1. Groups \in Seq(Calls) /\ \A g \in Calls : Ranked(g) \in Seq(A)
    BY GroupsIs, RankedIs
  <2> QED BY <2>1, OpportunitiesRun
<1>3. /\ \A i \in 0..n : r[i] \in Picks(A) /\ Len(r[i]) \in Nat
      /\ \A i \in 0..n : r[n + i] \in Picks(A) /\ Len(r[n + i]) \in Nat
      /\ r[0] = <<>>
  <2>1. \A i \in 0..n : i \in 0..(2 * n) /\ n + i \in 0..(2 * n)
    BY <1>1
  <2>2. r \in [0..(2 * n) -> Picks(A)] /\ r[0] = <<>>
    BY <1>2 DEF OpportunityRun
  <2>3. \A l \in Picks(A) : Len(l) \in Nat
    BY DEF Picks
  <2> HIDE DEF n, A
  <2> QED BY <2>1, <2>2, <2>3
<1>4. ASSUME NEW i \in 1..n
      PROVE  /\ i - 1 \in 0..n /\ i \in 0..n /\ n + i - 1 = n + (i - 1) /\ i \in Nat \ {0}
             /\ r[i] = Opportunity(r[i - 1], Groups[i])
             /\ r[n + i] = Opportunity(r[n + (i - 1)], Groups[i])
  <2>1. i - 1 \in 0..n /\ i \in 0..n /\ n + i - 1 = n + (i - 1) /\ i \in Nat \ {0}
    BY <1>1
  <2> QED BY <1>2, <2>1 DEF OpportunityRun
<1> HIDE DEF A
<1>5. ASSUME NEW i \in 1..n, NEW l \in Picks(A), NEW m, m = Opportunity(l, Groups[i])
      PROVE  /\ ToSet(l) \subseteq ToSet(m) /\ Len(m) <= Len(l) + 1
             /\ ToSet(R(i)) \subseteq ToSet(l) => m = l
             /\ R(i) # <<>> => ToSet(R(i)) \cap ToSet(m) # {}
  <2>1. Groups[i] \in Calls /\ l \in Picks(ToSet(Candidates))
    BY <1>1 DEF A
  <2> QED BY <1>5, <2>1, OpportunityStep
<1> DEFINE ones(i) == CountTo(Ones, i)
           twos(i) == CountTo(Twos, i)
<1>6. ASSUME NEW i \in 1..n
      PROVE  /\ ones(i - 1) \in Nat /\ twos(i - 1) \in Nat /\ ones(i) \in Nat /\ twos(i) \in Nat
             /\ ones(i) = ones(i - 1) + (IF Len(R(i)) >= 1 THEN 1 ELSE 0)
             /\ twos(i) = twos(i - 1) + (IF Len(R(i)) >= 2 THEN 1 ELSE 0)
  <2>1. i \in Nat \ {0}
    BY <1>4
  <2>2. /\ i \in Ones <=> Len(R(i)) >= 1
        /\ i \in Twos <=> Len(R(i)) >= 2
    BY DEF Ones, Twos
  <2>3. \A T : /\ CountTo(T, i - 1) \in Nat /\ CountTo(T, i) \in Nat
               /\ CountTo(T, i) = CountTo(T, i - 1) + (IF i \in T THEN 1 ELSE 0)
    <3> HIDE DEF n
    <3>1. \A T : /\ CountTo(T, i - 1) \in Nat /\ CountTo(T, i) \in Nat
                 /\ i \in T => CountTo(T, i) = CountTo(T, i - 1) + 1
                 /\ i \notin T => CountTo(T, i) = CountTo(T, i - 1)
      BY <2>1, CountStep
    <3> QED BY <3>1
  <2> HIDE DEF n
  <2> QED BY <2>2, <2>3
<1>7. ones(0) = 0 /\ twos(0) = 0
  BY CountNone
<1> HIDE DEF ones, twos
<1>8. \A i \in 0..n : Len(r[i]) <= ones(i)
  <2> DEFINE S == {i \in 0..n : Len(r[i]) <= ones(i)}
  <2>1. 0 \in S
    BY <1>1, <1>3, <1>7
  <2>2. ASSUME NEW i \in 1..n, i - 1 \in S PROVE i \in S
    <3>1. r[i - 1] \in Picks(A) /\ Len(r[i - 1]) \in Nat /\ Len(r[i - 1]) <= ones(i - 1)
      BY <1>3, <1>4, <2>2
    <3>2. CASE Len(R(i)) >= 1
      <4>1. Len(r[i]) <= Len(r[i - 1]) + 1 /\ Len(r[i]) \in Nat
        <5>1. i \in 0..n /\ r[i] = Opportunity(r[i - 1], Groups[i])
          BY <1>4
        <5>2. Len(r[i]) \in Nat
          BY <1>3, <5>1
        <5> QED BY <1>5, <3>1, <5>1, <5>2
      <4>2. Len(r[i]) <= ones(i)
        <5>1. ones(i - 1) \in Nat /\ ones(i) = ones(i - 1) + 1
          BY <1>6, <3>2
        <5> DEFINE a == Len(r[i])
                   b == Len(r[i - 1])
                   c == ones(i - 1)
        <5>2. a \in Nat /\ b \in Nat /\ c \in Nat /\ b <= c /\ a <= b + 1
          BY <3>1, <4>1, <5>1
        <5> HIDE DEF a, b, c
        <5>3. a <= c + 1
          BY <5>2
        <5> QED BY <5>1, <5>3 DEF a, c
      <4> QED BY <1>4, <4>2
    <3>3. CASE ~(Len(R(i)) >= 1)
      <4>1. ToSet(R(i)) = {}
        BY <1>1, <3>3, NotEmpty
      <4>2. r[i] = r[i - 1]
        BY <1>4, <1>5, <3>1, <4>1
      <4>3. Len(r[i]) <= ones(i)
        BY <1>6, <3>1, <3>3, <4>2
      <4> QED BY <1>4, <4>3
    <3> QED BY <3>2, <3>3
  <2> HIDE DEF S
  <2>3. \A i \in 0..n : i \in S
    BY <1>1, <2>1, <2>2, UpTo
  <2> QED BY <2>3 DEF S
\* a search that had its turn in the first pass keeps its source
<1> DEFINE has(i, l) == R(i) # <<>> => ToSet(R(i)) \cap ToSet(l) # {}
<1>9. \A i \in 0..n : \A j \in 1..i : has(j, r[i])
  <2> DEFINE S == {i \in 0..n : \A j \in 1..i : has(j, r[i])}
  <2>1. 0 \in S
    <3>1. 0 \in 0..n /\ 1..0 = {}
      BY <1>1
    <3> QED BY <3>1
  <2>2. ASSUME NEW i \in 1..n, i - 1 \in S PROVE i \in S
    <3>1. ToSet(r[i - 1]) \subseteq ToSet(r[i]) /\ has(i, r[i])
      <4>1. r[i - 1] \in Picks(A) /\ r[i] = Opportunity(r[i - 1], Groups[i])
        BY <1>3, <1>4
      <4> QED BY <1>5, <4>1
    <3>2. \A j \in 1..i : j = i \/ j \in 1..(i - 1)
      BY <1>1
    <3>3. \A j \in 1..(i - 1) : has(j, r[i - 1])
      BY <2>2
    <3>4. \A j \in 1..i : has(j, r[i])
      BY <3>1, <3>2, <3>3
    <3> QED BY <1>4, <3>4
  <2> HIDE DEF S
  <2>3. \A i \in 0..n : i \in S
    BY <1>1, <2>1, <2>2, UpTo
  <2> QED BY <2>3 DEF S
<1>10. n \in 0..n /\ 0 \in 0..n /\ n + 0 = n /\ 2 * n = n + n
  BY <1>1
<1>11. \A i \in 0..n : \A j \in 1..n : has(j, r[n + i])
  <2> DEFINE S == {i \in 0..n : \A j \in 1..n : has(j, r[n + i])}
  <2>1. 0 \in S
    BY <1>9, <1>10
  <2>2. ASSUME NEW i \in 1..n, i - 1 \in S PROVE i \in S
    <3>1. ToSet(r[n + (i - 1)]) \subseteq ToSet(r[n + i])
      <4>1. r[n + (i - 1)] \in Picks(A) /\ r[n + i] = Opportunity(r[n + (i - 1)], Groups[i])
        BY <1>3, <1>4
      <4> QED BY <1>5, <4>1
    <3>2. \A j \in 1..n : has(j, r[n + (i - 1)])
      BY <2>2
    <3>3. \A j \in 1..n : has(j, r[n + i])
      BY <3>1, <3>2
    <3> QED BY <1>4, <3>3
  <2> HIDE DEF S
  <2>3. \A i \in 0..n : i \in S
    BY <1>1, <2>1, <2>2, UpTo
  <2> QED BY <2>3 DEF S
\* a search with one result has nothing to choose in the second pass
<1>12. \A i \in 0..n : Len(r[n + i]) <= ones(n) + twos(i)
  <2> DEFINE S == {i \in 0..n : Len(r[n + i]) <= ones(n) + twos(i)}
  <2>1. ones(n) \in Nat
    BY <1>1, <1>6, <1>7
  <2>2. 0 \in S
    <3>1. Len(r[n + 0]) <= ones(n) + twos(0)
      BY <1>7, <1>8, <1>10, <2>1
    <3> QED BY <1>10, <3>1
  <2>3. ASSUME NEW i \in 1..n, i - 1 \in S PROVE i \in S
    <3> DEFINE l == r[n + (i - 1)]
               m == r[n + i]
    <3>1. /\ l \in Picks(A) /\ Len(l) \in Nat /\ Len(l) <= ones(n) + twos(i - 1)
          /\ m = Opportunity(l, Groups[i]) /\ Len(m) \in Nat /\ has(i, l)
      BY <1>3, <1>4, <1>11, <2>3
    <3> HIDE DEF l, m
    <3>2. CASE Len(R(i)) >= 2
      <4>1. Len(m) <= Len(l) + 1
        BY <1>5, <3>1
      <4>2. Len(m) <= ones(n) + twos(i)
        <5>1. twos(i - 1) \in Nat /\ twos(i) = twos(i - 1) + 1
          BY <1>6, <3>2
        <5> DEFINE a == Len(m)
                   b == Len(l)
                   c == ones(n)
                   d == twos(i - 1)
        <5>2. a \in Nat /\ b \in Nat /\ c \in Nat /\ d \in Nat /\ b <= c + d /\ a <= b + 1
          BY <2>1, <3>1, <4>1, <5>1
        <5> HIDE DEF a, b, c, d
        <5>3. a <= c + (d + 1)
          BY <5>2
        <5> QED BY <5>1, <5>3 DEF a, c, d
      <4> QED BY <1>4, <4>2 DEF m
    <3>3. CASE ~(Len(R(i)) >= 2)
      <4>1. ToSet(R(i)) \subseteq ToSet(l)
        <5>1. Len(R(i)) \in Nat /\ R(i) \in Seq(A)
          BY <1>1
        <5>2. CASE R(i) = <<>>
          <6>1. ToSet(R(i)) = {}
            BY <5>2, EmptyPick
          <6> QED BY <6>1
        <5>3. CASE R(i) # <<>>
          <6>1. Len(R(i)) >= 1
            BY <5>1, <5>3, NotEmpty
          <6>2. Len(R(i)) = 1
            <7> DEFINE x == Len(R(i))
            <7>1. x \in Nat /\ x >= 1 /\ ~(x >= 2)
              BY <3>3, <5>1, <6>1
            <7> HIDE DEF x
            <7>2. x = 1
              BY <7>1
            <7> QED BY <7>2 DEF x
          <6>3. ToSet(R(i)) = {R(i)[1]}
            BY <5>1, <6>2, SingleSet
          <6> QED BY <3>1, <5>3, <6>3
        <5> QED BY <5>2, <5>3
      <4>2. m = l
        BY <1>5, <3>1, <4>1
      <4>3. Len(m) <= ones(n) + twos(i)
        BY <1>6, <2>1, <3>1, <3>3, <4>2
      <4> QED BY <1>4, <4>3 DEF m
    <3> QED BY <3>2, <3>3
  <2> HIDE DEF S
  <2>4. \A i \in 0..n : i \in S
    BY <1>1, <2>2, <2>3, UpTo
  <2> QED BY <2>4 DEF S
<1>13. FairShare = ones(n) + twos(n)
  BY ShareCounts DEF ones, twos
<1>14. r[2 * n] = r[n + n]
  BY <1>10
<1>15. Len(Opportunities) <= FairShare
  BY <1>2, <1>10, <1>12, <1>13, <1>14
<1>16. \A i \in 1..n : has(i, Opportunities)
  BY <1>2, <1>10, <1>11, <1>14
<1> QED BY <1>15, <1>16, OpportunitiesPick

\* The results of a search that are in hand.
LEMMA RankedOf ==
  ASSUME Hand, NEW g \in Calls
  PROVE  /\ ToSet(Ranked(g)) \subseteq ToSet(found[g])
         /\ ToSet(found[g]) \cap ToSet(sources) # {} => Ranked(g) # <<>>
         /\ ToSet(found[g]) \cap ToSet(sources) \subseteq ToSet(Candidates)
<1> DEFINE A == ToSet(Candidates)
           left == Within(found[g], A)
<1>1. found[g] \in Seq(Chunks) /\ IsInjective(found[g]) /\ sources \in Seq(Citable)
  BY DEF Hand, Picks
<1>2. /\ left \in Picks(Chunks \cap A) /\ left \in Seq(Chunks \cap A)
      /\ ToSet(left) \subseteq ToSet(found[g]) /\ ToSet(found[g]) \cap A \subseteq ToSet(left)
  BY <1>1, WithinIs
<1>3. /\ ToSet(Dedup(left)) \subseteq ToSet(left) /\ (left # <<>> => Dedup(left) # <<>>)
  BY <1>2, DedupIs
<1>4. Ranked(g) = Dedup(left)
  BY DEF Ranked
<1>5. ToSet(found[g]) \cap ToSet(sources) \subseteq A
  <2>1. ToSet(sources) \cap Chunks \subseteq A
    BY <1>1, WithinIs DEF Candidates
  <2>2. ToSet(found[g]) \subseteq Chunks
    BY <1>1 DEF ToSet
  <2> QED BY <2>1, <2>2
<1>6. left # <<>> <=> ToSet(left) # {}
  BY <1>2, NotEmpty
<1> QED BY <1>2, <1>3, <1>4, <1>5, <1>6

\* Several searches: each with a result left keeps one.
LEMMA ManyKeep ==
  ASSUME Hand, Len(Groups) > 1, NEW i \in 1..Len(Groups), Ranked(Groups[i]) # <<>>
  PROVE  ToSet(Ranked(Groups[i])) \cap ToSet(Selected) # {}
<1> DEFINE all == FillByRank(DistinctDocuments(Opportunities))
           A == ToSet(Candidates)
           b == Opportunities
           m == Least(Room, Len(all))
           h == SubSeq(all, 1, m)
<1>1. /\ all \in Picks(A) /\ Len(all) \in Nat /\ Len(b) <= Len(all)
      /\ \A j \in 1..Len(b) : all[j] = b[j]
  BY ManyIs DEF Longer, Picks
<1>2. b \in Picks(A) /\ Len(b) \in Nat /\ DOMAIN b = 1..Len(b) /\ Len(b) <= FairShare
  BY TwoPasses DEF Picks
<1>3. Room \in Nat /\ FairShare <= Room /\ FairShare \in Nat
  BY RoomIs
<1>4. Selected = h
  <2>1. ~(Len(Groups) <= 1)
    BY GroupsIs
  <2> QED BY <2>1 DEF Selected
<1> HIDE DEF all, b
<1>5. m \in Nat /\ m <= Len(all) /\ Len(b) <= m
  BY <1>1, <1>2, <1>3 DEF Least
<1> HIDE DEF m
<1>6. Len(h) = m /\ \A j \in 1..m : h[j] = all[j]
  BY <1>1, <1>5, HeadPick
<1>7. h \in Picks(A)
  BY <1>1, <1>5, HeadPick
<1> HIDE DEF h
<1>8. ToSet(b) \subseteq ToSet(h)
  <2>1. DOMAIN h = 1..m
    BY <1>6, <1>7 DEF Picks
  <2>2. \A j \in 1..Len(b) : j \in 1..m /\ h[j] = b[j]
    BY <1>1, <1>2, <1>5, <1>6
  <2> QED BY <1>2, <2>1, <2>2 DEF ToSet
<1>9. ToSet(Ranked(Groups[i])) \cap ToSet(b) # {}
  BY TwoPasses DEF b
<1> QED BY <1>4, <1>8, <1>9

\* One search: something of what is in hand is kept.
LEMMA OneKeeps ==
  ASSUME Hand, Len(Groups) <= 1, Room >= 1, Candidates # <<>>
  PROVE  ToSet(Selected) # {}
<1> DEFINE s == Candidates
           ofDoc(d) == Within(s, {c \in Chunks : DocOf[c] = d})
           first(d) == SubSeq(ofDoc(d), 1, Least(3, Len(ofDoc(d))))
           kept == UNION {ToSet(Dedup(first(d))) : d \in {DocOf[c] : c \in ToSet(s)}}
           all == Within(s, kept)
<1>1. Room \in Nat /\ s \in Picks(Chunks) /\ s \in Seq(Chunks) /\ IsInjective(s)
  BY RoomIs, InHand DEF Picks
<1>2. Dedup(s) \in Picks(Chunks) /\ Dedup(s) # <<>>
  BY <1>1, DedupIs
<1>3. PICK c \in ToSet(s) : TRUE
  BY <1>1, NotEmpty
<1>4. c \in Chunks
  BY <1>1 DEF ToSet
<1>5. \E e \in ToSet(Dedup(first(DocOf[c]))) : e \in ToSet(s)
  <2> DEFINE T == {x \in Chunks : DocOf[x] = DocOf[c]}
             w == Within(s, T)
             m == Least(3, Len(w))
             f == SubSeq(w, 1, m)
  <2>1. c \in T
    BY <1>4
  <2>2. /\ w \in Picks(Chunks \cap T) /\ w \in Seq(Chunks \cap T) /\ ToSet(w) \subseteq ToSet(s)
        /\ ToSet(s) \cap T \subseteq ToSet(w)
    BY <1>1, WithinIs
  <2> HIDE DEF w, T
  <2>3. Len(w) >= 1 /\ Len(w) \in Nat
    <3>1. c \in ToSet(w)
      BY <1>3, <2>1, <2>2
    <3>2. ToSet(w) # {}
      BY <3>1
    <3>3. w # <<>>
      BY <2>2, <3>2, NotEmpty
    <3> QED BY <2>2, <3>3
  <2>4. m \in Nat /\ m >= 1 /\ m <= Len(w)
    BY <2>3 DEF Least
  <2>5. f \in Picks(Chunks \cap T) /\ ToSet(f) \subseteq ToSet(w)
    <3>1. 3 \in Nat
      OBVIOUS
    <3> QED BY <2>2, <3>1, LeastPick
  <2>6. Len(f) = m
    <3> HIDE DEF m
    <3> QED BY <2>2, <2>4, HeadPick
  <2> HIDE DEF f
  <2>7. f # <<>>
    BY <2>4, <2>5, <2>6, NotEmpty DEF Picks
  <2>8. Dedup(f) \in Picks(Chunks \cap T) /\ ToSet(Dedup(f)) \subseteq ToSet(f) /\ Dedup(f) # <<>>
    BY <2>5, <2>7, DedupIs
  <2>9. PICK e \in ToSet(Dedup(f)) : TRUE
    BY <2>8, NotEmpty DEF Picks
  <2>10. e \in ToSet(s)
    BY <2>2, <2>5, <2>8, <2>9
  <2>11. e \in ToSet(Dedup(first(DocOf[c])))
    BY <2>9 DEF f, m, w, T
  <2> QED BY <2>10, <2>11
<1>6. PICK e \in ToSet(s) : e \in kept
  BY <1>3, <1>5
<1>7. PruneOverlapping(s, Room) = IF Len(s) <= Room THEN Dedup(s)
                                  ELSE SubSeq(all, 1, Least(Room, Len(all)))
  BY DEF PruneOverlapping
<1> HIDE DEF kept
<1>8. all \in Picks(Chunks \cap kept) /\ all \in Seq(Chunks \cap kept) /\ e \in ToSet(all)
  BY <1>1, <1>6, WithinIs
<1> HIDE DEF all, s
<1>9. SubSeq(all, 1, Least(Room, Len(all))) # <<>>
  <2> DEFINE m == Least(Room, Len(all))
  <2>1. Len(all) \in Nat /\ Len(all) >= 1
    BY <1>8, NotEmpty
  <2>2. m \in Nat /\ m <= Len(all) /\ m >= 1
    BY <1>1, <2>1 DEF Least
  <2> HIDE DEF m
  <2>3. Len(SubSeq(all, 1, m)) = m /\ SubSeq(all, 1, m) \in Picks(Chunks \cap kept)
    BY <1>8, <2>2, HeadPick
  <2>4. SubSeq(all, 1, m) # <<>>
    BY <2>2, <2>3, NotEmpty DEF Picks
  <2> QED BY <2>4 DEF m
<1>10. Selected = PruneOverlapping(s, Room)
  BY DEF Selected, s
<1>11. Selected # <<>>
  BY <1>2, <1>7, <1>9, <1>10
<1>12. Selected \in Seq(ToSet(Candidates))
  BY SelectedIs DEF Picks
<1> QED BY <1>11, <1>12, NotEmpty

\* Where the sources come from: calls are numbered as they are made, only a search
\* that is done has found something, and what is in hand is the inventory or was
\* found by a search.
Traced ==
  /\ \E m \in 0..MaxCalls : \A k \in Calls : tool[k] # "none" <=> k <= m
  /\ \A k \in Calls : found[k] # <<>> => tool[k] = "search" /\ phase[k] = "done"
  /\ \A c \in ToSet(sources) : c = Inventory \/ \E k \in Calls : c \in ToSet(found[k])

\* A search with a source in hand keeps one.
LEMMA PruneKeeps ==
  ASSUME Hand, Traced, NEW g \in Calls, tool[g] = "search",
         ToSet(found[g]) \cap ToSet(sources) # {}
  PROVE  ToSet(found[g]) \cap ToSet(Pruned) # {}
<1>1. Ranked(g) # <<>> /\ ToSet(Ranked(g)) \subseteq ToSet(found[g]) /\ Candidates # <<>>
  <2>1. ToSet(Candidates) # {} /\ Candidates \in Seq(Chunks)
    BY RankedOf, InHand DEF Picks
  <2> QED BY <2>1, RankedOf, NotEmpty
<1>2. ToSet(Groups) = Searches /\ g \in Searches
  <2>1. [k \in Calls |-> k] \in Seq(Calls) /\ ToSet([k \in Calls |-> k]) = Calls
    BY ToolTurnAssumption DEF Calls, ToSet
  <2>2. ToSet(Groups) \subseteq Calls \cap Searches /\ Calls \cap Searches \subseteq ToSet(Groups)
    BY <2>1, WithinIs DEF Groups
  <2>3. Searches \subseteq Calls /\ g \in Searches
    BY DEF Searches
  <2> QED BY <2>2, <2>3
<1>3. Groups \in Seq(Calls) /\ Len(Groups) \in Nat /\ DOMAIN Groups = 1..Len(Groups)
  BY GroupsIs
<1>4. PICK i \in 1..Len(Groups) : Groups[i] = g
  BY <1>2, <1>3 DEF ToSet
<1>5. ToSet(found[g]) \cap ToSet(Selected) # {}
  <2>1. CASE Len(Groups) > 1
    <3>1. ToSet(Ranked(g)) \cap ToSet(Selected) # {}
      BY <1>1, <1>4, <2>1, ManyKeep
    <3> QED BY <1>1, <3>1
  <2>2. CASE ~(Len(Groups) > 1)
    <3>1. Len(Groups) = 1 /\ ToSet(Groups) = {g}
      <4>1. Len(Groups) = 1 /\ i = 1
        BY <1>3, <1>4, <2>2
      <4> QED BY <1>3, <1>4, <4>1, SingleSet
    <3>2. Room >= 1
      <4>1. Len(Ranked(g)) >= 1 /\ Len(Ranked(g)) \in Nat
        BY <1>1, RankedIs, NotEmpty
      <4>2. LargestSearch = Most({Len(Ranked(g))})
        <5>1. Groups # <<>>
          BY <3>1
        <5>2. {Len(Ranked(h)) : h \in ToSet(Groups)} = {Len(Ranked(g))}
          BY <3>1
        <5> QED BY <5>1, <5>2 DEF LargestSearch
      <4>3. Most({Len(Ranked(g))}) = Len(Ranked(g))
        <5> DEFINE x == Len(Ranked(g))
        <5>1. x \in Nat
          BY <4>1
        <5> HIDE DEF x
        <5>2. {x} \in SUBSET Int /\ x \in {x} /\ \A y \in {x} : y <= x
          BY <5>1
        <5>3. Most({x}) = x
          BY <5>2, MostIs
        <5> QED BY <5>3 DEF x
      <4> QED BY <4>1, <4>2, <4>3, RoomIs
    <3>3. ToSet(Candidates) \subseteq ToSet(found[g])
      <4> SUFFICES ASSUME NEW c \in ToSet(Candidates) PROVE c \in ToSet(found[g])
        OBVIOUS
      <4>1. c \in ToSet(sources) /\ c \in Chunks
        BY InHand, OwnPick
      <4>2. PICK k \in Calls : c \in ToSet(found[k])
        BY <4>1, ToolTurnAssumption DEF Traced
      <4>3. found[k] # <<>>
        BY <4>2, EmptyPick
      <4>4. k \in ToSet(Groups)
        BY <1>2, <4>3 DEF Traced, Searches
      <4> QED BY <3>1, <4>2, <4>4
    <3>4. Len(Groups) <= 1
      BY <3>1
    <3>5. ToSet(Selected) # {}
      BY <1>1, <3>2, <3>4, OneKeeps
    <3>6. ToSet(Selected) \subseteq ToSet(Candidates)
      BY SelectedIs, OwnPick
    <3> QED BY <3>3, <3>5, <3>6
  <2> QED BY <2>1, <2>2
<1>6. ToSet(Selected) \subseteq ToSet(Pruned)
  BY PrunedIs
<1> QED BY <1>5, <1>6

LEMMA InitTraced == ToolInit => Traced
<1> SUFFICES ASSUME ToolInit PROVE Traced
  OBVIOUS
<1>1. 0 \in 0..MaxCalls /\ \A k \in Calls : ~(k <= 0)
  BY ToolTurnAssumption DEF Calls
<1>2. \A k \in Calls : tool[k] = "none" /\ found[k] = <<>>
  BY DEF ToolInit
<1>3. \A k \in Calls : tool[k] # "none" <=> k <= 0
  BY <1>1, <1>2
<1>4. ToSet(sources) = {}
  BY EmptyPick DEF ToolInit
<1> QED BY <1>1, <1>2, <1>3, <1>4 DEF Traced

\* Sources that leave or come from a result keep their origin.
LEMMA StaysTraced ==
  ASSUME Traced, UNCHANGED <<tool, found>>,
         \A k \in Calls : phase[k] = "done" => phase'[k] = "done",
         \A c \in ToSet(sources') : c \in ToSet(sources) \/ c = Inventory
  PROVE  Traced'
BY DEF Traced

LEMMA AnnounceTraced == ToolInv /\ Traced /\ Announce => Traced'
<1> SUFFICES ASSUME ToolInv, Traced, Announce PROVE Traced'
  OBVIOUS
<1>1. PICK m \in 0..MaxCalls : \A k \in Calls : tool[k] # "none" <=> k <= m
  BY DEF Traced
<1>2. NextCall = m + 1
  <2>1. {k \in Calls : tool[k] # "none"} = 1..m
    BY <1>1, ToolTurnAssumption DEF Calls
  <2>2. Cardinality(1..m) = m
    <3>1. m \in Int /\ 1 \in Int /\ m \in Nat
      BY ToolTurnAssumption
    <3> QED BY <3>1, FS_Interval
  <2> QED BY <2>1, <2>2 DEF NextCall
<1>3. PICK n \in 1..MaxBatch :
        /\ NextCall + n - 1 <= MaxCalls
        /\ batch' = [i \in 1..n |-> NextCall + i - 1]
        /\ \E f \in [1..n -> Tools] :
             tool' = [k \in Calls |-> IF k \in ToSet(batch') THEN f[k - NextCall + 1] ELSE tool[k]]
  BY DEF Announce
<1>4. PICK f \in [1..n -> Tools] :
        tool' = [k \in Calls |-> IF k \in ToSet(batch') THEN f[k - NextCall + 1] ELSE tool[k]]
  BY <1>3
<1>5. n \in Nat \ {0} /\ m \in Nat /\ m + n <= MaxCalls
  BY <1>2, <1>3, ToolTurnAssumption
<1>6. \A k \in Calls : k \in ToSet(batch') <=> k \in (m + 1)..(m + n)
  <2>1. DOMAIN batch' = 1..n /\ \A i \in 1..n : batch'[i] = m + i
    BY <1>2, <1>3, <1>5
  <2>2. ASSUME NEW k \in (m + 1)..(m + n) PROVE k \in ToSet(batch')
    <3>1. k - m \in 1..n /\ m + (k - m) = k
      BY <1>5
    <3> QED BY <2>1, <3>1 DEF ToSet
  <2>3. \A k \in ToSet(batch') : k \in (m + 1)..(m + n)
    BY <1>5, <2>1 DEF ToSet
  <2> QED BY <2>2, <2>3
<1>7. ASSUME NEW k \in Calls
      PROVE  /\ tool'[k] # "none" <=> k <= m + n
             /\ k <= m => tool'[k] = tool[k] /\ phase'[k] = phase[k]
  <2>1. k \in Nat \ {0}
    BY DEF Calls
  <2>2. CASE k \in (m + 1)..(m + n)
    <3>1. k - NextCall + 1 \in 1..n
      BY <1>2, <1>5, <2>2
    <3>2. f[k - NextCall + 1] \in Tools
      BY <3>1
    <3>3. tool'[k] \in Tools
      BY <1>4, <1>6, <2>2, <3>2
    <3>4. "none" \notin Tools
      BY DEF Tools
    <3> QED BY <1>5, <2>1, <2>2, <3>3, <3>4
  <2>3. CASE k \notin (m + 1)..(m + n)
    <3>1. tool'[k] = tool[k] /\ phase'[k] = phase[k]
      BY <1>4, <1>6, <2>3 DEF Announce
    <3>2. k <= m <=> k <= m + n
      BY <1>5, <2>1, <2>3
    <3> QED BY <1>1, <3>1, <3>2
  <2> QED BY <2>2, <2>3
<1>8. UNCHANGED <<found, sources>>
  BY DEF Announce
<1>9. m + n \in 0..MaxCalls /\ \A k \in Calls : tool'[k] # "none" <=> k <= m + n
  BY <1>5, <1>7
<1>10. ASSUME NEW k \in Calls, found'[k] # <<>> PROVE tool'[k] = "search" /\ phase'[k] = "done"
  <2>1. tool[k] = "search" /\ phase[k] = "done"
    BY <1>8, <1>10 DEF Traced
  <2>2. k <= m
    BY <1>1, <2>1
  <2> QED BY <1>7, <2>1, <2>2
<1>11. \A c \in ToSet(sources') : c = Inventory \/ \E k \in Calls : c \in ToSet(found'[k])
  BY <1>8 DEF Traced
<1> QED BY <1>9, <1>10, <1>11 DEF Traced

\* Registering adds sources of the result and takes none away.
LEMMA RegisterAdds ==
  ASSUME TurnTyped, Hand, Numbered, NEW result \in Picks(Citable), Register(result)
  PROVE  /\ ToSet(sources) \subseteq ToSet(sources')
         /\ ToSet(sources') \subseteq ToSet(sources) \cup ToSet(result)
<1> DEFINE new == Fresh(result)
<1>1. /\ new \in Picks(Citable \cap (Citable \ Cited)) /\ ToSet(new) \subseteq ToSet(result)
  BY WithinIs DEF Fresh, Picks
<1>2. sources' = sources \o new
  BY DEF Register
<1> HIDE DEF new
<1>3. ToSet(sources) \cap ToSet(new) = {}
  <2>1. \A c \in ToSet(new) : c \notin Cited
    BY <1>1 DEF Picks, ToSet
  <2> QED BY <2>1 DEF Numbered
<1>4. ToSet(sources \o new) = ToSet(sources) \cup ToSet(new)
  <2>1. new \in Picks(Citable)
    BY <1>1 DEF Picks
  <2>2. Apart(sources, new, Citable)
    BY <1>3, <2>1 DEF Hand, Apart
  <2> QED BY <2>2, JoinPick
<1> QED BY <1>1, <1>2, <1>4

LEMMA SucceedTraced ==
  ASSUME ToolInv, Traced, NEW k \in Calls, Succeed(k)
  PROVE  Traced' /\ ToSet(sources) \subseteq ToSet(sources')
<1>1. phase[k] = "running" /\ phase' = [phase EXCEPT ![k] = "done"] /\ UNCHANGED tool
  BY DEF Succeed, MayComplete
<1>2. found[k] = <<>>
  BY <1>1 DEF Traced
<1>3. \A j \in Calls : phase[j] = "done" => phase'[j] = "done"
  BY <1>1 DEF ToolInv, TurnTyped
<1>4. phase'[k] = "done"
  BY <1>1 DEF ToolInv, TurnTyped
<1>5. CASE /\ tool[k] = "search"
           /\ \E s \in SearchResults : found' = [found EXCEPT ![k] = s] /\ Register(s)
  <2>1. PICK s \in SearchResults : found' = [found EXCEPT ![k] = s] /\ Register(s)
    BY <1>5
  <2>2. s \in Picks(Citable)
    <3>1. PICK m \in 0..MaxResults : s \in [1..m -> Chunks]
      BY DEF SearchResults, SeqOf
    <3>2. s \in Seq(Citable)
      BY <3>1, ToolTurnAssumption DEF Citable
    <3> QED BY <3>2 DEF SearchResults, Picks
  <2>3. /\ ToSet(sources) \subseteq ToSet(sources')
        /\ ToSet(sources') \subseteq ToSet(sources) \cup ToSet(s)
    BY <2>1, <2>2, RegisterAdds DEF ToolInv
  <2>4. found'[k] = s /\ \A j \in Calls : j # k => found'[j] = found[j]
    BY <2>1 DEF ToolInv, Hand
  <2>5. \A j \in Calls : found'[j] # <<>> => tool'[j] = "search" /\ phase'[j] = "done"
    BY <1>1, <1>3, <1>4, <1>5, <2>4 DEF Traced
  <2>6. ASSUME NEW c \in ToSet(sources')
        PROVE  c = Inventory \/ \E j \in Calls : c \in ToSet(found'[j])
    <3>1. CASE c \in ToSet(s)
      BY <2>4, <3>1
    <3>2. CASE c \in ToSet(sources)
      <4>1. c = Inventory \/ \E j \in Calls : c \in ToSet(found[j])
        BY <3>2 DEF Traced
      <4>2. c \notin ToSet(found[k])
        BY <1>2, EmptyPick
      <4> QED BY <2>4, <4>1, <4>2
    <3> QED BY <2>3, <3>1, <3>2
  <2>7. \E m \in 0..MaxCalls : \A j \in Calls : tool'[j] # "none" <=> j <= m
    BY <1>1 DEF Traced
  <2> QED BY <2>3, <2>5, <2>6, <2>7 DEF Traced
<1>6. CASE Register(<<Inventory>>) /\ UNCHANGED found
  <2>1. <<Inventory>> \in Picks(Citable) /\ ToSet(<<Inventory>>) = {Inventory}
    BY DEF Picks, IsInjective, Citable, ToSet
  <2>2. /\ ToSet(sources) \subseteq ToSet(sources')
        /\ ToSet(sources') \subseteq ToSet(sources) \cup {Inventory}
    BY <1>6, <2>1, RegisterAdds DEF ToolInv
  <2> QED BY <1>1, <1>3, <1>6, <2>2, StaysTraced
<1>7. CASE UNCHANGED <<found, citation, sources>>
  BY <1>1, <1>3, <1>7, StaysTraced
<1> QED BY <1>5, <1>6, <1>7 DEF Succeed

LEMMA CollectTraced == ToolInv /\ Traced /\ Collect => Traced'
<1> SUFFICES ASSUME ToolInv, Traced, Collect PROVE Traced'
  OBVIOUS
<1>1. sources' = Pruned /\ UNCHANGED <<tool, found>>
      /\ phase' = [k \in Calls |-> IF k \in ToSet(batch) THEN "done" ELSE phase[k]]
  BY DEF Collect
<1>2. \A k \in Calls : phase[k] = "done" => phase'[k] = "done"
  BY <1>1
<1>3. \A c \in ToSet(sources') : c \in ToSet(sources)
  BY <1>1, PrunedIs DEF ToolInv
<1> QED BY <1>1, <1>2, <1>3, StaysTraced

LEMMA StepTraced == ToolInv /\ Traced /\ [ToolNext]_toolVars => Traced'
<1> SUFFICES ASSUME ToolInv, Traced, [ToolNext]_toolVars PROVE Traced'
  OBVIOUS
<1>1. ASSUME NEW k \in Calls, FailCall(k) \/ Invalid(k) PROVE Traced'
  <2>1. phase[k] = "running" /\ UNCHANGED <<tool, found, sources>>
        /\ (phase' = [phase EXCEPT ![k] = "done"] \/ phase' = [phase EXCEPT ![k] = "silent"])
    BY <1>1 DEF FailCall, Invalid, MayComplete
  <2>2. \A j \in Calls : phase[j] = "done" => phase'[j] = "done"
    BY <2>1 DEF ToolInv, TurnTyped
  <2> QED BY <2>1, <2>2, StaysTraced
<1>2. CASE UNCHANGED toolVars
  BY <1>2, StaysTraced DEF toolVars
<1> QED BY <1>1, <1>2, AnnounceTraced, CollectTraced, SucceedTraced DEF ToolNext, Complete

\* However the searches of a question compete for the budget, a search that had a
\* source in hand before a step has one after it (loop_tools.py: _prune_sources).
THEOREM PruningIsFair == ToolSpec => PruneIsFair
<1> DEFINE Keeps == \A g \in Calls :
             /\ tool[g] = "search"
             /\ ToSet(found[g]) \cap ToSet(sources) # {}
             => ToSet(found[g]) \cap ToSet(sources') # {}
<1>1. ToolInit => ToolInv /\ Traced
  BY InitTurn, InitTraced
<1>2. (ToolInv /\ Traced) /\ [ToolNext]_toolVars => (ToolInv /\ Traced)'
  BY StepTurn, StepTraced
<1>3. (ToolInv /\ Traced) /\ [ToolNext]_toolVars => [Keeps]_toolVars
  <2> SUFFICES ASSUME ToolInv, Traced, ToolNext PROVE Keeps
    OBVIOUS
  <2>1. CASE Collect
    <3>1. Hand /\ sources' = Pruned
      BY <2>1 DEF ToolInv, Collect
    <3> QED BY <3>1, PruneKeeps
  <2>2. CASE Announce
    BY <2>2 DEF Announce
  <2>3. ASSUME NEW k \in Calls, Complete(k) PROVE Keeps
    <3>1. ToSet(sources) \subseteq ToSet(sources')
      <4>1. CASE Succeed(k)
        BY <4>1, SucceedTraced
      <4>2. CASE FailCall(k) \/ Invalid(k)
        BY <4>2 DEF FailCall, Invalid
      <4> QED BY <2>3, <4>1, <4>2 DEF Complete
    <3> QED BY <3>1
  <2> QED BY <2>1, <2>2, <2>3 DEF ToolNext
<1> QED BY <1>1, <1>2, <1>3, PTL DEF ToolSpec, PruneIsFair
================================================================================
