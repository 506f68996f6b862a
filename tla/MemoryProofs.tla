---------------------------- MODULE MemoryProofs ----------------------------
(***************************************************************************)
(* For any number of messages, capacity and budgets: no write of the       *)
(* profile is undone by another, and the extraction's cursor covers what   *)
(* it passes (Memory).                                                     *)
(*                                                                         *)
(* A writer replaces the whole profile by what it makes of the one it      *)
(* loaded.  Nothing is lost because a writer that has loaded holds the     *)
(* lock, so what it loaded is what there is (Loaded).  The cursor moves    *)
(* long after the extraction saved, over builds, failures and crashes; the *)
(* invariant carries the messages it covered along (Passed).               *)
(*                                                                         *)
(* The second part is about the index that is built from the profile.      *)
(***************************************************************************)
EXTENDS Memory, FiniteSetTheorems, SequenceTheorems, TLAPS

Behind == {"saved", "begun", "created", "filled", "advance"}
Pcs    == {"idle", "asked", "want", "loaded", "ensure"} \cup Behind

Proc == [pc : Pcs, seen : Seq(Nat), new : SUBSET Nat,
         name : Int, first : Nat, upto : Nat]

Typed ==
  /\ posted \in Nat /\ cursor \in Nat /\ profile \in Seq(Nat)
  /\ proc \in [Procs -> Proc]
  /\ \A p \in Procs : IsFiniteSet(proc[p].new)

Loaded == \A w \in Writers :
  proc[w].pc = "loaded" => lock = w /\ proc[w].seen = profile

\* What the user's request puts into the profile is the user's.
Worded == proc["user"].pc \in {"want", "loaded"} => proc["user"].new \in {{}, {Edited}}

Passed == proc["extract"].pc \in Behind =>
  \A m \in cursor + 1 .. proc["extract"].upto : Covered(m, proc["extract"].upto)

\* A prompt begins behind the cursor unless Fit messages fill it.
Asking == {"asked", "want", "loaded"}
Trimmed(first, upto) == first <= cursor + 1 \/ first + Fit <= upto + 1
Asked == proc["extract"].pc \in Asking => Trimmed(proc["extract"].first, proc["extract"].upto)

MInv == Typed /\ Loaded /\ Worded /\ Passed /\ Asked /\ NothingLost /\ CursorCovers

-----------------------------------------------------------------------------
(* What a writer makes of a profile                                          *)

LEMMA NoneIsFinite == IsFiniteSet({})
BY FS_EmptySet

LEMMA IdleIsProc == Idle \in Proc /\ Idle.new = {} /\ Idle.pc = "idle" /\ IsFiniteSet(Idle.new)
<1>1. Idle \in Proc
  BY DEF Idle, Proc, Pcs
<1>2. Idle.new = {} /\ Idle.pc = "idle"
  BY DEF Idle
<1> QED BY <1>1, <1>2, NoneIsFinite

LEMMA SmallFinite == ASSUME NEW n \in Nat, NEW m \in Nat, NEW S \in SUBSET (n .. m)
                     PROVE  IsFiniteSet(S) /\ S \subseteq Nat
<1>1. n \in Int /\ m \in Int /\ n .. m \subseteq Nat
  OBVIOUS
<1>2. IsFiniteSet(n .. m)
  BY <1>1, FS_Interval
<1>3. IsFiniteSet(S)
  BY <1>2, FS_Subset
<1> QED BY <1>1, <1>3

\* Eviction keeps memories that were there.
LEMMA EvictedKeeps ==
  ASSUME NEW s \in Seq(Nat), NEW e \in Evicted(s)
  PROVE  e \in Seq(Nat) /\ ToSet(e) \subseteq ToSet(s)
<1>1. CASE Len(s) <= Cap
  BY <1>1 DEF Evicted
<1>2. CASE ~(Len(s) <= Cap)
  <2>1. PICK best \in Injection(1..Cap, DOMAIN s) : e = [i \in 1..Cap |-> s[best[i]]]
    BY <1>2 DEF Evicted
  <2>2. best \in [1..Cap -> DOMAIN s]
    BY DEF Injection
  <2>3. \A i \in 1..Cap : s[best[i]] \in Nat /\ best[i] \in DOMAIN s
    BY <2>2
  <2>4. e \in [1..Cap -> Nat]
    BY <2>1, <2>3
  <2>5. e \in Seq(Nat)
    BY <2>4, MemoryAssumption
  <2>6. DOMAIN e = 1..Cap
    BY <2>1
  <2> QED BY <2>1, <2>3, <2>5, <2>6 DEF ToSet
<1> QED BY <1>1, <1>2

\* What is appended is new, in some order.
LEMMA OrderIsSeq ==
  ASSUME NEW S \in SUBSET Nat, IsFiniteSet(S), NEW s \in Orders(S)
  PROVE  s \in Seq(Nat) /\ ToSet(s) = S
<1>1. Cardinality(S) \in Nat
  BY FS_CardinalityType
<1>2. s \in [1..Cardinality(S) -> S] /\ ToSet(s) = S
  BY DEF Orders
<1>3. s \in [1..Cardinality(S) -> Nat]
  BY <1>2
<1> QED BY <1>1, <1>2, <1>3

\* The elements of a sequence, by their positions.
LEMMA Elements ==
  ASSUME NEW a \in Seq(Nat)
  PROVE  /\ \A k \in 1..Len(a) : a[k] \in ToSet(a)
         /\ \A T : (\A k \in 1..Len(a) : a[k] \in T) => ToSet(a) \subseteq T
<1>1. DOMAIN a = 1..Len(a)
  OBVIOUS
<1> QED BY <1>1 DEF ToSet

LEMMA AppendedSet ==
  ASSUME NEW a \in Seq(Nat), NEW b \in Seq(Nat)
  PROVE  a \o b \in Seq(Nat) /\ ToSet(a \o b) = ToSet(a) \cup ToSet(b)
<1>1. a \o b \in Seq(Nat) /\ Len(a \o b) = Len(a) + Len(b)
  OBVIOUS
<1>2. \A i \in 1..Len(a) : (a \o b)[i] = a[i]
  OBVIOUS
<1>3. \A i \in 1..Len(b) : (a \o b)[Len(a) + i] = b[i]
  OBVIOUS
<1>4. \A i \in 1..(Len(a) + Len(b)) :
        i \in 1..Len(a) \/ \E j \in 1..Len(b) : i = Len(a) + j
  <2> SUFFICES ASSUME NEW i \in 1..(Len(a) + Len(b)), i \notin 1..Len(a)
               PROVE  \E j \in 1..Len(b) : i = Len(a) + j
    OBVIOUS
  <2>1. i - Len(a) \in 1..Len(b) /\ i = Len(a) + (i - Len(a))
    OBVIOUS
  <2> QED BY <2>1
<1>5. ToSet(a \o b) \subseteq ToSet(a) \cup ToSet(b)
  <2> SUFFICES ASSUME NEW i \in 1..(Len(a) + Len(b))
               PROVE  (a \o b)[i] \in ToSet(a) \cup ToSet(b)
    BY <1>1 DEF ToSet
  <2>1. CASE i \in 1..Len(a)
    BY <2>1, <1>2 DEF ToSet
  <2>2. CASE \E j \in 1..Len(b) : i = Len(a) + j
    BY <2>2, <1>3 DEF ToSet
  <2> QED BY <2>1, <2>2, <1>4
<1>6. ToSet(a) \subseteq ToSet(a \o b)
  BY <1>1, <1>2 DEF ToSet
<1>7. ToSet(b) \subseteq ToSet(a \o b)
  <2>1. \A j \in 1..Len(b) : Len(a) + j \in 1..Len(a \o b)
    BY <1>1
  <2>2. \A j \in 1..Len(b) : b[j] \in ToSet(a \o b)
    <3> SUFFICES ASSUME NEW j \in 1..Len(b) PROVE b[j] \in ToSet(a \o b)
      OBVIOUS
    <3>1. (a \o b)[Len(a) + j] \in ToSet(a \o b)
      BY <1>1, <2>1, Elements
    <3> QED BY <3>1, <1>3
  <2> QED BY <2>2, Elements
<1> QED BY <1>1, <1>5, <1>6, <1>7

LEMMA RemovedSet ==
  ASSUME NEW s \in Seq(Nat), NEW i \in 1..Len(s)
  PROVE  RemoveAt(s, i) \in Seq(Nat) /\ ToSet(RemoveAt(s, i)) \subseteq ToSet(s)
<1>0. i \in Nat /\ Len(s) \in Nat /\ i + 1 \in Int /\ 1 <= i /\ i <= Len(s)
  OBVIOUS
<1> DEFINE a == SubSeq(s, 1, i - 1)
           b == SubSeq(s, i + 1, Len(s))
<1>1. a \in Seq(Nat) /\ \A k \in 1..Len(a) : k \in 1..Len(s) /\ a[k] = s[k]
  <2>1. Len(a) = i - 1 /\ a \in Seq(Nat)
    BY <1>0
  <2>2. \A k \in 1..Len(a) : a[k] = s[k]
    BY <1>0
  <2>3. \A k \in 1..Len(a) : k \in 1..Len(s)
    BY <1>0, <2>1
  <2> QED BY <2>1, <2>2, <2>3
<1>2. b \in Seq(Nat) /\ \A k \in 1..Len(b) : i + k \in 1..Len(s) /\ b[k] = s[i + k]
  <2>1. Len(b) = Len(s) - i
    BY <1>0
  <2>2. \A k \in 1..Len(b) : b[k] = s[(i + 1) + k - 1] /\ (i + 1) + k - 1 = i + k
    BY <1>0
  <2>3. \A k \in 1..Len(b) : i + k \in 1..Len(s)
    BY <1>0, <2>1
  <2>4. b \in Seq(Nat)
    BY <1>0
  <2> QED BY <2>2, <2>3, <2>4
<1>3. ToSet(a) \subseteq ToSet(s) /\ ToSet(b) \subseteq ToSet(s)
  <2> HIDE DEF a, b
  <2>1. \A k \in 1..Len(a) : a[k] \in ToSet(s)
    BY <1>1, Elements
  <2>2. \A k \in 1..Len(b) : b[k] \in ToSet(s)
    BY <1>2, Elements
  <2> QED BY <1>1, <1>2, <2>1, <2>2, Elements
<1>4. RemoveAt(s, i) = a \o b
  BY DEF RemoveAt
<1> HIDE DEF a, b
<1> QED BY <1>1, <1>2, <1>3, <1>4, AppendedSet

\* A new profile holds what the old one held or what the writer brought.
LEMMA ResultsFrom ==
  ASSUME Typed, Worded, NEW w \in Writers, proc[w].pc = "loaded", ~Absent(w),
         NEW new \in Results(w)
  PROVE  new \in Seq(Nat) /\ ToSet(new) \subseteq ToSet(proc[w].seen) \cup proc[w].new
<1>1. proc[w] \in Proc /\ IsFiniteSet(proc[w].new)
  BY DEF Typed, Procs
<1> DEFINE seen == proc[w].seen
<1>2. seen \in Seq(Nat) /\ proc[w].new \subseteq Nat /\ proc[w].upto \in Nat
  BY <1>1 DEF Proc
<1>3. CASE w # "user"
  <2>1. PICK s \in Orders(Fresh(w)) : new \in Evicted(seen \o s)
    BY <1>3 DEF Results
  <2>2. Fresh(w) \subseteq proc[w].new
    BY DEF Fresh
  <2>3. IsFiniteSet(Fresh(w)) /\ Fresh(w) \subseteq Nat
    BY <1>1, <1>2, <2>2, FS_Subset
  <2>4. s \in Seq(Nat) /\ ToSet(s) = Fresh(w)
    BY <2>1, <2>3, OrderIsSeq
  <2>5. seen \o s \in Seq(Nat) /\ ToSet(seen \o s) = ToSet(seen) \cup Fresh(w)
    BY <1>2, <2>4, AppendedSet
  <2>6. new \in Seq(Nat) /\ ToSet(new) \subseteq ToSet(seen \o s)
    BY <2>1, <2>5, EvictedKeeps
  <2> QED BY <2>2, <2>5, <2>6
<1>4. CASE w = "user"
  <2>1. new = Changed(w) /\ proc[w].upto <= Len(seen)
    BY <1>2, <1>4 DEF Results, Absent
  <2>2. CASE proc[w].upto = 0
    BY <2>1, <2>2 DEF Changed, ToSet
  <2>3. CASE proc[w].upto # 0 /\ proc[w].new = {}
    <3>1. proc[w].upto \in 1..Len(seen) /\ new = RemoveAt(seen, proc[w].upto)
      BY <1>2, <2>1, <2>3 DEF Changed
    <3> QED BY <1>2, <3>1, RemovedSet
  <2>4. CASE proc[w].upto # 0 /\ proc[w].new # {}
    <3>1. new = [seen EXCEPT ![proc[w].upto] = 0] /\ proc[w].new = {0}
      BY <1>4, <2>1, <2>4 DEF Changed, ReplaceAt, Worded, Edited
    <3>2. proc[w].upto \in 1..Len(seen) /\ 0 \in Nat
      BY <1>2, <2>1, <2>4
    <3>3. new \in Seq(Nat) /\ Len(new) = Len(seen)
          /\ \A i \in 1..Len(seen) : new[i] = seen[i] \/ new[i] = 0
      BY <1>2, <3>1, <3>2, ExceptSeq
    <3> QED BY <1>2, <3>1, <3>3 DEF ToSet
  <2> QED BY <2>2, <2>3, <2>4
<1> QED BY <1>3, <1>4

-----------------------------------------------------------------------------
LEMMA InitInv == Init => MInv
<1> SUFFICES ASSUME Init PROVE MInv
  OBVIOUS
<1>1. Typed
  <2>1. proc = [p \in Procs |-> Idle]
    BY DEF Init
  <2>2. proc \in [Procs -> Proc] /\ \A p \in Procs : IsFiniteSet(proc[p].new)
    BY <2>1, IdleIsProc
  <2>3. posted \in Nat /\ cursor \in Nat /\ profile \in Seq(Nat)
    BY DEF Init
  <2> QED BY <2>2, <2>3 DEF Typed
<1>2. Loaded /\ Worded /\ Passed /\ Asked
  BY DEF Init, Loaded, Worded, Passed, Asked, Asking, Idle, Writers, Procs, Behind
<1>3. NothingLost /\ CursorCovers
  BY DEF Init, NothingLost, CursorCovers, ToSet
<1> QED BY <1>1, <1>2, <1>3 DEF MInv

\* Covered, of any messages read.
CoveredIn(m, upto, S) ==
  m \in S \/ \E n \in m .. upto - Fit : n + 1 .. n + Fit \subseteq S

LEMMA CoveredMore ==
  ASSUME NEW m \in Nat, NEW u \in Nat, NEW v \in Nat, u <= v, NEW S, NEW T, S \subseteq T,
         CoveredIn(m, u, S)
  PROVE  CoveredIn(m, v, T)
<1>1. Fit \in Nat
  BY MemoryAssumption
<1>2. CASE m \in S
  BY <1>2 DEF CoveredIn
<1>3. CASE m \notin S
  <2>1. PICK n \in m .. u - Fit : n + 1 .. n + Fit \subseteq S
    BY <1>3 DEF CoveredIn
  <2>2. n \in m .. v - Fit
    BY <1>1
  <2>3. n + 1 .. n + Fit \subseteq T
    BY <2>1
  <2> QED BY <2>2, <2>3 DEF CoveredIn
<1> QED BY <1>2, <1>3

\* What a prompt shows covers what it was made of.
LEMMA PromptCovers ==
  ASSUME NEW c \in Nat, NEW first \in Nat, NEW u \in Nat, NEW S, first .. u \subseteq S,
         first <= c + 1 \/ first + Fit <= u + 1, NEW m \in c + 1 .. u
  PROVE  CoveredIn(m, u, S)
<1>1. Fit \in Nat
  BY MemoryAssumption
<1>2. CASE first <= m
  <2>1. m \in first .. u
    BY <1>2
  <2> QED BY <2>1 DEF CoveredIn
<1>3. CASE ~(first <= m)
  <2>1. first + Fit <= u + 1
    BY <1>3
  <2>2. u - Fit \in m .. u - Fit
    BY <1>1, <1>3, <2>1
  <2>3. \A i \in (u - Fit) + 1 .. (u - Fit) + Fit : i \in first .. u
    BY <1>1, <2>1
  <2> QED BY <2>2, <2>3 DEF CoveredIn
<1> QED BY <1>2, <1>3

\* A step of one process that leaves profile, cursor and history alone, and after
\* which that process has loaded nothing.
LEMMA ProcStep ==
  ASSUME MInv, NEW p \in Procs, NEW me \in Proc, IsFiniteSet(me.new),
         proc' = [proc EXCEPT ![p] = me],
         me.pc # "loaded",
         p = "user" /\ me.pc = "want" => me.new \in {{}, {Edited}},
         p = "extract" /\ me.pc \in Behind =>
           \A m \in cursor + 1 .. me.upto : Covered(m, me.upto),
         p = "extract" /\ me.pc \in Asking => Trimmed(me.first, me.upto),
         lock' \in {lock, Release(p)},
         UNCHANGED <<cursor, profile, told, read>>, posted' \in Nat
  PROVE  MInv'
<1>1. \A q \in Procs : proc'[q] = IF q = p THEN me ELSE proc[q]
  BY DEF MInv, Typed
<1>2. Typed'
  <2>1. proc' \in [Procs -> Proc]
    BY DEF MInv, Typed
  <2> QED BY <1>1, <2>1 DEF MInv, Typed
<1>3. Loaded'
  <2> SUFFICES ASSUME NEW w \in Writers, proc'[w].pc = "loaded"
               PROVE  lock' = w /\ proc'[w].seen = profile'
    BY DEF Loaded
  <2>1. w # p /\ proc'[w] = proc[w]
    BY <1>1 DEF Procs
  <2> QED BY <2>1 DEF MInv, Loaded, Release
<1>4. Worded'
  BY <1>1 DEF MInv, Worded, Procs, Writers
<1>5. Passed' /\ Asked'
  <2>1. "extract" \in Procs
    BY DEF Procs, Writers
  <2>2. CASE p = "extract"
    BY <1>1, <2>1, <2>2 DEF Passed, Asked, Covered, Trimmed
  <2>3. CASE p # "extract"
    BY <1>1, <2>1, <2>3 DEF MInv, Passed, Asked, Covered, Trimmed
  <2> QED BY <2>2, <2>3
<1>6. NothingLost' /\ CursorCovers'
  BY DEF MInv, NothingLost, CursorCovers, Covered
<1> QED BY <1>2, <1>3, <1>4, <1>5, <1>6 DEF MInv

\* Where a build is left.
LEMMA LeavingIsProc ==
  ASSUME MInv, NEW p \in Procs, proc[p].pc \in Behind \ {"advance"}
  PROVE  /\ Leaving(p) \in Proc /\ IsFiniteSet(Leaving(p).new)
         /\ Leaving(p).pc \notin {"loaded", "want"}
         /\ Leaving(p).pc \notin Asking
         /\ p = "extract" /\ Leaving(p).pc \in Behind
              => \A m \in cursor + 1 .. Leaving(p).upto : Covered(m, Leaving(p).upto)
<1>1. CASE p = "rebuild"
  <2>1. Leaving(p) = [Idle EXCEPT !.pc = "ensure"]
    BY <1>1 DEF Leaving
  <2>2. Leaving(p) \in Proc /\ Leaving(p).new = {} /\ Leaving(p).pc = "ensure"
    BY <2>1, IdleIsProc DEF Proc, Pcs
  <2> QED BY <1>1, <2>2, NoneIsFinite DEF Asking
<1>2. CASE p = "extract"
  <2>1. Leaving(p) = [Idle EXCEPT !.pc = "advance", !.upto = proc[p].upto]
    BY <1>2 DEF Leaving, After
  <2>2. proc[p] \in Proc /\ \A m \in cursor + 1 .. proc[p].upto : Covered(m, proc[p].upto)
    BY <1>2 DEF MInv, Typed, Passed, Behind
  <2>3. proc[p].upto \in Nat
    BY <2>2 DEF Proc
  <2>4. Leaving(p) \in Proc /\ Leaving(p).new = {} /\ Leaving(p).pc = "advance"
        /\ Leaving(p).upto = proc[p].upto
    BY <2>1, <2>3, IdleIsProc DEF Proc, Pcs, Behind
  <2> QED BY <2>2, <2>4, NoneIsFinite DEF Asking
<1>3. CASE p # "rebuild" /\ p # "extract"
  BY <1>3, IdleIsProc DEF Leaving, After, Asking, Behind
<1> QED BY <1>1, <1>2, <1>3

\* Only proc, the serving flag, the index and the budgets change.
LEMMA LeftStep ==
  ASSUME MInv, NEW p \in Procs, proc[p].pc \in Behind \ {"advance"}, Left(p),
         UNCHANGED <<chat, profile, history>>
  PROVE  MInv'
BY ProcStep, LeavingIsProc DEF Left, MInv, Typed, chat, history

LEMMA GoesStep ==
  ASSUME MInv, NEW p \in Procs, NEW pc \in Behind \ {"advance"},
         proc[p].pc \in Behind \ {"advance"}, NEW n \in Int,
         proc' = [proc EXCEPT ![p].pc = pc, ![p].name = n],
         UNCHANGED <<chat, profile, lock, history>>
  PROVE  MInv'
<1> DEFINE me == [proc[p] EXCEPT !.pc = pc, !.name = n]
<1>1. proc[p] \in Proc
  BY DEF MInv, Typed
<1>2. me \in Proc /\ me.new = proc[p].new /\ me.upto = proc[p].upto /\ me.pc = pc
  BY <1>1 DEF Proc, Pcs
<1>3. proc' = [proc EXCEPT ![p] = me]
  BY <1>1 DEF MInv, Typed, Proc
<1>4. IsFiniteSet(me.new) /\ me.pc \notin {"loaded", "want"} /\ me.pc \notin Asking
      /\ (p = "extract" => \A m \in cursor + 1 .. me.upto : Covered(m, me.upto))
  BY <1>2 DEF MInv, Typed, Passed, Behind, Asking
<1> HIDE DEF me
<1> QED BY <1>2, <1>3, <1>4, ProcStep DEF chat, history, MInv, Typed

-----------------------------------------------------------------------------
LEMMA SaveStep ==
  ASSUME MInv, NEW w \in Writers, Save(w)
  PROVE  MInv'
<1> DEFINE me  == [Idle EXCEPT !.pc = "saved", !.seen = profile',
                               !.upto = IF w = "extract" THEN proc[w].upto ELSE 0]
           old == proc[w]
<1>0. w \in Procs
  BY DEF Procs
<1>1. old \in Proc /\ old.pc = "loaded" /\ lock = w /\ old.seen = profile
  BY <1>0 DEF Save, MInv, Typed, Loaded
<1>2. profile' \in Seq(Nat) /\ ToSet(profile') \subseteq ToSet(old.seen) \cup old.new
  BY ResultsFrom DEF Save, MInv
<1>3. me \in Proc /\ IsFiniteSet(me.new) /\ me.pc = "saved"
      /\ (w = "extract" => me.upto = old.upto)
  <2>1. old.upto \in Nat /\ (IF w = "extract" THEN old.upto ELSE 0) \in Nat
    BY <1>1 DEF Proc
  <2>2. me \in Proc /\ me.new = {} /\ me.pc = "saved"
        /\ me.upto = IF w = "extract" THEN old.upto ELSE 0
    BY <1>2, <2>1, IdleIsProc DEF Proc, Pcs, Behind
  <2> QED BY <2>2, NoneIsFinite
<1>4. proc' = [proc EXCEPT ![w] = me] /\ UNCHANGED <<posted, cursor, lock>>
  BY DEF Save, chat
<1>5. \A q \in Procs : proc'[q] = IF q = w THEN me ELSE proc[q]
  BY <1>0, <1>4 DEF MInv, Typed
<1>6. told' = (told \cup old.new) \ ((ToSet(old.seen) \cup old.new) \ ToSet(profile'))
  BY DEF Save
<1>7. read' = IF w = "extract" THEN read \cup (old.first .. old.upto) ELSE read
  BY DEF Save, Prompt
<1>14. old.first \in Nat /\ old.upto \in Nat /\ cursor \in Nat
  BY <1>1 DEF Proc, MInv, Typed
<1>15. w = "extract" => Trimmed(old.first, old.upto)
  BY <1>1 DEF MInv, Asked, Asking
<1>16. me.pc = "saved"
  BY <1>3
<1> HIDE DEF me, old
<1>8. Typed'
  <2>1. proc' \in [Procs -> Proc]
    BY <1>0, <1>3, <1>4 DEF MInv, Typed
  <2> QED BY <1>2, <1>3, <1>4, <1>5, <2>1 DEF MInv, Typed
<1>9. Loaded'
  <2> SUFFICES ASSUME NEW v \in Writers, proc'[v].pc = "loaded" PROVE FALSE
    BY DEF Loaded
  <2>1. v # w /\ proc[v].pc = "loaded"
    BY <1>3, <1>5 DEF Procs
  <2> QED BY <2>1, <1>1 DEF MInv, Loaded
<1>10. Worded'
  BY <1>3, <1>5 DEF MInv, Worded, Procs, Writers
<1>11. Passed' /\ Asked'
  <2>1. CASE w = "extract"
    <3>1. \A m \in cursor + 1 .. old.upto : CoveredIn(m, old.upto, read')
      BY <2>1, <1>7, <1>14, <1>15, PromptCovers DEF Trimmed
    <3>2. proc'["extract"].upto = old.upto /\ proc'["extract"].pc = "saved"
      BY <2>1, <1>0, <1>3, <1>5
    <3> QED BY <1>4, <3>1, <3>2 DEF Passed, Covered, CoveredIn, Asked, Asking
  <2>2. CASE w # "extract"
    <3>1. proc'["extract"] = proc["extract"]
      BY <2>2, <1>5 DEF Procs, Writers
    <3> QED BY <2>2, <3>1, <1>4, <1>7 DEF MInv, Passed, Covered, Asked, Trimmed
  <2> QED BY <2>1, <2>2
<1>12. NothingLost'
  <2>1. told = ToSet(old.seen)
    BY <1>1 DEF MInv, NothingLost
  <2> QED BY <2>1, <1>2, <1>6 DEF NothingLost
<1>13. CursorCovers'
  <2> SUFFICES ASSUME NEW m \in 1..cursor PROVE CoveredIn(m, cursor, read')
    BY <1>4 DEF CursorCovers, Covered, CoveredIn
  <2>1. CoveredIn(m, cursor, read) /\ read \subseteq read'
    BY <1>7 DEF MInv, CursorCovers, Covered, CoveredIn
  <2> QED BY <2>1, <1>14, CoveredMore
<1> QED BY <1>8, <1>9, <1>10, <1>11, <1>12, <1>13 DEF MInv

LEMMA StepInv == MInv /\ [Next]_vars => MInv'
<1> SUFFICES ASSUME MInv, [Next]_vars PROVE MInv'
  OBVIOUS
<1>0. "extract" \in Procs /\ "candidate" \in Procs /\ "user" \in Procs /\ "rebuild" \in Procs
      /\ Writers \subseteq Procs /\ Builders \subseteq Procs
      /\ "rebuild" \notin Writers /\ "start" \notin Writers
  BY DEF Procs, Writers, Builders
<1>1. CASE Post
  BY <1>1 DEF Post, MInv, Typed, Loaded, Worded, Passed, Asked, Trimmed, NothingLost,
              CursorCovers, Covered, history
<1>2. CASE Read
  <2>1. PICK first \in cursor + 1 .. posted :
          /\ first = cursor + 1 \/ first + Fit <= posted + 1
          /\ proc' = [proc EXCEPT !["extract"] =
               [Idle EXCEPT !.pc = "asked", !.first = first, !.upto = posted]]
    BY <1>2 DEF Read
  <2> DEFINE me == [Idle EXCEPT !.pc = "asked", !.first = first, !.upto = posted]
  <2>2. me \in Proc /\ IsFiniteSet(me.new) /\ me.pc = "asked"
        /\ me.first = first /\ me.upto = posted
    <3>1. posted \in Nat /\ cursor \in Nat
      BY DEF MInv, Typed
    <3>2. first \in Nat
      BY <3>1
    <3>3. me \in Proc /\ me.new = {} /\ me.pc = "asked" /\ me.first = first /\ me.upto = posted
      BY <3>1, <3>2, IdleIsProc DEF Proc, Pcs
    <3> QED BY <3>3, NoneIsFinite
  <2>3. proc' = [proc EXCEPT !["extract"] = me]
    BY <2>1
  <2> HIDE DEF me
  <2>4. Trimmed(me.first, me.upto)
    BY <2>1, <2>2 DEF Trimmed, MInv, Typed
  <2> QED BY <1>0, <1>2, <2>2, <2>3, <2>4, ProcStep DEF Read, Behind, chat, history, MInv, Typed
<1>3. CASE Answer
  <2> DEFINE old == proc["extract"]
  <2>0. old \in Proc /\ old.pc = "asked" /\ UNCHANGED <<chat, profile, lock, told>>
    BY <1>0, <1>3 DEF Answer, MInv, Typed
  <2>1. CASE proc' = [proc EXCEPT !["extract"] = Idle] /\ UNCHANGED read
    BY <1>0, <2>0, <2>1, IdleIsProc, ProcStep DEF Idle, Behind, Asking, chat, MInv, Typed
  <2>2. CASE /\ proc' = [proc EXCEPT !["extract"].pc = "advance"]
             /\ read' = read \cup Prompt
    <3> DEFINE me == [old EXCEPT !.pc = "advance"]
    <3>1. me \in Proc /\ me.new = old.new /\ me.upto = old.upto /\ me.pc = "advance"
      BY <2>0 DEF Proc, Pcs, Behind
    <3>2. proc' = [proc EXCEPT !["extract"] = me]
      BY <1>0, <2>0, <2>2 DEF MInv, Typed, Proc
    <3>3. old.first \in Nat /\ old.upto \in Nat /\ cursor \in Nat
          /\ Trimmed(old.first, old.upto) /\ read' = read \cup (old.first .. old.upto)
      BY <2>0, <2>2 DEF Proc, MInv, Typed, Asked, Asking, Prompt
    <3>4. IsFiniteSet(old.new)
      BY <1>0 DEF MInv, Typed
    <3> HIDE DEF me, old
    <3>5. \A q \in Procs : proc'[q] = IF q = "extract" THEN me ELSE proc[q]
      BY <1>0, <3>2 DEF MInv, Typed
    <3>6. Typed'
      <4>1. proc' \in [Procs -> Proc]
        BY <1>0, <3>1, <3>2 DEF MInv, Typed
      <4> QED BY <2>0, <3>1, <3>4, <3>5, <4>1 DEF MInv, Typed, chat
    <3>7. Loaded' /\ Worded'
      BY <1>0, <2>0, <3>1, <3>5 DEF MInv, Loaded, Worded
    <3>8. Passed' /\ Asked'
      <4>1. \A m \in cursor + 1 .. old.upto : CoveredIn(m, old.upto, read')
        BY <3>3, PromptCovers DEF Trimmed
      <4>2. proc'["extract"].upto = old.upto /\ proc'["extract"].pc = "advance" /\ cursor' = cursor
        BY <1>0, <2>0, <3>1, <3>5 DEF chat
      <4> QED BY <4>1, <4>2 DEF Passed, Covered, CoveredIn, Asked, Asking
    <3>9. NothingLost'
      BY <2>0 DEF MInv, NothingLost
    <3>10. CursorCovers'
      <4> SUFFICES ASSUME NEW m \in 1..cursor PROVE CoveredIn(m, cursor, read')
        BY <2>0 DEF CursorCovers, Covered, CoveredIn, chat
      <4>1. CoveredIn(m, cursor, read) /\ read \subseteq read'
        BY <3>3 DEF MInv, CursorCovers, Covered, CoveredIn
      <4> QED BY <3>3, <4>1, CoveredMore
    <3> QED BY <3>6, <3>7, <3>8, <3>9, <3>10 DEF MInv
  <2>3. CASE \E found \in SUBSET Prompt \ {{}} :
          /\ proc' = [proc EXCEPT !["extract"].pc = "want", !["extract"].new = found]
          /\ UNCHANGED read
    <3>1. PICK found \in SUBSET Prompt :
          /\ proc' = [proc EXCEPT !["extract"].pc = "want", !["extract"].new = found]
          /\ UNCHANGED read
      BY <2>3
    <3> DEFINE me == [old EXCEPT !.pc = "want", !.new = found]
    <3>2. found \in SUBSET (old.first .. old.upto) /\ old.upto \in Nat /\ old.first \in Nat
      BY <2>0, <3>1 DEF Prompt, Proc
    <3>3. IsFiniteSet(found) /\ found \subseteq Nat
      BY <3>2, SmallFinite
    <3>4. me \in Proc /\ me.new = found /\ me.upto = old.upto /\ me.first = old.first
          /\ me.pc = "want"
      BY <2>0, <3>3 DEF Proc, Pcs
    <3>5. proc' = [proc EXCEPT !["extract"] = me]
      BY <1>0, <2>0, <3>1 DEF MInv, Typed, Proc
    <3>6. Trimmed(me.first, me.upto)
      BY <2>0, <3>4 DEF MInv, Asked, Asking
    <3>7. IsFiniteSet(me.new)
      BY <3>3, <3>4
    <3> HIDE DEF me, old
    <3> QED BY <1>0, <2>0, <3>1, <3>4, <3>5, <3>6, <3>7, ProcStep DEF Behind, chat, MInv, Typed
  <2> QED BY <1>3, <2>1, <2>2, <2>3 DEF Answer
<1>4. CASE Advance
  <2>0. proc["extract"] \in Proc /\ proc["extract"].pc = "advance"
        /\ proc' = [proc EXCEPT !["extract"] = Idle]
        /\ UNCHANGED <<posted, profile, lock, told, read>>
    BY <1>0, <1>4 DEF Advance, MInv, Typed, history
  <2>1. proc["extract"].upto \in Nat /\ cursor \in Nat
        /\ cursor' = IF cursor < proc["extract"].upto THEN proc["extract"].upto ELSE cursor
    BY <1>4, <2>0 DEF Advance, Watermark, Proc, MInv, Typed
  <2>2. \A q \in Procs : proc'[q] = IF q = "extract" THEN Idle ELSE proc[q]
    BY <1>0, <2>0 DEF MInv, Typed
  <2>3. /\ \A m \in cursor + 1 .. proc["extract"].upto : CoveredIn(m, proc["extract"].upto, read)
        /\ \A m \in 1..cursor : CoveredIn(m, cursor, read)
    BY <2>0 DEF MInv, Passed, Behind, CursorCovers, Covered, CoveredIn
  <2>4. CursorCovers'
    <3> SUFFICES ASSUME NEW m \in 1..cursor' PROVE CoveredIn(m, cursor', read)
      BY <2>0 DEF CursorCovers, Covered, CoveredIn
    <3>1. CASE m \in 1..cursor
      <4>1. CoveredIn(m, cursor, read) /\ cursor <= cursor' /\ cursor' \in Nat
        BY <2>1, <2>3, <3>1
      <4> QED BY <2>1, <4>1, CoveredMore
    <3>2. CASE m \notin 1..cursor
      <4>1. cursor' = proc["extract"].upto /\ m \in cursor + 1 .. proc["extract"].upto
        BY <2>1, <3>2
      <4> QED BY <2>3, <4>1
    <3> QED BY <3>1, <3>2
  <2>5. Typed'
    <3>1. proc' \in [Procs -> Proc]
      BY <1>0, <2>0, IdleIsProc DEF MInv, Typed
    <3> QED BY <2>0, <2>1, <2>2, <3>1, IdleIsProc DEF MInv, Typed
  <2>6. Loaded' /\ Worded' /\ Passed' /\ Asked' /\ NothingLost'
    BY <1>0, <2>0, <2>2 DEF MInv, Loaded, Worded, Passed, Asked, Asking, NothingLost, Idle, Behind
  <2> QED BY <2>4, <2>5, <2>6 DEF MInv
<1>5. CASE Candidate
  <2>1. PICK new \in Confirmed :
          proc' = [proc EXCEPT !["candidate"] = [Idle EXCEPT !.pc = "want", !.new = new]]
    BY <1>5 DEF Candidate
  <2> DEFINE me == [Idle EXCEPT !.pc = "want", !.new = new]
  <2>2. me \in Proc /\ IsFiniteSet(me.new) /\ me.pc = "want"
    <3>1. PICK m \in 1..posted : new = {m}
      BY DEF Confirmed
    <3>2. new \subseteq Nat /\ IsFiniteSet(new)
      <4>1. new \subseteq Nat
        BY <3>1 DEF MInv, Typed
      <4> QED BY <3>1, <4>1, FS_Singleton
    <3>3. me \in Proc /\ me.new = new /\ me.pc = "want"
      BY <3>2, IdleIsProc DEF Proc, Pcs
    <3> QED BY <3>2, <3>3
  <2>3. proc' = [proc EXCEPT !["candidate"] = me]
    BY <2>1
  <2> HIDE DEF me
  <2> QED BY <1>0, <1>5, <2>2, <2>3, ProcStep DEF Candidate, Behind, Asking, chat, history, MInv, Typed
<1>6. CASE Edit
  <2>1. PICK i \in 0..Cap, new \in {{}, {Edited}} :
          proc' = [proc EXCEPT !["user"] = [Idle EXCEPT !.pc = "want", !.upto = i, !.new = new]]
    BY <1>6 DEF Edit
  <2> DEFINE me == [Idle EXCEPT !.pc = "want", !.upto = i, !.new = new]
  <2>2. me \in Proc /\ IsFiniteSet(me.new) /\ me.pc = "want" /\ me.new \in {{}, {Edited}}
    <3>1. new \subseteq Nat /\ i \in Nat
      BY MemoryAssumption DEF Edited
    <3>2. IsFiniteSet({}) /\ IsFiniteSet({Edited})
      BY FS_Singleton, NoneIsFinite
    <3>3. me \in Proc /\ me.new = new /\ me.pc = "want"
      BY <3>1, IdleIsProc DEF Proc, Pcs
    <3> QED BY <3>2, <3>3
  <2>3. proc' = [proc EXCEPT !["user"] = me]
    BY <2>1
  <2> HIDE DEF me
  <2> QED BY <1>0, <1>6, <2>2, <2>3, ProcStep DEF Edit, Behind, Asking, chat, history, MInv, Typed
<1>7. ASSUME NEW w \in Writers, Take(w) PROVE MInv'
  <2> DEFINE me == [proc[w] EXCEPT !.pc = "loaded", !.seen = profile]
  <2>0. proc[w] \in Proc /\ proc[w].pc = "want" /\ lock = "none" /\ lock' = w
        /\ UNCHANGED <<posted, cursor, profile, told, read>>
    BY <1>0, <1>7 DEF Take, LockFree, MInv, Typed, chat, history
  <2>1. me \in Proc /\ me.new = proc[w].new /\ me.pc = "loaded" /\ me.seen = profile
        /\ me.first = proc[w].first /\ me.upto = proc[w].upto
    <3>1. profile \in Seq(Nat)
      BY DEF MInv, Typed
    <3> QED BY <2>0, <3>1 DEF Proc, Pcs
  <2>2. proc' = [proc EXCEPT ![w] = me]
    BY <1>0, <1>7, <2>0 DEF Take, MInv, Typed, Proc
  <2> HIDE DEF me
  <2>3. \A q \in Procs : proc'[q] = IF q = w THEN me ELSE proc[q]
    BY <1>0, <2>2 DEF MInv, Typed
  <2>4. Typed'
    <3>1. proc' \in [Procs -> Proc]
      BY <1>0, <2>1, <2>2 DEF MInv, Typed
    <3> QED BY <1>0, <2>0, <2>1, <2>3, <3>1 DEF MInv, Typed
  <2>5. Loaded'
    <3> SUFFICES ASSUME NEW v \in Writers, proc'[v].pc = "loaded"
                 PROVE  lock' = v /\ proc'[v].seen = profile'
      BY DEF Loaded
    <3>1. CASE v = w
      BY <1>0, <2>0, <2>1, <2>3, <3>1
    <3>2. CASE v # w
      BY <1>0, <2>0, <2>3, <3>2 DEF MInv, Loaded, Writers
    <3> QED BY <3>1, <3>2
  <2>6. Worded'
    BY <1>0, <2>0, <2>1, <2>3 DEF MInv, Worded
  <2>8. Passed' /\ Asked'
    <3>1. CASE w = "extract"
      BY <1>0, <2>0, <2>1, <2>3, <3>1 DEF MInv, Passed, Asked, Asking, Trimmed, Behind
    <3>2. CASE w # "extract"
      <4>1. proc'["extract"] = proc["extract"]
        BY <1>0, <2>3, <3>2
      <4> QED BY <2>0, <4>1 DEF MInv, Passed, Covered, Asked, Trimmed
    <3> QED BY <3>1, <3>2
  <2>7. NothingLost' /\ CursorCovers'
    BY <2>0 DEF MInv, NothingLost, CursorCovers, Covered
  <2> QED BY <2>4, <2>5, <2>6, <2>7, <2>8 DEF MInv
<1>8. ASSUME NEW w \in Writers, Save(w) PROVE MInv'
  BY <1>8, SaveStep
<1>9. ASSUME NEW w \in Writers, Skip(w) \/ Cancel(w) PROVE MInv'
  <2>1. proc' = [proc EXCEPT ![w] = Idle] /\ lock' = Release(w)
        /\ UNCHANGED <<chat, profile, history>>
    BY <1>9 DEF Skip, Cancel
  <2> QED BY <1>0, <2>1, IdleIsProc, ProcStep DEF Idle, Behind, Asking, chat, history, MInv, Typed
<1>10. ASSUME NEW b \in Builders, LoadUnlocked(b) PROVE MInv'
  <2> DEFINE me == [proc[b] EXCEPT !.pc = "saved", !.seen = profile]
  <2>0. proc[b] \in Proc /\ IsFiniteSet(proc[b].new) /\ b \notin Writers
    BY <1>0 DEF MInv, Typed, Builders, Writers
  <2>1. me \in Proc /\ IsFiniteSet(me.new) /\ me.pc = "saved"
    <3>1. profile \in Seq(Nat)
      BY DEF MInv, Typed
    <3>2. me \in Proc /\ me.new = proc[b].new /\ me.pc = "saved"
      BY <2>0, <3>1 DEF Proc, Pcs, Behind
    <3> QED BY <2>0, <3>2
  <2>2. proc' = [proc EXCEPT ![b] = me] /\ UNCHANGED <<chat, profile, lock, history>>
    BY <1>0, <1>10, <2>0 DEF LoadUnlocked, MInv, Typed, Proc
  <2>3. b # "extract" /\ b # "user"
    BY DEF Builders
  <2> HIDE DEF me
  <2> QED BY <1>0, <2>1, <2>2, <2>3, ProcStep DEF chat, history, MInv, Typed
<1>11. ASSUME NEW p \in Procs, Begin(p) \/ Fill(p) PROVE MInv'
  <2>1. PICK pc \in {"begun", "filled"} : proc' = [proc EXCEPT ![p].pc = pc]
        /\ UNCHANGED <<chat, profile, lock, history>>
    BY <1>11 DEF Begin, Fill, Goes
  <2>2. proc[p].pc \in Behind \ {"advance"} /\ proc[p] \in Proc
    BY <1>11 DEF Begin, Fill, Behind, MInv, Typed
  <2>3. proc' = [proc EXCEPT ![p].pc = pc, ![p].name = proc[p].name] /\ proc[p].name \in Int
    BY <2>1, <2>2 DEF Proc, MInv, Typed
  <2>4. pc \in Behind \ {"advance"}
    BY DEF Behind
  <2> QED BY <2>1, <2>2, <2>3, <2>4, GoesStep
<1>12. ASSUME NEW p \in Procs, Create(p) PROVE MInv'
  <2>1. PICK n \in Unused : proc' = [proc EXCEPT ![p].pc = "created", ![p].name = n]
    BY <1>12 DEF Create
  <2>2. n \in Int
    BY DEF Unused, Names
  <2>3. proc[p].pc \in Behind \ {"advance"} /\ UNCHANGED <<chat, profile, lock, history>>
        /\ "created" \in Behind \ {"advance"}
    BY <1>12 DEF Create, Behind
  <2> QED BY <2>1, <2>2, <2>3, GoesStep
<1>13. ASSUME NEW p \in Procs, Purge(p) \/ Fail(p) PROVE MInv'
  <2>1. proc[p].pc \in Behind \ {"advance"} /\ Left(p) /\ UNCHANGED <<chat, profile, history>>
    BY <1>13 DEF Purge, Fail, Behind
  <2> QED BY <2>1, LeftStep
<1>14. CASE EnsureDim
  <2>1. proc' = [proc EXCEPT !["rebuild"] = Idle] /\ UNCHANGED <<chat, profile, lock, history>>
    BY <1>14 DEF EnsureDim
  <2> QED BY <1>0, <2>1, IdleIsProc, ProcStep DEF Idle, Behind, Asking, chat, history, MInv, Typed
<1>15. CASE Crash
  <2>1. proc' = [p \in Procs |-> Idle] /\ UNCHANGED <<chat, profile, history>>
    BY <1>15 DEF Crash
  <2>2. Typed'
    BY <2>1, IdleIsProc DEF MInv, Typed, chat
  <2>3. Loaded' /\ Worded' /\ Passed' /\ Asked' /\ NothingLost' /\ CursorCovers'
    BY <1>0, <2>1 DEF MInv, Loaded, Worded, Passed, Asked, Asking, NothingLost, CursorCovers,
                      Covered, Idle, Behind, chat, history
  <2> QED BY <2>2, <2>3 DEF MInv
<1>16. CASE UNCHANGED vars
  BY <1>16 DEF vars, index, history, chat, MInv, Typed, Loaded, Worded, Passed, Asked, Trimmed,
               NothingLost, CursorCovers, Covered
<1> QED BY <1>1, <1>2, <1>3, <1>4, <1>5, <1>6, <1>7, <1>8, <1>9, <1>10, <1>11, <1>12,
           <1>13, <1>14, <1>15, <1>16 DEF Next

-----------------------------------------------------------------------------
LEMMA AlwaysInv == Spec => []MInv
BY InitInv, StepInv, PTL DEF Spec

\* No writer undoes another's write (NothingLost): what was saved stays until it
\* is evicted or deleted, and what was deleted stays deleted.
THEOREM WritesKept == Spec => []NothingLost
<1>1. MInv => NothingLost
  BY DEF MInv
<1> QED BY <1>1, AlwaysInv, PTL

\* Every message behind the cursor was in the prompt of an extraction that
\* succeeded, or left out of it for Fit newer ones (CursorCovers), over failures,
\* cancellations and crashes at any await.
THEOREM CursorSafe == Spec => []CursorCovers
<1>1. MInv => CursorCovers
  BY DEF MInv
<1> QED BY <1>1, AlwaysInv, PTL

-----------------------------------------------------------------------------
(***************************************************************************)
(* The index: what a search of the memories finds is in the profile.  As   *)
(* long as nothing ran that the lock does not order, every build that is   *)
(* under way has the profile that there is (Current), into a collection of *)
(* its own (Owned), so a build that ends leaves the profile in the index.  *)
(* Until then the mark is set, or the one that will set it is known        *)
(* (Excused).                                                              *)
(***************************************************************************)
Building == {"saved", "begun", "created", "filled"}

IndexTyped ==
  /\ colls \in [DOMAIN colls -> SUBSET Nat]
  /\ dirty \in BOOLEAN /\ serving \in BOOLEAN /\ suspect \in BOOLEAN

LockHeld == \A w \in Writers : proc[w].pc \in Building \cup {"loaded"} => lock = w

StartOver == serving => proc["start"].pc = "idle"

Owned == \A p, q \in Procs :
  p # q /\ proc[p].pc \in {"created", "filled"} /\ proc[q].pc \in {"created", "filled"}
    => proc[p].name # proc[q].name

FilledHolds == \A p \in Procs :
  proc[p].pc = "filled" /\ proc[p].name \in DOMAIN colls
    => colls[proc[p].name] = ToSet(proc[p].seen)

Current == ~suspect => \A p \in Procs : proc[p].pc \in Building => proc[p].seen = profile

Served == ptr \in DOMAIN colls => colls[ptr] \in {{}, ToSet(profile)}

Excused ==
  \/ \E w \in Writers : proc[w].pc = "saved"
  \/ ~serving /\ proc["start"].pc \in {"idle", "saved"}

Marked == ~suspect => dirty \/ Served \/ Excused

RecallInv == IndexTyped /\ LockHeld /\ StartOver /\ Owned /\ FilledHolds /\ Current /\ Marked

LEMMA InitRecall == Init => RecallInv
<1> SUFFICES ASSUME Init PROVE RecallInv
  OBVIOUS
<1>1. colls = [n \in {} |-> {}] /\ DOMAIN colls = {}
  BY DEF Init
<1>2. \A p \in Procs : proc[p].pc = "idle"
  BY DEF Init, Idle
<1>3. IndexTyped /\ Served
  BY <1>1 DEF Init, IndexTyped, Served
<1>4. LockHeld /\ StartOver /\ Owned /\ FilledHolds /\ Current
  BY <1>2 DEF LockHeld, StartOver, Owned, FilledHolds, Current, Building, Writers, Procs, Builders
<1> QED BY <1>3, <1>4 DEF RecallInv, Marked

\* Only p moves.
Moves(p, me) == \A q \in Procs : proc'[q] = IF q = p THEN me ELSE proc[q]

LEMMA MovesAlone ==
  ASSUME Typed, NEW p \in Procs, NEW me, proc' = [proc EXCEPT ![p] = me]
  PROVE  Moves(p, me)
BY DEF Typed, Moves

LEMMA Kinds ==
  /\ Writers \subseteq Procs /\ Builders \subseteq Procs /\ Procs = Writers \cup Builders
  /\ "start" \in Builders /\ "rebuild" \in Builders /\ Writers \cap Builders = {}
BY DEF Writers, Builders, Procs

\* A step of a writer that does not build.
LEMMA QuietStep ==
  ASSUME RecallInv, NEW w \in Writers, NEW me, Moves(w, me),
         proc[w].pc \notin Building, me.pc \notin Building,
         \/ me.pc # "loaded" /\ lock' \in {lock, Release(w)}
         \/ lock = "none" /\ lock' = w,
         UNCHANGED <<profile, index, serving>>
  PROVE  RecallInv'
<1>1. UNCHANGED <<profile, colls, ptr, dirty, suspect, serving>>
  BY DEF index
<1>2. LockHeld'
  <2> SUFFICES ASSUME NEW v \in Writers, proc'[v].pc \in Building \cup {"loaded"}
               PROVE  lock' = v
    BY DEF LockHeld
  <2>1. CASE v = w
    BY <2>1, Kinds DEF Moves
  <2>2. CASE v # w
    <3>1. lock = v
      BY <2>2, Kinds DEF RecallInv, LockHeld, Moves
    <3> QED BY <2>2, <3>1 DEF Release, Writers
  <2> QED BY <2>1, <2>2
<1>3. IndexTyped'
  BY <1>1 DEF RecallInv, IndexTyped
<1>4. StartOver'
  BY <1>1, Kinds DEF RecallInv, StartOver, Moves
<1>5. Owned' /\ FilledHolds' /\ Current'
  BY <1>1 DEF RecallInv, Owned, FilledHolds, Current, Moves, Building
<1>6. Served' = Served
  BY <1>1 DEF Served
<1>7. Excused => Excused'
  BY <1>1, Kinds DEF Excused, Moves, Building
<1>8. Marked'
  BY <1>1, <1>6, <1>7 DEF RecallInv, Marked
<1> QED BY <1>2, <1>3, <1>4, <1>5, <1>8 DEF RecallInv

\* A writer that saves is the only one that has loaded, and if a builder is
\* under way the index becomes suspect.
LEMMA SaveRecall ==
  ASSUME Typed, RecallInv, NEW w \in Writers, Save(w)
  PROVE  RecallInv'
<1> DEFINE me == [Idle EXCEPT !.pc = "saved", !.seen = profile',
                              !.upto = IF w = "extract" THEN proc[w].upto ELSE 0]
<1>1. Moves(w, me)
  BY MovesAlone, Kinds DEF Save
<1>2. me.pc = "saved" /\ me.seen = profile'
  BY DEF Idle
<1>3. /\ UNCHANGED <<lock, colls, ptr, dirty, serving>> /\ proc[w].pc = "loaded"
      /\ suspect' = (suspect \/ Overtaken)
  BY DEF Save
<1> HIDE DEF me
<1>4. lock = w /\ \A v \in Writers \ {w} : proc[v].pc \notin Building \cup {"loaded"}
  BY <1>3 DEF RecallInv, LockHeld
<1>5. LockHeld'
  BY <1>1, <1>3, <1>4, Kinds DEF RecallInv, LockHeld, Moves
<1>6. IndexTyped'
  BY <1>3 DEF RecallInv, IndexTyped, Overtaken
<1>7. StartOver' /\ Owned' /\ FilledHolds'
  BY <1>1, <1>2, <1>3, Kinds DEF RecallInv, StartOver, Owned, FilledHolds, Moves
<1>8. Current'
  <2> SUFFICES ASSUME ~suspect', NEW p \in Procs, proc'[p].pc \in Building
               PROVE  proc'[p].seen = profile'
    BY DEF Current
  <2>1. \A b \in Builders : proc[b].pc = "idle"
    BY <1>3 DEF Overtaken
  <2>2. p = w
    BY <1>1, <1>4, <2>1, Kinds DEF Moves, Building
  <2> QED BY <1>1, <1>2, <2>2 DEF Moves
<1>9. Excused'
  BY <1>1, <1>2, Kinds DEF Excused, Moves
<1> QED BY <1>5, <1>6, <1>7, <1>8, <1>9 DEF RecallInv, Marked

LEMMA LoadRecall ==
  ASSUME Typed, RecallInv, NEW b \in Builders, LoadUnlocked(b)
  PROVE  RecallInv'
<1>1. b \in Procs /\ proc[b] \in Proc
  BY Kinds DEF Typed
<1>2. PICK me : Moves(b, me) /\ me.pc = "saved" /\ me.seen = profile
  <2> DEFINE me == [proc[b] EXCEPT !.pc = "saved", !.seen = profile]
  <2>1. proc' = [proc EXCEPT ![b] = me] /\ me.pc = "saved" /\ me.seen = profile
    BY <1>1 DEF LoadUnlocked, Proc, Typed
  <2> HIDE DEF me
  <2> QED BY <1>1, <2>1, MovesAlone
<1>3. UNCHANGED <<profile, lock, colls, ptr, dirty, suspect, serving>> /\ proc[b].pc = "idle"
      /\ (b = "start" => ~serving)
  BY DEF LoadUnlocked, index
<1>4. LockHeld' /\ IndexTyped' /\ Owned' /\ FilledHolds'
  BY <1>2, <1>3, Kinds DEF RecallInv, LockHeld, IndexTyped, Owned, FilledHolds, Moves
<1>5. StartOver' /\ Current'
  BY <1>2, <1>3, Kinds DEF RecallInv, StartOver, Current, Moves
<1>6. (Excused => Excused') /\ Served' = Served
  BY <1>2, <1>3, Kinds DEF Excused, Served, Moves
<1> QED BY <1>3, <1>4, <1>5, <1>6 DEF RecallInv, Marked

\* The mark is set before the first step that can fail.
LEMMA BeginRecall ==
  ASSUME Typed, RecallInv, NEW p \in Procs, Begin(p)
  PROVE  RecallInv'
<1>1. proc[p] \in Proc /\ proc[p].pc = "saved"
  BY DEF Typed, Begin
<1>2. PICK me : Moves(p, me) /\ me.pc = "begun" /\ me.seen = proc[p].seen
  <2> DEFINE me == [proc[p] EXCEPT !.pc = "begun"]
  <2>1. proc' = [proc EXCEPT ![p] = me] /\ me.pc = "begun" /\ me.seen = proc[p].seen
    BY <1>1 DEF Begin, Goes, Proc, Typed
  <2> HIDE DEF me
  <2> QED BY <2>1, MovesAlone
<1>3. UNCHANGED <<profile, lock, colls, ptr, suspect, serving>> /\ dirty' = TRUE
  BY DEF Begin
<1>4. LockHeld' /\ IndexTyped' /\ Owned' /\ FilledHolds'
  BY <1>1, <1>2, <1>3, Kinds DEF RecallInv, LockHeld, IndexTyped, Owned, FilledHolds, Moves, Building
<1>5. StartOver' /\ Current'
  BY <1>1, <1>2, <1>3, Kinds DEF RecallInv, StartOver, Current, Moves, Building
<1> QED BY <1>3, <1>4, <1>5 DEF RecallInv, Marked

LEMMA CreateRecall ==
  ASSUME Typed, RecallInv, NEW p \in Procs, Create(p)
  PROVE  RecallInv'
<1>1. proc[p] \in Proc /\ proc[p].pc = "begun"
  BY DEF Typed, Create
<1>2. PICK n \in Unused :
        /\ colls' = [c \in DOMAIN colls \cup {n} |-> IF c = n THEN {} ELSE colls[c]]
        /\ proc' = [proc EXCEPT ![p].pc = "created", ![p].name = n]
  BY DEF Create
<1>3. n \notin DOMAIN colls /\ n # ptr /\ \A q \in Procs : proc[q].name # n
  BY DEF Unused
<1>4. PICK me : Moves(p, me) /\ me.pc = "created" /\ me.seen = proc[p].seen /\ me.name = n
  <2> DEFINE me == [proc[p] EXCEPT !.pc = "created", !.name = n]
  <2>1. proc' = [proc EXCEPT ![p] = me] /\ me.pc = "created" /\ me.seen = proc[p].seen
        /\ me.name = n
    BY <1>1, <1>2 DEF Proc, Typed
  <2> HIDE DEF me
  <2> QED BY <2>1, MovesAlone
<1>5. UNCHANGED <<profile, lock, ptr, dirty, suspect, serving>>
  BY DEF Create
<1>6. \A c : /\ c \in DOMAIN colls => c \in DOMAIN colls' /\ colls'[c] = colls[c]
             /\ c \in DOMAIN colls' /\ c # n => c \in DOMAIN colls /\ colls'[c] = colls[c]
  BY <1>2, <1>3
<1>7. IndexTyped'
  <2>1. colls' \in [DOMAIN colls' -> SUBSET Nat]
    BY <1>2 DEF RecallInv, IndexTyped
  <2> QED BY <1>5, <2>1 DEF RecallInv, IndexTyped
<1>8. LockHeld' /\ StartOver' /\ Current'
  BY <1>1, <1>4, <1>5, Kinds DEF RecallInv, LockHeld, StartOver, Current, Moves, Building
<1>9. Owned'
  BY <1>3, <1>4 DEF RecallInv, Owned, Moves
<1>10. FilledHolds'
  BY <1>3, <1>4, <1>6 DEF RecallInv, FilledHolds, Moves
<1>11. (Served => Served') /\ (Excused => Excused')
  BY <1>1, <1>3, <1>4, <1>5, <1>6, Kinds DEF Served, Excused, Moves
<1> QED BY <1>5, <1>7, <1>8, <1>9, <1>10, <1>11 DEF RecallInv, Marked

\* What is put into the collection is the profile, and the pointer leads to it.
LEMMA FillRecall ==
  ASSUME Typed, RecallInv, NEW p \in Procs, Fill(p)
  PROVE  RecallInv'
<1>1. proc[p] \in Proc /\ proc[p].pc = "created" /\ proc[p].name \in DOMAIN colls
  BY DEF Typed, Fill
<1>2. PICK me : Moves(p, me) /\ me.pc = "filled" /\ me.seen = proc[p].seen
                /\ me.name = proc[p].name
  <2> DEFINE me == [proc[p] EXCEPT !.pc = "filled"]
  <2>1. proc' = [proc EXCEPT ![p] = me] /\ me.pc = "filled" /\ me.seen = proc[p].seen
        /\ me.name = proc[p].name
    BY <1>1 DEF Fill, Goes, Proc, Typed
  <2> HIDE DEF me
  <2> QED BY <2>1, MovesAlone
<1>3. UNCHANGED <<profile, lock, dirty, suspect, serving>> /\ ptr' = proc[p].name
      /\ colls' = [colls EXCEPT ![proc[p].name] = ToSet(proc[p].seen)]
  BY DEF Fill
<1>4. ToSet(proc[p].seen) \in SUBSET Nat
  <2>1. proc[p].seen \in Seq(Nat)
    BY <1>1 DEF Proc
  <2>2. \A k \in 1..Len(proc[p].seen) : proc[p].seen[k] \in Nat
    BY <2>1
  <2> QED BY <2>1, <2>2, Elements
<1>5. DOMAIN colls' = DOMAIN colls
      /\ \A c \in DOMAIN colls : colls'[c] = IF c = ptr' THEN ToSet(proc[p].seen) ELSE colls[c]
  BY <1>3 DEF RecallInv, IndexTyped
<1>6. IndexTyped'
  BY <1>3, <1>4 DEF RecallInv, IndexTyped
<1>7. LockHeld' /\ StartOver' /\ Current'
  BY <1>1, <1>2, <1>3, Kinds DEF RecallInv, LockHeld, StartOver, Current, Moves, Building
<1>8. Owned'
  BY <1>1, <1>2 DEF RecallInv, Owned, Moves
<1>9. FilledHolds'
  BY <1>1, <1>2, <1>3, <1>5 DEF RecallInv, FilledHolds, Owned, Moves
<1>10. ~suspect => Served'
  BY <1>1, <1>3, <1>5 DEF RecallInv, Current, Served, Building
<1> QED BY <1>3, <1>6, <1>7, <1>8, <1>9, <1>10 DEF RecallInv, Marked

\* Whoever leaves neither builds nor holds the lock any more.
LEMMA LeftMoves ==
  ASSUME Typed, NEW p \in Procs, Left(p)
  PROVE  Moves(p, Leaving(p)) /\ Leaving(p).pc \in {"idle", "advance", "ensure"}
         /\ (p = "start" => Leaving(p).pc = "idle")
<1>1. Moves(p, Leaving(p))
  BY MovesAlone DEF Left
<1> QED BY <1>1 DEF Leaving, After, Idle

LEMMA LeftRecall ==
  ASSUME Typed, RecallInv, NEW p \in Procs, Left(p), proc[p].pc \in Building
  PROVE  LockHeld' /\ StartOver' /\ Owned'
<1>1. Moves(p, Leaving(p)) /\ Leaving(p).pc \in {"idle", "advance", "ensure"}
      /\ (p = "start" => Leaving(p).pc = "idle")
  BY LeftMoves
<1>2. LockHeld'
  BY <1>1, Kinds DEF RecallInv, LockHeld, Left, Release, Moves, Building
<1>3. StartOver'
  BY <1>1, Kinds DEF RecallInv, StartOver, Left, Moves
<1>4. Owned'
  BY <1>1 DEF RecallInv, Owned, Moves
<1> QED BY <1>2, <1>3, <1>4

\* After a build that ended, the pointer leads to the profile or to nothing.
LEMMA PurgeRecall ==
  ASSUME Typed, RecallInv, NEW p \in Procs, Purge(p)
  PROVE  RecallInv'
<1>1. Left(p) /\ proc[p].pc \in {"begun", "filled"} /\ UNCHANGED <<profile, ptr>>
      /\ dirty' = FALSE /\ suspect' = (suspect /\ ~Settled(p))
  BY DEF Purge
<1>2. Moves(p, Leaving(p)) /\ Leaving(p).pc \in {"idle", "advance", "ensure"}
      /\ (p = "start" => Leaving(p).pc = "idle")
  BY <1>1, LeftMoves
<1>3. LockHeld' /\ StartOver' /\ Owned'
  BY <1>1, LeftRecall DEF Building
<1>4. \A c \in DOMAIN colls' : c \in DOMAIN colls /\ colls'[c] = colls[c]
                               /\ proc[p].pc = "filled" /\ c = proc[p].name
  BY DEF Purge
<1>5. IndexTyped'
  <2>1. colls' \in [DOMAIN colls' -> SUBSET Nat]
    <3>1. colls' = [c \in DOMAIN colls' |-> colls'[c]]
      BY DEF Purge
    <3>2. \A c \in DOMAIN colls' : colls'[c] \in SUBSET Nat
      BY <1>4 DEF RecallInv, IndexTyped
    <3> QED BY <3>1, <3>2
  <2>2. dirty' \in BOOLEAN /\ suspect' \in BOOLEAN
    BY <1>1
  <2>3. serving' \in BOOLEAN
    BY <1>1 DEF Left
  <2> QED BY <2>1, <2>2, <2>3 DEF IndexTyped
<1>6. FilledHolds'
  BY <1>2, <1>4 DEF RecallInv, FilledHolds, Moves
<1>7. Current'
  <2> SUFFICES ASSUME ~suspect', NEW q \in Procs, proc'[q].pc \in Building
               PROVE  proc'[q].seen = profile'
    BY DEF Current
  <2>1. q # p /\ proc'[q] = proc[q]
    BY <1>2 DEF Moves, Building
  <2>2. CASE ~suspect
    BY <1>1, <2>1, <2>2 DEF RecallInv, Current
  <2>3. CASE Settled(p)
    <3>1. q \in Writers /\ lock = q
      BY <2>1, <2>3, Kinds DEF RecallInv, LockHeld, Settled, Building
    <3>2. p \in Writers /\ lock = p
      BY <1>1, <2>3, <3>1, Kinds DEF RecallInv, LockHeld, Settled, Building, Writers
    <3> QED BY <2>1, <3>1, <3>2
  <2> QED BY <1>1, <2>2, <2>3
<1>8. ~suspect' => Served'
  <2> SUFFICES ASSUME ~suspect', ptr' \in DOMAIN colls' PROVE colls'[ptr'] = ToSet(profile')
    BY DEF Served
  <2>1. proc[p].seen = profile
    BY <1>1 DEF RecallInv, Current, Settled, Building
  <2>2. colls'[ptr'] = ToSet(proc[p].seen)
    BY <1>4 DEF RecallInv, FilledHolds
  <2> QED BY <1>1, <2>1, <2>2
<1> QED BY <1>3, <1>5, <1>6, <1>7, <1>8 DEF RecallInv, Marked

\* A build that fails leaves the mark, or what another one published since.
LEMMA FailRecall ==
  ASSUME Typed, RecallInv, NEW p \in Procs, Fail(p)
  PROVE  RecallInv'
<1>1. Left(p) /\ proc[p].pc \in {"begun", "created", "filled"}
      /\ UNCHANGED <<profile, ptr, colls, suspect, dirty>>
  BY DEF Fail, StaleAfterFailure
<1>2. Moves(p, Leaving(p)) /\ Leaving(p).pc \in {"idle", "advance", "ensure"}
      /\ (p = "start" => Leaving(p).pc = "idle")
  BY <1>1, LeftMoves
<1>3. LockHeld' /\ StartOver' /\ Owned'
  BY <1>1, LeftRecall DEF Building
<1>4. IndexTyped'
  BY <1>1 DEF RecallInv, IndexTyped, Left
<1>5. FilledHolds' /\ Current'
  BY <1>1, <1>2 DEF RecallInv, FilledHolds, Current, Moves, Building
<1>6. Served' = Served
  BY <1>1 DEF Served
<1>7. Excused => Excused'
  BY <1>1, <1>2, Kinds DEF Excused, Left, Moves
<1> QED BY <1>1, <1>3, <1>4, <1>5, <1>6, <1>7 DEF RecallInv, Marked

LEMMA EnsureRecall ==
  ASSUME Typed, RecallInv, EnsureDim
  PROVE  RecallInv'
<1>1. /\ proc' = [proc EXCEPT !["rebuild"] = Idle] /\ proc["rebuild"].pc = "ensure"
      /\ UNCHANGED <<profile, lock, dirty, serving, suspect>>
  BY DEF EnsureDim
<1>2. Moves("rebuild", Idle) /\ Idle.pc = "idle"
  BY <1>1, MovesAlone, Kinds DEF Idle
<1>3. LockHeld' /\ StartOver' /\ Owned' /\ Current'
  BY <1>1, <1>2, Kinds DEF RecallInv, LockHeld, StartOver, Owned, Current, Moves, Building,
                           Writers, Builders
<1>4. Excused => Excused'
  BY <1>1, <1>2, Kinds DEF Excused, Moves, Writers, Builders
<1>5. CASE UNCHANGED <<colls, ptr, file>>
  <2>1. FilledHolds' /\ IndexTyped'
    BY <1>1, <1>2, <1>5 DEF RecallInv, FilledHolds, IndexTyped, Moves
  <2>2. Served' = Served
    BY <1>1, <1>5 DEF Served
  <2> QED BY <1>1, <1>3, <1>4, <2>1, <2>2 DEF RecallInv, Marked
<1>6. CASE \E n \in Unused : colls' = [c \in {n} |-> {}] /\ ptr' = n /\ file' = n
  <2>1. PICK n \in Unused : colls' = [c \in {n} |-> {}] /\ ptr' = n
    BY <1>6
  <2>2. \A q \in Procs : proc[q].name # n
    BY DEF Unused
  <2>3. FilledHolds'
    BY <1>2, <2>1, <2>2 DEF RecallInv, FilledHolds, Moves
  <2>4. IndexTyped' /\ Served'
    BY <1>1, <2>1 DEF RecallInv, IndexTyped, Served
  <2> QED BY <1>3, <2>3, <2>4 DEF RecallInv, Marked
<1> QED BY <1>5, <1>6 DEF EnsureDim

\* A write that is cut off between its commit and the mark makes the index
\* suspect; every other one leaves what it found.
LEMMA CancelRecall ==
  ASSUME Typed, RecallInv, NEW w \in Writers, Cancel(w)
  PROVE  RecallInv'
<1>1. /\ proc' = [proc EXCEPT ![w] = Idle] /\ lock' = Release(w)
      /\ suspect' = (suspect \/ proc[w].pc = "saved")
      /\ UNCHANGED <<profile, colls, ptr, dirty, serving>>
  BY DEF Cancel
<1>2. Moves(w, Idle) /\ Idle.pc = "idle"
  BY <1>1, MovesAlone, Kinds DEF Idle
<1>3. LockHeld' /\ StartOver' /\ Owned'
  BY <1>1, <1>2, Kinds DEF RecallInv, LockHeld, StartOver, Owned, Moves, Building, Release
<1>4. IndexTyped' /\ FilledHolds' /\ Current'
  BY <1>1, <1>2 DEF RecallInv, IndexTyped, FilledHolds, Current, Moves, Building
<1>5. Served' = Served
  BY <1>1 DEF Served
<1>6. ~suspect' /\ Excused => Excused'
  BY <1>1, <1>2, Kinds DEF Excused, Moves
<1> QED BY <1>1, <1>3, <1>4, <1>5, <1>6 DEF RecallInv, Marked

LEMMA CrashRecall ==
  ASSUME Typed, RecallInv, Crash
  PROVE  RecallInv'
<1>1. /\ \A p \in Procs : proc'[p].pc = "idle"
      /\ dirty' = FALSE /\ serving' = FALSE /\ suspect' = FALSE /\ UNCHANGED colls
  BY DEF Crash, Idle
<1>2. LockHeld' /\ StartOver' /\ Owned' /\ FilledHolds' /\ Current' /\ Excused'
  BY <1>1, Kinds DEF LockHeld, StartOver, Owned, FilledHolds, Current, Excused, Building
<1>3. IndexTyped'
  BY <1>1 DEF RecallInv, IndexTyped
<1> QED BY <1>2, <1>3 DEF RecallInv, Marked

LEMMA NextRecall == MInv /\ RecallInv /\ [Next]_vars => RecallInv'
<1> SUFFICES ASSUME MInv, RecallInv, [Next]_vars PROVE RecallInv'
  OBVIOUS
<1>0. Typed
  BY DEF MInv
<1>1. CASE Post \/ UNCHANGED vars
  <2>1. UNCHANGED <<profile, lock, proc, colls, ptr, dirty, suspect, serving>>
    BY <1>1 DEF Post, index, vars
  <2> QED BY <2>1 DEF RecallInv, IndexTyped, LockHeld, StartOver, Owned, FilledHolds, Current,
                      Marked, Served, Excused
<1>2. ASSUME NEW w \in Writers, NEW me, proc' = [proc EXCEPT ![w] = me],
             proc[w].pc \notin Building, me.pc \notin Building \cup {"loaded"},
             UNCHANGED <<profile, lock, index, serving>>
      PROVE  RecallInv'
  <2>1. Moves(w, me)
    BY <1>0, <1>2, MovesAlone, Kinds
  <2>2. lock' \in {lock, Release(w)}
    BY <1>2
  <2> QED BY <1>2, <2>1, <2>2, QuietStep
<1>9. CASE Read
  <2>1. PICK first \in cursor + 1 .. posted : proc' = [proc EXCEPT !["extract"] =
          [Idle EXCEPT !.pc = "asked", !.first = first, !.upto = posted]]
    BY <1>9 DEF Read
  <2> DEFINE me == [Idle EXCEPT !.pc = "asked", !.first = first, !.upto = posted]
  <2>2. proc' = [proc EXCEPT !["extract"] = me] /\ me.pc = "asked"
    BY <2>1 DEF Idle
  <2>3. proc["extract"].pc = "idle" /\ UNCHANGED <<profile, lock, index, serving>>
    BY <1>9 DEF Read
  <2> HIDE DEF me
  <2> QED BY <1>2, <2>2, <2>3 DEF Building, Writers
<1>10. CASE Answer
  <2> DEFINE old == proc["extract"]
  <2>1. old \in Proc /\ old.pc = "asked" /\ UNCHANGED <<profile, lock, index, serving>>
    BY <1>0, <1>10, Kinds DEF Answer, Typed, Writers
  <2>2. CASE proc' = [proc EXCEPT !["extract"] = Idle]
    BY <1>2, <2>1, <2>2 DEF Idle, Building, Writers
  <2>3. CASE proc' = [proc EXCEPT !["extract"].pc = "advance"]
    <3> DEFINE me == [old EXCEPT !.pc = "advance"]
    <3>1. proc' = [proc EXCEPT !["extract"] = me] /\ me.pc = "advance"
      BY <1>0, <2>1, <2>3, Kinds DEF Typed, Proc, Writers
    <3> HIDE DEF me
    <3> QED BY <1>2, <2>1, <3>1 DEF Building, Writers
  <2>4. CASE \E found \in SUBSET Prompt :
          proc' = [proc EXCEPT !["extract"].pc = "want", !["extract"].new = found]
    <3>1. PICK found \in SUBSET Prompt :
            proc' = [proc EXCEPT !["extract"].pc = "want", !["extract"].new = found]
      BY <2>4
    <3> DEFINE me == [old EXCEPT !.pc = "want", !.new = found]
    <3>2. proc' = [proc EXCEPT !["extract"] = me] /\ me.pc = "want"
      BY <1>0, <2>1, <3>1, Kinds DEF Typed, Proc, Writers
    <3> HIDE DEF me
    <3> QED BY <1>2, <2>1, <3>2 DEF Building, Writers
  <2> QED BY <1>10, <2>2, <2>3, <2>4 DEF Answer
<1>11. CASE Advance
  <2>1. proc' = [proc EXCEPT !["extract"] = Idle] /\ proc["extract"].pc = "advance"
        /\ UNCHANGED <<profile, lock, index, serving>>
    BY <1>11 DEF Advance
  <2> QED BY <1>2, <2>1 DEF Idle, Building, Writers
<1>12. CASE Candidate
  <2>1. PICK new \in Confirmed :
          proc' = [proc EXCEPT !["candidate"] = [Idle EXCEPT !.pc = "want", !.new = new]]
    BY <1>12 DEF Candidate
  <2>2. proc["candidate"].pc = "idle" /\ UNCHANGED <<profile, lock, index, serving>>
    BY <1>12 DEF Candidate
  <2> QED BY <1>2, <2>1, <2>2 DEF Idle, Building, Writers
<1>13. CASE Edit
  <2>1. PICK i \in 0..Cap, new \in {{}, {Edited}} :
          proc' = [proc EXCEPT !["user"] = [Idle EXCEPT !.pc = "want", !.upto = i, !.new = new]]
    BY <1>13 DEF Edit
  <2>2. proc["user"].pc = "idle" /\ UNCHANGED <<profile, lock, index, serving>>
    BY <1>13 DEF Edit
  <2> QED BY <1>2, <2>1, <2>2 DEF Idle, Building, Writers
<1>3. ASSUME NEW w \in Writers, Take(w) PROVE RecallInv'
  <2> DEFINE me == [proc[w] EXCEPT !.pc = "loaded", !.seen = profile]
  <2>1. proc[w] \in Proc
    BY <1>0, Kinds DEF Typed
  <2>2. proc' = [proc EXCEPT ![w] = me] /\ me.pc = "loaded" /\ proc[w].pc = "want"
    BY <1>0, <1>3, <2>1 DEF Take, Proc, Typed
  <2> HIDE DEF me
  <2>3. Moves(w, me) /\ proc[w].pc \notin Building /\ me.pc \notin Building
    BY <1>0, <2>2, MovesAlone, Kinds DEF Building
  <2>4. lock = "none" /\ lock' = w /\ UNCHANGED <<profile, index, serving>>
    BY <1>3 DEF Take, LockFree
  <2> QED BY <2>3, <2>4, QuietStep
<1>4. ASSUME NEW w \in Writers, Skip(w) PROVE RecallInv'
  <2>1. Moves(w, Idle) /\ Idle.pc = "idle" /\ proc[w].pc = "loaded" /\ lock' = Release(w)
        /\ UNCHANGED <<profile, index, serving>>
    BY <1>0, <1>4, MovesAlone, Kinds DEF Skip, Idle
  <2> QED BY <2>1, QuietStep DEF Building
<1>5. ASSUME NEW w \in Writers, Save(w) \/ Cancel(w) PROVE RecallInv'
  BY <1>0, <1>5, SaveRecall, CancelRecall
<1>6. ASSUME NEW b \in Builders, LoadUnlocked(b) PROVE RecallInv'
  BY <1>0, <1>6, LoadRecall
<1>7. ASSUME NEW p \in Procs, Begin(p) \/ Create(p) \/ Fill(p) \/ Purge(p) \/ Fail(p)
      PROVE  RecallInv'
  BY <1>0, <1>7, BeginRecall, CreateRecall, FillRecall, PurgeRecall, FailRecall
<1>8. CASE EnsureDim \/ Crash
  BY <1>0, <1>8, EnsureRecall, CrashRecall
<1> QED BY <1>1, <1>3, <1>4, <1>5, <1>6, <1>7, <1>8, <1>9, <1>10, <1>11, <1>12, <1>13
    DEF Next

\* Once no write is under way, a search finds exactly what the profile holds,
\* whichever builds failed, deleted each other's collection or were lost in a
\* crash (RecallIsCurrent; search_profile, _index_profile).
THEOREM RecallCurrent == Spec => []RecallIsCurrent
<1>1. RecallInv => RecallIsCurrent
  <2> SUFFICES ASSUME RecallInv, serving, lock = "none", ~suspect
               PROVE  Recalled = ToSet(profile)
    BY DEF RecallIsCurrent
  <2>1. ~Excused
    <3>1. \A w \in Writers : w # "none"
      BY DEF Writers
    <3> QED BY <3>1 DEF RecallInv, LockHeld, Excused, Building
  <2>2. dirty \/ Served
    BY <2>1 DEF RecallInv, Marked
  <2> QED BY <2>2 DEF Recalled, Served
<1>2. Spec => []RecallInv
  BY AlwaysInv, InitRecall, NextRecall, PTL DEF Spec
<1> QED BY <1>1, <1>2, PTL
=============================================================================
