-------------------------- MODULE ChatStreamProofs --------------------------
(***************************************************************************)
(* For any questions, calls, chunks, wire and budgets: what a page shows   *)
(* of a turn and what is stored of it belong together (ChatStream).        *)
(*                                                                         *)
(* The argument has three parts.  The page and the connection (PageInv):   *)
(* while the page watches a turn, no other is under way, and a stream that *)
(* is over says so with its last event.  What is stored of the calls, and  *)
(* their cards (StoreInv, OwnCards).  And the mirror: the bubble that will *)
(* have received all that is on its way ends the answer as the server      *)
(* holds it (Mirror); for this, Reaches says how a bubble becomes another  *)
(* while the events of a sequence are shown one by one.                    *)
(***************************************************************************)
EXTENDS ChatStream, SequenceTheorems, TLAPS

Kinds  == {"chunk", "replace", "call", "result", "done", "error", "close", "fail"}
Ends   == {"close", "fail"}
Texts  == Seq(Int)
Tool   == [id : Nat, result : Nat]
Tools  == Seq(Tool)
Cards  == [kind : {"call", "result"}, id : Int, result : Int]
Hand   == Seq(Cards)
Events == [kind : Kinds, of : Int]
Gens   == [pc : Pcs, made : SUBSET Nat, open : SUBSET Nat, chunks : Nat, content : Texts,
           pre : Texts, tools : Tools, phase : BOOLEAN]
Roles  == {"user", "assistant", "tool", "answer"}
Msgs   == [role : Roles, turn : Turns, id : Nat, result : Nat, text : Texts]
Bubbles == [turn : Turns \cup {None}, kind : {"empty", "user", "assistant"}, text : Texts,
            cards : Hand, streaming : BOOLEAN]

Typed ==
  /\ gen \in [Turns -> Gens] /\ wire \in [Turns -> Seq(Events)]
  /\ gone \subseteq Turns /\ left \subseteq Turns /\ db \in Seq(Msgs)
  /\ bubble \in Bubbles /\ abortable \in Turns \cup {None}
  /\ ui \in {"idle", "connecting", "streaming", "error"}

\* The calls of a turn are numbered, and each is in the list once.
ToolsOf(g) ==
  /\ \A i \in 1..Len(g.tools) : g.tools[i].id \in g.made
                                /\ g.tools[i].result \in {None, g.tools[i].id}
  /\ \A i, j \in 1..Len(g.tools) : g.tools[i].id = g.tools[j].id => i = j
  /\ \A k \in g.open : \E i \in 1..Len(g.tools) : g.tools[i].id = k

Listed == \A t \in Turns : ToolsOf(gen[t])

-----------------------------------------------------------------------------
(* Sequences                                                                 *)

LEMMA AppendFacts ==
  ASSUME NEW S, NEW s \in Seq(S), NEW e \in S
  PROVE  /\ Append(s, e) \in Seq(S) /\ Len(Append(s, e)) = Len(s) + 1
         /\ Append(s, e)[Len(s) + 1] = e
         /\ \A i \in 1..Len(s) : Append(s, e)[i] = s[i]
         /\ s \o <<e>> = Append(s, e)
OBVIOUS

LEMMA AppendTwo ==
  ASSUME NEW S, NEW s \in Seq(S), NEW d \in S, NEW e \in S
  PROVE  s \o <<d, e>> = Append(Append(s, d), e)
<1> DEFINE a == s \o <<d, e>>
           b == Append(Append(s, d), e)
<1>1. a \in Seq(S) /\ b \in Seq(S) /\ Len(a) = Len(s) + 2 /\ Len(b) = Len(s) + 2
  OBVIOUS
<1>2. \A i \in 1..(Len(s) + 2) : a[i] = b[i]
  OBVIOUS
<1> QED BY <1>1, <1>2

LEMMA AppendNone == ASSUME NEW S, NEW s \in Seq(S) PROVE s \o <<>> = s
OBVIOUS

\* The last element, and what is left after the first.
LEMMA TailFacts ==
  ASSUME NEW S, NEW s \in Seq(S), s # <<>>
  PROVE  /\ Tail(s) \in Seq(S) /\ Len(Tail(s)) = Len(s) - 1 /\ Len(s) \in Nat \ {0}
         /\ Head(s) = s[1] /\ \A i \in 1..Len(Tail(s)) : Tail(s)[i] = s[i + 1]
OBVIOUS

LEMMA ExceptSeqAt ==
  ASSUME NEW S, NEW s \in Seq(S), NEW i \in 1..Len(s), NEW e \in S
  PROVE  /\ [s EXCEPT ![i] = e] \in Seq(S) /\ Len([s EXCEPT ![i] = e]) = Len(s)
         /\ \A j \in 1..Len(s) : [s EXCEPT ![i] = e][j] = IF j = i THEN e ELSE s[j]
OBVIOUS

LEMMA EmptySeqJoin == <<>> \o <<>> = <<>> /\ \A e : <<>> \o <<e>> = <<e>> /\ <<e>> \o <<>> = <<e>>
OBVIOUS

LEMMA PairJoin == ASSUME NEW d, NEW e PROVE <<d>> \o <<e>> = <<d, e>>
<1>1. <<d>> \in Seq({d, e})
  OBVIOUS
<1>2. /\ <<d>> \o <<e>> \in Seq({d, e}) /\ <<d, e>> \in Seq({d, e})
      /\ Len(<<d>> \o <<e>>) = 2 /\ Len(<<d, e>>) = 2
  OBVIOUS
<1>3. \A i \in 1..2 : (<<d>> \o <<e>>)[i] = <<d, e>>[i]
  OBVIOUS
<1> QED BY <1>2, <1>3, SeqEqual

-----------------------------------------------------------------------------
(* The server                                                                *)

\* What a step of the server for turn t does to the rest: it sends events, which
\* do not arrive if the connection is gone.
Sends(t, g, events) ==
  /\ gen[t].pc \notin {"idle", "over"} /\ g.pc # "idle"
  /\ gen' = [gen EXCEPT ![t] = g]
  /\ wire' = IF t \in gone THEN wire ELSE [wire EXCEPT ![t] = @ \o events]
  /\ UNCHANGED <<gone, ui, bubble, abortable, left>>

LEMMA EvType ==
  \A k \in Kinds, x \in Int : Ev(k, x) \in Events /\ Ev(k, x).kind = k /\ Ev(k, x).of = x
BY DEF Ev, Events

LEMMA NewGenType == /\ NewGen \in Gens /\ Over \in Gens /\ Over.pc = "over"
                    /\ ToolsOf(NewGen) /\ ToolsOf(Over) /\ NewGen.content = <<>>
<1>1. <<>> \in Texts /\ <<>> \in Tools
  BY DEF Texts, Tools
<1>2. NewGen \in Gens /\ NewGen.content = <<>> /\ NewGen.tools = <<>> /\ NewGen.open = {}
  BY <1>1 DEF NewGen, Gens, Pcs
<1>3. Over \in Gens /\ Over.pc = "over" /\ Over.tools = <<>> /\ Over.open = {}
  BY <1>2 DEF Over, Gens, Pcs
<1> QED BY <1>2, <1>3 DEF ToolsOf

Same(g, h) == g.tools = h.tools /\ g.made = h.made /\ g.open = h.open /\ g.phase = h.phase

LEMMA SameTools == ASSUME NEW g, NEW h, Same(g, h), ToolsOf(h) PROVE ToolsOf(g)
BY DEF Same, ToolsOf

LEMMA AcceptEffect ==
  ASSUME Typed, NEW t \in Turns, Accept(t)
  PROVE  \E g \in Gens : /\ Sends(t, g, <<>>) /\ Same(g, gen[t]) /\ g.pc = "streaming"
                         /\ g.content = gen[t].content /\ gen[t].pc = "requested"
<1> DEFINE g == [gen[t] EXCEPT !.pc = "streaming"]
<1>1. gen[t] \in Gens /\ gen[t].pc = "requested" /\ gen' = [gen EXCEPT ![t].pc = "streaming"]
      /\ UNCHANGED <<wire, gone, ui, bubble, abortable, left>>
  BY DEF Typed, Accept
<1>2. g \in Gens /\ Same(g, gen[t]) /\ g.pc = "streaming" /\ g.content = gen[t].content
  BY <1>1 DEF Gens, Same, Pcs
<1>3. gen' = [gen EXCEPT ![t] = g]
  BY <1>1 DEF Typed, Gens
<1>4. wire[t] \in Seq(Events) /\ wire[t] \o <<>> = wire[t] /\ wire \in [Turns -> Seq(Events)]
  <2>1. wire[t] \in Seq(Events) /\ wire \in [Turns -> Seq(Events)]
    BY DEF Typed
  <2> QED BY <2>1, AppendNone
<1>5. [wire EXCEPT ![t] = wire[t] \o <<>>] = wire
  BY <1>4
<1> HIDE DEF g
<1> QED BY <1>1, <1>2, <1>3, <1>5 DEF Sends

LEMMA ChunkEffect ==
  ASSUME Typed, NEW t \in Turns, Chunk(t)
  PROVE  \E g \in Gens, n \in Nat \ {0} :
           /\ Sends(t, g, <<Ev("chunk", n)>>) /\ Same(g, gen[t])
           /\ g.content = Append(gen[t].content, n)
           /\ gen[t].pc = "streaming" /\ g.pc = "streaming" /\ db' = db
<1>0. gen[t] \in Gens
  BY DEF Typed
<1>1. PICK n \in Nat \ {0} :
        /\ gen' = [gen EXCEPT ![t].chunks = n, ![t].content = Append(@, n)]
        /\ Yield(t, <<Ev("chunk", n)>>)
  <2>1. gen[t].chunks + 1 \in Nat \ {0}
    BY <1>0 DEF Gens
  <2> QED BY <2>1, Zenon DEF Chunk
<1>2. gen[t].pc = "streaming" /\ UNCHANGED <<gone, db, ui, bubble, abortable, left>>
  BY DEF Chunk, Streaming
<1>3. Append(gen[t].content, n) \in Texts
  BY <1>0, AppendFacts DEF Gens, Texts
<1> DEFINE g == [gen[t] EXCEPT !.chunks = n, !.content = Append(gen[t].content, n)]
<1>4. g \in Gens /\ Same(g, gen[t]) /\ g.content = Append(gen[t].content, n)
      /\ g.pc = "streaming"
  BY <1>0, <1>2, <1>3 DEF Gens, Same
<1>5. gen' = [gen EXCEPT ![t] = g]
  BY <1>0, <1>1 DEF Typed, Gens
<1> HIDE DEF g
<1>6. Sends(t, g, <<Ev("chunk", n)>>)
  BY <1>1, <1>2, <1>4, <1>5 DEF Sends, Yield
<1> QED BY <1>2, <1>4, <1>6

\* The text before the first call is set aside.
LEMMA AtCallShape ==
  ASSUME NEW g \in Gens
  PROVE  /\ AtCall(g) \in Gens
         /\ AtCall(g).tools = g.tools /\ AtCall(g).made = g.made /\ AtCall(g).open = g.open
         /\ AtCall(g).phase = TRUE /\ AtCall(g).pc = g.pc
         /\ AtCall(g).content = IF g.phase THEN g.content ELSE <<>>
<1>1. CASE g.phase
  BY <1>1 DEF AtCall, Gens
<1>2. CASE ~g.phase
  <2>1. <<>> \in Texts
    BY DEF Texts
  <2>2. AtCall(g) = [g EXCEPT !.phase = TRUE, !.pre = g.content, !.content = <<>>]
    BY <1>2 DEF AtCall
  <2> QED BY <1>2, <2>1, <2>2 DEF Gens
<1> QED BY <1>1, <1>2

LEMMA CallEffect ==
  ASSUME Typed, Listed, NEW t \in Turns, ToolCall(t)
  PROVE  \E g \in Gens, k \in Nat \ {0} :
           /\ Sends(t, g, <<Ev("call", k)>>) /\ ToolsOf(g)
           /\ g.phase = TRUE /\ gen[t].pc = "streaming" /\ g.pc = "streaming" /\ db' = db
           /\ g.content = IF gen[t].phase THEN gen[t].content ELSE <<>>
<1>1. PICK k \in 1..MaxCalls[t] \ gen[t].made :
        /\ gen' = [gen EXCEPT ![t] =
             [AtCall(gen[t]) EXCEPT !.made = @ \cup {k}, !.open = @ \cup {k},
                                    !.tools = Append(@, [id |-> k, result |-> None])]]
        /\ wire' = IF t \in gone THEN wire ELSE [wire EXCEPT ![t] = @ \o <<Ev("call", k)>>]
  BY DEF ToolCall, Yield
<1> DEFINE a == AtCall(gen[t])
           e == [id |-> k, result |-> None]
           g == [a EXCEPT !.made = a.made \cup {k}, !.open = a.open \cup {k},
                          !.tools = Append(a.tools, e)]
<1>2. gen[t] \in Gens /\ gen[t].pc = "streaming" /\ db' = db
      /\ UNCHANGED <<gone, ui, bubble, abortable, left>> /\ ToolsOf(gen[t])
  BY DEF Typed, ToolCall, Streaming, Listed
<1>3. k \in Nat \ {0} /\ k \notin gen[t].made
  <2>1. MaxCalls[t] \in Nat
    BY ChatAssumption DEF Turns
  <2> QED BY <2>1, <1>1
<1>4. /\ a \in Gens /\ a.tools = gen[t].tools /\ a.made = gen[t].made /\ a.open = gen[t].open
      /\ a.phase = TRUE /\ a.pc = gen[t].pc
      /\ a.content = IF gen[t].phase THEN gen[t].content ELSE <<>>
  BY <1>2, AtCallShape
<1> HIDE DEF a
<1>5. e \in Tool /\ e.id = k /\ e.result = None
  BY <1>3 DEF Tool, None
<1> HIDE DEF e
<1>6. a.tools \in Seq(Tool)
  BY <1>4 DEF Gens, Tools
<1>7. /\ Append(a.tools, e) \in Seq(Tool) /\ Len(Append(a.tools, e)) = Len(a.tools) + 1
      /\ Append(a.tools, e)[Len(a.tools) + 1] = e
      /\ \A i \in 1..Len(a.tools) : Append(a.tools, e)[i] = a.tools[i]
  BY <1>5, <1>6, AppendFacts
<1>8. /\ g \in Gens /\ g.phase = TRUE /\ g.pc = "streaming" /\ g.content = a.content
      /\ g.made = a.made \cup {k} /\ g.open = a.open \cup {k} /\ g.tools = Append(a.tools, e)
  BY <1>2, <1>3, <1>4, <1>7 DEF Gens, Tools
<1>9. gen' = [gen EXCEPT ![t] = g]
  BY <1>1 DEF a, e
<1> HIDE DEF g
<1>10. ToolsOf(g)
  <2>1. \A i \in 1..Len(g.tools) : i \in 1..Len(a.tools) \/ i = Len(a.tools) + 1
    BY <1>6, <1>7, <1>8
  <2>2. \A i \in 1..Len(a.tools) : g.tools[i] = gen[t].tools[i] /\ i \in 1..Len(g.tools)
                                   /\ i # Len(a.tools) + 1
    BY <1>4, <1>6, <1>7, <1>8
  <2>3. g.tools[Len(a.tools) + 1] = e /\ Len(a.tools) + 1 \in 1..Len(g.tools)
    BY <1>6, <1>7, <1>8
  <2>4. \A i \in 1..Len(g.tools) : g.tools[i].id \in g.made
                                   /\ g.tools[i].result \in {None, g.tools[i].id}
    BY <1>2, <1>4, <1>5, <1>8, <2>1, <2>2, <2>3 DEF ToolsOf
  <2>5. \A i, j \in 1..Len(g.tools) : g.tools[i].id = g.tools[j].id => i = j
    <3>1. \A i \in 1..Len(a.tools) : g.tools[i].id \in gen[t].made /\ g.tools[i].id # k
      BY <1>2, <1>3, <1>4, <2>2 DEF ToolsOf
    <3>2. \A i, j \in 1..Len(a.tools) : g.tools[i].id = g.tools[j].id => i = j
      BY SMTT(30), <1>2, <1>4, <2>2 DEF ToolsOf
    <3> QED BY <1>5, <2>1, <2>3, <3>1, <3>2
  <2>6. \A h \in g.open : \E i \in 1..Len(g.tools) : g.tools[i].id = h
    BY <1>2, <1>4, <1>5, <1>8, <2>2, <2>3 DEF ToolsOf
  <2> QED BY <2>4, <2>5, <2>6 DEF ToolsOf
<1>11. Sends(t, g, <<Ev("call", k)>>)
  BY <1>1, <1>2, <1>8, <1>9 DEF Sends
<1> QED BY <1>2, <1>3, <1>4, <1>8, <1>10, <1>11

LEMMA RecordOwn ==
  ASSUME NEW g \in Gens, ToolsOf(g), NEW k \in g.open
  PROVE  \E i \in 1..Len(g.tools) :
           /\ g.tools[i].id = k
           /\ Record(g.tools, k) = [g.tools EXCEPT ![i] = [g.tools[i] EXCEPT !.result = k]]
<1>1. PICK i \in 1..Len(g.tools) : g.tools[i].id = k
  BY DEF ToolsOf
<1>2. DOMAIN g.tools = 1..Len(g.tools) /\ g.tools \in Seq(Tool)
  BY DEF Gens, Tools
<1> DEFINE own == {j \in DOMAIN g.tools : g.tools[j].id = k}
<1>3. own = {i}
  BY <1>1, <1>2 DEF ToolsOf
<1>4. (CHOOSE j \in own : \A h \in own : h <= j) = i
  BY <1>1, <1>2, <1>3
<1> QED BY <1>1, <1>3, <1>4 DEF Record

LEMMA ResultEffect ==
  ASSUME Typed, Listed, NEW t \in Turns, ToolResult(t)
  PROVE  \E g \in Gens, k \in Nat :
           /\ Sends(t, g, <<Ev("result", k)>>) /\ ToolsOf(g) /\ g.phase = gen[t].phase
           /\ gen[t].pc = "streaming" /\ g.pc = "streaming" /\ db' = db
           /\ g.content = gen[t].content
<1>1. PICK k \in gen[t].open :
        /\ gen' = [gen EXCEPT ![t].open = @ \ {k}, ![t].tools = Record(@, k)]
        /\ wire' = IF t \in gone THEN wire ELSE [wire EXCEPT ![t] = @ \o <<Ev("result", k)>>]
  BY DEF ToolResult, Yield
<1>2. gen[t] \in Gens /\ gen[t].pc = "streaming" /\ db' = db
      /\ UNCHANGED <<gone, ui, bubble, abortable, left>> /\ ToolsOf(gen[t])
  BY DEF Typed, ToolResult, Streaming, Listed
<1> DEFINE old == gen[t].tools
           new == Record(old, k)
           g == [gen[t] EXCEPT !.open = gen[t].open \ {k}, !.tools = new]
<1>3. PICK i \in 1..Len(old) : old[i].id = k
           /\ new = [old EXCEPT ![i] = [old[i] EXCEPT !.result = k]]
  BY <1>2, RecordOwn
<1>4. old \in Seq(Tool) /\ k \in Nat
  BY <1>2 DEF Gens, Tools
<1>5. old[i] \in Tool
  BY <1>4
<1> DEFINE e == [old[i] EXCEPT !.result = k]
<1>6. e \in Tool /\ e.id = k /\ e.result = k
  BY <1>3, <1>4, <1>5 DEF Tool
<1> HIDE DEF e
<1>7. /\ new \in Seq(Tool) /\ Len(new) = Len(old)
      /\ \A j \in 1..Len(old) : new[j] = IF j = i THEN e ELSE old[j]
  BY <1>3, <1>4, <1>6, ExceptSeqAt DEF e
<1> HIDE DEF new
<1>8. /\ g \in Gens /\ g.phase = gen[t].phase /\ g.pc = "streaming"
      /\ g.content = gen[t].content /\ g.made = gen[t].made
      /\ g.open = gen[t].open \ {k} /\ g.tools = new
  BY <1>2, <1>7 DEF Gens, Tools
<1>9. gen' = [gen EXCEPT ![t] = g]
  BY <1>1 DEF Typed, Gens, new
<1> HIDE DEF g, old
<1>10. ToolsOf(g)
  <2>1. \A j \in 1..Len(old) : new[j].id = old[j].id /\ new[j].result \in {old[j].result, new[j].id}
    BY <1>3, <1>6, <1>7
  <2>2. ToolsOf(gen[t]) /\ gen[t].tools = old
    BY <1>2 DEF old
  <2> QED BY <1>7, <1>8, <2>1, <2>2 DEF ToolsOf
<1>11. Sends(t, g, <<Ev("result", k)>>)
  BY <1>1, <1>2, <1>8, <1>9 DEF Sends
<1> QED BY <1>2, <1>4, <1>8, <1>10, <1>11

Broken == {<<Ev("fail", None)>>, <<Ev("error", None), Ev("close", None)>>}

\* A connection that is sent nothing stays as it is.
LEMMA SendsNothing ==
  ASSUME Typed, NEW t \in Turns
  PROVE  [wire EXCEPT ![t] = @ \o <<>>] = wire
<1>1. wire[t] \in Seq(Events) /\ wire \in [Turns -> Seq(Events)]
  BY DEF Typed
<1>2. wire[t] \o <<>> = wire[t]
  BY <1>1, AppendNone
<1> QED BY <1>1, <1>2

LEMMA BreakEffect ==
  ASSUME Typed, NEW t \in Turns, Reject(t) \/ LoopFails(t)
  PROVE  /\ gen[t].pc \in {"requested", "streaming"} /\ db' = db
         /\ \E events \in Broken : Sends(t, Over, events)
<1>0. Over.pc = "over"
  BY NewGenType
<1>1. CASE Reject(t)
  <2>1. gen[t].pc = "requested" /\ gen' = [gen EXCEPT ![t] = Over] /\ Yield(t, <<Ev("fail", None)>>)
        /\ UNCHANGED <<gone, db, ui, bubble, abortable, left>>
    BY <1>1 DEF Reject
  <2>2. Sends(t, Over, <<Ev("fail", None)>>)
    BY <1>0, <2>1 DEF Sends, Yield
  <2> QED BY <2>1, <2>2 DEF Broken
<1>2. CASE LoopFails(t)
  <2>1. gen[t].pc = "streaming" /\ gen' = [gen EXCEPT ![t] = Over]
        /\ UNCHANGED <<gone, db, ui, bubble, abortable, left>>
    BY <1>2 DEF LoopFails, Streaming
  <2>2. PICK events \in Broken : Yield(t, events)
    BY <1>2 DEF LoopFails, Broken
  <2>3. Sends(t, Over, events)
    BY <1>0, <2>1, <2>2 DEF Sends, Yield
  <2> QED BY <2>1, <2>2, <2>3
<1> QED BY <1>1, <1>2

LEMMA SaveEffect ==
  ASSUME Typed, NEW t \in Turns, Save(t)
  PROVE  \/ /\ gen[t].pc = "checked" /\ db' = db
            /\ \E events \in Broken : Sends(t, Over, events)
         \/ /\ gen[t].pc = "checked" /\ db' = db \o Rows(t, gen[t])
            /\ Sends(t, [gen[t] EXCEPT !.pc = "stored"], <<>>)
<1>0. Over.pc = "over"
  BY NewGenType
<1>1. gen[t].pc = "checked" /\ UNCHANGED <<gone, ui, bubble, abortable, left>>
  BY DEF Save
<1>2. CASE gen' = [gen EXCEPT ![t] = Over] /\ Yield(t, <<Ev("fail", None)>>) /\ db' = db
  <2>1. Sends(t, Over, <<Ev("fail", None)>>)
    BY <1>0, <1>1, <1>2 DEF Sends, Yield
  <2> QED BY <1>1, <1>2, <2>1 DEF Broken
<1>3. CASE db' = db \o Rows(t, gen[t]) /\ gen' = [gen EXCEPT ![t].pc = "stored"] /\ wire' = wire
  <2>1. gen' = [gen EXCEPT ![t] = [gen[t] EXCEPT !.pc = "stored"]]
    BY <1>3
  <2>2. [gen[t] EXCEPT !.pc = "stored"].pc = "stored"
    BY DEF Typed, Gens
  <2>3. Sends(t, [gen[t] EXCEPT !.pc = "stored"], <<>>)
    BY <1>1, <1>3, <2>1, <2>2, SendsNothing DEF Sends
  <2> QED BY <1>1, <1>3, <2>3
<1> QED BY <1>2, <1>3 DEF Save

LEMMA EndEffect ==
  ASSUME Typed, NEW t \in Turns, End(t)
  PROVE  gen[t].pc = "stored" /\ db' = db
         /\ Sends(t, Over, <<Ev("done", None), Ev("close", None)>>)
BY NewGenType DEF End, Sends, Yield

LEMMA AbandonEffect ==
  ASSUME Typed, NEW t \in Turns, Abandon(t)
  PROVE  /\ t \in gone /\ Sends(t, Over, <<>>)
         /\ db' \in {db, db \o Rows(t, gen[t])}
<1>1. t \in gone /\ gen[t].pc \in Active /\ gen' = [gen EXCEPT ![t] = Over]
      /\ UNCHANGED <<wire, gone, ui, bubble, abortable, left>>
  BY DEF Abandon
<1>2. db' \in {db, db \o Rows(t, gen[t])}
  BY DEF Abandon
<1> QED BY <1>1, <1>2, NewGenType DEF Sends, Active

\* Another text, and perhaps a warning behind it, sent as it is stored.
PolishedText(text, polished, warned) ==
  (IF polished THEN Replaced ELSE text) \o (IF warned THEN <<Warning>> ELSE <<>>)
PolishedEvents(polished, warned) ==
  (IF polished THEN <<Ev("replace", None)>> ELSE <<>>)
  \o (IF warned THEN <<Ev("chunk", Warning)>> ELSE <<>>)

LEMMA PolishEffect ==
  ASSUME Typed, NEW t \in Turns, Polish(t)
  PROVE  \E g \in Gens, polished \in BOOLEAN, warned \in BOOLEAN :
           /\ Sends(t, g, PolishedEvents(polished, warned)) /\ Same(g, gen[t])
           /\ g.content = PolishedText(gen[t].content, polished, warned)
           /\ gen[t].pc = "streaming" /\ g.pc = "checked" /\ db' = db
<1>0. gen[t] \in Gens
  BY DEF Typed
<1>1. PICK polished \in BOOLEAN, warned \in BOOLEAN :
        /\ gen' = [gen EXCEPT ![t].pc = "checked",
             ![t].content = (IF polished THEN Replaced ELSE @)
                            \o (IF warned THEN <<Warning>> ELSE <<>>)]
        /\ Yield(t, (IF polished THEN ReplaceEvents(gen[t].content) ELSE <<>>)
                    \o (IF warned THEN <<Ev("chunk", Warning)>> ELSE <<>>))
  BY Zenon DEF Polish
<1>2. gen[t].pc = "streaming" /\ UNCHANGED <<gone, db, ui, bubble, abortable, left>>
  BY DEF Polish, Streaming
<1> DEFINE c == PolishedText(gen[t].content, polished, warned)
           g == [gen[t] EXCEPT !.pc = "checked", !.content = c]
<1>3. c \in Texts
  <2>1. gen[t].content \in Seq(Int) /\ Replaced \in Seq(Int) /\ <<Warning>> \in Seq(Int)
    BY <1>0 DEF Gens, Texts, Replaced, Warning
  <2>2. \A a, b \in Seq(Int) : a \o b \in Seq(Int)
    OBVIOUS
  <2>3. (IF polished THEN Replaced ELSE gen[t].content) \in Seq(Int)
    BY <2>1
  <2>4. (IF warned THEN <<Warning>> ELSE <<>>) \in Seq(Int)
    BY <2>1
  <2> QED BY <2>2, <2>3, <2>4 DEF PolishedText, Texts
<1>4. gen' = [gen EXCEPT ![t] = g]
  BY <1>0, <1>1 DEF PolishedText, Typed, Gens
<1> HIDE DEF c
<1>5. g \in Gens /\ Same(g, gen[t]) /\ g.content = c /\ g.pc = "checked"
  BY <1>0, <1>3 DEF Gens, Same, Pcs
<1> HIDE DEF g
<1>6. Yield(t, PolishedEvents(polished, warned))
  BY <1>1 DEF PolishedEvents, ReplaceEvents
<1>7. Sends(t, g, PolishedEvents(polished, warned))
  BY <1>2, <1>4, <1>5, <1>6 DEF Sends, Yield
<1> QED BY <1>2, <1>5, <1>7 DEF c

LEMMA PolishedCases ==
  ASSUME NEW polished \in BOOLEAN, NEW warned \in BOOLEAN
  PROVE  PolishedEvents(polished, warned) \in
           {<<>>, <<Ev("replace", None)>>, <<Ev("chunk", Warning)>>,
            <<Ev("replace", None), Ev("chunk", Warning)>>}
BY EmptySeqJoin, PairJoin DEF PolishedEvents

\* What all of them have in common: a turn that is over has said so, and has said
\* nothing afterwards.
Told(t, g, events) ==
  /\ \A i \in 1..Len(events) : events[i].kind \in Ends => i = Len(events) /\ g.pc = "over"
  /\ g.pc = "over" /\ t \notin gone => events # <<>> /\ events[Len(events)].kind \in Ends

LEMMA ToldOne ==
  ASSUME NEW t, NEW g, NEW k \in Kinds, NEW x \in Int, k \in Ends <=> g.pc = "over"
  PROVE  <<Ev(k, x)>> \in Seq(Events) /\ Told(t, g, <<Ev(k, x)>>)
<1>1. Ev(k, x) \in Events /\ Ev(k, x).kind = k
  BY EvType
<1> QED BY <1>1 DEF Told

LEMMA ToldTwo ==
  ASSUME NEW t, NEW g, NEW j \in Kinds \ Ends, NEW x \in Int, NEW k \in Kinds, NEW y \in Int,
         k \in Ends <=> g.pc = "over"
  PROVE  <<Ev(j, x), Ev(k, y)>> \in Seq(Events) /\ Told(t, g, <<Ev(j, x), Ev(k, y)>>)
<1>1. Ev(k, y) \in Events /\ Ev(k, y).kind = k /\ Ev(j, x) \in Events /\ Ev(j, x).kind = j
  BY EvType
<1> QED BY <1>1 DEF Told

LEMMA ToldNothing ==
  ASSUME NEW t, NEW g, g.pc # "over" \/ t \in gone
  PROVE  <<>> \in Seq(Events) /\ Told(t, g, <<>>)
BY DEF Told

LEMMA ServerEffect ==
  ASSUME Typed, Listed, NEW t \in Turns, ServerStep(t)
  PROVE  \E g \in Gens, events \in Seq(Events) :
           Sends(t, g, events) /\ Told(t, g, events) /\ ToolsOf(g)
<1>0. /\ {"chunk", "replace", "call", "result", "done", "error"} \subseteq Kinds \ Ends
      /\ Ends \subseteq Kinds /\ "fail" \in Ends /\ "close" \in Ends
      /\ None \in Int /\ Warning \in Int /\ Nat \subseteq Int /\ ToolsOf(gen[t])
  BY DEF Kinds, Ends, None, Warning, Listed
<1>b. \A events \in Broken : events \in Seq(Events) /\ Told(t, Over, events)
  <2>1. Over.pc = "over"
    BY NewGenType
  <2>2. <<Ev("fail", None)>> \in Seq(Events) /\ Told(t, Over, <<Ev("fail", None)>>)
    BY <1>0, <2>1, ToldOne
  <2>3. /\ <<Ev("error", None), Ev("close", None)>> \in Seq(Events)
        /\ Told(t, Over, <<Ev("error", None), Ev("close", None)>>)
    BY <1>0, <2>1, ToldTwo
  <2> QED BY <2>2, <2>3 DEF Broken
<1>1. CASE Accept(t)
  BY <1>0, <1>1, AcceptEffect, SameTools, ToldNothing
<1>2. CASE Chunk(t)
  <2>1. PICK g \in Gens, n \in Nat \ {0} : Sends(t, g, <<Ev("chunk", n)>>) /\ Same(g, gen[t])
                                          /\ g.pc = "streaming"
    BY <1>2, ChunkEffect
  <2>2. <<Ev("chunk", n)>> \in Seq(Events) /\ Told(t, g, <<Ev("chunk", n)>>)
    BY <1>0, <2>1, ToldOne
  <2> QED BY <1>0, <2>1, <2>2, SameTools
<1>3. CASE ToolCall(t)
  <2>1. PICK g \in Gens, k \in Nat \ {0} : Sends(t, g, <<Ev("call", k)>>) /\ ToolsOf(g)
                                          /\ g.pc = "streaming"
    BY <1>3, CallEffect
  <2>2. <<Ev("call", k)>> \in Seq(Events) /\ Told(t, g, <<Ev("call", k)>>)
    BY <1>0, <2>1, ToldOne
  <2> QED BY <2>1, <2>2
<1>4. CASE ToolResult(t)
  <2>1. PICK g \in Gens, k \in Nat : Sends(t, g, <<Ev("result", k)>>) /\ ToolsOf(g)
                                    /\ g.pc = "streaming"
    BY <1>4, ResultEffect
  <2>2. <<Ev("result", k)>> \in Seq(Events) /\ Told(t, g, <<Ev("result", k)>>)
    BY <1>0, <2>1, ToldOne
  <2> QED BY <2>1, <2>2
<1>5. CASE Reject(t) \/ LoopFails(t)
  BY <1>5, <1>b, BreakEffect, NewGenType
<1>6. CASE Polish(t)
  <2>1. PICK g \in Gens, polished \in BOOLEAN, warned \in BOOLEAN :
           Sends(t, g, PolishedEvents(polished, warned)) /\ Same(g, gen[t]) /\ g.pc = "checked"
    BY <1>6, PolishEffect
  <2>2. PolishedEvents(polished, warned) \in Seq(Events)
        /\ Told(t, g, PolishedEvents(polished, warned))
    <3>1. <<>> \in Seq(Events) /\ Told(t, g, <<>>)
      BY <2>1, ToldNothing
    <3>2. <<Ev("replace", None)>> \in Seq(Events) /\ Told(t, g, <<Ev("replace", None)>>)
      BY <1>0, <2>1, ToldOne
    <3>3. <<Ev("chunk", Warning)>> \in Seq(Events) /\ Told(t, g, <<Ev("chunk", Warning)>>)
      BY <1>0, <2>1, ToldOne
    <3>4. /\ <<Ev("replace", None), Ev("chunk", Warning)>> \in Seq(Events)
          /\ Told(t, g, <<Ev("replace", None), Ev("chunk", Warning)>>)
      BY <1>0, <2>1, ToldTwo
    <3> QED BY <3>1, <3>2, <3>3, <3>4, PolishedCases
  <2> QED BY <1>0, <2>1, <2>2, SameTools
<1>7. CASE Save(t)
  <2> DEFINE g == [gen[t] EXCEPT !.pc = "stored"]
  <2>1. g \in Gens /\ Same(g, gen[t]) /\ g.pc = "stored"
    BY DEF Typed, Gens, Same, Pcs
  <2> HIDE DEF g
  <2>2. Told(t, g, <<>>) /\ <<>> \in Seq(Events) /\ ToolsOf(g)
    BY <1>0, <2>1, ToldNothing, SameTools
  <2>3. CASE \E events \in Broken : Sends(t, Over, events)
    BY <1>b, <2>3, NewGenType
  <2>4. CASE Sends(t, g, <<>>)
    BY <2>1, <2>2, <2>4
  <2> QED BY <1>7, <2>3, <2>4, SaveEffect DEF g
<1>8. CASE End(t)
  <2>1. /\ <<Ev("done", None), Ev("close", None)>> \in Seq(Events)
        /\ Told(t, Over, <<Ev("done", None), Ev("close", None)>>)
    BY <1>0, NewGenType, ToldTwo
  <2> QED BY <1>8, <2>1, EndEffect, NewGenType
<1>9. CASE Abandon(t)
  BY <1>9, AbandonEffect, NewGenType, ToldNothing
<1> QED BY <1>1, <1>2, <1>3, <1>4, <1>5, <1>6, <1>7, <1>8, <1>9 DEF ServerStep

-----------------------------------------------------------------------------
(* What is stored                                                            *)

ToolRows(t, g) ==
  [i \in DOMAIN g.tools |-> Message("tool", t, g.tools[i].id, g.tools[i].result, <<>>)]
Answer(t, g)   == Message("answer", t, None, None, g.content)
Opening(t, g)  == Message("assistant", t, None, None, g.pre)

LEMMA MessageType ==
  ASSUME NEW t \in Turns, NEW role \in Roles, NEW id \in Nat, NEW result \in Nat,
         NEW text \in Texts
  PROVE  LET m == Message(role, t, id, result, text) IN
         /\ m \in Msgs /\ m.role = role /\ m.turn = t /\ m.id = id /\ m.result = result
         /\ m.text = text
BY DEF Message, Msgs

\* Either the answer alone, or the text before the calls, the calls and the answer.
LEMMA RowsShape ==
  ASSUME NEW t \in Turns, NEW g \in Gens
  PROVE  /\ Rows(t, g) \in Seq(Msgs)
         /\ Answer(t, g) \in Msgs /\ Opening(t, g) \in Msgs
         /\ Len(g.tools) = 0 => Len(Rows(t, g)) = 1 /\ Rows(t, g)[1] = Answer(t, g)
         /\ Len(g.tools) # 0 =>
              /\ Len(Rows(t, g)) = Len(g.tools) + 2
              /\ Rows(t, g)[1] = Opening(t, g)
              /\ Rows(t, g)[Len(g.tools) + 2] = Answer(t, g)
              /\ \A i \in 1..Len(g.tools) : Rows(t, g)[i + 1] = ToolRows(t, g)[i]
         /\ \A i \in 1..Len(g.tools) :
              /\ ToolRows(t, g)[i] \in Msgs /\ ToolRows(t, g)[i].role = "tool"
              /\ ToolRows(t, g)[i].turn = t /\ ToolRows(t, g)[i].id = g.tools[i].id
              /\ ToolRows(t, g)[i].result = g.tools[i].result
<1>1. g.tools \in Seq(Tool) /\ DOMAIN g.tools = 1..Len(g.tools) /\ Len(g.tools) \in Nat
      /\ g.content \in Texts /\ g.pre \in Texts /\ <<>> \in Texts /\ None \in Nat
  BY DEF Gens, Tools, Texts, None
<1>2. \A i \in 1..Len(g.tools) : g.tools[i].id \in Nat /\ g.tools[i].result \in Nat
  <2>1. \A i \in 1..Len(g.tools) : g.tools[i] \in Tool
    BY <1>1
  <2> QED BY <2>1 DEF Tool
<1>3. \A i \in 1..Len(g.tools) :
        /\ ToolRows(t, g)[i] = Message("tool", t, g.tools[i].id, g.tools[i].result, <<>>)
        /\ ToolRows(t, g)[i] \in Msgs /\ ToolRows(t, g)[i].role = "tool"
        /\ ToolRows(t, g)[i].turn = t /\ ToolRows(t, g)[i].id = g.tools[i].id
        /\ ToolRows(t, g)[i].result = g.tools[i].result
  <2> TAKE i \in 1..Len(g.tools)
  <2>1. ToolRows(t, g)[i] = Message("tool", t, g.tools[i].id, g.tools[i].result, <<>>)
    BY <1>1 DEF ToolRows
  <2>2. "tool" \in Roles /\ g.tools[i].id \in Nat /\ g.tools[i].result \in Nat
    BY <1>2 DEF Roles
  <2> QED BY SMTT(30), <1>1, <2>1, <2>2, MessageType
<1>4. ToolRows(t, g) \in Seq(Msgs) /\ Len(ToolRows(t, g)) = Len(g.tools)
  <2>1. ToolRows(t, g) \in [1..Len(g.tools) -> Msgs]
    BY <1>1, <1>3 DEF ToolRows
  <2> QED BY <1>1, <2>1
<1>5. Answer(t, g) \in Msgs /\ Opening(t, g) \in Msgs
  BY <1>1, MessageType DEF Answer, Opening, Roles
<1> DEFINE a == Answer(t, g)
           o == Opening(t, g)
           r == ToolRows(t, g)
<1>6. Rows(t, g) = (IF g.tools # <<>> THEN <<o>> ELSE <<>>) \o r \o <<a>>
  BY DEF Rows, Preamble, Opening, Answer, ToolRows
<1> HIDE DEF a, o, r
<1>7. r \in Seq(Msgs) /\ a \in Msgs /\ o \in Msgs /\ Len(r) = Len(g.tools)
  BY <1>4, <1>5 DEF a, o, r
<1>8. CASE Len(g.tools) = 0
  <2>1. g.tools = <<>> /\ r = <<>>
    BY <1>1, <1>7, <1>8
  <2>2. Rows(t, g) = <<a>>
    BY <1>6, <2>1
  <2> QED BY <1>3, <1>5, <1>7, <1>8, <2>2 DEF a
<1>9. CASE Len(g.tools) # 0
  <2>1. g.tools # <<>>
    BY <1>9
  <2>2. Rows(t, g) = (<<o>> \o r) \o <<a>>
    BY <1>6, <2>1
  <2>3. /\ <<o>> \o r \in Seq(Msgs) /\ Len(<<o>> \o r) = Len(r) + 1
        /\ (<<o>> \o r)[1] = o
        /\ \A i \in 1..Len(r) : (<<o>> \o r)[i + 1] = r[i]
    BY <1>7
  <2> DEFINE p == <<o>> \o r
  <2> HIDE DEF p
  <2>4. /\ Rows(t, g) \in Seq(Msgs) /\ Len(Rows(t, g)) = Len(p) + 1
        /\ Rows(t, g)[Len(p) + 1] = a
        /\ \A i \in 1..Len(p) : Rows(t, g)[i] = p[i]
    BY <1>7, <2>2, <2>3, AppendFacts DEF p
  <2>5. Len(p) = Len(g.tools) + 1 /\ p[1] = o /\ \A i \in 1..Len(g.tools) : p[i + 1] = r[i]
    BY <1>7, <2>3 DEF p
  <2>6. \A i \in 1..Len(g.tools) : i + 1 \in 1..Len(p)
    BY <1>1, <2>5
  <2>7. Rows(t, g)[1] = o /\ \A i \in 1..Len(g.tools) : Rows(t, g)[i + 1] = r[i]
    BY <1>1, <2>4, <2>5, <2>6
  <2>8. Len(Rows(t, g)) = Len(g.tools) + 2 /\ Rows(t, g)[Len(g.tools) + 2] = a
    BY <1>1, <2>4, <2>5
  <2> QED BY <1>3, <1>5, <1>9, <2>4, <2>7, <2>8 DEF a, o, r
<1> QED BY <1>8, <1>9

\* What a step of the server stores.
LEMMA StoreEffect ==
  ASSUME Typed, NEW t \in Turns, ServerStep(t)
  PROVE  \/ db' = db
         \/ gen[t].pc = "requested" /\ db' = Append(db, Message("user", t, None, None, <<>>))
         \/ gen[t].pc \notin {"idle", "requested"} /\ db' = db \o Rows(t, gen[t])
<1>1. CASE Accept(t)
  BY <1>1 DEF Accept
<1>2. CASE Reject(t) \/ LoopFails(t) \/ Chunk(t) \/ ToolCall(t) \/ ToolResult(t) \/ Polish(t)
           \/ End(t)
  BY <1>2 DEF Reject, LoopFails, Chunk, ToolCall, ToolResult, Polish, End
<1>3. CASE Save(t)
  BY <1>3, SaveEffect
<1>4. CASE Abandon(t)
  BY <1>4 DEF Abandon, Active
<1> QED BY <1>1, <1>2, <1>3, <1>4 DEF ServerStep

LEMMA StoreType ==
  ASSUME Typed, NEW t \in Turns, ServerStep(t)
  PROVE  db' \in Seq(Msgs)
<1>1. db \in Seq(Msgs) /\ gen[t] \in Gens
  BY DEF Typed
<1>2. Message("user", t, None, None, <<>>) \in Msgs
  <2>1. "user" \in Roles /\ None \in Nat /\ <<>> \in Texts
    BY DEF Roles, None, Texts
  <2> QED BY <2>1, MessageType
<1>3. \A m \in Msgs : Append(db, m) \in Seq(Msgs)
  BY <1>1
<1>4. db \o Rows(t, gen[t]) \in Seq(Msgs)
  <2>1. Rows(t, gen[t]) \in Seq(Msgs)
    BY <1>1, RowsShape
  <2> HIDE DEF Rows
  <2> QED BY <1>1, <2>1, ConcatProperties
<1> QED BY <1>1, <1>2, <1>3, <1>4, StoreEffect

-----------------------------------------------------------------------------
(* The page and the connection                                               *)

Finished(s) == gen[s].pc \in {"idle", "over"} /\ wire[s] = <<>>
Watched(t)  == bubble.turn = t /\ t \notin left
LastEnds(t) == wire[t] # <<>> /\ wire[t][Len(wire[t])].kind \in Ends

\* While the page watches a turn, nothing of another is under way.
Alone == \A t \in Turns : Watched(t) => \A s \in Turns \ {t} : Finished(s)

\* The bubble of a turn is the last message of the page, and no other turn can be aborted.
OnPage == \A t \in Turns : bubble.turn = t =>
  gen[t].pc # "idle" /\ bubble.kind = "assistant" /\ abortable \in {None, t}

\* A turn that was not asked has left no trace.
Unasked == \A t \in Turns : gen[t].pc = "idle" =>
  wire[t] = <<>> /\ t \notin gone /\ t # abortable /\ gen[t] = NewGen

\* What the page still gets of a turn that is over, or cut off, ends it.
Closing == \A t \in Turns :
  Watched(t) /\ (gen[t].pc = "over" \/ t \in gone)
    => (wire[t] # <<>> => LastEnds(t)) /\ (Busy => wire[t] # <<>>)

\* Nothing follows the end of a stream that was not cut.
Order == \A t \in Turns \ gone : \A i \in 1..Len(wire[t]) :
  wire[t][i].kind \in Ends => i = Len(wire[t]) /\ gen[t].pc = "over"

PageInv == Alone /\ OnPage /\ Unasked /\ Closing /\ Order

LEMMA NoTurn == None \notin Turns
BY ChatAssumption DEF None, Turns

\* The end of two sequences put together.
LEMMA ConcatFacts ==
  ASSUME NEW S, NEW a \in Seq(S), NEW b \in Seq(S)
  PROVE  /\ a \o b \in Seq(S) /\ Len(a \o b) = Len(a) + Len(b)
         /\ \A i \in 1..Len(a) : (a \o b)[i] = a[i]
         /\ \A i \in 1..Len(b) : (a \o b)[Len(a) + i] = b[i]
         /\ \A i \in 1..Len(a \o b) : i \in 1..Len(a) \/ (i - Len(a) \in 1..Len(b)
                                                          /\ (a \o b)[i] = b[i - Len(a)])
         /\ a \o b = <<>> => a = <<>> /\ b = <<>>
OBVIOUS

LEMMA ServerPage ==
  ASSUME Typed, PageInv, NEW t \in Turns, NEW g \in Gens, NEW events \in Seq(Events),
         Sends(t, g, events), Told(t, g, events)
  PROVE  PageInv'
<1>1. /\ gen[t].pc \notin {"idle", "over"} /\ g.pc # "idle"
      /\ \A s \in Turns : gen'[s] = IF s = t THEN g ELSE gen[s]
      /\ \A s \in Turns : wire'[s] = IF s = t /\ t \notin gone THEN wire[t] \o events ELSE wire[s]
      /\ UNCHANGED <<gone, ui, bubble, abortable, left>>
  BY DEF Typed, Sends
<1>2. wire[t] \in Seq(Events)
  BY DEF Typed
<1>3. /\ wire[t] \o events \in Seq(Events) /\ Len(wire[t] \o events) = Len(wire[t]) + Len(events)
      /\ \A i \in 1..Len(events) : (wire[t] \o events)[Len(wire[t]) + i] = events[i]
      /\ \A i \in 1..Len(wire[t] \o events) :
           (i \in 1..Len(wire[t]) /\ (wire[t] \o events)[i] = wire[t][i])
           \/ (i - Len(wire[t]) \in 1..Len(events)
               /\ (wire[t] \o events)[i] = events[i - Len(wire[t])])
      /\ (wire[t] \o events = <<>> => wire[t] = <<>> /\ events = <<>>)
  BY SMTT(30), <1>2, ConcatFacts
<1> DEFINE w == wire[t] \o events
<1> HIDE DEF w
<1>4. Alone'
  BY <1>1 DEF PageInv, Alone, Watched, Finished
<1>5. OnPage' /\ Unasked'
  BY <1>1 DEF PageInv, OnPage, Unasked
<1>6. Closing'
  <2> SUFFICES ASSUME NEW s \in Turns, Watched(s)', gen'[s].pc = "over" \/ s \in gone'
               PROVE  (wire'[s] # <<>> => LastEnds(s)') /\ (Busy' => wire'[s] # <<>>)
    BY DEF Closing
  <2>1. Watched(s) /\ (Busy' <=> Busy)
    BY <1>1 DEF Watched, Busy
  <2>2. CASE s # t \/ t \in gone
    <3>1. wire'[s] = wire[s] /\ (gen[s].pc = "over" \/ s \in gone)
      BY <1>1, <2>2
    <3> QED BY <2>1, <3>1 DEF PageInv, Closing, LastEnds
  <2>3. CASE s = t /\ t \notin gone
    <3>1. wire'[s] = wire[t] \o events /\ g.pc = "over"
      BY <1>1, <2>3
    <3>2. events # <<>> /\ events[Len(events)].kind \in Ends
      BY <2>3, <3>1 DEF Told
    <3>3. Len(events) \in 1..Len(events)
      BY <3>2
    <3>4. (wire[t] \o events)[Len(wire[t] \o events)].kind \in Ends
      BY <1>3, <3>2, <3>3
    <3> QED BY <1>3, <3>1, <3>2, <3>4 DEF LastEnds
  <2> QED BY <2>2, <2>3
<1>7. Order'
  <2> SUFFICES ASSUME NEW s \in Turns \ gone, NEW i \in 1..Len(wire'[s]), wire'[s][i].kind \in Ends
               PROVE  i = Len(wire'[s]) /\ gen'[s].pc = "over"
    BY <1>1 DEF Order
  <2>1. CASE s # t
    BY <1>1, <2>1 DEF PageInv, Order
  <2>2. CASE s = t
    <3>1. wire'[s] = wire[t] \o events /\ gen'[s] = g
      BY <1>1, <2>2
    <3>2. ~(i \in 1..Len(wire[t]) /\ (wire[t] \o events)[i] = wire[t][i])
      BY <1>1, <2>2, <3>1 DEF PageInv, Order
    <3>3. i - Len(wire[t]) \in 1..Len(events) /\ (wire[t] \o events)[i] = events[i - Len(wire[t])]
      BY <1>3, <3>1, <3>2
    <3>4. i - Len(wire[t]) = Len(events) /\ g.pc = "over"
      BY <3>1, <3>3 DEF Told
    <3>5. i \in Int /\ Len(wire[t]) \in Int /\ Len(events) \in Int
      BY <1>2, <1>3, <3>1
    <3>6. i = Len(wire[t]) + Len(events)
      BY <3>4, <3>5
    <3> QED BY <1>3, <3>1, <3>4, <3>6
  <2> QED BY <2>1, <2>2
<1> QED BY <1>4, <1>5, <1>6, <1>7 DEF PageInv

LEMMA CutPage ==
  ASSUME Typed, PageInv, NEW t \in Turns, Cut(t)
  PROVE  PageInv'
<1>1. gen[t].pc \in Active /\ gone' = gone \cup {t} /\ t \notin gone
      /\ UNCHANGED <<gen, ui, bubble, abortable, left>>
  BY DEF Cut
<1>2. PICK end \in Ends : wire' = [wire EXCEPT ![t] = Append(@, Ev(end, None))]
  BY DEF Cut, Ends
<1>3. wire[t] \in Seq(Events) /\ Ev(end, None) \in Events /\ Ev(end, None).kind = end
  BY EvType DEF Typed, Ends, Kinds, None
<1> DEFINE w == Append(wire[t], Ev(end, None))
<1>4. /\ w \in Seq(Events) /\ w # <<>> /\ w[Len(w)].kind = end
  BY <1>3
<1>5. \A s \in Turns : wire'[s] = IF s = t THEN w ELSE wire[s]
  BY <1>2 DEF Typed
<1> HIDE DEF w
<1>6. Alone' /\ OnPage' /\ Unasked'
  BY <1>1, <1>5 DEF PageInv, Alone, OnPage, Unasked, Watched, Finished, Active
<1>7. Closing'
  BY <1>1, <1>4, <1>5 DEF PageInv, Closing, Watched, LastEnds, Busy
<1>8. Order'
  BY <1>1, <1>5 DEF PageInv, Order
<1> QED BY <1>6, <1>7, <1>8 DEF PageInv

LEMMA SendPage ==
  ASSUME Typed, PageInv, NEW t \in Turns, Send(t)
  PROVE  PageInv'
<1>1. /\ gen[t].pc = "idle" /\ gen' = [gen EXCEPT ![t].pc = "requested"]
      /\ bubble' = NewBubble(t) /\ abortable' = t
      /\ left' = left \cup (IF Unfinished = {} THEN {} ELSE Unfinished \cup {t})
      /\ UNCHANGED <<wire, gone>>
  BY DEF Send
<1>2. \A s \in Turns : gen'[s].pc = IF s = t THEN "requested" ELSE gen[s].pc
  BY <1>1 DEF Typed, Gens
<1>3. \A s \in Turns : s # t => gen'[s] = gen[s]
  BY <1>1 DEF Typed
<1>4. bubble'.turn = t /\ bubble'.kind = "assistant"
  BY <1>1 DEF NewBubble, OldBubble, NoBubble
<1>5. t \notin gone /\ wire[t] = <<>>
  BY <1>1 DEF PageInv, Unasked
<1>6. \A s \in Turns : Watched(s)' => s = t /\ \A u \in Turns : Finished(u)
  BY <1>1, <1>4 DEF Watched, Unfinished, Finished
<1>7. Alone'
  BY <1>1, <1>3, <1>6 DEF Alone, Finished
<1>8. OnPage' /\ Unasked'
  BY <1>1, <1>2, <1>3, <1>4 DEF PageInv, OnPage, Unasked
<1>9. Closing'
  BY <1>1, <1>2, <1>5, <1>6 DEF Closing
<1>10. Order'
  BY <1>1, <1>2, <1>5 DEF PageInv, Order
<1> QED BY <1>7, <1>8, <1>9, <1>10 DEF PageInv

LEMMA StopPage ==
  ASSUME Typed, PageInv, Stop
  PROVE  PageInv'
<1>1. /\ Busy /\ UNCHANGED gen /\ ui' = "idle" /\ abortable' = None
      /\ bubble' = [bubble EXCEPT !.streaming = FALSE]
      /\ left' = left \cup Unfinished
  BY DEF Stop
<1>2. /\ gone \subseteq gone' /\ \A s \in gone' : s \in gone \/ s = abortable
      /\ \A s \in Turns : s \notin gone' => wire'[s] = wire[s]
      /\ \A s \in Turns : s # abortable => wire'[s] = wire[s]
  BY DEF Stop, Typed
<1>3. bubble'.turn = bubble.turn /\ bubble'.kind = bubble.kind
  BY <1>1 DEF Typed, Bubbles
<1>4. \A t \in Turns : ~Watched(t)'
  <2> SUFFICES ASSUME NEW t \in Turns, Watched(t) PROVE t \in Unfinished
    BY <1>1, <1>3 DEF Watched
  <2>1. gen[t].pc # "idle"
    BY DEF PageInv, OnPage, Watched
  <2>2. gen[t].pc = "over" => wire[t] # <<>>
    BY <1>1 DEF PageInv, Closing
  <2> QED BY <2>1, <2>2 DEF Unfinished
<1>5. Alone' /\ Closing'
  BY <1>4 DEF Alone, Closing
<1>6. OnPage' /\ Unasked'
  BY <1>1, <1>2, <1>3, NoTurn DEF PageInv, OnPage, Unasked
<1>7. Order'
  BY <1>1, <1>2 DEF PageInv, Order
<1> QED BY <1>5, <1>6, <1>7 DEF PageInv

LEMMA LeavePage ==
  ASSUME Typed, PageInv, Leave
  PROVE  PageInv'
<1>1. bubble'.turn = None /\ UNCHANGED <<gen, wire, gone, ui, abortable>>
  BY DEF Leave, NoBubble, OldBubble, UserBubble
<1>2. \A t \in Turns : bubble'.turn # t
  BY <1>1, NoTurn
<1> QED BY <1>1, <1>2 DEF PageInv, Alone, OnPage, Unasked, Closing, Order, Watched

LEMMA ShownTurn ==
  ASSUME NEW b \in Bubbles, NEW e \in Events
  PROVE  Shown(b, e).turn = b.turn /\ Shown(b, e).kind = b.kind
BY DEF Shown, WithCall, WithResult, Closed, Bubbles

LEMMA EventPage ==
  ASSUME Typed, PageInv, NEW t \in Turns, OnEvent(t)
  PROVE  PageInv'
<1>0. wire[t] \in Seq(Events) /\ wire[t] # <<>> /\ wire[t][1] \in Events /\ bubble \in Bubbles
  BY DEF Typed, OnEvent
<1>1. /\ wire[t][1].kind \notin Ends
      /\ wire' = [wire EXCEPT ![t] = Tail(@)]
      /\ UNCHANGED <<gen, gone, left>> /\ abortable' \in {None, abortable}
      /\ bubble' \in {bubble, Shown(bubble, wire[t][1])}
  BY <1>0 DEF OnEvent, Ends
<1>2. \A s \in Turns : wire'[s] = IF s = t THEN Tail(wire[t]) ELSE wire[s]
  BY <1>1 DEF Typed
<1>3. bubble'.turn = bubble.turn /\ bubble'.kind = bubble.kind
  BY <1>0, <1>1, ShownTurn
<1>4. PICK w \in Seq(Events) : /\ w = Tail(wire[t]) /\ Len(w) = Len(wire[t]) - 1
                              /\ \A i \in 1..Len(w) : w[i] = wire[t][i + 1]
  BY <1>0, TailFacts
<1>a. \A s \in Turns : wire'[s] = IF s = t THEN w ELSE wire[s]
  BY <1>2, <1>4
<1>b. Len(w) \in Nat /\ Len(wire[t]) = Len(w) + 1
  <2>1. Len(w) \in Nat /\ Len(wire[t]) \in Nat
    BY <1>0
  <2> QED BY <1>4, <2>1
<1>5. \A s \in Turns : Watched(s)' => Watched(s) /\ s = t
  BY <1>0, <1>1, <1>3 DEF PageInv, Alone, Watched, Finished
<1>6. Alone'
  BY <1>1, <1>2, <1>5 DEF PageInv, Alone, Finished
<1>7. OnPage' /\ Unasked'
  BY <1>0, <1>1, <1>2, <1>3, NoTurn DEF PageInv, OnPage, Unasked
<1>8. Closing'
  <2> SUFFICES ASSUME Watched(t), gen[t].pc = "over" \/ t \in gone
               PROVE  w # <<>> /\ w[Len(w)].kind \in Ends
    BY <1>1, <1>a, <1>5 DEF Closing, LastEnds
  <2>1. wire[t][Len(wire[t])].kind \in Ends
    BY <1>0 DEF PageInv, Closing, LastEnds
  <2>2. Len(w) # 0
    BY <1>1, <1>b, <2>1
  <2>3. Len(w) \in 1..Len(w)
    BY <1>b, <2>2
  <2> QED BY <1>4, <1>b, <2>1, <2>2, <2>3
<1>9. Order'
  <2> SUFFICES ASSUME NEW s \in Turns \ gone, NEW i \in 1..Len(wire'[s]), wire'[s][i].kind \in Ends
               PROVE  i = Len(wire'[s]) /\ gen[s].pc = "over"
    BY <1>1 DEF Order
  <2>1. CASE s # t
    BY <1>2, <2>1 DEF PageInv, Order
  <2>2. CASE s = t
    <3>0. i \in 1..Len(w) /\ w[i].kind \in Ends
      BY <1>a, <2>2
    <3>1. i + 1 \in 1..Len(wire[t]) /\ wire[t][i + 1].kind \in Ends
      BY <1>4, <1>b, <3>0
    <3>2. i + 1 = Len(wire[t]) /\ gen[t].pc = "over"
      BY <2>2, <3>1 DEF PageInv, Order
    <3>3. i = Len(w)
      BY <1>b, <3>0, <3>2
    <3> QED BY <1>a, <2>2, <3>2, <3>3
  <2> QED BY <2>1, <2>2
<1> QED BY <1>6, <1>7, <1>8, <1>9 DEF PageInv

LEMMA EndPage ==
  ASSUME Typed, PageInv, NEW t \in Turns, OnEnd(t)
  PROVE  PageInv'
<1>0. wire[t] \in Seq(Events) /\ wire[t] # <<>> /\ bubble \in Bubbles
  BY DEF Typed, OnEnd
<1>1. /\ wire' = [wire EXCEPT ![t] = <<>>]
      /\ UNCHANGED <<gen, gone, left>> /\ abortable' \in {None, abortable}
      /\ bubble' \in {bubble, Closed(bubble)}
      /\ bubble.kind = "empty" \/ ui' \in {"error", "idle"}
  BY DEF OnEnd, UiAtEnd
<1>2. \A s \in Turns : wire'[s] = IF s = t THEN <<>> ELSE wire[s]
  BY <1>1 DEF Typed
<1>3. bubble'.turn = bubble.turn /\ bubble'.kind = bubble.kind
  BY <1>0, <1>1 DEF Closed, Bubbles
<1>5. \A s \in Turns : Watched(s)' => Watched(s) /\ s = t
  BY <1>0, <1>1, <1>3 DEF PageInv, Alone, Watched, Finished
<1>6. Alone'
  BY <1>1, <1>2, <1>5 DEF PageInv, Alone, Finished
<1>7. OnPage' /\ Unasked'
  BY <1>0, <1>1, <1>2, <1>3, NoTurn DEF PageInv, OnPage, Unasked
<1>8. Closing'
  <2> SUFFICES ASSUME Watched(t) PROVE ~Busy'
    BY <1>1, <1>2, <1>5 DEF Closing
  <2>1. bubble.kind = "assistant"
    BY DEF PageInv, OnPage, Watched
  <2> QED BY <1>1, <2>1 DEF Busy
<1>9. Order'
  <2> SUFFICES ASSUME NEW s \in Turns \ gone, NEW i \in 1..Len(wire'[s]), wire'[s][i].kind \in Ends
               PROVE  i = Len(wire'[s]) /\ gen[s].pc = "over"
    BY <1>1 DEF Order
  <2>1. s # t
    BY <1>2
  <2> QED BY <1>2, <2>1 DEF PageInv, Order
<1> QED BY <1>6, <1>7, <1>8, <1>9 DEF PageInv

-----------------------------------------------------------------------------
(* Types                                                                     *)

LEMMA ShownType ==
  ASSUME NEW b \in Bubbles, NEW e \in Events
  PROVE  Shown(b, e) \in Bubbles
<1>0. b.text \in Seq(Int) /\ b.cards \in Seq(Cards) /\ e.of \in Int /\ e.kind \in Kinds
      /\ <<>> \in Texts
  BY DEF Bubbles, Texts, Hand, Events
<1>1. CASE e.kind = "chunk"
  <2>1. Append(b.text, e.of) \in Texts
    BY <1>0, AppendFacts DEF Texts
  <2>2. Shown(b, e) = [b EXCEPT !.text = Append(b.text, e.of)]
    BY <1>1 DEF Shown
  <2> QED BY <2>1, <2>2 DEF Bubbles
<1>2. CASE e.kind = "replace"
  <2>1. Shown(b, e) = [b EXCEPT !.text = Replaced]
    BY <1>2 DEF Shown
  <2>2. Replaced \in Texts
    BY DEF Replaced, Texts
  <2> QED BY <2>1, <2>2 DEF Bubbles
<1>3. CASE e.kind = "call"
  <2>1. Shown(b, e) = WithCall(b, e.of)
    BY <1>3 DEF Shown
  <2>2. Card("call", e.of, None) \in Cards
    BY <1>0 DEF Card, Cards, None
  <2>3. Append(b.cards, Card("call", e.of, None)) \in Hand
    BY <1>0, <2>2, AppendFacts DEF Hand
  <2>4. PICK text \in {b.text, <<>>} :
          WithCall(b, e.of) = [b EXCEPT !.text = text,
                                        !.cards = Append(b.cards, Card("call", e.of, None))]
    <3>1. CASE \E i \in DOMAIN b.cards : b.cards[i].kind = "call"
      BY <3>1 DEF WithCall
    <3>2. CASE ~\E i \in DOMAIN b.cards : b.cards[i].kind = "call"
      BY <3>2 DEF WithCall
    <3> QED BY <3>1, <3>2
  <2>5. text \in Texts
    BY <1>0 DEF Texts
  <2> DEFINE cards == Append(b.cards, Card("call", e.of, None))
  <2>6. Shown(b, e) = [b EXCEPT !.text = text, !.cards = cards]
    BY <2>1, <2>4
  <2>7. cards \in Hand
    BY <2>3
  <2> HIDE DEF cards
  <2> QED BY <2>5, <2>6, <2>7 DEF Bubbles
<1>4. CASE e.kind = "result"
  <2>1. Shown(b, e) = WithResult(b, e.of)
    BY <1>4 DEF Shown
  <2> DEFINE c == Card("result", e.of, e.of)
  <2>2. c \in Cards
    BY <1>0 DEF Card, Cards
  <2> HIDE DEF c
  <2>3. Append(b.cards, c) \in Hand
    BY <1>0, <2>2, AppendFacts DEF Hand
  <2>4. \A i \in 1..Len(b.cards) : [b.cards EXCEPT ![i] = c] \in Hand
    BY <1>0, <2>2, ExceptSeqAt DEF Hand
  <2>5. PICK cards \in Hand : WithResult(b, e.of) = [b EXCEPT !.cards = cards]
    <3> DEFINE own == {i \in DOMAIN b.cards : b.cards[i].kind = "call" /\ b.cards[i].id = e.of}
    <3>1. CASE own = {}
      BY <2>3, <3>1 DEF WithResult, c
    <3>2. CASE own # {}
      <4>1. (CHOOSE i \in own : TRUE) \in 1..Len(b.cards)
        BY <1>0, <3>2
      <4>2. [b.cards EXCEPT ![CHOOSE i \in own : TRUE] = c] \in Hand
        BY <2>4, <4>1
      <4> QED BY <3>2, <4>2 DEF WithResult, c
    <3> QED BY <3>1, <3>2
  <2> QED BY <2>1, <2>5 DEF Bubbles
<1>5. CASE e.kind \notin {"chunk", "replace", "call", "result"}
  <2>1. Shown(b, e) = Closed(b)
    BY <1>5 DEF Shown
  <2>2. PICK text \in {b.text, Fallback} : Closed(b) = [b EXCEPT !.streaming = FALSE, !.text = text]
    BY DEF Closed, Bubbles
  <2>3. text \in Texts
    <3>1. -1 \in Int
      OBVIOUS
    <3>2. Fallback \in Texts
      BY <3>1 DEF Texts, Fallback
    <3> QED BY <2>2, <3>2 DEF Bubbles
  <2> QED BY <2>1, <2>2, <2>3 DEF Bubbles
<1> QED BY <1>1, <1>2, <1>3, <1>4, <1>5

\* The cards of a new message, of none, and of a loaded one.
LEMMA NewBubbles ==
  /\ NoBubble \in Bubbles /\ OldBubble \in Bubbles /\ UserBubble \in Bubbles
  /\ \A t \in Turns : NewBubble(t) \in Bubbles
<1>1. <<>> \in Texts /\ <<>> \in Hand
  BY DEF Texts, Hand
<1>2. NoBubble \in Bubbles
  BY <1>1 DEF NoBubble, Bubbles
<1>3. OldBubble \in Bubbles /\ UserBubble \in Bubbles
  BY <1>2 DEF OldBubble, UserBubble, Bubbles
<1>4. \A t \in Turns : NewBubble(t) \in Bubbles
  BY <1>3 DEF NewBubble, Bubbles
<1> QED BY <1>2, <1>3, <1>4

LEMMA ClosedType ==
  ASSUME NEW b \in Bubbles
  PROVE  Closed(b) \in Bubbles
<1>1. Ev("close", None) \in Events /\ Ev("close", None).kind = "close"
  BY EvType DEF Kinds, None
<1>2. Shown(b, Ev("close", None)) = Closed(b)
  BY <1>1 DEF Shown
<1> QED BY <1>1, <1>2, ShownType

LEMMA TypedStep == Typed /\ Listed /\ [Next]_vars => Typed' /\ Listed'
<1> SUFFICES ASSUME Typed, Listed, [Next]_vars PROVE Typed' /\ Listed'
  OBVIOUS
<1>1. ASSUME NEW t \in Turns, ServerStep(t) PROVE Typed' /\ Listed'
  <2>1. PICK g \in Gens, events \in Seq(Events) : Sends(t, g, events) /\ ToolsOf(g)
    BY <1>1, ServerEffect
  <2>2. gen' \in [Turns -> Gens] /\ \A s \in Turns : gen'[s] = IF s = t THEN g ELSE gen[s]
    BY <2>1 DEF Typed, Sends
  <2>3. wire' \in [Turns -> Seq(Events)]
    <3>1. wire[t] \o events \in Seq(Events)
      BY ConcatFacts DEF Typed
    <3> QED BY <2>1, <3>1 DEF Typed, Sends
  <2>4. UNCHANGED <<gone, ui, bubble, abortable, left>>
    BY <2>1 DEF Sends
  <2>5. Typed'
    BY <1>1, <2>2, <2>3, <2>4, StoreType DEF Typed
  <2> QED BY <2>1, <2>2, <2>5 DEF Listed
<1>2. ASSUME NEW t \in Turns, Cut(t) PROVE Typed' /\ Listed'
  <2>1. PICK end \in {"fail", "close"} : wire' = [wire EXCEPT ![t] = Append(@, Ev(end, None))]
    BY <1>2 DEF Cut
  <2>2. Ev(end, None) \in Events /\ wire[t] \in Seq(Events)
    BY EvType DEF Kinds, None, Typed
  <2>3. Append(wire[t], Ev(end, None)) \in Seq(Events)
    BY <2>2, AppendFacts
  <2>4. wire' \in [Turns -> Seq(Events)]
    BY <2>1, <2>3 DEF Typed
  <2>5. gone' \subseteq Turns /\ UNCHANGED <<gen, db, ui, bubble, abortable, left>>
    BY <1>2 DEF Cut, Typed
  <2> QED BY <2>4, <2>5 DEF Typed, Listed
<1>3. ASSUME NEW t \in Turns, Send(t) PROVE Typed' /\ Listed'
  <2> DEFINE g == [gen[t] EXCEPT !.pc = "requested"]
  <2>1. gen' = [gen EXCEPT ![t] = g] /\ UNCHANGED <<wire, gone, db>>
        /\ bubble' = NewBubble(t) /\ abortable' = t /\ ui' = "connecting"
        /\ left' = left \cup (IF Unfinished = {} THEN {} ELSE Unfinished \cup {t})
    BY <1>3 DEF Send
  <2>2. g \in Gens /\ Same(g, gen[t])
    BY DEF Typed, Gens, Same, Pcs
  <2> HIDE DEF g
  <2>3. gen' \in [Turns -> Gens] /\ \A s \in Turns : gen'[s] = IF s = t THEN g ELSE gen[s]
    BY <2>1, <2>2 DEF Typed
  <2>4. Typed'
    BY <2>1, <2>3, NewBubbles DEF Typed, Unfinished
  <2> QED BY <2>2, <2>3, <2>4, SameTools DEF Listed
<1>4. ASSUME NEW t \in Turns, OnEvent(t) PROVE Typed' /\ Listed'
  <2>1. wire[t] \in Seq(Events) /\ wire[t] # <<>>
    BY <1>4 DEF Typed, OnEvent
  <2>2. Head(wire[t]) \in Events /\ Tail(wire[t]) \in Seq(Events)
    BY <2>1
  <2>3. Shown(bubble, Head(wire[t])) \in Bubbles
    BY <2>2, ShownType DEF Typed
  <2>4. wire' \in [Turns -> Seq(Events)] /\ UNCHANGED <<gen, gone, db, left>>
    BY <1>4, <2>2 DEF OnEvent, Typed
  <2>5. /\ bubble' \in {bubble, Shown(bubble, Head(wire[t]))} /\ abortable' \in {abortable, None}
        /\ ui' \in {ui, "idle", "error", "streaming"}
    BY <1>4 DEF OnEvent, UiAfter
  <2> QED BY <2>3, <2>4, <2>5 DEF Typed, Listed
<1>5. ASSUME NEW t \in Turns, OnEnd(t) PROVE Typed' /\ Listed'
  <2>1. wire' \in [Turns -> Seq(Events)] /\ UNCHANGED <<gen, gone, db, left>>
    BY <1>5 DEF OnEnd, Typed
  <2>2. /\ bubble' \in {bubble, Closed(bubble)} /\ abortable' \in {abortable, None}
        /\ ui' \in {ui, "idle", "error"}
    BY <1>5 DEF OnEnd, UiAtEnd
  <2>3. Closed(bubble) \in Bubbles
    BY ClosedType DEF Typed
  <2> QED BY <2>1, <2>2, <2>3 DEF Typed, Listed
<1>6. CASE Stop
  <2>1. bubble' \in Bubbles
    BY <1>6 DEF Stop, Typed, Bubbles
  <2>2. <<Ev("close", None)>> \in Seq(Events)
    BY EvType DEF Kinds, None
  <2>3. wire' \in [Turns -> Seq(Events)] /\ gone' \subseteq Turns
    BY <1>6, <2>2 DEF Stop, Typed
  <2>4. UNCHANGED <<gen, db>> /\ ui' = "idle" /\ abortable' = None /\ left' \subseteq Turns
    BY <1>6 DEF Stop, Typed, Unfinished
  <2> QED BY <2>1, <2>3, <2>4 DEF Typed, Listed
<1>7. CASE Leave
  <2>1. bubble' \in Bubbles
    BY <1>7, NewBubbles DEF Leave
  <2>2. UNCHANGED <<gen, wire, gone, db, ui, abortable>> /\ left' \subseteq Turns
    BY <1>7 DEF Leave, Typed, Unfinished
  <2> QED BY <2>1, <2>2 DEF Typed, Listed
<1>8. CASE UNCHANGED vars
  BY <1>8 DEF vars, Typed, Listed
<1> QED BY <1>1, <1>2, <1>3, <1>4, <1>5, <1>6, <1>7, <1>8 DEF Next, PageStep

LEMMA PageStepInv == Typed /\ Listed /\ PageInv /\ [Next]_vars => PageInv'
<1> SUFFICES ASSUME Typed, Listed, PageInv, [Next]_vars PROVE PageInv'
  OBVIOUS
<1>1. ASSUME NEW t \in Turns, ServerStep(t) PROVE PageInv'
  BY <1>1, ServerEffect, ServerPage
<1>2. CASE UNCHANGED vars
  BY <1>2 DEF vars, PageInv, Alone, OnPage, Unasked, Closing, Order, Watched, Finished,
              LastEnds, Busy
<1> QED BY <1>1, <1>2, CutPage, SendPage, EventPage, EndPage, StopPage, LeavePage
    DEF Next, PageStep

LEMMA InitPage == Init => Typed /\ Listed /\ PageInv
<1> SUFFICES ASSUME Init PROVE Typed /\ Listed /\ PageInv
  OBVIOUS
<1>1. /\ gen = [t \in Turns |-> NewGen] /\ wire = [t \in Turns |-> <<>>] /\ gone = {}
      /\ db = <<>> /\ ui = "idle" /\ bubble = NoBubble /\ abortable = None /\ left = {}
  BY DEF Init
<1>2. bubble.turn = None
  BY <1>1 DEF NoBubble
<1>3. Typed
  BY <1>1, NewGenType, NewBubbles DEF Typed
<1>4. Listed
  BY <1>1, NewGenType DEF Listed
<1>5. PageInv
  BY <1>1, <1>2, NoTurn DEF PageInv, Alone, OnPage, Unasked, Closing, Order, Watched
<1> QED BY <1>3, <1>4, <1>5

LEMMA AlwaysPage == Spec => [](Typed /\ Listed /\ PageInv)
BY InitPage, TypedStep, PageStepInv, PTL DEF Spec

\* However a turn ends, a page that watched it does not wait for it in vain
\* (NeverWaitsInVain; onError, onDone of chatStore.ts).
THEOREM NoVainWait == Spec => []NeverWaitsInVain
<1>1. Typed /\ Listed /\ PageInv => NeverWaitsInVain
  BY DEF PageInv, Closing, Watched, NeverWaitsInVain
<1> QED BY <1>1, AlwaysPage, PTL

-----------------------------------------------------------------------------
(* What is stored of the calls, and their cards                              *)

ResultsStored == \A i \in 1..Len(db) : db[i].role = "tool" => db[i].result \in {None, db[i].id}

OwnCards(b) == \A i \in 1..Len(b.cards) : b.cards[i].result \in {None, b.cards[i].id}

\* The message a tool message belongs to stands before it.
Behind == \A i \in 1..Len(db) : db[i].role = "tool" => Linked(i) \in 1..(i - 1)

StoreInv == ResultsStored /\ Behind /\ ChainIntact

LEMMA MaxIs == ASSUME NEW S \in SUBSET Int, NEW m \in S, \A x \in S : m >= x
               PROVE  Max(S) = m
<1>1. \A x \in S : (\A y \in S : x >= y) => x = m
  OBVIOUS
<1> QED BY <1>1, Zenon DEF Max

\* What comes later does not change to which message a tool message belongs.
LEMMA LinkedStays ==
  ASSUME Typed, NEW r \in Seq(Msgs), db' = db \o r, NEW i \in 1..Len(db)
  PROVE  Linked(i)' = Linked(i)
<1>1. db \in Seq(Msgs) /\ \A j \in 1..Len(db) : db'[j] = db[j]
  <2>1. db \in Seq(Msgs)
    BY DEF Typed
  <2> QED BY <2>1, ConcatFacts
<1>2. \A j \in 1..(i - 1) : j \in 1..Len(db)
  BY <1>1
<1>3. {j \in 1..(i - 1) : db'[j].role \in {"assistant", "answer"}}
      = {j \in 1..(i - 1) : db[j].role \in {"assistant", "answer"}}
  BY <1>1, <1>2
<1> QED BY <1>3, Zenon DEF Linked

\* Rows that may be put behind any conversation: the tool messages among them have
\* their own result and an assistant message of their turn before them.
Attachable(r) ==
  \A i \in 1..Len(r) : r[i].role = "tool" =>
    /\ r[i].result \in {None, r[i].id}
    /\ r[1].role = "assistant" /\ r[1].turn = r[i].turn /\ i # 1
    /\ \A h \in 2..i : r[h].role = "tool"

LEMMA AttachStep ==
  ASSUME Typed, StoreInv, NEW r \in Seq(Msgs), Attachable(r), db' = db \o r
  PROVE  StoreInv'
<1> DEFINE L == Len(db)
<1>1. /\ db \in Seq(Msgs) /\ L \in Nat /\ Len(r) \in Nat /\ DOMAIN db = 1..L
      /\ db' \in Seq(Msgs) /\ Len(db') = L + Len(r) /\ DOMAIN db' = 1..(L + Len(r))
      /\ \A i \in 1..L : db'[i] = db[i]
      /\ \A i \in 1..Len(r) : db'[L + i] = r[i]
  <2>1. db \in Seq(Msgs)
    BY DEF Typed
  <2> QED BY <2>1, ConcatFacts
<1> HIDE DEF L
<1>2. \A i \in 1..(L + Len(r)) : i \in 1..L \/ \E k \in 1..Len(r) : i = L + k
  <2> SUFFICES ASSUME NEW i \in 1..(L + Len(r)), i \notin 1..L PROVE \E k \in 1..Len(r) : i = L + k
    OBVIOUS
  <2>1. i - L \in 1..Len(r) /\ i = L + (i - L)
    BY <1>1
  <2> QED BY <2>1
<1>3. ResultsStored'
  <2> SUFFICES ASSUME NEW i \in 1..(L + Len(r)), db'[i].role = "tool"
               PROVE  db'[i].result \in {None, db'[i].id}
    BY <1>1 DEF ResultsStored
  <2>1. CASE i \in 1..L
    BY <1>1, <2>1 DEF StoreInv, ResultsStored, L
  <2>2. CASE \E k \in 1..Len(r) : i = L + k
    BY <1>1, <2>2 DEF Attachable
  <2> QED BY <1>2, <2>1, <2>2
<1>4. Behind' /\ ChainIntact'
  <2> SUFFICES ASSUME NEW i \in 1..(L + Len(r)), db'[i].role = "tool"
               PROVE  /\ Linked(i)' \in 1..(i - 1) /\ Linked(i)' # 0
                      /\ db'[Linked(i)'].role = "assistant" /\ db'[Linked(i)'].turn = db'[i].turn
                      /\ \A h \in (Linked(i)' + 1)..i : db'[h].role = "tool"
    BY <1>1 DEF ChainIntact, Behind
  <2>1. CASE i \in 1..L
    <3>1. Linked(i)' = Linked(i)
      BY <2>1, LinkedStays DEF L
    <3>2. /\ Linked(i) # 0 /\ Linked(i) \in 1..(i - 1) /\ db[Linked(i)].role = "assistant"
          /\ db[Linked(i)].turn = db[i].turn
          /\ \A h \in (Linked(i) + 1)..i : db[h].role = "tool"
      BY <1>1, <2>1 DEF StoreInv, Behind, ChainIntact, L
    <3>3. Linked(i) \in 1..L
      <4>1. Linked(i) \in 1..(i - 1)
        BY <1>1, <2>1 DEF StoreInv, Behind, L
      <4> QED BY <1>1, <2>1, <4>1
    <3>4. \A h \in (Linked(i) + 1)..i : h \in 1..L
      BY <1>1, <2>1, <3>3
    <3> QED BY <1>1, <2>1, <3>1, <3>2, <3>3, <3>4
  <2>2. CASE \E k \in 1..Len(r) : i = L + k
    <3>1. PICK k \in 1..Len(r) : i = L + k
      BY <2>2
    <3>2. r[k].role = "tool" /\ db'[i] = r[k]
      BY <1>1, <3>1
    <3>3. /\ r[1].role = "assistant" /\ r[1].turn = r[k].turn /\ k # 1
          /\ \A h \in 2..k : r[h].role = "tool"
      BY <3>2 DEF Attachable
    <3>4. \A h \in (L + 2)..i : db'[h].role = "tool"
      <4> SUFFICES ASSUME NEW h \in (L + 2)..i PROVE db'[h].role = "tool"
        OBVIOUS
      <4>1. h - L \in 2..k /\ h - L \in 1..Len(r) /\ h = L + (h - L)
        BY <1>1, <3>1
      <4>2. db'[h] = r[h - L]
        BY <1>1, <4>1
      <4> QED BY <3>3, <4>1, <4>2
    <3>5. db'[L + 1] = r[1] /\ L + 1 \in 1..(i - 1)
      BY <1>1, <3>1, <3>3
    <3> DEFINE S == {0} \cup {j \in 1..(i - 1) : db'[j].role \in {"assistant", "answer"}}
    <3>6. L + 1 \in S
      BY <3>3, <3>5
    <3>7. \A x \in S : L + 1 >= x
      BY <1>1, <3>1, <3>4
    <3>8. S \in SUBSET Int
      BY <1>1
    <3>9. Linked(i)' = L + 1
      <4>1. Max(S) = L + 1
        BY <3>6, <3>7, <3>8, MaxIs
      <4> QED BY <4>1 DEF Linked
    <3>10. L + 1 # 0 /\ (L + 1) + 1 = L + 2
      BY <1>1
    <3> QED BY <3>2, <3>3, <3>4, <3>5, <3>9, <3>10
  <2> QED BY <1>2, <2>1, <2>2
<1> QED BY <1>3, <1>4 DEF StoreInv

LEMMA RowsAttach ==
  ASSUME NEW t \in Turns, NEW g \in Gens, ToolsOf(g)
  PROVE  Attachable(Rows(t, g))
<1>0. Len(g.tools) \in Nat
  BY DEF Gens, Tools
<1>1. Answer(t, g).role = "answer" /\ Opening(t, g).role = "assistant" /\ Opening(t, g).turn = t
  BY DEF Answer, Opening, Message
<1>2. PICK r \in Seq(Msgs) : r = Rows(t, g)
  BY RowsShape
<1>3. CASE Len(g.tools) = 0
  <2>1. Len(r) = 1 /\ r[1].role = "answer"
    BY <1>1, <1>2, <1>3, RowsShape
  <2> QED BY <1>2, <2>1 DEF Attachable
<1>4. CASE Len(g.tools) # 0
  <2> DEFINE n == Len(g.tools)
  <2>1. /\ Len(r) = n + 2 /\ r[1].role = "assistant" /\ r[1].turn = t /\ r[n + 2].role = "answer"
        /\ \A i \in 1..n : r[i + 1] = ToolRows(t, g)[i]
    BY <1>1, <1>2, <1>4, RowsShape
  <2>2. \A i \in 1..n : /\ r[i + 1].role = "tool" /\ r[i + 1].turn = t
                        /\ r[i + 1].result \in {None, r[i + 1].id}
    <3> TAKE i \in 1..n
    <3>1. g.tools[i].result \in {None, g.tools[i].id}
      BY DEF ToolsOf
    <3>2. /\ ToolRows(t, g)[i].role = "tool" /\ ToolRows(t, g)[i].turn = t
          /\ ToolRows(t, g)[i].id = g.tools[i].id /\ ToolRows(t, g)[i].result = g.tools[i].result
      BY RowsShape
    <3> QED BY <2>1, <3>1, <3>2
  <2> HIDE DEF n
  <2>3. \A h \in 2..(n + 1) : /\ r[h].role = "tool" /\ r[h].turn = t
                              /\ r[h].result \in {None, r[h].id}
    <3> SUFFICES ASSUME NEW h \in 2..(n + 1)
                 PROVE  /\ r[h].role = "tool" /\ r[h].turn = t
                        /\ r[h].result \in {None, r[h].id}
      OBVIOUS
    <3>1. h - 1 \in 1..n /\ (h - 1) + 1 = h
      BY <1>0 DEF n
    <3> QED BY <2>2, <3>1
  <2>4. \A i \in 1..(n + 2) : r[i].role = "tool" => i \in 2..(n + 1)
    BY <1>0, <2>1 DEF n
  <2>5. \A i \in 2..(n + 1) : \A h \in 2..i : h \in 2..(n + 1)
    BY <1>0 DEF n
  <2> QED BY <1>2, <2>1, <2>3, <2>4, <2>5 DEF Attachable
<1> QED BY <1>3, <1>4

LEMMA StoreStep == Typed /\ Listed /\ StoreInv /\ [Next]_vars => StoreInv'
<1> SUFFICES ASSUME Typed, Listed, StoreInv, [Next]_vars PROVE StoreInv'
  OBVIOUS
<1>1. CASE db' = db
  <2>1. \A i : Linked(i)' = Linked(i)
    BY <1>1 DEF Linked
  <2> QED BY <1>1, <2>1 DEF StoreInv, ResultsStored, Behind, ChainIntact
<1>2. ASSUME NEW t \in Turns, ServerStep(t) PROVE StoreInv'
  <2>1. CASE db' = Append(db, Message("user", t, None, None, <<>>))
    <3> DEFINE m == Message("user", t, None, None, <<>>)
    <3>1. m \in Msgs /\ m.role = "user"
      <4>1. "user" \in Roles /\ None \in Nat /\ <<>> \in Texts
        BY DEF Roles, None, Texts
      <4> QED BY <4>1, MessageType
    <3> HIDE DEF m
    <3>2. db' = db \o <<m>> /\ <<m>> \in Seq(Msgs)
      BY <2>1, <3>1, AppendFacts DEF Typed, m
    <3>3. Attachable(<<m>>)
      BY <3>1 DEF Attachable
    <3> QED BY <3>2, <3>3, AttachStep
  <2>2. CASE db' = db \o Rows(t, gen[t])
    <3>1. gen[t] \in Gens /\ ToolsOf(gen[t])
      BY DEF Typed, Listed
    <3>2. Rows(t, gen[t]) \in Seq(Msgs) /\ Attachable(Rows(t, gen[t]))
      BY <3>1, RowsShape, RowsAttach
    <3> QED BY <2>2, <3>2, AttachStep
  <2> QED BY <1>1, <1>2, <2>1, <2>2, StoreEffect
<1>3. CASE UNCHANGED vars
  BY <1>1, <1>3 DEF vars
<1>4. ASSUME NEW t \in Turns, PageStep(t) \/ Cut(t) \/ Send(t) PROVE StoreInv'
  BY <1>1, <1>4 DEF PageStep, OnEvent, OnEnd, Cut, Send
<1>5. CASE Stop \/ Leave
  BY <1>1, <1>5 DEF Stop, Leave
<1> QED BY <1>2, <1>3, <1>4, <1>5 DEF Next

\* A result only ever takes the place of the call with its number.
LEMMA ShownCards ==
  ASSUME NEW b \in Bubbles, NEW e \in Events, OwnCards(b)
  PROVE  OwnCards(Shown(b, e))
<1>0. b.cards \in Seq(Cards) /\ e.of \in Int
  BY DEF Bubbles, Hand, Events
<1>1. CASE e.kind = "call"
  <2> DEFINE c == Card("call", e.of, None)
  <2>1. c \in Cards /\ c.result = None
    BY <1>0 DEF Card, Cards, None
  <2>2. Shown(b, e).cards = Append(b.cards, c)
    BY <1>1 DEF Shown, WithCall, Bubbles
  <2> HIDE DEF c
  <2> QED BY <1>0, <2>1, <2>2, AppendFacts DEF OwnCards
<1>2. CASE e.kind = "result"
  <2> DEFINE c == Card("result", e.of, e.of)
             own == {i \in DOMAIN b.cards : b.cards[i].kind = "call" /\ b.cards[i].id = e.of}
  <2>1. c \in Cards /\ c.result = c.id
    BY <1>0 DEF Card, Cards
  <2>2. CASE own = {}
    <3>1. Shown(b, e).cards = Append(b.cards, c)
      BY <1>2, <2>2 DEF Shown, WithResult, Bubbles
    <3> HIDE DEF c
    <3> QED BY <1>0, <2>1, <3>1, AppendFacts DEF OwnCards
  <2>3. CASE own # {}
    <3>1. PICK i \in 1..Len(b.cards) : i = CHOOSE j \in own : TRUE
      BY <1>0, <2>3
    <3>2. Shown(b, e).cards = [b.cards EXCEPT ![i] = c]
      BY <1>2, <2>3, <3>1 DEF Shown, WithResult, Bubbles
    <3> HIDE DEF c, own
    <3> QED BY <1>0, <2>1, <3>2, ExceptSeqAt DEF OwnCards
  <2> QED BY <2>2, <2>3
<1>3. CASE e.kind \notin {"call", "result"}
  <2>1. Shown(b, e).cards = b.cards
    BY <1>3 DEF Shown, Closed, Bubbles
  <2> QED BY <2>1 DEF OwnCards
<1> QED BY <1>1, <1>2, <1>3

LEMMA CardsStep == Typed /\ OwnCards(bubble) /\ [Next]_vars => OwnCards(bubble)'
<1> SUFFICES ASSUME Typed, OwnCards(bubble), [Next]_vars PROVE OwnCards(bubble')
  BY DEF OwnCards
<1>0. \A b : b.cards = <<>> => OwnCards(b)
  BY DEF OwnCards
<1>1. ASSUME NEW t \in Turns, OnEvent(t) PROVE OwnCards(bubble')
  <2>1. wire[t] \in Seq(Events) /\ wire[t] # <<>>
    BY <1>1 DEF Typed, OnEvent
  <2>2. Head(wire[t]) \in Events
    BY <2>1
  <2>3. bubble' \in {bubble, Shown(bubble, Head(wire[t]))}
    BY <1>1 DEF OnEvent
  <2> QED BY <2>2, <2>3, ShownCards DEF Typed
<1>2. ASSUME NEW t \in Turns, OnEnd(t) PROVE OwnCards(bubble')
  <2>1. bubble' \in {bubble, Closed(bubble)}
    BY <1>2 DEF OnEnd
  <2>2. Closed(bubble).cards = bubble.cards
    BY DEF Closed, Typed, Bubbles
  <2> QED BY <2>1, <2>2 DEF OwnCards
<1>3. CASE \E t \in Turns : Send(t)
  <2>1. bubble'.cards = <<>>
    BY <1>3 DEF Send, NewBubble, OldBubble, NoBubble
  <2> QED BY <1>0, <2>1
<1>4. CASE Leave
  <2>1. bubble'.cards = <<>>
    BY <1>4 DEF Leave, UserBubble, OldBubble, NoBubble
  <2> QED BY <1>0, <2>1
<1>5. CASE Stop
  <2>1. bubble'.cards = bubble.cards
    BY <1>5 DEF Stop, Typed, Bubbles
  <2> QED BY <2>1 DEF OwnCards
<1>6. ASSUME NEW t \in Turns, ServerStep(t) \/ Cut(t) PROVE OwnCards(bubble')
  BY <1>6 DEF ServerStep, Accept, Reject, Chunk, ToolCall, ToolResult, LoopFails, Polish, Save,
              End, Abandon, Cut
<1>7. CASE UNCHANGED vars
  BY <1>7 DEF vars
<1> QED BY <1>1, <1>2, <1>3, <1>4, <1>5, <1>6, <1>7 DEF Next, PageStep

LEMMA AlwaysStored == Spec => [](Typed /\ Listed /\ PageInv /\ StoreInv /\ OwnCards(bubble))
<1>1. Init => StoreInv /\ OwnCards(bubble)
  BY DEF Init, StoreInv, ResultsStored, Behind, ChainIntact, OwnCards, NoBubble
<1> QED BY <1>1, InitPage, TypedStep, PageStepInv, StoreStep, CardsStep, PTL DEF Spec

\* However the tools of a batch finish, every result stands with its own call
\* (ResultsBelong; _record_tool_result, chatStore tool_result).
THEOREM ResultsKept == Spec => []ResultsBelong
<1>1. Typed /\ StoreInv /\ OwnCards(bubble) => ResultsBelong
  BY DEF Typed, Bubbles, Hand, StoreInv, ResultsStored, OwnCards, ResultsBelong
<1> QED BY <1>1, AlwaysStored, PTL

\* Whatever turns ran or broke off side by side, the history that is stored can be
\* replayed to the model (ChainIntact; _save_messages).
THEOREM HistoryReplays == Spec => []ChainIntact
<1>1. StoreInv => ChainIntact
  BY DEF StoreInv
<1> QED BY <1>1, AlwaysStored, PTL

-----------------------------------------------------------------------------
(* What the page will show when it has received all that is on its way      *)

Tails(s, t) == \E p \in Texts : t = p \o s

LEMMA TailsFacts ==
  ASSUME NEW s \in Texts, NEW t \in Texts
  PROVE  /\ Tails(<<>>, t) /\ Tails(t, t)
         /\ \A e \in Int : Tails(s, t) => Tails(Append(s, e), Append(t, e))
<1>1. s \in Seq(Int) /\ t \in Seq(Int)
  BY DEF Texts
<1>2. Tails(<<>>, t)
  <2>1. t = t \o <<>>
    BY <1>1
  <2> QED BY <2>1 DEF Tails
<1>3. Tails(t, t)
  <2>1. t = <<>> \o t /\ <<>> \in Texts
    BY <1>1 DEF Texts
  <2> QED BY <2>1 DEF Tails
<1>4. ASSUME NEW e \in Int, Tails(s, t) PROVE Tails(Append(s, e), Append(t, e))
  <2>1. PICK p \in Texts : t = p \o s
    BY <1>4 DEF Tails
  <2>2. p \in Seq(Int)
    BY DEF Texts
  <2> DEFINE a == Append(p \o s, e)
             b == p \o Append(s, e)
  <2>3. a \in Seq(Int) /\ b \in Seq(Int) /\ Len(a) = Len(p) + Len(s) + 1 /\ Len(b) = Len(a)
    BY <1>1, <2>2
  <2>4. \A i \in 1..(Len(p) + Len(s) + 1) : a[i] = b[i]
    BY <1>1, <2>2
  <2>5. a = b
    BY <2>3, <2>4, SeqEqual
  <2> QED BY <2>1, <2>5 DEF Tails
<1> QED BY <1>2, <1>3, <1>4

\* The library says it with the reversed sequences.
LEMMA TailsSuffix ==
  ASSUME NEW s \in Texts, NEW t \in Texts, Tails(s, t)
  PROVE  IsSuffix(s, t)
<1>1. PICK p \in Seq(Int) : t = p \o s
  BY DEF Tails, Texts
<1>2. s \in Seq(Int) /\ t \in Seq(Int)
  BY DEF Texts
<1> DEFINE r == Reverse(s)
           u == Reverse(t)
<1>3. r \in Seq(Int) /\ Len(r) = Len(s) /\ u \in Seq(Int) /\ Len(u) = Len(t)
  BY <1>2 DEF Reverse
<1>4. Len(t) = Len(p) + Len(s) /\ \A i \in 1..Len(s) : t[Len(p) + i] = s[i]
  BY <1>1, <1>2, ConcatFacts
<1>5. \A i \in 1..Len(s) : r[i] = u[i]
  <2> TAKE i \in 1..Len(s)
  <2>1. r[i] = s[Len(s) - i + 1] /\ u[i] = t[Len(t) - i + 1]
    BY <1>1, <1>2, <1>4 DEF Reverse
  <2>2. Len(s) - i + 1 \in 1..Len(s) /\ Len(t) - i + 1 = Len(p) + (Len(s) - i + 1)
    BY <1>1, <1>2, <1>4
  <2> QED BY <1>4, <2>1, <2>2
<1> HIDE DEF r, u
<1>6. Len(s) \in Nat /\ Len(p) \in Nat
  BY <1>1, <1>2
<1>7. /\ SubSeq(r, 1, Len(s)) \in Seq(Int) /\ Len(SubSeq(r, 1, Len(s))) = Len(s)
      /\ \A i \in 1..Len(s) : SubSeq(r, 1, Len(s))[i] = r[i]
  BY <1>3, <1>6
<1>8. /\ SubSeq(u, 1, Len(s)) \in Seq(Int) /\ Len(SubSeq(u, 1, Len(s))) = Len(s)
      /\ \A i \in 1..Len(s) : SubSeq(u, 1, Len(s))[i] = u[i]
  BY <1>3, <1>4, <1>6
<1>9. SubSeq(r, 1, Len(s)) = SubSeq(u, 1, Len(s))
  BY <1>5, <1>7, <1>8, SeqEqual
<1>10. IsPrefix(r, u)
  BY <1>3, <1>4, <1>6, <1>9 DEF IsPrefix
<1> QED BY <1>10 DEF IsSuffix, r, u

\* Bubble b becomes f when the events of w have been shown.
Reaches(b, w, f) ==
  \E B \in [0..Len(w) -> Bubbles] :
    /\ B[0] = b /\ B[Len(w)] = f
    /\ \A i \in 1..Len(w) : B[i] = Shown(B[i - 1], w[i])

LEMMA ReachNone ==
  ASSUME NEW b \in Bubbles, NEW f
  PROVE  Reaches(b, <<>>, f) <=> f = b
<1>1. Reaches(b, <<>>, b)
  <2> DEFINE B == [i \in 0..0 |-> b]
  <2>1. B \in [0..Len(<<>>) -> Bubbles] /\ B[0] = b /\ 1..Len(<<>>) = {} /\ Len(<<>>) = 0
    OBVIOUS
  <2> HIDE DEF B
  <2> QED BY <2>1 DEF Reaches
<1>2. Reaches(b, <<>>, f) => f = b
  BY DEF Reaches
<1> QED BY <1>1, <1>2

LEMMA ReachMore ==
  ASSUME NEW b, NEW w \in Seq(Events), NEW f \in Bubbles, NEW e \in Events, Reaches(b, w, f)
  PROVE  Shown(f, e) \in Bubbles /\ Reaches(b, Append(w, e), Shown(f, e))
<1>1. PICK B \in [0..Len(w) -> Bubbles] :
        /\ B[0] = b /\ B[Len(w)] = f
        /\ \A i \in 1..Len(w) : B[i] = Shown(B[i - 1], w[i])
  BY DEF Reaches
<1>2. PICK h \in Bubbles : h = Shown(f, e)
  BY ShownType
<1>3. PICK v \in Seq(Events) : /\ v = Append(w, e) /\ Len(v) = Len(w) + 1 /\ v[Len(w) + 1] = e
                              /\ \A i \in 1..Len(w) : v[i] = w[i]
  BY AppendFacts
<1> DEFINE C == [i \in 0..Len(v) |-> IF i = Len(v) THEN h ELSE B[i]]
<1>4. Len(w) \in Nat
  OBVIOUS
<1>5. C \in [0..Len(v) -> Bubbles] /\ C[0] = b /\ C[Len(v)] = h
      /\ \A i \in 0..Len(w) : C[i] = B[i]
  BY <1>1, <1>3, <1>4
<1> HIDE DEF C
<1>6. ASSUME NEW i \in 1..Len(v) PROVE C[i] = Shown(C[i - 1], v[i])
  <2>1. CASE i = Len(v)
    <3>1. i - 1 = Len(w) /\ v[i] = e /\ C[i - 1] = f
      BY <1>1, <1>3, <1>4, <1>5, <2>1
    <3> QED BY <1>2, <1>5, <2>1, <3>1
  <2>2. CASE i # Len(v)
    <3>1. i \in 1..Len(w) /\ i - 1 \in 0..Len(w) /\ i \in 0..Len(w)
      BY <1>3, <1>4, <2>2
    <3> QED BY <1>1, <1>3, <1>5, <3>1
  <2> QED BY <2>1, <2>2
<1> QED BY <1>2, <1>3, <1>5, <1>6 DEF Reaches

LEMMA ReachLess ==
  ASSUME NEW b, NEW w \in Seq(Events), w # <<>>, NEW f, Reaches(b, w, f)
  PROVE  Reaches(Shown(b, Head(w)), Tail(w), f)
<1>1. PICK B \in [0..Len(w) -> Bubbles] :
        /\ B[0] = b /\ B[Len(w)] = f
        /\ \A i \in 1..Len(w) : B[i] = Shown(B[i - 1], w[i])
  BY DEF Reaches
<1>2. PICK v \in Seq(Events) : /\ v = Tail(w) /\ Len(v) = Len(w) - 1
                              /\ \A i \in 1..Len(v) : v[i] = w[i + 1]
  BY TailFacts
<1>3. Len(w) \in Nat \ {0} /\ Head(w) = w[1]
  BY TailFacts
<1> DEFINE C == [i \in 0..Len(v) |-> B[i + 1]]
<1>4. C \in [0..Len(v) -> Bubbles] /\ C[Len(v)] = f /\ C[0] = B[1]
      /\ \A i \in 0..Len(v) : C[i] = B[i + 1]
  BY <1>1, <1>2, <1>3
<1>5. B[1] = Shown(b, Head(w))
  <2>1. 1 \in 1..Len(w) /\ 1 - 1 = 0
    BY <1>3
  <2> QED BY <1>1, <1>3, <2>1
<1> HIDE DEF C
<1>6. ASSUME NEW i \in 1..Len(v) PROVE C[i] = Shown(C[i - 1], v[i])
  <2>1. /\ i + 1 \in 1..Len(w) /\ (i + 1) - 1 = i /\ i \in 0..Len(v) /\ i - 1 \in 0..Len(v)
        /\ (i - 1) + 1 = i
    BY <1>2, <1>3
  <2>2. B[i + 1] = Shown(B[(i + 1) - 1], w[i + 1])
    BY <1>1, <2>1
  <2> QED BY <1>2, <1>4, <2>1, <2>2
<1> QED BY <1>2, <1>4, <1>5, <1>6 DEF Reaches

-----------------------------------------------------------------------------
(* What is stored of the answer, and what is shown of it                     *)

Early == {"idle", "requested", "streaming", "checked"}

AnswersIn(r, t) == {r[i].text : i \in {j \in 1..Len(r) : r[j].role = "answer" /\ r[j].turn = t}}

\* An answer is stored when the stream has been checked, not before.
Unanswered ==
  \A t \in Turns : /\ gen[t].pc \in Early => Answers(t) = {}
                   /\ gen[t].pc = "stored" => Answers(t) = {gen[t].content}

\* f, the bubble that has received everything, ends the answer: the one that is
\* being written, or the one that was stored.
Agrees(t, f) ==
  /\ gen[t].pc \in {"requested", "streaming", "checked", "stored"} => Tails(f.text, gen[t].content)
  /\ gen[t].pc \in {"requested", "streaming"} /\ ~gen[t].phase =>
       \A i \in 1..Len(f.cards) : f.cards[i].kind # "call"
  /\ gen[t].pc = "over" => \A text \in Answers(t) : Tails(Visible(f.text), text)

Mirror == \A t \in Turns \ gone : Watched(t) =>
  \E f \in Bubbles : Reaches(bubble, wire[t], f) /\ Agrees(t, f)

LEMMA AnswersMore ==
  ASSUME Typed, NEW t \in Turns, NEW r \in Seq(Msgs), db' = db \o r
  PROVE  Answers(t)' = Answers(t) \cup AnswersIn(r, t)
<1> DEFINE L == Len(db)
<1>1. /\ db \in Seq(Msgs) /\ L \in Nat /\ Len(r) \in Nat /\ DOMAIN db = 1..L
      /\ db' \in Seq(Msgs) /\ DOMAIN db' = 1..(L + Len(r))
      /\ \A i \in 1..L : db'[i] = db[i]
      /\ \A i \in 1..Len(r) : db'[L + i] = r[i]
  <2>1. db \in Seq(Msgs)
    BY DEF Typed
  <2> QED BY <2>1, ConcatFacts
<1> HIDE DEF L
<1>2. \A i \in 1..(L + Len(r)) : i \in 1..L \/ \E k \in 1..Len(r) : i = L + k
  <2> SUFFICES ASSUME NEW i \in 1..(L + Len(r)), i \notin 1..L PROVE \E k \in 1..Len(r) : i = L + k
    OBVIOUS
  <2>1. i - L \in 1..Len(r) /\ i = L + (i - L)
    BY <1>1
  <2> QED BY <2>1
<1>3. \A i \in 1..L : i \in 1..(L + Len(r))
  BY <1>1
<1>4. \A i \in 1..Len(r) : L + i \in 1..(L + Len(r))
  BY <1>1
<1>5. \A x : x \in Answers(t)' <=> \E i \in 1..(L + Len(r)) :
               db'[i].role = "answer" /\ db'[i].turn = t /\ x = db'[i].text
  BY <1>1 DEF Answers
<1>6. \A x : x \in Answers(t) <=> \E i \in 1..L :
               db[i].role = "answer" /\ db[i].turn = t /\ x = db[i].text
  BY <1>1 DEF Answers
<1>7. \A x : x \in AnswersIn(r, t) <=> \E i \in 1..Len(r) :
               r[i].role = "answer" /\ r[i].turn = t /\ x = r[i].text
  BY DEF AnswersIn
<1>8. ASSUME NEW x \in Answers(t)' PROVE x \in Answers(t) \cup AnswersIn(r, t)
  <2>1. PICK i \in 1..(L + Len(r)) : db'[i].role = "answer" /\ db'[i].turn = t /\ x = db'[i].text
    BY <1>5, <1>8
  <2>2. CASE i \in 1..L
    <3>1. db[i].role = "answer" /\ db[i].turn = t /\ x = db[i].text
      BY <1>1, <2>1, <2>2
    <3> QED BY <1>6, <2>2, <3>1
  <2>3. CASE \E k \in 1..Len(r) : i = L + k
    <3>1. PICK k \in 1..Len(r) : db'[i] = r[k]
      BY <1>1, <2>3
    <3>2. r[k].role = "answer" /\ r[k].turn = t /\ x = r[k].text
      BY <2>1, <3>1
    <3> QED BY <1>7, <3>2
  <2> QED BY <1>2, <2>2, <2>3
<1>9. ASSUME NEW x \in Answers(t) \cup AnswersIn(r, t) PROVE x \in Answers(t)'
  <2>1. CASE x \in Answers(t)
    <3>1. PICK i \in 1..L : db[i].role = "answer" /\ db[i].turn = t /\ x = db[i].text
      BY <1>6, <2>1
    <3>2. i \in 1..(L + Len(r)) /\ db'[i] = db[i]
      BY <1>1, <1>3
    <3>3. db'[i].role = "answer" /\ db'[i].turn = t /\ x = db'[i].text
      BY <3>1, <3>2
    <3> QED BY <1>5, <3>2, <3>3
  <2>2. CASE x \in AnswersIn(r, t)
    <3>1. PICK i \in 1..Len(r) : r[i].role = "answer" /\ r[i].turn = t /\ x = r[i].text
      BY <1>7, <2>2
    <3>2. PICK k \in 1..(L + Len(r)) : db'[k] = r[i]
      BY <1>1, <1>4
    <3>3. db'[k].role = "answer" /\ db'[k].turn = t /\ x = db'[k].text
      BY <3>1, <3>2
    <3> QED BY <1>5, <3>3
  <2> QED BY <1>9, <2>1, <2>2
<1> QED BY <1>8, <1>9

LEMMA RowsAnswer ==
  ASSUME NEW t \in Turns, NEW g \in Gens
  PROVE  /\ AnswersIn(Rows(t, g), t) = {g.content}
         /\ \A s \in Turns \ {t} : AnswersIn(Rows(t, g), s) = {}
<1>0. Len(g.tools) \in Nat
  BY DEF Gens, Tools
<1>1. /\ Answer(t, g).role = "answer" /\ Answer(t, g).turn = t /\ Answer(t, g).text = g.content
      /\ Opening(t, g).role = "assistant" /\ Opening(t, g).turn = t
  BY DEF Answer, Opening, Message
<1>2. PICK r \in Seq(Msgs) : r = Rows(t, g)
  BY RowsShape
<1>3. /\ Len(r) \in 1..Len(r) /\ r[Len(r)] = Answer(t, g)
      /\ \A i \in 1..Len(r) : i # Len(r) => r[i].role # "answer"
  <2>1. CASE Len(g.tools) = 0
    <3>1. Len(r) = 1 /\ r[1] = Answer(t, g)
      BY <1>2, <2>1, RowsShape
    <3> QED BY <3>1
  <2>2. CASE Len(g.tools) # 0
    <3> DEFINE n == Len(g.tools)
    <3>1. /\ Len(r) = n + 2 /\ r[1] = Opening(t, g) /\ r[n + 2] = Answer(t, g)
          /\ \A i \in 1..n : r[i + 1].role = "tool"
      BY <1>2, <2>2, RowsShape
    <3> HIDE DEF n
    <3>2. \A i \in 1..(n + 2) : i = 1 \/ i = n + 2 \/ (i - 1 \in 1..n /\ (i - 1) + 1 = i)
      BY <1>0 DEF n
    <3>3. \A i \in 1..(n + 2) : i # n + 2 => r[i].role # "answer"
      BY <1>1, <3>1, <3>2
    <3>4. n + 2 \in 1..(n + 2)
      BY <1>0 DEF n
    <3> QED BY <3>1, <3>3, <3>4
  <2> QED BY <2>1, <2>2
<1>4. \A s : {j \in 1..Len(r) : r[j].role = "answer" /\ r[j].turn = s}
             = IF s = t THEN {Len(r)} ELSE {}
  BY <1>1, <1>3
<1>5. \A s : s # t => AnswersIn(r, s) = {}
  BY <1>4 DEF AnswersIn
<1>6. AnswersIn(r, t) = {g.content}
  BY <1>1, <1>3, <1>4 DEF AnswersIn
<1> QED BY <1>2, <1>5, <1>6

LEMMA Kept ==
  ASSUME NEW t \in Turns, db' = db
  PROVE  Answers(t)' = Answers(t)
BY DEF Answers

LEMMA QuestionKept ==
  ASSUME Typed, NEW t \in Turns, NEW s \in Turns,
         db' = Append(db, Message("user", s, None, None, <<>>))
  PROVE  Answers(t)' = Answers(t)
<1> DEFINE m == Message("user", s, None, None, <<>>)
<1>1. m \in Msgs /\ m.role = "user"
  <2>1. "user" \in Roles /\ None \in Nat /\ <<>> \in Texts
    BY DEF Roles, None, Texts
  <2> QED BY <2>1, MessageType
<1> HIDE DEF m
<1>2. db' = db \o <<m>> /\ <<m>> \in Seq(Msgs)
  BY <1>1, AppendFacts DEF Typed, m
<1>3. AnswersIn(<<m>>, t) = {}
  <2>1. \A j \in 1..Len(<<m>>) : <<m>>[j].role # "answer"
    BY <1>1
  <2> QED BY <2>1 DEF AnswersIn
<1> QED BY <1>2, <1>3, AnswersMore

LEMMA RowsKept ==
  ASSUME Typed, NEW t \in Turns, db' = db \o Rows(t, gen[t])
  PROVE  /\ Answers(t)' = Answers(t) \cup {gen[t].content}
         /\ \A s \in Turns \ {t} : Answers(s)' = Answers(s)
<1>1. PICK r \in Seq(Msgs) : r = Rows(t, gen[t])
  BY RowsShape DEF Typed
<1>2. AnswersIn(r, t) = {gen[t].content} /\ \A s \in Turns \ {t} : AnswersIn(r, s) = {}
  BY <1>1, RowsAnswer DEF Typed
<1>3. db' = db \o r
  BY <1>1
<1>4. Answers(t)' = Answers(t) \cup AnswersIn(r, t)
  BY <1>3, AnswersMore
<1>5. ASSUME NEW s \in Turns \ {t} PROVE Answers(s)' = Answers(s)
  <2>1. Answers(s)' = Answers(s) \cup AnswersIn(r, s)
    BY <1>3, AnswersMore
  <2> QED BY <1>2, <2>1
<1> QED BY <1>2, <1>4, <1>5

\* How a turn goes on, and what that does to its answer.
LEMMA Onward ==
  ASSUME Typed, Listed, Unanswered, NEW t \in Turns, ServerStep(t)
  PROVE  /\ gen'[t].pc \in Early => gen[t].pc \in Early /\ Answers(t)' = {}
         /\ gen'[t].pc = "stored" => Answers(t)' = {gen'[t].content}
         /\ \A s \in Turns \ {t} : gen'[s] = gen[s] /\ Answers(s)' = Answers(s)
<1>0. \A s \in Turns \ {t} : Answers(s)' = Answers(s)
  BY StoreEffect, Kept, QuestionKept, RowsKept
<1>1. \A g, events : Sends(t, g, events) => gen'[t] = g /\ \A s \in Turns \ {t} : gen'[s] = gen[s]
  BY DEF Sends, Typed
<1>2. Over.pc = "over" /\ "over" \notin Early /\ "stored" \notin Early /\ "over" # "stored"
  BY NewGenType DEF Early
<1>3. CASE Accept(t)
  <2>1. PICK g \in Gens : Sends(t, g, <<>>) /\ g.pc = "streaming" /\ gen[t].pc = "requested"
    BY <1>3, AcceptEffect
  <2>2. Answers(t)' = Answers(t)
    BY <1>3, QuestionKept DEF Accept
  <2> QED BY <1>0, <1>1, <2>1, <2>2 DEF Unanswered, Early
<1>4. CASE Chunk(t) \/ ToolCall(t) \/ ToolResult(t) \/ Polish(t)
  <2>1. \E g \in Gens : \E events : /\ Sends(t, g, events) /\ g.pc \in {"streaming", "checked"}
                                /\ gen[t].pc = "streaming" /\ db' = db
    BY <1>4, ChunkEffect, CallEffect, ResultEffect, PolishEffect
  <2> QED BY <1>0, <1>1, <2>1, Kept DEF Unanswered, Early
<1>5. CASE \E events : Sends(t, Over, events)
  BY <1>0, <1>1, <1>2, <1>5
<1>6. CASE Save(t) /\ ~\E events : Sends(t, Over, events)
  <2>1. /\ gen[t].pc = "checked" /\ db' = db \o Rows(t, gen[t])
        /\ Sends(t, [gen[t] EXCEPT !.pc = "stored"], <<>>)
    BY <1>6, SaveEffect
  <2>2. gen'[t].pc = "stored" /\ gen'[t].content = gen[t].content
    BY <1>1, <2>1 DEF Typed, Gens
  <2>3. Answers(t) = {}
    BY <2>1 DEF Unanswered, Early
  <2> QED BY <1>0, <1>1, <1>2, <2>1, <2>2, <2>3, RowsKept
<1>7. CASE Reject(t) \/ LoopFails(t) \/ End(t) \/ Abandon(t)
  BY <1>5, <1>7, BreakEffect, EndEffect, AbandonEffect
<1> QED BY <1>3, <1>4, <1>5, <1>6, <1>7 DEF ServerStep

LEMMA OnlyServer ==
  [Next]_vars => db' = db \/ \E t \in Turns : ServerStep(t)
<1> SUFFICES ASSUME [Next]_vars PROVE db' = db \/ \E t \in Turns : ServerStep(t)
  OBVIOUS
<1>1. CASE UNCHANGED vars
  BY <1>1 DEF vars
<1>2. ASSUME NEW t \in Turns, PageStep(t) \/ Cut(t) \/ Send(t) PROVE db' = db
  BY <1>2 DEF PageStep, OnEvent, OnEnd, Cut, Send
<1>3. CASE Stop \/ Leave
  BY <1>3 DEF Stop, Leave
<1> QED BY <1>1, <1>2, <1>3 DEF Next

LEMMA UnansweredStep == Typed /\ Listed /\ Unanswered /\ [Next]_vars => Unanswered'
<1> SUFFICES ASSUME Typed, Listed, Unanswered, [Next]_vars PROVE Unanswered'
  OBVIOUS
<1>1. ASSUME NEW t \in Turns, ServerStep(t) PROVE Unanswered'
  BY <1>1, Onward DEF Unanswered
<1>2. CASE gen' = gen /\ db' = db
  BY <1>2, Kept DEF Unanswered
<1>3. ASSUME NEW t \in Turns, Send(t) PROVE Unanswered'
  <2>1. gen[t].pc = "idle" /\ db' = db /\ gen' = [gen EXCEPT ![t].pc = "requested"]
    BY <1>3 DEF Send
  <2>2. gen'[t].pc = "requested" /\ \A s \in Turns \ {t} : gen'[s] = gen[s]
    BY <2>1 DEF Typed, Gens
  <2> QED BY <2>1, <2>2, Kept DEF Unanswered, Early
<1>4. ASSUME NEW t \in Turns, PageStep(t) \/ Cut(t) PROVE Unanswered'
  BY <1>2, <1>4 DEF PageStep, OnEvent, OnEnd, Cut
<1>5. CASE Stop \/ Leave \/ UNCHANGED vars
  BY <1>2, <1>5 DEF Stop, Leave, vars
<1> QED BY <1>1, <1>3, <1>4, <1>5 DEF Next

LEMMA SentNone ==
  ASSUME Typed, NEW t \in Turns, NEW g, Sends(t, g, <<>>), NEW f, Reaches(bubble, wire[t], f)
  PROVE  gen'[t] = g /\ Reaches(bubble', wire'[t], f)
<1>1. wire' = wire /\ bubble' = bubble /\ gen' = [gen EXCEPT ![t] = g]
  BY SendsNothing DEF Sends
<1> QED BY <1>1 DEF Typed

LEMMA SentOne ==
  ASSUME Typed, NEW t \in Turns \ gone, NEW g, NEW e \in Events, Sends(t, g, <<e>>),
         NEW f \in Bubbles, Reaches(bubble, wire[t], f)
  PROVE  /\ gen'[t] = g /\ Shown(f, e) \in Bubbles
         /\ Reaches(bubble', wire'[t], Shown(f, e))
<1>1. /\ wire' = [wire EXCEPT ![t] = @ \o <<e>>] /\ bubble' = bubble
      /\ gen' = [gen EXCEPT ![t] = g]
  BY DEF Sends
<1>2. wire[t] \in Seq(Events)
  BY DEF Typed
<1>3. wire'[t] = Append(wire[t], e) /\ gen'[t] = g
  BY <1>1, <1>2, AppendFacts DEF Typed
<1> QED BY <1>1, <1>2, <1>3, ReachMore

LEMMA SentTwo ==
  ASSUME Typed, NEW t \in Turns \ gone, NEW g, NEW d \in Events, NEW e \in Events,
         Sends(t, g, <<d, e>>), NEW f \in Bubbles, Reaches(bubble, wire[t], f)
  PROVE  /\ gen'[t] = g /\ Shown(f, d) \in Bubbles /\ Shown(Shown(f, d), e) \in Bubbles
         /\ Reaches(bubble', wire'[t], Shown(Shown(f, d), e))
<1>1. /\ wire' = [wire EXCEPT ![t] = @ \o <<d, e>>] /\ bubble' = bubble
      /\ gen' = [gen EXCEPT ![t] = g]
  BY DEF Sends
<1>2. wire[t] \in Seq(Events)
  BY DEF Typed
<1>3. wire'[t] = Append(Append(wire[t], d), e) /\ gen'[t] = g
  BY <1>1, <1>2, AppendTwo DEF Typed
<1>4. Shown(f, d) \in Bubbles /\ Reaches(bubble, Append(wire[t], d), Shown(f, d))
  BY <1>2, ReachMore
<1>5. Append(wire[t], d) \in Seq(Events)
  BY <1>2, AppendFacts
<1>6. Shown(Shown(f, d), e) \in Bubbles
      /\ Reaches(bubble, Append(Append(wire[t], d), e), Shown(Shown(f, d), e))
  BY <1>4, <1>5, ReachMore
<1> QED BY <1>1, <1>3, <1>4, <1>6

\* What an event does to the text and the cards.
LEMMA ShownParts ==
  ASSUME NEW f \in Bubbles, NEW e \in Events
  PROVE  /\ e.kind = "chunk" => /\ Shown(f, e).text = Append(f.text, e.of)
                                /\ Shown(f, e).cards = f.cards
         /\ e.kind = "replace" => Shown(f, e).text = Replaced /\ Shown(f, e).cards = f.cards
         /\ e.kind = "call" =>
              Shown(f, e).text = IF \E i \in 1..Len(f.cards) : f.cards[i].kind = "call"
                                 THEN f.text ELSE <<>>
         /\ e.kind = "result" =>
              /\ Shown(f, e).text = f.text
              /\ (\A i \in 1..Len(f.cards) : f.cards[i].kind # "call") =>
                   \A i \in 1..Len(Shown(f, e).cards) : Shown(f, e).cards[i].kind # "call"
         /\ e.kind \notin {"chunk", "replace", "call", "result"} => Shown(f, e) = Closed(f)
<1>1. f.cards \in Seq(Cards) /\ e.of \in Int /\ DOMAIN f.cards = 1..Len(f.cards)
  BY DEF Bubbles, Hand, Events
<1>2. CASE e.kind = "chunk" \/ e.kind = "replace"
  BY <1>2 DEF Shown, Bubbles
<1>3. CASE e.kind = "call"
  BY <1>1, <1>3 DEF Shown, WithCall, Bubbles
<1>4. CASE e.kind = "result"
  <2>1. Shown(f, e) = WithResult(f, e.of) /\ Shown(f, e).text = f.text
    BY <1>4 DEF Shown, WithResult, Bubbles
  <2>2. ASSUME \A i \in 1..Len(f.cards) : f.cards[i].kind # "call"
        PROVE  \A i \in 1..Len(Shown(f, e).cards) : Shown(f, e).cards[i].kind # "call"
    <3> DEFINE c == Card("result", e.of, e.of)
    <3>1. c \in Cards /\ c.kind = "result"
      BY <1>1 DEF Card, Cards
    <3>2. {i \in DOMAIN f.cards : f.cards[i].kind = "call" /\ f.cards[i].id = e.of} = {}
      BY <1>1, <2>2
    <3>3. Shown(f, e).cards = Append(f.cards, c)
      BY <2>1, <3>2 DEF WithResult, Bubbles
    <3> HIDE DEF c
    <3> QED BY <1>1, <2>2, <3>1, <3>3, AppendFacts
  <2> QED BY <1>4, <2>1, <2>2
<1>5. CASE e.kind \notin {"chunk", "replace", "call", "result"}
  BY <1>5 DEF Shown
<1> QED BY <1>2, <1>3, <1>4, <1>5

\* Closing a bubble changes nothing that can be seen.
LEMMA ClosedVisible ==
  ASSUME NEW f \in Bubbles
  PROVE  Visible(Closed(f).text) = Visible(f.text)
<1>1. Fallback # <<>>
  BY DEF Fallback
<1>2. Closed(f).text = IF f.text = <<>> THEN Fallback ELSE f.text
  BY DEF Closed, Bubbles
<1> QED BY <1>1, <1>2 DEF Visible

LEMMA VisibleTails ==
  ASSUME NEW s \in Texts, NEW t \in Texts, Tails(s, t)
  PROVE  Tails(Visible(s), t)
BY TailsFacts DEF Visible

\* A turn that broke off stores no answer, so that all it shows is right.
LEMMA BrokenMirror ==
  ASSUME Typed, NEW t \in Turns \ gone, NEW events \in Broken, Sends(t, Over, events),
         Answers(t)' = {}, NEW f \in Bubbles, Reaches(bubble, wire[t], f)
  PROVE  \E h \in Bubbles : Reaches(bubble', wire'[t], h) /\ Agrees(t, h)'
<1>0. Ev("fail", None) \in Events /\ Ev("error", None) \in Events /\ Ev("close", None) \in Events
  BY EvType DEF Kinds, None
<1>1. gen'[t] = Over /\ \E h \in Bubbles : Reaches(bubble', wire'[t], h)
  <2>1. CASE events = <<Ev("fail", None)>>
    BY <1>0, <2>1, SentOne
  <2>2. CASE events = <<Ev("error", None), Ev("close", None)>>
    BY <1>0, <2>2, SentTwo
  <2> QED BY <2>1, <2>2 DEF Broken
<1>2. \A h \in Bubbles : Agrees(t, h)'
  BY <1>1, NewGenType DEF Agrees
<1> QED BY <1>1, <1>2

LEMMA CallMirror ==
  ASSUME Typed, Listed, NEW t \in Turns \ gone, ToolCall(t), NEW f \in Bubbles,
         Reaches(bubble, wire[t], f), Agrees(t, f)
  PROVE  \E h \in Bubbles : Reaches(bubble', wire'[t], h) /\ Agrees(t, h)'
<1>1. PICK g \in Gens, k \in Nat \ {0} :
           /\ Sends(t, g, <<Ev("call", k)>>)
           /\ g.phase = TRUE /\ gen[t].pc = "streaming" /\ g.pc = "streaming"
           /\ g.content = IF gen[t].phase THEN gen[t].content ELSE <<>>
  BY CallEffect
<1>2. Ev("call", k) \in Events /\ Ev("call", k).kind = "call"
  BY EvType DEF Kinds
<1>3. PICK h \in Bubbles : /\ h = Shown(f, Ev("call", k)) /\ gen'[t] = g
                           /\ Reaches(bubble', wire'[t], h)
  BY <1>1, <1>2, SentOne
<1>4. h.text = IF \E i \in 1..Len(f.cards) : f.cards[i].kind = "call" THEN f.text ELSE <<>>
  BY <1>2, <1>3, ShownParts
<1>5. f.text \in Texts /\ g.content \in Texts /\ gen[t].content \in Texts
  BY DEF Typed, Bubbles, Gens
<1>6. Tails(h.text, g.content)
  <2>1. CASE \E i \in 1..Len(f.cards) : f.cards[i].kind = "call"
    <3>1. gen[t].phase
      BY <1>1, <2>1 DEF Agrees
    <3> QED BY <1>1, <1>4, <2>1, <3>1 DEF Agrees
  <2>2. CASE ~\E i \in 1..Len(f.cards) : f.cards[i].kind = "call"
    BY <1>4, <1>5, <2>2, TailsFacts
  <2> QED BY <2>1, <2>2
<1> QED BY <1>1, <1>3, <1>6 DEF Agrees

LEMMA PolishMirror ==
  ASSUME Typed, Listed, NEW t \in Turns \ gone, Polish(t), NEW f \in Bubbles,
         Reaches(bubble, wire[t], f), Agrees(t, f)
  PROVE  \E h \in Bubbles : Reaches(bubble', wire'[t], h) /\ Agrees(t, h)'
<1>1. PICK g \in Gens, polished \in BOOLEAN, warned \in BOOLEAN :
           /\ Sends(t, g, PolishedEvents(polished, warned))
           /\ g.content = PolishedText(gen[t].content, polished, warned)
           /\ gen[t].pc = "streaming" /\ g.pc = "checked"
  BY PolishEffect
<1>2. /\ Ev("replace", None) \in Events /\ Ev("replace", None).kind = "replace"
      /\ Ev("chunk", Warning) \in Events /\ Ev("chunk", Warning).kind = "chunk"
      /\ Ev("chunk", Warning).of = Warning /\ Warning \in Int
  BY EvType DEF Kinds, None, Warning
<1>3. f.text \in Texts /\ gen[t].content \in Texts /\ Replaced \in Texts
  BY DEF Typed, Bubbles, Gens, Replaced, Texts
<1>4. Tails(f.text, gen[t].content) /\ Tails(Replaced, Replaced)
  BY <1>1, <1>3, TailsFacts DEF Agrees
<1>5. \A c \in Texts : c \o <<>> = c /\ c \o <<Warning>> = Append(c, Warning)
  BY <1>2, AppendFacts, AppendNone DEF Texts
<1>a. PolishedText(gen[t].content, polished, warned) =
        IF polished THEN IF warned THEN Append(Replaced, Warning) ELSE Replaced
                    ELSE IF warned THEN Append(gen[t].content, Warning) ELSE gen[t].content
  BY <1>3, <1>5 DEF PolishedText
<1>b. PolishedEvents(polished, warned) =
        IF polished THEN IF warned THEN <<Ev("replace", None), Ev("chunk", Warning)>>
                                   ELSE <<Ev("replace", None)>>
                    ELSE IF warned THEN <<Ev("chunk", Warning)>> ELSE <<>>
  BY EmptySeqJoin, PairJoin DEF PolishedEvents
<1>6. \E h \in Bubbles : /\ gen'[t] = g /\ Reaches(bubble', wire'[t], h)
                         /\ Tails(h.text, g.content)
  <2>1. CASE ~polished /\ ~warned
    <3>1. PolishedEvents(polished, warned) = <<>> /\ g.content = gen[t].content
      BY <1>1, <1>a, <1>b, <2>1
    <3>2. Sends(t, g, <<>>) /\ Tails(f.text, g.content)
      BY <1>1, <1>4, <3>1
    <3>3. gen'[t] = g /\ Reaches(bubble', wire'[t], f)
      BY <3>2, SentNone
    <3> QED BY <3>2, <3>3, Zenon
  <2>2. CASE polished /\ ~warned
    <3>1. PolishedEvents(polished, warned) = <<Ev("replace", None)>> /\ g.content = Replaced
      BY <1>1, <1>a, <1>b, <2>2
    <3> DEFINE h == Shown(f, Ev("replace", None))
    <3>2. h \in Bubbles /\ gen'[t] = g /\ Reaches(bubble', wire'[t], h)
      BY <1>1, <1>2, <3>1, SentOne
    <3>3. h.text = Replaced
      BY <1>2, ShownParts
    <3> QED BY <1>4, <3>1, <3>2, <3>3
  <2>3. CASE ~polished /\ warned
    <3>1. /\ PolishedEvents(polished, warned) = <<Ev("chunk", Warning)>>
          /\ g.content = Append(gen[t].content, Warning)
      BY <1>1, <1>a, <1>b, <2>3
    <3> DEFINE h == Shown(f, Ev("chunk", Warning))
    <3>2. h \in Bubbles /\ gen'[t] = g /\ Reaches(bubble', wire'[t], h)
      BY <1>1, <1>2, <3>1, SentOne
    <3>3. h.text = Append(f.text, Warning)
      BY <1>2, ShownParts
    <3>4. Tails(Append(f.text, Warning), Append(gen[t].content, Warning))
      BY <1>2, <1>3, <1>4, TailsFacts
    <3> QED BY <3>1, <3>2, <3>3, <3>4
  <2>4. CASE polished /\ warned
    <3>1. /\ PolishedEvents(polished, warned) = <<Ev("replace", None), Ev("chunk", Warning)>>
          /\ g.content = Append(Replaced, Warning)
      BY <1>1, <1>a, <1>b, <2>4
    <3> DEFINE m == Shown(f, Ev("replace", None))
               h == Shown(m, Ev("chunk", Warning))
    <3>2. m \in Bubbles /\ h \in Bubbles /\ gen'[t] = g /\ Reaches(bubble', wire'[t], h)
      BY <1>1, <1>2, <3>1, SentTwo
    <3>3. m.text = Replaced
      BY <1>2, ShownParts
    <3> HIDE DEF m
    <3>4. h.text = Append(Replaced, Warning)
      BY <1>2, <3>2, <3>3, ShownParts
    <3>5. Tails(Append(Replaced, Warning), Append(Replaced, Warning))
      BY <1>2, <1>3, <1>4, TailsFacts
    <3> QED BY <3>1, <3>2, <3>4, <3>5
  <2> QED BY <2>1, <2>2, <2>3, <2>4
<1> QED BY <1>1, <1>6 DEF Agrees

LEMMA ServerMirror ==
  ASSUME Typed, Listed, Unanswered, NEW t \in Turns \ gone, ServerStep(t),
         NEW f \in Bubbles, Reaches(bubble, wire[t], f), Agrees(t, f)
  PROVE  \E h \in Bubbles : Reaches(bubble', wire'[t], h) /\ Agrees(t, h)'
<1>0. f.text \in Texts /\ gen[t].content \in Texts /\ gen[t] \in Gens
  BY DEF Typed, Bubbles, Gens
<1>1. CASE Accept(t)
  <2>1. PICK g \in Gens : /\ Sends(t, g, <<>>) /\ Same(g, gen[t]) /\ g.pc = "streaming"
                          /\ g.content = gen[t].content /\ gen[t].pc = "requested"
    BY <1>1, AcceptEffect
  <2>2. gen'[t] = g /\ Reaches(bubble', wire'[t], f)
    BY <2>1, SentNone
  <2> QED BY <2>1, <2>2 DEF Agrees, Same
<1>2. CASE Chunk(t)
  <2>1. PICK g \in Gens, n \in Nat \ {0} :
           /\ Sends(t, g, <<Ev("chunk", n)>>) /\ Same(g, gen[t])
           /\ g.content = Append(gen[t].content, n)
           /\ gen[t].pc = "streaming" /\ g.pc = "streaming"
    BY <1>2, ChunkEffect
  <2>2. Ev("chunk", n) \in Events /\ Ev("chunk", n).kind = "chunk" /\ Ev("chunk", n).of = n
        /\ n \in Int
    BY EvType DEF Kinds
  <2>3. PICK h \in Bubbles : /\ h = Shown(f, Ev("chunk", n)) /\ gen'[t] = g
                             /\ Reaches(bubble', wire'[t], h)
    BY <2>1, <2>2, SentOne
  <2>4. h.text = Append(f.text, n) /\ h.cards = f.cards
    BY <2>2, <2>3, ShownParts
  <2>5. Tails(h.text, g.content)
    BY <1>0, <2>1, <2>2, <2>4, TailsFacts DEF Agrees
  <2> QED BY <2>1, <2>3, <2>4, <2>5 DEF Agrees, Same
<1>3. CASE ToolCall(t)
  BY <1>3, CallMirror
<1>4. CASE ToolResult(t)
  <2>1. PICK g \in Gens, k \in Nat :
           /\ Sends(t, g, <<Ev("result", k)>>) /\ g.phase = gen[t].phase
           /\ gen[t].pc = "streaming" /\ g.pc = "streaming" /\ g.content = gen[t].content
    BY <1>4, ResultEffect
  <2>2. Ev("result", k) \in Events /\ Ev("result", k).kind = "result"
    BY EvType DEF Kinds
  <2>3. PICK h \in Bubbles : /\ h = Shown(f, Ev("result", k)) /\ gen'[t] = g
                             /\ Reaches(bubble', wire'[t], h)
    BY <2>1, <2>2, SentOne
  <2>4. h.text = f.text
        /\ ((\A i \in 1..Len(f.cards) : f.cards[i].kind # "call") =>
             \A i \in 1..Len(h.cards) : h.cards[i].kind # "call")
    BY <2>2, <2>3, ShownParts
  <2> QED BY <2>1, <2>3, <2>4 DEF Agrees
<1>5. CASE \E events \in Broken : gen[t].pc \in Early /\ db' = db /\ Sends(t, Over, events)
  <2>1. Answers(t)' = {}
    BY <1>5, Kept DEF Unanswered
  <2> QED BY <1>5, <2>1, BrokenMirror
<1>6. CASE Reject(t) \/ LoopFails(t)
  BY <1>5, <1>6, BreakEffect DEF Early
<1>7. CASE Polish(t)
  BY <1>7, PolishMirror
<1>8. CASE Save(t)
  <2>1. CASE /\ gen[t].pc = "checked" /\ db' = db \o Rows(t, gen[t])
             /\ Sends(t, [gen[t] EXCEPT !.pc = "stored"], <<>>)
    <3> DEFINE n == [gen[t] EXCEPT !.pc = "stored"]
    <3>0. n \in Gens /\ n.pc = "stored" /\ n.content = gen[t].content
      BY <1>0 DEF Gens, Pcs
    <3>1. PICK g \in Gens : g = n /\ g.pc = "stored" /\ g.content = gen[t].content
      BY <3>0
    <3>2. gen'[t] = g /\ Reaches(bubble', wire'[t], f)
      BY <2>1, <3>1, SentNone
    <3> QED BY <2>1, <3>1, <3>2 DEF Agrees
  <2> QED BY <1>5, <1>8, <2>1, SaveEffect DEF Early
<1>9. CASE End(t)
  <2>1. /\ gen[t].pc = "stored" /\ db' = db
        /\ Sends(t, Over, <<Ev("done", None), Ev("close", None)>>)
    BY <1>9, EndEffect
  <2> DEFINE d == Ev("done", None)
             e == Ev("close", None)
  <2>2. d \in Events /\ e \in Events /\ d.kind = "done" /\ e.kind = "close"
    BY EvType DEF Kinds, None
  <2> HIDE DEF d, e
  <2>3. /\ gen'[t] = Over /\ Shown(f, d) \in Bubbles /\ Shown(Shown(f, d), e) \in Bubbles
        /\ Reaches(bubble', wire'[t], Shown(Shown(f, d), e))
    BY <2>1, <2>2, SentTwo DEF d, e
  <2>4. Shown(f, d) = Closed(f) /\ Shown(Shown(f, d), e) = Closed(Closed(f))
    BY <2>2, <2>3, ShownParts
  <2>5. Closed(Closed(f)) \in Bubbles /\ Visible(Closed(Closed(f)).text) = Visible(f.text)
    BY <2>3, <2>4, ClosedVisible
  <2>6. Answers(t)' = {gen[t].content}
    BY <2>1, Kept DEF Unanswered
  <2>7. Tails(Visible(f.text), gen[t].content)
    BY <1>0, <2>1, VisibleTails DEF Agrees
  <2> QED BY <2>3, <2>4, <2>5, <2>6, <2>7, NewGenType DEF Agrees
<1>10. ~Abandon(t)
  BY DEF Abandon
<1> QED BY <1>1, <1>2, <1>3, <1>4, <1>6, <1>7, <1>8, <1>9, <1>10 DEF ServerStep

\* The last event of a stream closes the bubble, or leaves it as it is.
LEMMA EndMirror ==
  ASSUME Typed, PageInv, NEW t \in Turns \ gone, OnEnd(t), NEW f \in Bubbles,
         Reaches(bubble, wire[t], f), Agrees(t, f)
  PROVE  \E h \in Bubbles : Reaches(bubble', wire'[t], h) /\ Agrees(t, h)'
<1>0. wire[t] \in Seq(Events) /\ wire[t] # <<>> /\ bubble \in Bubbles
  BY DEF Typed, OnEnd
<1>1. /\ wire[t][1].kind \in Ends /\ wire' = [wire EXCEPT ![t] = <<>>]
      /\ UNCHANGED <<gen, db>> /\ bubble' \in {bubble, Closed(bubble)}
  BY <1>0 DEF OnEnd, Ends
<1>2. 1 \in 1..Len(wire[t]) /\ wire[t][1] \in Events /\ Head(wire[t]) = wire[t][1]
  BY <1>0
<1>3. Len(wire[t]) = 1 /\ gen[t].pc = "over"
  BY <1>1, <1>2 DEF PageInv, Order
<1>4. Tail(wire[t]) = <<>>
  <2>1. PICK v \in Seq(Events) : v = Tail(wire[t]) /\ Len(v) = Len(wire[t]) - 1
    BY <1>0, TailFacts
  <2>2. Len(v) = 0
    BY <1>3, <2>1
  <2> QED BY <2>1, <2>2
<1>5. Shown(bubble, wire[t][1]) = Closed(bubble)
  BY <1>0, <1>1, <1>2, ShownParts DEF Ends
<1>6. f = Closed(bubble)
  <2>1. Reaches(Closed(bubble), <<>>, f)
    BY <1>0, <1>2, <1>4, <1>5, ReachLess
  <2> QED BY <1>0, <2>1, ClosedType, ReachNone
<1>7. PICK h \in Bubbles : h = bubble' /\ Visible(h.text) = Visible(f.text)
  BY <1>0, <1>1, <1>6, ClosedType, ClosedVisible
<1>8. Reaches(bubble', wire'[t], h)
  <2>1. wire'[t] = <<>>
    BY <1>1 DEF Typed
  <2> QED BY <1>7, <2>1, ReachNone
<1>9. gen'[t].pc = "over" /\ Answers(t)' = Answers(t)
  BY <1>1, <1>3, Kept
<1>10. \A text \in Answers(t) : Tails(Visible(h.text), text)
  BY <1>3, <1>7 DEF Agrees
<1> QED BY <1>8, <1>9, <1>10 DEF Agrees

LEMMA MirrorStep ==
  Typed /\ Listed /\ PageInv /\ Unanswered /\ Mirror /\ [Next]_vars => Mirror'
<1> SUFFICES ASSUME Typed, Listed, PageInv, Unanswered, Mirror, [Next]_vars,
                    NEW t \in Turns, t \notin gone', Watched(t)'
             PROVE  \E h \in Bubbles : Reaches(bubble', wire'[t], h) /\ Agrees(t, h)'
  BY DEF Mirror
<1>0. bubble \in Bubbles /\ t # None
  BY NoTurn DEF Typed
<1>1. ASSUME t \notin gone, Watched(t)
      PROVE  \E f \in Bubbles : Reaches(bubble, wire[t], f) /\ Agrees(t, f)
  BY <1>1 DEF Mirror
<1>2. ASSUME NEW s \in Turns, ServerStep(s)
      PROVE  \E h \in Bubbles : Reaches(bubble', wire'[t], h) /\ Agrees(t, h)'
  <2>1. /\ gen[s].pc \notin {"idle", "over"} /\ UNCHANGED <<gone, bubble, left>>
    BY <1>2, ServerEffect DEF Sends
  <2>2. t \notin gone /\ Watched(t)
    BY <2>1 DEF Watched
  <2>3. s = t
    BY <2>1, <2>2 DEF PageInv, Alone, Finished
  <2> QED BY <1>1, <1>2, <2>2, <2>3, ServerMirror
<1>3. ASSUME NEW s \in Turns, Cut(s) PROVE FALSE
  <2>1. gen[s].pc \in Active /\ gone' = gone \cup {s} /\ UNCHANGED <<bubble, left>>
    BY <1>3 DEF Cut
  <2>2. Watched(t) /\ t # s
    BY <2>1 DEF Watched
  <2> QED BY <2>1, <2>2 DEF PageInv, Alone, Finished, Active
<1>4. ASSUME NEW s \in Turns, Send(s)
      PROVE  \E h \in Bubbles : Reaches(bubble', wire'[t], h) /\ Agrees(t, h)'
  <2>1. /\ gen[s].pc = "idle" /\ gen' = [gen EXCEPT ![s].pc = "requested"]
        /\ bubble' = NewBubble(s) /\ UNCHANGED <<wire, db>>
    BY <1>4 DEF Send
  <2>2. /\ NewBubble(s) \in Bubbles /\ NewBubble(s).turn = s /\ NewBubble(s).text = <<>>
        /\ NewBubble(s).cards = <<>>
    BY NewBubbles DEF NewBubble, OldBubble, NoBubble
  <2>3. s = t
    BY <2>1, <2>2 DEF Watched
  <2>4. wire'[t] = <<>> /\ gen'[t].pc = "requested" /\ gen'[t].content = gen[t].content
    BY <2>1, <2>3 DEF PageInv, Unasked, Typed, Gens
  <2>5. gen[t].content \in Texts
    BY DEF Typed, Gens
  <2>6. PICK h \in Bubbles : h = bubble' /\ Reaches(bubble', wire'[t], h)
    BY <2>1, <2>2, <2>4, ReachNone
  <2>7. Tails(<<>>, gen[t].content)
    BY <2>5, TailsFacts
  <2>8. h.text = <<>> /\ \A i \in 1..Len(h.cards) : h.cards[i].kind # "call"
    BY <2>1, <2>2, <2>6
  <2>9. Agrees(t, h)'
    BY <2>4, <2>7, <2>8 DEF Agrees
  <2> QED BY <2>6, <2>9
<1>5. ASSUME NEW s \in Turns, OnEvent(s)
      PROVE  \E h \in Bubbles : Reaches(bubble', wire'[t], h) /\ Agrees(t, h)'
  <2>1. wire[s] \in Seq(Events) /\ wire[s] # <<>> /\ Head(wire[s]) \in Events
    BY <1>5 DEF Typed, OnEvent
  <2>2. /\ wire' = [wire EXCEPT ![s] = Tail(@)] /\ UNCHANGED <<gen, gone, db, left>>
        /\ bubble' \in {bubble, Shown(bubble, Head(wire[s]))}
        /\ bubble.kind = "assistant" => bubble' = Shown(bubble, Head(wire[s]))
    BY <1>5 DEF OnEvent
  <2>3. bubble'.turn = bubble.turn
    BY <1>0, <2>1, <2>2, ShownTurn
  <2>4. Watched(t) /\ t \notin gone
    BY <2>2, <2>3 DEF Watched
  <2>5. s = t /\ bubble.kind = "assistant"
    BY <2>1, <2>4 DEF PageInv, Alone, OnPage, Watched, Finished
  <2>6. PICK f \in Bubbles : Reaches(bubble, wire[t], f) /\ Agrees(t, f)
    BY <1>1, <2>4
  <2>7. wire'[t] = Tail(wire[t])
    BY <2>2, <2>5 DEF Typed
  <2>8. Reaches(bubble', wire'[t], f)
    BY <2>1, <2>2, <2>5, <2>6, <2>7, ReachLess
  <2>9. Agrees(t, f)'
    BY <2>2, <2>6, Kept DEF Agrees
  <2> QED BY <2>8, <2>9
<1>6. ASSUME NEW s \in Turns, OnEnd(s)
      PROVE  \E h \in Bubbles : Reaches(bubble', wire'[t], h) /\ Agrees(t, h)'
  <2>1. wire[s] # <<>> /\ UNCHANGED <<gone, left>> /\ bubble' \in {bubble, Closed(bubble)}
    BY <1>6 DEF OnEnd
  <2>2. bubble'.turn = bubble.turn /\ bubble' \in Bubbles
    BY <1>0, <2>1, ClosedType DEF Closed, Bubbles
  <2>3. Watched(t) /\ t \notin gone
    BY <2>1, <2>2 DEF Watched
  <2>4. s = t
    BY <2>1, <2>3 DEF PageInv, Alone, Finished
  <2> QED BY <1>1, <1>6, <2>2, <2>3, <2>4, EndMirror
<1>7. CASE Stop
  <2>1. /\ bubble' = [bubble EXCEPT !.streaming = FALSE] /\ left' = left \cup Unfinished /\ Busy
    BY <1>7 DEF Stop
  <2>2. Watched(t) /\ t \notin Unfinished
    BY <1>0, <2>1 DEF Watched, Bubbles
  <2>3. gen[t].pc # "idle" /\ (gen[t].pc = "over" => wire[t] # <<>>)
    BY <2>1, <2>2 DEF PageInv, OnPage, Closing, Watched
  <2> QED BY <2>2, <2>3 DEF Unfinished
<1>8. CASE Leave
  <2>1. bubble'.turn = None
    BY <1>8 DEF Leave, NoBubble, OldBubble, UserBubble
  <2> QED BY <1>0, <2>1 DEF Watched
<1>9. CASE UNCHANGED vars
  <2>1. UNCHANGED <<gen, wire, gone, db, bubble, left>>
    BY <1>9 DEF vars
  <2>2. PICK f \in Bubbles : Reaches(bubble, wire[t], f) /\ Agrees(t, f)
    BY <1>1, <2>1 DEF Watched
  <2>3. Agrees(t, f)'
    BY <2>1, <2>2, Kept DEF Agrees
  <2> QED BY <2>1, <2>2, <2>3
<1> QED BY <1>2, <1>3, <1>4, <1>5, <1>6, <1>7, <1>8, <1>9 DEF Next, PageStep

LEMMA AlwaysMirror == Spec => [](Typed /\ Listed /\ PageInv /\ Unanswered /\ Mirror)
<1>1. Init => Unanswered /\ Mirror
  <2> SUFFICES ASSUME Init PROVE Unanswered /\ Mirror
    OBVIOUS
  <2>1. db = <<>> /\ bubble.turn = None /\ \A t \in Turns : gen[t] = NewGen
    BY DEF Init, NoBubble
  <2>2. \A t \in Turns : Answers(t) = {}
    BY <2>1 DEF Answers
  <2>3. NewGen.pc = "idle"
    BY DEF NewGen
  <2> QED BY <2>1, <2>2, <2>3, NoTurn DEF Unanswered, Mirror, Watched
<1> QED BY <1>1, InitPage, TypedStep, PageStepInv, UnansweredStep, MirrorStep, PTL DEF Spec

\* When a turn that was watched to its end is over, what the page shows ends the
\* answer that was stored, however calls, replacements and warnings came between
\* (ShownEndsSaved; sse_generator, chatStore send).
THEOREM ShownKept == Spec => []ShownEndsSaved
<1>1. Typed /\ PageInv /\ Unanswered /\ Mirror => ShownEndsSaved
  <2> SUFFICES ASSUME Typed, PageInv, Unanswered, Mirror, NEW t \in Turns, ShowsEnd(t),
                      NEW text \in Answers(t)
               PROVE  IsSuffix(Visible(bubble.text), text)
    BY DEF ShownEndsSaved
  <2>1. bubble \in Bubbles /\ bubble.text \in Texts /\ gen[t] \in Gens /\ gen[t].content \in Texts
    BY DEF Typed, Bubbles, Gens
  <2>2. PICK f \in Bubbles : Reaches(bubble, wire[t], f) /\ Agrees(t, f)
    BY DEF ShowsEnd, Mirror, Watched
  <2>3. f = bubble
    BY <2>1, <2>2, ReachNone DEF ShowsEnd
  <2>4. gen[t].pc \in {"stored", "over"}
    BY <2>1 DEF Unanswered, Gens, Pcs, Early
  <2>5. Tails(Visible(bubble.text), text)
    <3>1. CASE gen[t].pc = "stored"
      <4>1. text = gen[t].content /\ Tails(bubble.text, text)
        BY <2>2, <2>3, <3>1 DEF Unanswered, Agrees
      <4> QED BY <2>1, <4>1, VisibleTails
    <3>2. CASE gen[t].pc = "over"
      BY <2>2, <2>3, <3>2 DEF Agrees
    <3> QED BY <2>4, <3>1, <3>2
  <2>6. text \in Texts
    <3>1. \A i \in DOMAIN db : db[i] \in Msgs
      BY DEF Typed
    <3> QED BY <3>1 DEF Answers, Msgs
  <2>7. Visible(bubble.text) \in Texts
    BY <2>1 DEF Visible, Texts
  <2> QED BY <2>5, <2>6, <2>7, TailsSuffix
<1> QED BY <1>1, AlwaysMirror, PTL
=============================================================================
