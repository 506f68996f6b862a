----------------------------- MODULE ChatStream -----------------------------
(***************************************************************************)
(* One conversation seen from both ends: the event stream of a turn and    *)
(* what is stored of it (api/chat.py), and the store of the page that      *)
(* shows it (frontend/src/stores/chatStore.ts).  The agent loop is the     *)
(* source of events (module AgentLoop shows that it ends); the connection  *)
(* keeps their order, and may be cut.                                      *)
(*                                                                         *)
(* A text is a sequence of its chunks, numbered in a turn; 0 stands for a  *)
(* whole text that took the place of another.                              *)
(***************************************************************************)
EXTENDS Integers, SequencesExt, FiniteSetsExt

CONSTANTS
  Questions,  \* bound: turns, numbered in the order they are asked
  MaxCalls,   \* bound: tool calls of each turn
  MaxChunks,  \* bound: answer chunks of each turn
  Wire,       \* bound: events on their way to the page
  Budget,     \* bound: failures, cut connections, stops, and leaving the page
  Troubles    \* bound: how many of these in all

BudgetKinds == {"fail", "cut", "stop", "leave"}

ASSUME ChatAssumption ==
  /\ Questions \in Nat /\ MaxCalls \in [1..Questions -> Nat]
  /\ MaxChunks \in [1..Questions -> Nat] /\ Wire \in Nat \ {0}
  /\ Budget \in [BudgetKinds -> Nat] /\ Troubles \in Nat

VARIABLES
  gen,        \* each turn: calls made and open and chunks of the loop; locals of sse_generator
  wire,       \* each turn: events sent and not yet received
  gone,       \* turns whose connection was cut or aborted
  db,         \* stored messages of the conversation, in order
  ui,         \* sseState
  bubble,     \* the last message on the page
  abortable,  \* the turn abortController can abort, 0 when it is null
  left,       \* turns the page was not watching all the time
  used        \* how much of each Budget was spent

vars == <<gen, wire, gone, db, ui, bubble, abortable, left, used>>

Turns       == 1..Questions
None        == 0
Fallback    == <<-1>>    \* EMPTY_ANSWER_FALLBACK, INTERRUPTED_ANSWER_FALLBACK
Replaced    == <<0>>
Warning     == -2
Ev(k, x)    == [kind |-> k, of |-> x]
\* The page shows nothing, or ends with a message that was loaded from the server.
NoBubble    == [turn |-> None, kind |-> "empty", text |-> <<>>, cards |-> <<>>, streaming |-> FALSE]
OldBubble   == [NoBubble EXCEPT !.kind = "assistant"]
UserBubble  == [NoBubble EXCEPT !.kind = "user"]
NewBubble(t) == [OldBubble EXCEPT !.turn = t, !.streaming = TRUE]
NewGen      == [pc |-> "idle", made |-> {}, open |-> {}, chunks |-> 0,
                content |-> <<>>, pre |-> <<>>, tools |-> <<>>, phase |-> FALSE]
Over        == [NewGen EXCEPT !.pc = "over"]
Active      == {"streaming", "checked", "stored"}

Init ==
  /\ gen = [t \in Turns |-> NewGen]
  /\ wire = [t \in Turns |-> <<>>] /\ gone = {} /\ db = <<>>
  /\ ui = "idle" /\ bubble = NoBubble /\ abortable = None
  /\ left = {} /\ used = [b \in BudgetKinds |-> 0]

Spend(b) ==
  /\ used[b] < Budget[b] /\ FoldFunction(+, 0, used) < Troubles
  /\ used' = [used EXCEPT ![b] = @ + 1]
Unfinished == {t \in Turns : gen[t].pc \notin {"idle", "over"} \/ wire[t] # <<>>}

\* yield: waits for room; nothing arrives on a connection that is gone.
Yield(t, events) ==
  /\ Len(wire[t]) < Wire
  /\ wire' = IF t \in gone THEN wire ELSE [wire EXCEPT ![t] = @ \o events]

-----------------------------------------------------------------------------
(* chat(): the history is read and the question stored.                       *)

\* The assistant message to whose calls a stored tool message is added, 0 for none.
Linked(i) == Max({0} \cup {j \in 1..(i - 1) : db[j].role \in {"assistant", "answer"}})

Message(role, t, id, result, text) ==
  [role |-> role, turn |-> t, id |-> id, result |-> result, text |-> text]

Accept(t) ==
  /\ gen[t].pc = "requested"
  /\ db' = Append(db, Message("user", t, None, None, <<>>))
  /\ gen' = [gen EXCEPT ![t].pc = "streaming"]
  /\ UNCHANGED <<wire, gone, ui, bubble, abortable, left, used>>

Reject(t) ==
  /\ gen[t].pc = "requested" /\ Spend("fail")
  /\ gen' = [gen EXCEPT ![t] = Over]
  /\ Yield(t, <<Ev("fail", None)>>)
  /\ UNCHANGED <<gone, db, ui, bubble, abortable, left>>

-----------------------------------------------------------------------------
(* sse_generator: every event is sent on and collected for the database.      *)

\* A client that is gone is noticed after an event at the earliest.
Streaming(t) == gen[t].pc = "streaming"

Chunk(t) ==
  /\ Streaming(t) /\ gen[t].open = {} /\ gen[t].chunks < MaxChunks[t]
  /\ LET n == gen[t].chunks + 1 IN
     /\ gen' = [gen EXCEPT ![t].chunks = n, ![t].content = Append(@, n)]
     /\ Yield(t, <<Ev("chunk", n)>>)
  /\ UNCHANGED <<gone, db, ui, bubble, abortable, left, used>>

\* The text before the first tool call is no part of the answer.
AtCall(g) == IF g.phase THEN g
             ELSE [g EXCEPT !.phase = TRUE, !.pre = g.content, !.content = <<>>]

ToolCall(t) ==
  /\ Streaming(t)
  /\ \E k \in 1..MaxCalls[t] \ gen[t].made :
       /\ 1..(k - 1) \subseteq gen[t].made
       /\ gen' = [gen EXCEPT ![t] =
            [AtCall(gen[t]) EXCEPT !.made = @ \cup {k}, !.open = @ \cup {k},
                                   !.tools = Append(@, [id |-> k, result |-> None])]]
       /\ Yield(t, <<Ev("call", k)>>)
  /\ UNCHANGED <<gone, db, ui, bubble, abortable, left, used>>

RecordLast(tools, k) == [tools EXCEPT ![Len(tools)].result = k]        \* mutant
\* _record_tool_result: by call_id, the last call when there is no such id.
Record(tools, k) ==
  LET own == {i \in DOMAIN tools : tools[i].id = k}
      i   == IF own = {} THEN Len(tools) ELSE CHOOSE j \in own : \A h \in own : h <= j IN
  [tools EXCEPT ![i].result = k]

\* Tools of one batch run side by side and end in any order.
ToolResult(t) ==
  /\ Streaming(t)
  /\ \E k \in gen[t].open :
       /\ gen' = [gen EXCEPT ![t].open = @ \ {k}, ![t].tools = Record(@, k)]
       /\ Yield(t, <<Ev("result", k)>>)
  /\ UNCHANGED <<gone, db, ui, bubble, abortable, left, used>>

\* An error event, or an exception: the stream ends and nothing is stored.
LoopFails(t) ==
  /\ Streaming(t) /\ Spend("fail")
  /\ gen' = [gen EXCEPT ![t] = Over]
  /\ \E events \in {<<Ev("error", None), Ev("close", None)>>, <<Ev("fail", None)>>} :
       Yield(t, events)
  /\ UNCHANGED <<gone, db, ui, bubble, abortable, left>>

ReplaceSilently(text) == <<>>                                          \* mutant
ReplaceEvents(text) == <<Ev("replace", None)>>

\* The event done: normalize_answer_markdown and _repair_post_stream_citations may put another
\* text in the place of the answer, a strict warning may follow it.
Polish(t) ==
  /\ Streaming(t) /\ gen[t].open = {}
  /\ \E polished \in BOOLEAN, warned \in BOOLEAN :
       /\ gen[t].content = <<>> => ~polished /\ ~warned
       /\ gen' = [gen EXCEPT ![t].pc = "checked",
            ![t].content = (IF polished THEN Replaced ELSE @)
                           \o (IF warned THEN <<Warning>> ELSE <<>>)]
       /\ Yield(t, (IF polished THEN ReplaceEvents(gen[t].content) ELSE <<>>)
                   \o (IF warned THEN <<Ev("chunk", Warning)>> ELSE <<>>))
  /\ UNCHANGED <<gone, db, ui, bubble, abortable, left, used>>

PreambleNonEmpty(t, g) ==                                              \* mutant
  IF g.tools # <<>> /\ g.pre # <<>> THEN <<Message("assistant", t, None, None, g.pre)>> ELSE <<>>
Preamble(t, g) ==
  IF g.tools # <<>> THEN <<Message("assistant", t, None, None, g.pre)>> ELSE <<>>

\* _save_messages: preamble, tool messages and answer in one commit.
Rows(t, g) ==
  Preamble(t, g)
  \o [i \in DOMAIN g.tools |-> Message("tool", t, g.tools[i].id, g.tools[i].result, <<>>)]
  \o <<Message("answer", t, None, None, g.content)>>

Save(t) ==
  /\ gen[t].pc = "checked"
  /\ \/ /\ db' = db \o Rows(t, gen[t])
        /\ gen' = [gen EXCEPT ![t].pc = "stored"] /\ UNCHANGED <<wire, used>>
     \/ /\ Spend("fail") /\ Yield(t, <<Ev("fail", None)>>)
        /\ gen' = [gen EXCEPT ![t] = Over] /\ UNCHANGED db
  /\ UNCHANGED <<gone, ui, bubble, abortable, left>>

End(t) ==
  /\ gen[t].pc = "stored"
  /\ Yield(t, <<Ev("done", None), Ev("close", None)>>)
  /\ gen' = [gen EXCEPT ![t] = Over]
  /\ UNCHANGED <<gone, db, ui, bubble, abortable, left, used>>

\* is_disconnected stores what there is, if there is any text; a generator that
\* is cancelled at an await or closed at a yield stores nothing.
Abandon(t) ==
  /\ t \in gone /\ gen[t].pc \in Active
  /\ db' \in {db} \cup (IF gen[t].pc = "streaming" /\ gen[t].content # <<>>
                        THEN {db \o Rows(t, gen[t])} ELSE {})
  /\ gen' = [gen EXCEPT ![t] = Over]
  /\ UNCHANGED <<wire, gone, ui, bubble, abortable, left, used>>

\* The connection is lost, or ends without the event done.
Cut(t) ==
  /\ t \notin gone /\ gen[t].pc \in Active /\ Spend("cut")
  /\ gone' = gone \cup {t}
  /\ \E end \in {"fail", "close"} : wire' = [wire EXCEPT ![t] = Append(@, Ev(end, None))]
  /\ UNCHANGED <<gen, db, ui, bubble, abortable, left>>

-----------------------------------------------------------------------------
(* The page.  The input is open unless ui is connecting or streaming.         *)

Busy == ui \in {"connecting", "streaming"}

\* Turns that are still being delivered are mixed with the new one.
Send(t) ==
  /\ ~Busy /\ gen[t].pc = "idle" /\ \A s \in Turns : s < t => gen[s].pc # "idle"
  /\ gen' = [gen EXCEPT ![t].pc = "requested"]
  /\ ui' = "connecting" /\ bubble' = NewBubble(t) /\ abortable' = t
  /\ left' = left \cup (IF Unfinished = {} THEN {} ELSE Unfinished \cup {t})
  /\ UNCHANGED <<wire, gone, db, used>>

\* The cards of the bubble: a result replaces the call it belongs to.
Card(kind, k, result) == [kind |-> kind, id |-> k, result |-> result]
WithCall(b, k) ==
  [b EXCEPT !.text = IF \E i \in DOMAIN b.cards : b.cards[i].kind = "call" THEN @ ELSE <<>>,
            !.cards = Append(@, Card("call", k, None))]
WithResult(b, k) ==
  LET own == {i \in DOMAIN b.cards : b.cards[i].kind = "call" /\ b.cards[i].id = k} IN
  [b EXCEPT !.cards = IF own = {} THEN Append(@, Card("result", k, k))
                      ELSE [@ EXCEPT ![CHOOSE i \in own : TRUE] = Card("result", k, k)]]
Closed(b) == [b EXCEPT !.streaming = FALSE, !.text = IF @ = <<>> THEN Fallback ELSE @]

\* The bubble after an event: it is the last message of the page that changes.
Shown(b, e) ==
  CASE e.kind = "chunk"   -> [b EXCEPT !.text = Append(@, e.of)]
    [] e.kind = "replace" -> [b EXCEPT !.text = Replaced]
    [] e.kind = "call"    -> WithCall(b, e.of)
    [] e.kind = "result"  -> WithResult(b, e.of)
    [] OTHER              -> Closed(b)

UiAfter(e) == IF e.kind = "done" THEN "idle" ELSE IF e.kind = "error" THEN "error" ELSE "streaming"

\* An event: an exception on an empty page is taken for a partial frame.
OnEvent(t) ==
  /\ wire[t] # <<>> /\ Head(wire[t]).kind \notin {"close", "fail"}
  /\ wire' = [wire EXCEPT ![t] = Tail(@)]
  /\ IF bubble.kind = "assistant"
     THEN /\ bubble' = Shown(bubble, Head(wire[t]))
          /\ ui' = UiAfter(Head(wire[t])) /\ abortable' = None
     ELSE UNCHANGED <<bubble, ui, abortable>>
  /\ UNCHANGED <<gen, gone, db, left, used>>

UiAfterDoneOnly(e) == IF e.kind = "fail" THEN "error" ELSE ui          \* mutant
\* onError, then onDone; onDone leaves an error.
UiAtEnd(e) == IF e.kind = "fail" \/ ui = "error" THEN "error" ELSE "idle"

\* The end of the stream.  On an empty page both callbacks raise.
OnEnd(t) ==
  /\ wire[t] # <<>> /\ Head(wire[t]).kind \in {"close", "fail"}
  /\ wire' = [wire EXCEPT ![t] = <<>>]
  /\ IF bubble.kind = "empty" THEN UNCHANGED <<bubble, ui, abortable>>
     ELSE /\ bubble' = IF bubble.kind = "assistant" /\ ~(ui = "error" /\ Head(wire[t]).kind = "close")
                       THEN Closed(bubble) ELSE bubble
          /\ ui' = UiAtEnd(Head(wire[t]))
          /\ abortable' = IF ui = "error" /\ Head(wire[t]).kind = "close" THEN abortable ELSE None
  /\ UNCHANGED <<gen, gone, db, left, used>>

\* stop: there is a controller only until the first event has come.
Stop ==
  /\ Busy /\ bubble.kind # "empty" /\ Spend("stop")
  /\ IF abortable = None THEN UNCHANGED <<gone, wire>>
     ELSE /\ gone' = gone \cup {abortable}
          /\ wire' = [wire EXCEPT ![abortable] = <<Ev("close", None)>>]
  /\ bubble' = [bubble EXCEPT !.streaming = FALSE]
  /\ ui' = "idle" /\ abortable' = None /\ left' = left \cup Unfinished
  /\ UNCHANGED <<gen, db>>

\* A new conversation, or another one loaded, while a turn may be running.
Leave ==
  /\ Spend("leave")
  /\ bubble' \in {NoBubble, OldBubble, UserBubble}
  /\ left' = left \cup Unfinished
  /\ UNCHANGED <<gen, wire, gone, db, ui, abortable>>

-----------------------------------------------------------------------------
ServerStep(t) ==
  \/ Accept(t) \/ Reject(t) \/ Chunk(t) \/ ToolCall(t) \/ ToolResult(t) \/ LoopFails(t)
  \/ Polish(t) \/ Save(t) \/ End(t) \/ Abandon(t)
PageStep(t) == OnEvent(t) \/ OnEnd(t)

Next ==
  \/ \E t \in Turns : ServerStep(t) \/ PageStep(t) \/ Cut(t) \/ Send(t)
  \/ Stop \/ Leave

Spec == Init /\ [][Next]_vars

-----------------------------------------------------------------------------
Pcs == {"idle", "requested", "streaming", "checked", "stored", "over"}

TypeOK ==
  /\ \A t \in Turns : gen[t].pc \in Pcs /\ gen[t].open \subseteq gen[t].made
  /\ \A t \in Turns : ToSet(gen[t].tools) \subseteq [id : Nat \ {0}, result : Nat]
  /\ gone \subseteq Turns /\ left \subseteq Turns /\ abortable \in Turns \cup {None}
  /\ ui \in {"idle", "connecting", "streaming", "error"}
  /\ bubble.kind \in {"empty", "user", "assistant"}

\* The answers stored for a turn, one at the most.
Answers(t) == {db[i].text : i \in {j \in DOMAIN db : db[j].role = "answer" /\ db[j].turn = t}}
Visible(text) == IF text = Fallback THEN <<>> ELSE text

\* The page shows turn t, which it watched to its end.
ShowsEnd(t) ==
  t \notin left \cup gone /\ bubble.turn = t /\ ui = "idle" /\ wire[t] = <<>>

\* When a turn that was watched to its end is over, what the page shows ends the
\* answer that was stored, up to its last word (sse_generator, chatStore send).
ShownEndsSaved ==
  \A t \in Turns : ShowsEnd(t) =>
    \A text \in Answers(t) : IsSuffix(Visible(bubble.text), text)

\* The answer that is stored is the answer that was shown: the page resets its
\* text where the backend does ("Mirror that reset", chatStore.ts).
ShownIsSaved ==
  \A t \in Turns : ShowsEnd(t) => Answers(t) \subseteq {Visible(bubble.text)}

\* However the tools of a batch finish, a result is stored with its own call and
\* shown on its own card (_record_tool_result, chatStore tool_result).
ResultsBelong ==
  /\ \A i \in DOMAIN db : db[i].role = "tool" => db[i].result \in {None, db[i].id}
  /\ \A i \in DOMAIN bubble.cards : bubble.cards[i].result \in {None, bubble.cards[i].id}

\* The history a later turn reads can be replayed to the model: every tool message
\* stands behind an assistant message of its own turn, with nothing but tool
\* messages between them, whatever turns ran or broke off side by side.
ChainIntact ==
  \A i \in DOMAIN db : db[i].role = "tool" =>
    /\ Linked(i) # 0
    /\ db[Linked(i)].role = "assistant" /\ db[Linked(i)].turn = db[i].turn
    /\ \A h \in (Linked(i) + 1)..i : db[h].role = "tool"

\* The page never waits in vain: while the input is closed for a turn that was
\* watched, the turn is not over or its last events are still to come, however it
\* ended (onError, onDone; the loop itself ends, AgentLoop).
NeverWaitsInVain ==
  \A t \in Turns \ left :
    (bubble.turn = t /\ Busy) => (gen[t].pc # "over" \/ wire[t] # <<>>)
=============================================================================
