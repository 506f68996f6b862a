------------------------------ MODULE ToolTurn ------------------------------
(***************************************************************************)
(* One question's tool turns: agent/loop_tools.py with the registry's      *)
(* execute_parallel (agent/tools.py).                                      *)
(*                                                                         *)
(* The agent loop hands a batch of tool calls to execute_tool_turn.  The   *)
(* calls run in parallel, or one after the other, their results register   *)
(* citable sources as they arrive, and when all of them are in, the tool   *)
(* messages are appended in call order, the sources are pruned to a        *)
(* budget and the retrieval messages rewritten to the surviving sources.   *)
(* A chunk is a model value; its text matters only through Overlap, its    *)
(* score only through the order of a search result.                        *)
(***************************************************************************)
EXTENDS Integers, Sequences, FiniteSets, SequencesExt

CONSTANTS
  Chunks,      \* what search_docs and web_search can find
  Inventory,   \* the source that list_documents registers
  DocOf,       \* [Chunks -> document key]
  Overlap,     \* pairs of chunks whose texts overlap above the threshold
  MinSources,  \* _MIN_TURN_SOURCES
  MaxResults,  \* bound: results of one search
  MaxCalls,    \* bound: tool calls of one question
  MaxBatch     \* bound: tool calls of one turn

ASSUME ToolTurnAssumption ==
  /\ Inventory \notin Chunks
  /\ MinSources \in Nat /\ MaxResults \in Nat /\ MaxCalls \in Nat /\ MaxBatch \in Nat

Calls == 1..MaxCalls
Citable == Chunks \cup {Inventory}
Tools == {"search", "list_documents", "calculator"}  \* search_docs and web_search alike

VARIABLES
  tool,      \* [Calls -> Tools \cup {"none"}]: "none" is a call not made yet
  found,     \* [Calls -> Seq(Chunks)]: what a search returned, best first
  phase,     \* [Calls -> {"none", "running", "silent", "done"}]
  results,   \* [Calls -> Nat]: tool_result events sent for the call
  batch,     \* the calls of the running turn, in order; <<>> between turns
  serial,    \* whether the running turn executes its calls one by one
  citation,  \* [Citable -> Nat]: citation_by_source, 0 when there is none
  sources,   \* state.sources, in order
  messages   \* the retrieval messages the model reads: [call, turn, catalog]

toolVars == <<tool, found, phase, results, batch, serial, citation, sources, messages>>

ToolInit ==
  /\ tool = [k \in Calls |-> "none"]
  /\ found = [k \in Calls |-> <<>>]
  /\ phase = [k \in Calls |-> "none"]
  /\ results = [k \in Calls |-> 0]
  /\ batch = <<>> /\ serial = FALSE
  /\ citation = [c \in Citable |-> 0]
  /\ sources = <<>> /\ messages = <<>>

-----------------------------------------------------------------------------
\* Those elements of s that are in T, in their order.
Within(s, T) == FoldLeft(LAMBDA kept, x : IF x \in T THEN Append(kept, x) ELSE kept, <<>>, s)

(* Registering sources *)

Cited == {c \in Citable : citation[c] # 0}

\* Results of one search: distinct chunks, best first.
SearchResults == {s \in SeqOf(Chunks, MaxResults) : IsInjective(s)}

\* The chunks of a result that have no citation yet, in rank order.
Fresh(result) == Within(result, Citable \ Cited)

\* mutant: numbered after the sources in hand
RegisterByCount(result) ==
  /\ citation' = [c \in Citable |->
       IF \E i \in 1..Len(Fresh(result)) : Fresh(result)[i] = c
       THEN Len(sources) + (CHOOSE i \in 1..Len(Fresh(result)) : Fresh(result)[i] = c)
       ELSE citation[c]]
  /\ sources' = sources \o Fresh(result)

\* A fresh source gets the number after those given so far; a source cited
\* before keeps its number and is not put back among the sources.
Register(result) ==
  LET new == Fresh(result)
  IN  /\ citation' = [c \in Citable |->
                       IF \E i \in 1..Len(new) : new[i] = c
                       THEN Cardinality(Cited) + (CHOOSE i \in 1..Len(new) : new[i] = c)
                       ELSE citation[c]]
      /\ sources' = sources \o new

-----------------------------------------------------------------------------
(* Pruning: _prune_sources over source_utils.prune_overlapping_sources *)

Least(a, b) == IF a < b THEN a ELSE b
Most(S) == CHOOSE x \in S : \A y \in S : y <= x

\* dedup_overlapping: a chunk that overlaps one kept before it is dropped.
Dedup(s) ==
  FoldLeft(LAMBDA kept, c : IF \E k \in ToSet(kept) : <<k, c>> \in Overlap
                            THEN kept ELSE Append(kept, c), <<>>, s)

\* prune_overlapping_sources: above the cap, three per document at most.
PruneOverlapping(s, cap) ==
  LET ofDoc(d) == Within(s, {c \in Chunks : DocOf[c] = d})
      kept == UNION {ToSet(Dedup(SubSeq(ofDoc(d), 1, Least(3, Len(ofDoc(d)))))) :
                     d \in {DocOf[c] : c \in ToSet(s)}}
  IN  IF Len(s) <= cap
      THEN Dedup(s)
      ELSE LET all == Within(s, kept) IN SubSeq(all, 1, Least(cap, Len(all)))

Pinned ==
  LET pinned == Within(sources, {Inventory})
  IN  SubSeq(pinned, 1, Least(MinSources, Len(pinned)))
Candidates == Within(sources, Chunks)

\* search_group_order: the searches, in the order they were announced.
Searches == {k \in Calls : tool[k] = "search"}
Groups == Within([k \in Calls |-> k], Searches)

\* ranked_by_group: what is left of a search's results.
Ranked(g) == Dedup(Within(found[g], ToSet(Candidates)))

LargestSearch == IF Groups = <<>> THEN Len(Candidates)
                 ELSE Most({Len(Ranked(g)) : g \in ToSet(Groups)})

FairShare == FoldLeft(LAMBDA n, g : n + Least(2, Len(Ranked(g))), 0, Groups)

SourceLimitFlat == Most({MinSources, Len(Pinned) + LargestSearch})   \* mutant

\* turn_source_limit
SourceLimit ==
  Most({MinSources, Len(Pinned) + LargestSearch, Len(Pinned) + FairShare})

Room == SourceLimit - Len(Pinned)

AddNew(sel, c) == IF c \in ToSet(sel) THEN sel ELSE Append(sel, c)

\* A search keeps its best source not chosen yet.
Opportunity(sel, g) ==
  LET left == Within(Ranked(g), Chunks \ ToSet(sel))
  IN  IF left = <<>> THEN sel ELSE Append(sel, Head(left))

\* Two passes over the searches.
Opportunities == FoldLeft(Opportunity, <<>>, Groups \o Groups)

AddAll(sel, s) == FoldLeft(AddNew, sel, s)

Eligible == FoldLeft(LAMBDA sel, g : AddAll(sel, Ranked(g)), <<>>, Groups)

\* Then one source of each document not covered, up to one per search.
AddDocument(acc, c) ==
  IF \/ Len(acc.sel) >= Room
     \/ Cardinality(acc.docs) >= Least(Room, Most({1, Len(Groups)}))
     \/ DocOf[c] \in acc.docs
  THEN acc
  ELSE [sel |-> AddNew(acc.sel, c), docs |-> acc.docs \cup {DocOf[c]}]

DistinctDocuments(sel) ==
  FoldLeft(AddDocument, [sel |-> sel, docs |-> {}], Eligible).sel

\* Then the searches' results rank by rank while there is room.
AddRank(sel, r) ==
  FoldLeft(LAMBDA t, g : IF Len(t) < Room /\ r <= Len(Ranked(g))
                         THEN AddNew(t, Ranked(g)[r]) ELSE t, sel, Groups)

FillByRank(sel) == FoldLeft(AddRank, sel, [r \in 1..MaxResults |-> r])

Selected ==
  IF Len(Groups) <= 1
  THEN PruneOverlapping(Candidates, Room)
  ELSE LET all == FillByRank(DistinctDocuments(Opportunities))
       IN  SubSeq(all, 1, Least(Room, Len(all)))

Pruned == Pinned \o Selected

\* mutant: the earlier catalogs stay
RewrittenLast(msgs, catalog) ==
  [i \in 1..Len(msgs) |->
     IF i = Len(msgs) THEN [msgs[i] EXCEPT !.catalog = catalog] ELSE msgs[i]]

\* Every retrieval message but the last is emptied, the last gets the catalog.
Rewritten(msgs, catalog) ==
  [i \in 1..Len(msgs) |->
     [msgs[i] EXCEPT !.catalog = IF i = Len(msgs) THEN catalog ELSE <<>>]]

-----------------------------------------------------------------------------
(* The steps of execute_tool_turn *)

\* Call ids are new.
NextCall == Cardinality({k \in Calls : tool[k] # "none"}) + 1

\* The assistant message and one tool_call event per call.
Announce ==
  /\ batch = <<>>
  /\ \E n \in 1..MaxBatch :
       /\ NextCall + n - 1 <= MaxCalls
       /\ batch' = [i \in 1..n |-> NextCall + i - 1]
       /\ \E f \in [1..n -> Tools] :
            tool' = [k \in Calls |-> IF k \in ToSet(batch') THEN f[k - NextCall + 1] ELSE tool[k]]
       /\ \E b \in BOOLEAN : serial' = (b \/ n = 1)
  /\ phase' = [k \in Calls |-> IF k \in ToSet(batch') THEN "running" ELSE phase[k]]
  /\ UNCHANGED <<found, results, citation, sources, messages>>

\* Serial execution takes the calls in order.
MayComplete(k) ==
  /\ k \in ToSet(batch) /\ phase[k] = "running"
  /\ serial => \A j \in ToSet(batch) : j < k => phase[j] # "running"

\* emit_result for a call that succeeded: register, then the tool_result event.
Succeed(k) ==
  /\ MayComplete(k)
  /\ \/ /\ tool[k] = "search"
        /\ \E s \in SearchResults : found' = [found EXCEPT ![k] = s] /\ Register(s)
     \/ /\ tool[k] = "list_documents"
        /\ Register(<<Inventory>>) /\ UNCHANGED found
     \/ /\ tool[k] = "calculator"
        /\ UNCHANGED <<found, citation, sources>>
  /\ phase' = [phase EXCEPT ![k] = "done"]
  /\ results' = [results EXCEPT ![k] = @ + 1]
  /\ UNCHANGED <<tool, batch, serial, messages>>

\* emit_result for a call that failed or timed out.
FailCall(k) ==
  /\ MayComplete(k)
  /\ phase' = [phase EXCEPT ![k] = "done"]
  /\ results' = [results EXCEPT ![k] = @ + 1]
  /\ UNCHANGED <<tool, found, batch, serial, citation, sources, messages>>

\* Parallel execution returns a parameter error without the callback.
Invalid(k) ==
  /\ MayComplete(k) /\ ~serial
  /\ phase' = [phase EXCEPT ![k] = "silent"]
  /\ UNCHANGED <<tool, found, results, batch, serial, citation, sources, messages>>

\* The results the callback did not announce are announced now.
Announced == [k \in Calls |-> IF phase[k] = "silent" THEN results[k] + 1 ELSE results[k]]

\* The turn's retrieval messages, in call order, failed searches included.
TurnMessages ==
  LET calls == Within(batch, Searches)
  IN  [i \in 1..Len(calls) |-> [call |-> calls[i], turn |-> Head(batch), catalog |-> <<>>]]

\* trim_messages keeps the newest turns, each as a whole.
Trimmed(msgs) ==
  {SubSeq(msgs, first, Len(msgs)) :
     first \in {i \in 1..(Len(msgs) + 1) :
                 i \in 2..Len(msgs) => msgs[i - 1].turn # msgs[i].turn}}

Collect ==
  /\ batch # <<>>
  /\ \A k \in ToSet(batch) : phase[k] # "running"
  /\ results' = Announced
  /\ phase' = [k \in Calls |-> IF k \in ToSet(batch) THEN "done" ELSE phase[k]]
  /\ sources' = Pruned
  /\ messages' \in Trimmed(Rewritten(messages \o TurnMessages, Pruned))
  /\ batch' = <<>> /\ serial' = FALSE
  /\ UNCHANGED <<tool, found, citation>>

Complete(k) == Succeed(k) \/ FailCall(k) \/ Invalid(k)

ToolNext == Announce \/ Collect \/ \E k \in Calls : Complete(k)

ToolSpec == ToolInit /\ [][ToolNext]_toolVars

-----------------------------------------------------------------------------
(* Properties *)

ToolTypeOK ==
  /\ tool \in [Calls -> Tools \cup {"none"}]
  /\ found \in [Calls -> Seq(Chunks)]
  /\ phase \in [Calls -> {"none", "running", "silent", "done"}]
  /\ results \in [Calls -> Nat]
  /\ batch \in Seq(Calls) /\ serial \in BOOLEAN
  /\ citation \in [Citable -> Nat]
  /\ sources \in Seq(Citable)
  /\ messages \in Seq([call : Calls, turn : Calls, catalog : Seq(Citable)])

\* A citation such as [S3] in an answer names one source for the whole
\* question: no two sources ever share a number, however many were pruned
\* between two searches, and every source in hand is citable and listed once.
CitationsName ==
  /\ \A c, d \in Cited : citation[c] = citation[d] => c = d
  /\ ToSet(sources) \subseteq Cited
  /\ IsInjective(sources)

\* Between turns the model reads exactly the sources the answer will be
\* verified against: the last retrieval message lists them and no earlier
\* message, whatever turns were trimmed, still shows a source.
CatalogIsEvidence ==
  batch = <<>> => \A i \in 1..Len(messages) :
    messages[i].catalog = IF i = Len(messages) THEN sources ELSE <<>>

\* Pruning never silences a search: one that had sources in hand before the
\* pruning keeps one, however the searches compete for the budget.
PruneIsFair ==
  [][\A g \in Calls :
       /\ tool[g] = "search"
       /\ ToSet(found[g]) \cap ToSet(sources) # {}
       => ToSet(found[g]) \cap ToSet(sources') # {}]_toolVars

\* What the comment on the two passes promises (loop_tools.py 341-343): each
\* query that found something has evidence left.  The code breaks it: a source
\* pruned in an earlier turn is not put back when a later search finds it.
SearchKeepsEvidence ==
  batch = <<>> => \A g \in Calls :
    found[g] # <<>> => ToSet(found[g]) \cap ToSet(sources) # {}
=============================================================================
