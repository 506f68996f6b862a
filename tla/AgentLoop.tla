------------------------------ MODULE AgentLoop ------------------------------
(***************************************************************************)
(* One question through run_agent_loop (agent/loop.py): the bounded ReAct  *)
(* loop of model calls and tool turns, the streamed or buffered            *)
(* verification of the answer, its repair, the cache, and the forced       *)
(* synthesis when the loop stops without an answer.                        *)
(*                                                                         *)
(* Texts are abstracted to what the code tells apart: a draft is absent,   *)
(* blank or a text; what the client has seen since the last tool call is   *)
(* the set of kinds of its chunks.  Sources and trusted calculator results *)
(* are counted; which sources they are is the matter of ToolTurn.          *)
(***************************************************************************)
EXTENDS Integers, FiniteSets

CONSTANTS
  Confs,        \* the settings and classes of question considered, see ConfType
  SoftLimit,    \* settings.max_loop_iterations
  HardLimit,    \* settings.max_loop_hard_iterations, the larger of the two
  ContextScales,\* len(_CONTEXT_RETRY_SCALES), 3
  RepeatLimit,  \* repeat_limit of detect_repetitive_tool_calls, 3
  MaxSources,   \* bound: sources in hand
  MaxTrusted    \* bound: trusted calculator results

\* guard: grounding verification is on.  stream: answers are verified unit by
\* unit while they stream, which takes grounding_stream_verify and a question
\* that needs no whole-answer validation.  needed: calculator results the
\* question requires, 0 when it requires none.  repair, recovery, cache: the
\* settings for model repair, for retrying an empty answer, for the cache.
ConfType == [guard : BOOLEAN, stream : BOOLEAN, needed : 0..3,
             repair : BOOLEAN, recovery : BOOLEAN, cache : BOOLEAN]

ASSUME LoopAssumption ==
  /\ Confs \subseteq ConfType
  /\ SoftLimit \in Nat /\ HardLimit \in Nat /\ SoftLimit <= HardLimit
  /\ ContextScales \in Nat /\ RepeatLimit \in Nat \ {0}
  /\ MaxSources \in Nat \ {0} /\ MaxTrusted \in Nat

VARIABLES
  conf,       \* the configuration of this question
  pc,         \* where the generator is
  iter,       \* iteration
  limit,      \* _current_loop_limit
  stop,       \* _loop_stop_reason, or "time" after the time limit
  time,       \* what is left of max_total_time: see Times
  cancelled,  \* the event the SSE generator sets when the client leaves
  srcs,       \* number of turn_sources
  trusted,    \* number of _trusted_calculator_results
  idle,       \* _no_progress_rounds
  similar,    \* similar retrieval calls in _tool_call_history
  verRetry,   \* _verification_retries
  ctxRetry,   \* context_retry_index of this iteration
  emptyRetry, \* _empty_response_retries of this iteration
  emptyReason,\* whether _empty_generation_reason is set
  draft,      \* assistant_content: "none", "blank" or "text"
  calls,      \* tool_calls_acc: "none", "search" or "calc"
  held,       \* _stream_needs_repair
  parts,      \* whether _stream_emitted_parts holds text
  final,      \* final_content: "none", or what the checker finds in it, see Grades
  repair,     \* what became of its repair, see Repairs
  shown,      \* kinds of answer chunks sent since the last tool_call event
  stored,     \* kind of the answer put in the cache, "none" if none was
  gens        \* model calls so far, counted up to GenCap

vars == <<conf, pc, iter, limit, stop, time, cancelled, srcs, trusted, idle, similar,
          verRetry, ctxRetry, emptyRetry, emptyReason, draft, calls, held, parts,
          final, repair, shown, stored, gens>>

loopVars   == <<iter, limit, stop, verRetry>>
toolVars   == <<srcs, trusted, idle, similar>>
tryVars    == <<ctxRetry, emptyRetry, emptyReason>>
genVars    == <<draft, calls, held, parts>>
checkVars  == <<final, repair>>
outVars    == <<shown, stored>>
envVars    == <<conf, time, cancelled>>

\* At least 15 s, at least 1.5 s, less, nothing.
Times == <<"ample", "short", "brief", "over">>
TimeLeft(t) == t \in {"ample", "short"}          \* a repair fits

PerPass == 2 + ContextScales                     \* model calls of one pass
GenBound == PerPass * (HardLimit + 1) + 1
GenCap == GenBound + 1

Least(a, b) == IF a < b THEN a ELSE b
Called == gens' = Least(gens + 1, GenCap)

\* The locals of one generation, cleared when no step will read them again.
Forget == draft' = "none" /\ calls' = "none" /\ held' = FALSE /\ parts' = FALSE

Ends == {"done", "error", "raised"}

Init ==
  /\ conf \in Confs
  /\ pc = "top" /\ iter = 0 /\ limit = SoftLimit /\ stop = "limit"
  /\ time = "ample" /\ cancelled = FALSE
  /\ srcs = 0 /\ trusted = 0 /\ idle = 0 /\ similar = 0
  /\ verRetry = 0 /\ ctxRetry = 0 /\ emptyRetry = 0 /\ emptyReason = FALSE
  /\ draft = "none" /\ calls = "none" /\ held = FALSE /\ parts = FALSE
  /\ final = "none" /\ repair = "none" /\ shown = {} /\ stored = "none" /\ gens = 0

Missing == trusted < conf.needed

\* _stream_verify_active
Streaming == srcs > 0 /\ conf.guard /\ conf.stream /\ conf.needed = 0

-----------------------------------------------------------------------------
(* The environment: time passes, the client leaves. *)

Tick ==
  /\ pc \notin Ends
  /\ \E i \in 1..3 : time = Times[i] /\ time' = Times[i + 1]
  /\ UNCHANGED <<conf, pc, cancelled, checkVars, loopVars, toolVars, tryVars, genVars, outVars, gens>>

Leave ==
  /\ pc \notin Ends /\ ~cancelled
  /\ cancelled' = TRUE
  /\ UNCHANGED <<conf, time, pc, checkVars, loopVars, toolVars, tryVars, genVars, outVars, gens>>

-----------------------------------------------------------------------------
(* The head of the loop *)

Top ==
  /\ pc = "top"
  /\ \/ /\ iter >= limit /\ pc' = "synth" /\ UNCHANGED <<stop, tryVars>>
     \/ /\ iter < limit /\ cancelled /\ pc' = "error" /\ UNCHANGED <<stop, tryVars>>
     \/ /\ iter < limit /\ ~cancelled /\ time = "over"
        /\ pc' = "synth" /\ stop' = "time" /\ UNCHANGED tryVars
     \/ /\ iter < limit /\ ~cancelled /\ time # "over"
        /\ pc' = "request"
        /\ ctxRetry' = 0 /\ emptyRetry' = 0 /\ emptyReason' = FALSE
        /\ UNCHANGED stop
  /\ UNCHANGED <<envVars, checkVars, iter, limit, verRetry, toolVars, genVars, outVars, gens>>

\* The fast path: retrieval is done, the answer is not generated yet.
CacheOpen == srcs > 0 /\ conf.cache /\ conf.needed = 0

CacheHit ==
  /\ pc = "request" /\ CacheOpen
  /\ shown' = shown \cup {"cached"} /\ pc' = "done"
  /\ UNCHANGED <<envVars, checkVars, loopVars, toolVars, tryVars, genVars, stored, gens>>

\* Miss, stale entry or lookup error: call the model.
Request ==
  /\ pc = "request"
  /\ Forget
  /\ pc' = "stream" /\ Called
  /\ UNCHANGED <<envVars, checkVars, loopVars, toolVars, tryVars, outVars>>

-----------------------------------------------------------------------------
(* The model's stream *)

\* repair_single_unit turns some format defects into text that may be sent.
Verdicts == {"sent", "held"}

RawEmittedAlways == TRUE                          \* mutant
RawEmitted == ~(srcs > 0 /\ conf.guard)

\* A content chunk: fed to the unit buffer, sent raw, or only collected.
Content(kind) ==
  /\ pc = "stream"
  /\ draft' = IF draft = "text" THEN "text" ELSE kind
  /\ IF Streaming
     THEN \E v \in Verdicts \cup {"incomplete"} :
            /\ kind = "blank" => v = "incomplete"
            /\ held' = (held \/ v = "held")
            /\ parts' = (parts \/ v = "sent")
            /\ shown' = IF v = "sent" THEN shown \cup {"unit"} ELSE shown
     ELSE /\ shown' = IF RawEmitted /\ kind = "text" THEN shown \cup {"raw"} ELSE shown
          /\ UNCHANGED <<held, parts>>
  /\ UNCHANGED <<envVars, checkVars, pc, loopVars, toolVars, tryVars, calls, stored, gens>>

\* The tools the request offered: none when recovering from an empty answer,
\* all of them after a failed verification, only the calculator once repeated
\* retrieval forces convergence while results are missing.
Offered ==
  IF emptyRetry > 0 THEN {}
  ELSE IF verRetry > 0 \/ similar < RepeatLimit THEN {"search", "calc"}
  ELSE IF Missing THEN {"calc"} ELSE {}

\* The stream ends, by itself or by the generation time-out.
StreamEnd ==
  /\ pc = "stream"
  /\ calls' \in Offered \cup {"none"}
  /\ LET empty == srcs > 0 /\ calls' = "none" /\ draft # "text"
     IN  IF empty /\ emptyRetry < 1 /\ conf.recovery
         THEN pc' = "request" /\ emptyRetry' = emptyRetry + 1 /\ UNCHANGED <<emptyReason>>
         ELSE pc' = "branch" /\ emptyReason' = empty /\ UNCHANGED emptyRetry
  /\ UNCHANGED <<envVars, checkVars, loopVars, toolVars, ctxRetry, draft, held, parts, outVars, gens>>

\* asyncio.timeout around the stream
StreamTimeout ==
  /\ pc = "stream" /\ pc' = "error"
  /\ UNCHANGED <<envVars, checkVars, loopVars, toolVars, tryVars, genVars, outVars, gens>>

ContextRetries(n) == n < ContextScales

\* The provider refuses the request as too long: a smaller budget, three times.
ContextError ==
  /\ pc = "stream"
  /\ IF ContextRetries(ctxRetry)
     THEN pc' = "request" /\ ctxRetry' = Least(ctxRetry + 1, ContextScales)
     ELSE pc' = "error" /\ UNCHANGED ctxRetry
  /\ Forget
  /\ UNCHANGED <<envVars, checkVars, loopVars, toolVars, emptyRetry, emptyReason, outVars, gens>>

\* Any other exception leaves the generator without a terminal event.
Raise ==
  /\ pc \in {"stream", "tools"} /\ pc' = "raised"
  /\ UNCHANGED <<envVars, checkVars, loopVars, toolVars, tryVars, genVars, outVars, gens>>

-----------------------------------------------------------------------------
(* Tool calls *)

\* Equations of the draft become calculator calls when results are missing.
Recover ==
  /\ pc = "branch" /\ calls = "none"
  /\ draft = "text" /\ srcs > 0 /\ Missing
  /\ calls' = "calc" /\ pc' = "tools"
  /\ UNCHANGED <<envVars, checkVars, loopVars, toolVars, tryVars, draft, held, parts, outVars, gens>>

\* _filter_calculator_calls rejects the whole batch.
Reject ==
  /\ pc = "branch" /\ calls = "calc"
  /\ iter' = iter + 1
  /\ IF conf.needed > 0 /\ ~Missing
     THEN pc' = "top" /\ UNCHANGED <<idle, stop>>
     ELSE /\ idle' = idle + 1
          /\ IF idle + 1 >= 2
             THEN pc' = "synth" /\ stop' = "calculator_no_progress"
             ELSE pc' = "top" /\ UNCHANGED stop
  /\ Forget
  /\ UNCHANGED <<envVars, checkVars, limit, verRetry, srcs, trusted, similar, tryVars, outVars, gens>>

\* The filter may leave calculator calls, unless the results are complete and
\* it accepts no more than the missing ones.
FilterPasses == conf.needed >= 3 => Missing

\* The batch, or what is left of it, goes to execute_tool_turn.
Accept ==
  /\ pc = "branch" /\ calls # "none"
  /\ calls = "calc" => FilterPasses
  /\ pc' = "tools"
  /\ UNCHANGED <<envVars, checkVars, loopVars, toolVars, tryVars, genVars, outVars, gens>>

ExtendedFreely(n, progress) ==                    \* mutant: hard limit not applied
  IF n >= limit /\ progress /\ time = "ample" THEN limit + 2 ELSE limit

\* The limit grows by two up to the hard limit while there is progress and time.
Extended(n, progress) ==
  IF n >= limit /\ limit < HardLimit /\ progress /\ time = "ample"
  THEN Least(HardLimit, limit + 2) ELSE limit

\* What a turn changes: sources found and pruned, never to none; results whose
\* operands are established; and whether one more similar retrieval was made.
SourcesAfter == IF calls = "search" THEN Least(srcs, 1)..MaxSources ELSE {srcs}
TrustedAfter == trusted..MaxTrusted
SimilarAfter == IF calls = "search" THEN similar..Least(RepeatLimit, similar + 1) ELSE {similar}

\* All results are in: one pass of the loop ends.
ToolsDone ==
  /\ pc = "tools"
  /\ srcs' \in SourcesAfter /\ trusted' \in TrustedAfter /\ similar' \in SimilarAfter
  /\ shown' = {}                                  \* the tool_call events
  /\ LET progress == srcs' # srcs \/ trusted' # trusted
     IN  /\ idle' = IF progress THEN 0 ELSE idle + 1
         /\ IF cancelled
            THEN pc' = "error" /\ UNCHANGED <<iter, limit, stop>>
            ELSE /\ iter' = iter + 1
                 /\ limit' = Extended(iter + 1, progress)
                 /\ IF idle' >= 2
                    THEN pc' = "synth" /\ stop' = "tool_no_progress"
                    ELSE pc' = "top" /\ UNCHANGED stop
  /\ Forget
  /\ UNCHANGED <<envVars, checkVars, verRetry, tryVars, stored, gens>>

\* No calls, but a numeric question still misses calculator results.
Enforce ==
  /\ pc = "branch" /\ calls = "none" /\ srcs > 0 /\ Missing
  /\ limit' = Extended(iter + 1, TRUE)
  /\ IF iter + 1 >= limit'
     THEN pc' = "synth" /\ stop' = "calculator_limit" /\ UNCHANGED iter
     ELSE pc' = "top" /\ iter' = iter + 1 /\ UNCHANGED stop
  /\ Forget
  /\ UNCHANGED <<envVars, checkVars, verRetry, toolVars, tryVars, outVars, gens>>

-----------------------------------------------------------------------------
(* The final answer *)

\* mutant: no branch for a numeric question without sources
FinishComplete == pc = "branch" /\ calls = "none" /\ ~Missing

\* No calls, and either no sources or no missing results.
Finish == pc = "branch" /\ calls = "none" /\ ~(srcs > 0 /\ Missing)

\* The last unit of the stream: sent, held back, or too short to count.
Flush ==
  \E v \in Verdicts \cup {"incomplete"} :
    /\ draft # "text" => v = "incomplete"
    /\ held' = (held \/ v = "held")
    /\ parts' = (parts \/ v = "sent")
    /\ shown' = IF v = "sent" THEN shown \cup {"unit"} ELSE shown

FinishStream ==
  /\ Finish /\ Streaming
  /\ Flush
  /\ pc' = "repair"
  /\ UNCHANGED <<envVars, checkVars, loopVars, toolVars, tryVars, draft, calls, stored, gens>>

\* Something was held and repair is on and in time: the model rewrites the rest.
RepairStream ==
  /\ pc = "repair" /\ held /\ conf.repair /\ TimeLeft(time)
  /\ pc' = "repairing" /\ Called
  /\ UNCHANGED <<envVars, checkVars, loopVars, toolVars, tryVars, genVars, outVars>>

\* Repaired units are sent only when they verify; the others are dropped.
RepairUnit ==
  /\ pc = "repairing"
  /\ parts' = TRUE /\ shown' = shown \cup {"unit"}
  /\ UNCHANGED <<envVars, checkVars, pc, loopVars, toolVars, tryVars, draft, calls, held, stored, gens>>

\* The repair ends, fails or times out, or there was none.
RepairEnd ==
  /\ \/ pc = "repairing"
     \/ pc = "repair" /\ ~(held /\ conf.repair /\ TimeLeft(time))
  /\ pc' = "settle"
  /\ UNCHANGED <<envVars, checkVars, loopVars, toolVars, tryVars, genVars, outVars, gens>>

MayRetry(n) == n < 1

\* Every unit was dropped: once more with a stricter prompt, in the same
\* iteration, or a fixed text.  What was sent goes to the cache.
SettleStream ==
  /\ pc = "settle"
  /\ IF ~parts /\ ~emptyReason /\ MayRetry(verRetry)
     THEN /\ pc' = "top" /\ verRetry' = Least(verRetry + 1, 2)
          /\ Forget /\ UNCHANGED <<shown, stored>>
     ELSE /\ pc' = "done"
          /\ shown' = IF parts THEN shown ELSE shown \cup {"fallback"}
          /\ stored' = IF ~conf.cache THEN stored ELSE IF parts THEN "unit" ELSE "fallback"
          /\ UNCHANGED <<verRetry, genVars>>
  /\ UNCHANGED <<envVars, checkVars, iter, limit, stop, toolVars, tryVars, gens>>

\* What verify_answer and needs_grounding_repair find in a text: nothing to
\* repair, something to repair although some fact is supported, or facts of
\* which none is supported.
Grades == {"good", "weak", "zero"}

\* Nothing was to repair, or the rules did it; the rules left missing citations
\* of supported facts; an extract of the sources took its place; the model's text
\* did; the model's text was empty, late, broken off or no better.
Repairs == {"none", "uncited", "extract", "llm", "rejected"}

\* The draft is checked, in a thread with a time-out that asks for the rules,
\* and the rules' work is checked again.  A refusal or a question is accepted
\* although no fact in it is supported.
Verify ==
  /\ Finish /\ srcs > 0 /\ conf.guard /\ ~Streaming /\ draft # "none"
  /\ final' \in IF draft = "blank" THEN {"none"} ELSE Grades
  /\ \/ final' # "weak" /\ pc' = "deliver" /\ UNCHANGED repair
     \/ final' = "weak" /\ pc' = "deliver" /\ repair' = "uncited"
     \/ final' # "none" /\ pc' = "deliver" /\ repair' = "extract"
     \/ pc' = "mend" /\ UNCHANGED repair
  /\ UNCHANGED <<envVars, loopVars, toolVars, tryVars, genVars, outVars, gens>>

\* The model is asked if that is allowed and in time; whatever goes wrong then,
\* the draft stays ("using original draft").
Mend ==
  /\ pc = "mend" /\ pc' = "deliver"
  /\ \/ /\ conf.repair /\ TimeLeft(time) /\ Called
        /\ \/ repair' = "llm" /\ final' \in Grades
           \/ repair' = "rejected" /\ UNCHANGED final
     \/ ~(conf.repair /\ TimeLeft(time)) /\ UNCHANGED <<final, repair, gens>>
  /\ UNCHANGED <<envVars, loopVars, toolVars, tryVars, genVars, outVars>>

\* apply_zero_support_guard puts a refusal in the place of a text without any
\* supported fact; an empty one may still get the inventory of the documents.
Given(t) == IF t = "zero" THEN {"refusal"} ELSE IF t = "none" THEN {"none", "good"} ELSE {t}

\* What is sent is also cached, the model's repair excepted.
Deliver ==
  /\ pc = "deliver" /\ pc' = "done"
  /\ \E t \in Given(final) :
       /\ shown' = IF t = "none" THEN shown ELSE shown \cup {t}
       /\ stored' = IF conf.cache /\ t # "none" /\ (repair # "llm" \/ final = "zero")
                    THEN t ELSE stored
  /\ UNCHANGED <<envVars, checkVars, loopVars, toolVars, tryVars, genVars, gens>>

\* Grounding is off: the draft was sent as it came.
FinishPlain ==
  /\ Finish /\ srcs > 0 /\ ~conf.guard /\ draft # "none"
  /\ stored' = IF conf.cache THEN "raw" ELSE stored
  /\ pc' = "done"
  /\ UNCHANGED <<envVars, checkVars, loopVars, toolVars, tryVars, genVars, shown, gens>>

\* The empty answer stayed empty: a fixed text, which is not cached.
FinishEmpty ==
  /\ Finish /\ srcs > 0 /\ ~Streaming /\ draft = "none"
  /\ shown' = shown \cup {"fallback"}
  /\ pc' = "done"
  /\ UNCHANGED <<envVars, checkVars, loopVars, toolVars, tryVars, genVars, stored, gens>>

\* Without sources the draft was sent as it came, if there was one.
FinishUnsourced ==
  /\ Finish /\ srcs = 0
  /\ pc' = "done"
  /\ UNCHANGED <<envVars, checkVars, loopVars, toolVars, tryVars, genVars, outVars, gens>>

-----------------------------------------------------------------------------
(* The forced synthesis after the loop *)

SynthesisBlockedNever == FALSE                    \* mutant: results not counted
SynthesisBlocked == Missing

\* Missing results, an unsupported claim or a failure give a fixed refusal.
Synthesize ==
  /\ pc = "synth"
  /\ IF SynthesisBlocked
     THEN shown' = shown \cup {"refusal"} /\ UNCHANGED gens
     ELSE /\ Called
          /\ \E kind \in {"synthesis", "refusal"} : shown' = shown \cup {kind}
  /\ pc' = "done"
  /\ UNCHANGED <<envVars, checkVars, loopVars, toolVars, tryVars, genVars, stored>>

-----------------------------------------------------------------------------
Stream == Content("blank") \/ Content("text") \/ StreamEnd \/ StreamTimeout \/ ContextError

Final == \/ FinishStream \/ RepairStream \/ RepairUnit \/ RepairEnd \/ SettleStream
         \/ Verify \/ Mend \/ Deliver \/ FinishPlain \/ FinishEmpty
         \/ FinishUnsourced \/ Synthesize

Step == \/ Top \/ CacheHit \/ Request \/ Stream \/ Raise
        \/ Recover \/ Reject \/ Accept \/ ToolsDone \/ Enforce \/ Final

Next == Step \/ Tick \/ Leave

Fairness == WF_vars(Step)

Spec == Init /\ [][Next]_vars /\ Fairness

-----------------------------------------------------------------------------
(* Properties *)

Pcs == {"top", "request", "stream", "branch", "tools", "repair", "repairing",
        "settle", "mend", "deliver", "synth"} \cup Ends

TypeOK ==
  /\ conf \in Confs /\ pc \in Pcs
  /\ iter \in Nat /\ limit \in Nat
  /\ stop \in {"limit", "time", "calculator_no_progress", "tool_no_progress",
               "calculator_limit"}
  /\ time \in {Times[i] : i \in 1..4} /\ cancelled \in BOOLEAN
  /\ srcs \in 0..MaxSources /\ trusted \in 0..MaxTrusted
  /\ idle \in 0..2 /\ similar \in 0..RepeatLimit
  /\ verRetry \in 0..1 /\ ctxRetry \in 0..ContextScales /\ emptyRetry \in 0..1
  /\ emptyReason \in BOOLEAN
  /\ draft \in {"none", "blank", "text"} /\ calls \in {"none", "search", "calc"}
  /\ held \in BOOLEAN /\ parts \in BOOLEAN
  /\ final \in Grades \cup {"none"} /\ repair \in Repairs
  /\ shown \subseteq Grades \cup {"raw", "unit", "cached", "fallback", "synthesis", "refusal"}
  /\ stored \in Grades \cup {"none", "raw", "unit", "fallback", "refusal"}
  /\ gens \in Nat

\* However retries, extensions, context errors and repairs combine, a question
\* runs at most HardLimit iterations and GenBound model calls.
WorkBounded == iter <= HardLimit /\ limit <= HardLimit /\ gens <= GenBound

\* With grounding on and sources in hand, neither the client nor the cache gets
\* a draft that nobody checked, whatever was streamed before the sources came, or
\* a text without a single supported fact; and a text the checker finds fault
\* with only after its repair was tried, or because repair is off or too late.
DraftsAreChecked ==
  conf.guard /\ srcs > 0 =>
    LET given == shown \cup {stored} IN
    /\ given \cap {"raw", "zero"} = {}
    /\ "weak" \in given => repair # "none" \/ ~conf.repair \/ ~TimeLeft(time)

\* A numeric question over sources ends with a refusal unless the calculator
\* delivered every result it requires: no path, neither the cache nor the
\* limits nor a forced synthesis, lets the model do the arithmetic.
NumbersAreComputed ==
  pc = "done" /\ srcs > 0 /\ Missing => "refusal" \in shown /\ stored = "none"

\* The loop always comes to an end.
Terminates == <>(pc \in Ends)

\* "Please send the question again" (loop.py 1346) is meant for a transient
\* failure, so it should not be what the cache answers with from then on.
FallbackNotCached == stored # "fallback"
=============================================================================
