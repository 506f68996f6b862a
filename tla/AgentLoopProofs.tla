--------------------------- MODULE AgentLoopProofs ---------------------------
(***************************************************************************)
(* For any settings, limits and bounds: the loop does a bounded amount of  *)
(* work, shows only what was verified, and leaves the arithmetic to the    *)
(* calculator (AgentLoop).                                                 *)
(*                                                                         *)
(* The bound on model calls takes an account of the calls of each pass.    *)
(* Every pass affords PerPass calls; the pass that is tried again after    *)
(* its answer was dropped needs one more, for its repair, and is paid by   *)
(* the first pass, which has no sources yet and so never asks again for an *)
(* empty answer.                                                           *)
(***************************************************************************)
EXTENDS AgentLoop, AnswerCache, TLAPS

Numbers ==
  /\ conf \in ConfType /\ iter \in Nat /\ limit \in Nat /\ srcs \in Nat /\ trusted \in Nat
  /\ gens \in Nat /\ ctxRetry \in Nat /\ emptyRetry \in Nat /\ verRetry \in Nat
  /\ ctxRetry <= ContextScales /\ emptyRetry <= 1 /\ verRetry <= 1

Running == {"top", "request", "stream", "branch", "tools", "repair", "repairing", "settle"}
Answering == {"repair", "repairing", "settle", "mend", "deliver"}

\* Inside a pass the loop has not reached its limit.
Limits ==
  /\ limit <= HardLimit /\ iter <= HardLimit
  /\ pc \in Running \ {"top"} => iter < limit

\* Sources come from a tool call of an earlier pass, and the answer that is
\* verified while it streams is about sources.
Sourced ==
  /\ srcs = 0 => verRetry = 0 /\ emptyRetry = 0
  /\ pc \in Running /\ srcs > 0 => iter >= 1
  /\ pc \in Answering => srcs > 0 /\ ~Missing

\* What n passes afford, and the calls made in the present one.
W(n)  == PerPass * n
Count == IF pc = "top" THEN 0
         ELSE IF pc = "request" THEN ctxRetry + emptyRetry
         ELSE IF pc \in {"repairing", "settle"} THEN ctxRetry + emptyRetry + 2
         ELSE ctxRetry + emptyRetry + 1

Account ==
  /\ pc \in Running =>
       gens + (IF srcs > 0 THEN 1 ELSE 0) <= W(iter + verRetry) + verRetry + Count
  /\ pc \in {"mend", "synth"} => gens <= W(HardLimit + 1)
  /\ gens <= GenBound

Unstored == pc # "done" => stored = "none"

\* A text that is about to be delivered, or not yet.
Checking ==
  /\ final \in Grades \cup {"none"}
  /\ pc # "done" => {"weak", "zero"} \cap shown = {}
  /\ pc = "deliver" /\ final = "weak" => repair # "none" \/ ~conf.repair \/ ~TimeLeft(time)

LInv == Numbers /\ Limits /\ Sourced /\ Account /\ Unstored
        /\ Checking /\ DraftsAreChecked /\ NumbersAreComputed

-----------------------------------------------------------------------------
(* What passes afford                                                        *)

LEMMA Constants == /\ HardLimit \in Nat /\ SoftLimit \in Nat /\ SoftLimit <= HardLimit
                   /\ ContextScales \in Nat /\ PerPass \in Nat
                   /\ PerPass = ContextScales + 2
                   /\ MaxSources \in Nat /\ MaxTrusted \in Nat
                   /\ GenBound = W(HardLimit + 1) + 1
BY LoopAssumption DEF PerPass, GenBound, W

LEMMA Afford == ASSUME NEW n \in Nat
                PROVE  W(n) \in Nat /\ W(n + 1) = W(n) + PerPass
BY Constants DEF W

LEMMA AffordMore == ASSUME NEW n \in Nat, NEW m \in Nat, n <= m
                    PROVE  W(n) <= W(m)
<1>1. m - n \in Nat /\ PerPass \in Nat
  BY Constants
<1>2. PerPass * m = PerPass * n + PerPass * (m - n)
  BY <1>1
<1>3. PerPass * (m - n) >= 0 /\ PerPass * n \in Int /\ PerPass * (m - n) \in Int
  BY <1>1
<1> QED BY <1>2, <1>3 DEF W

\* Whatever a pass has spent, the whole afford it.
LEMMA WithinBound ==
  ASSUME Numbers, Limits, Sourced, Account, pc \in Running
  PROVE  /\ gens <= W(HardLimit + 1) + 1
         /\ pc = "top" => gens <= W(HardLimit + 1)
         /\ pc \in {"request", "branch", "tools", "repair"} => gens <= W(HardLimit + 1)
         /\ pc \in {"branch", "tools"} /\ srcs > 0 =>
              gens + 1 <= W(iter + 1 + verRetry) + verRetry
         /\ pc \in {"branch", "tools"} /\ srcs = 0 =>
              gens + 1 <= W(iter + 1 + verRetry)
         /\ pc = "settle" => gens <= W(iter + 1 + verRetry) + verRetry
<1> DEFINE a == W(iter + verRetry)
           b == W(iter + 1 + verRetry)
           c == W(HardLimit + 1)
<1>1. /\ iter + verRetry \in Nat /\ iter + 1 + verRetry \in Nat /\ HardLimit + 1 \in Nat
      /\ iter + 1 + verRetry = (iter + verRetry) + 1
  BY Constants DEF Numbers
<1>2. a \in Nat /\ b = a + PerPass /\ b \in Nat /\ c \in Nat
  BY <1>1, Afford
<1>3. iter + verRetry <= HardLimit + 1 /\ (pc # "top" => iter + 1 + verRetry <= HardLimit + 1)
  BY Constants DEF Numbers, Limits
<1>4. a <= c /\ (pc # "top" => b <= c)
  BY <1>1, <1>3, AffordMore
<1>5. gens + (IF srcs > 0 THEN 1 ELSE 0) <= a + verRetry + Count
  BY DEF Account
<1> HIDE DEF a, b, c
<1>6. CASE srcs > 0
  <2>1. gens + 1 <= a + verRetry + Count
    BY <1>5, <1>6
  <2>2. Count <= PerPass + 1 /\ (pc = "top" => Count = 0)
        /\ (pc \in {"request", "branch", "tools", "repair"} => Count <= PerPass)
        /\ Count \in Nat
    BY Constants DEF Count, Numbers
  <2>3. gens \in Nat /\ verRetry \in Nat /\ verRetry <= 1 /\ PerPass \in Nat
    BY Constants DEF Numbers
  <2> QED BY <1>2, <1>4, <1>6, <2>1, <2>2, <2>3 DEF a, b, c
<1>7. CASE ~(srcs > 0)
  <2>1. srcs = 0 /\ verRetry = 0 /\ emptyRetry = 0 /\ pc \notin Answering
    BY <1>7 DEF Numbers, Sourced
  <2>2. gens <= a + Count
    BY <1>5, <2>1, <1>2 DEF Numbers, Count
  <2>3. Count <= PerPass - 1 /\ (pc = "top" => Count = 0) /\ Count \in Nat
    BY <2>1, Constants DEF Count, Numbers, Answering
  <2>4. gens \in Nat /\ PerPass \in Nat
    BY Constants DEF Numbers
  <2> QED BY <1>2, <1>4, <2>1, <2>2, <2>3, <2>4 DEF a, b, c, Answering
<1> QED BY <1>6, <1>7

\* A call of the model is counted, once.
LEMMA Calls ==
  ASSUME Numbers
  PROVE  /\ Least(gens + 1, GenCap) \in Nat
         /\ Least(gens + 1, GenCap) <= gens + 1
         /\ Called => gens' \in Nat /\ gens' <= gens + 1
<1>1. GenCap \in Nat /\ gens \in Nat
  BY Constants, Afford DEF GenCap, Numbers
<1> QED BY <1>1 DEF Least, Called

-----------------------------------------------------------------------------
(* Each part of the invariant, action by action                              *)

\* The counters stay in their ranges.
LEMMA NumbersStep == LInv /\ [Next]_vars => Numbers'
<1> SUFFICES ASSUME LInv, [Next]_vars PROVE Numbers'
  OBVIOUS
<1> USE DEF LInv, loopVars, toolVars, tryVars, genVars, outVars, envVars
<1>1. ASSUME NEW kind \in {"blank", "text"}, Content(kind) PROVE Numbers'
  BY <1>1, Constants DEF Content, Numbers, ConfType
<1>2. CASE Top \/ CacheHit \/ Request
  BY <1>2, Constants, Calls DEF Top, CacheHit, Request, CacheOpen, Forget, Numbers,
     ConfType
<1>3. CASE StreamEnd \/ StreamTimeout \/ ContextError \/ Raise
  BY <1>3, Constants, Calls DEF StreamEnd, StreamTimeout, ContextError, Raise,
     ContextRetries, Least, Forget, Numbers, ConfType
<1>4. CASE Recover \/ Reject \/ Accept
  BY <1>4, Constants, Calls DEF Recover, Reject, Accept, Forget, Numbers, ConfType
<1>5. CASE ToolsDone
  BY <1>5, Constants, Calls DEF ToolsDone, Forget, Extended, Least, SourcesAfter,
     TrustedAfter, Numbers, ConfType
<1>6. CASE Enforce
  BY <1>6, Constants, Calls DEF Enforce, Forget, Extended, Least, Numbers, ConfType
<1>7. CASE FinishStream \/ RepairStream \/ RepairUnit \/ RepairEnd
  BY <1>7, Constants, Calls DEF FinishStream, RepairStream, RepairUnit, RepairEnd,
     Finish, Flush, Streaming, Numbers, ConfType
<1>8. CASE SettleStream
  BY <1>8, Constants, Calls DEF SettleStream, MayRetry, Least, Forget, Numbers, ConfType
<1>9. CASE Verify \/ Mend \/ Deliver \/ FinishPlain
  BY <1>9, Constants, Calls DEF Verify, Mend, Deliver, FinishPlain, Finish, Numbers,
     ConfType
<1>10. CASE FinishEmpty \/ FinishUnsourced \/ Synthesize
  BY <1>10, Constants, Calls DEF FinishEmpty, FinishUnsourced, Synthesize, Finish,
     SynthesisBlocked, Numbers, ConfType
<1>11. CASE Tick \/ Leave
  BY <1>11, Constants, Calls DEF Tick, Leave, Numbers, ConfType
<1>12. CASE UNCHANGED vars
  BY <1>12 DEF vars, Numbers, ConfType
<1> QED BY <1>1, <1>2, <1>3, <1>4, <1>5, <1>6, <1>7, <1>8, <1>9, <1>10, <1>11, <1>12
        DEF Next, Step, Stream, Final

\* No pass begins at the limit, and no extension goes beyond the hard one.
LEMMA LimitsStep == LInv /\ [Next]_vars => Limits'
<1> SUFFICES ASSUME LInv, [Next]_vars PROVE Limits'
  OBVIOUS
<1> USE DEF LInv, loopVars, toolVars, tryVars, genVars, outVars, envVars
<1>1. ASSUME NEW kind \in {"blank", "text"}, Content(kind) PROVE Limits'
  BY <1>1, Constants DEF Content, Numbers, Limits, Running
<1>2. CASE Top \/ CacheHit \/ Request
  BY <1>2, Constants DEF Top, CacheHit, Request, CacheOpen, Forget, Numbers, Limits,
     Running
<1>3. CASE StreamEnd \/ StreamTimeout \/ ContextError \/ Raise
  BY <1>3, Constants DEF StreamEnd, StreamTimeout, ContextError, Raise, ContextRetries,
     Least, Forget, Numbers, Limits, Running
<1>4. CASE Recover \/ Reject \/ Accept
  BY <1>4, Constants DEF Recover, Reject, Accept, Forget, Numbers, Limits, Running
<1>5. CASE ToolsDone
  BY <1>5, Constants DEF ToolsDone, Forget, Extended, Least, SourcesAfter, TrustedAfter,
     Numbers, Limits, Running
<1>6. CASE Enforce
  BY <1>6, Constants DEF Enforce, Forget, Extended, Least, Numbers, Limits, Running
<1>7. CASE FinishStream \/ RepairStream \/ RepairUnit \/ RepairEnd
  BY <1>7, Constants DEF FinishStream, RepairStream, RepairUnit, RepairEnd, Finish,
     Flush, Streaming, Numbers, Limits, Running
<1>8. CASE SettleStream
  BY <1>8, Constants DEF SettleStream, MayRetry, Least, Forget, Numbers, Limits, Running
<1>9. CASE Verify \/ Mend \/ Deliver \/ FinishPlain
  BY <1>9, Constants DEF Verify, Mend, Deliver, FinishPlain, Finish, Numbers,
     Limits, Running
<1>10. CASE FinishEmpty \/ FinishUnsourced \/ Synthesize
  BY <1>10, Constants DEF FinishEmpty, FinishUnsourced, Synthesize, Finish,
     SynthesisBlocked, Numbers, Limits, Running
<1>11. CASE Tick \/ Leave
  BY <1>11, Constants DEF Tick, Leave, Numbers, Limits, Running
<1>12. CASE UNCHANGED vars
  BY <1>12 DEF vars, Numbers, Limits, Running
<1> QED BY <1>1, <1>2, <1>3, <1>4, <1>5, <1>6, <1>7, <1>8, <1>9, <1>10, <1>11, <1>12
        DEF Next, Step, Stream, Final

\* Sources come with the end of a tool call, and stay.
LEMMA SourcedStep == LInv /\ [Next]_vars => Sourced'
<1> SUFFICES ASSUME LInv, [Next]_vars PROVE Sourced'
  OBVIOUS
<1> USE DEF LInv, loopVars, toolVars, tryVars, genVars, outVars, envVars
<1>1. ASSUME NEW kind \in {"blank", "text"}, Content(kind) PROVE Sourced'
  BY <1>1, Constants DEF Content, Numbers, Limits, Sourced, Running, Answering, Missing,
     Ends
<1>2. CASE Top \/ CacheHit \/ Request
  BY <1>2, Constants DEF Top, CacheHit, Request, CacheOpen, Forget, Numbers, Limits,
     Sourced, Running, Answering, Missing, Ends
<1>3. CASE StreamEnd \/ StreamTimeout \/ ContextError \/ Raise
  BY <1>3, Constants DEF StreamEnd, StreamTimeout, ContextError, Raise, ContextRetries,
     Least, Forget, Numbers, Limits, Sourced, Running, Answering, Missing, Ends
<1>4. CASE Recover \/ Reject \/ Accept
  BY <1>4, Constants DEF Recover, Reject, Accept, Forget, Numbers, Limits, Sourced,
     Running, Answering, Missing, Ends
<1>5. CASE ToolsDone
  BY <1>5, Constants DEF ToolsDone, Forget, Extended, Least, SourcesAfter, TrustedAfter,
     Numbers, Limits, Sourced, Running, Answering, Missing, Ends
<1>6. CASE Enforce
  BY <1>6, Constants DEF Enforce, Forget, Extended, Least, Numbers, Limits, Sourced,
     Running, Answering, Missing, Ends
<1>7. CASE FinishStream \/ RepairStream \/ RepairUnit \/ RepairEnd
  BY <1>7, Constants DEF FinishStream, RepairStream, RepairUnit, RepairEnd, Finish,
     Flush, Streaming, Numbers, Limits, Sourced, Running, Answering, Missing, Ends
<1>8. CASE SettleStream
  BY <1>8, Constants DEF SettleStream, MayRetry, Least, Forget, Numbers, Limits,
     Sourced, Running, Answering, Missing, Ends
<1>9. CASE Verify \/ Mend \/ Deliver \/ FinishPlain
  BY <1>9, Constants DEF Verify, Mend, Deliver, FinishPlain, Finish, Numbers,
     Limits, Sourced, Running, Answering, Missing, Ends
<1>10. CASE FinishEmpty \/ FinishUnsourced \/ Synthesize
  BY <1>10, Constants DEF FinishEmpty, FinishUnsourced, Synthesize, Finish,
     SynthesisBlocked, Numbers, Limits, Sourced, Running, Answering, Missing, Ends
<1>11. CASE Tick \/ Leave
  BY <1>11, Constants DEF Tick, Leave, Numbers, Limits, Sourced, Running, Answering,
     Missing, Ends
<1>12. CASE UNCHANGED vars
  BY <1>12 DEF vars, Numbers, Limits, Sourced, Running, Answering, Missing, Ends
<1> QED BY <1>1, <1>2, <1>3, <1>4, <1>5, <1>6, <1>7, <1>8, <1>9, <1>10, <1>11, <1>12
        DEF Next, Step, Stream, Final

\* What goes to the cache goes there in the last step.
LEMMA UnstoredStep == LInv /\ [Next]_vars => Unstored'
<1> SUFFICES ASSUME LInv, [Next]_vars PROVE Unstored'
  OBVIOUS
<1> USE DEF LInv, loopVars, toolVars, tryVars, genVars, outVars, envVars
<1>1. ASSUME NEW kind \in {"blank", "text"}, Content(kind) PROVE Unstored'
  BY <1>1, Constants DEF Content, Unstored, Ends
<1>2. CASE Top \/ CacheHit \/ Request
  BY <1>2, Constants DEF Top, CacheHit, Request, CacheOpen, Forget, Unstored, Ends
<1>3. CASE StreamEnd \/ StreamTimeout \/ ContextError \/ Raise
  BY <1>3, Constants DEF StreamEnd, StreamTimeout, ContextError, Raise, ContextRetries,
     Least, Forget, Unstored, Ends
<1>4. CASE Recover \/ Reject \/ Accept
  BY <1>4, Constants DEF Recover, Reject, Accept, Forget, Unstored, Ends
<1>5. CASE ToolsDone
  BY <1>5, Constants DEF ToolsDone, Forget, Extended, Least, SourcesAfter, TrustedAfter,
     Unstored, Ends
<1>6. CASE Enforce
  BY <1>6, Constants DEF Enforce, Forget, Extended, Least, Unstored, Ends
<1>7. CASE FinishStream \/ RepairStream \/ RepairUnit \/ RepairEnd
  BY <1>7, Constants DEF FinishStream, RepairStream, RepairUnit, RepairEnd, Finish,
     Flush, Streaming, Unstored, Ends
<1>8. CASE SettleStream
  BY <1>8, Constants DEF SettleStream, MayRetry, Least, Forget, Unstored, Ends
<1>9. CASE Verify \/ Mend \/ Deliver \/ FinishPlain
  BY <1>9, Constants DEF Verify, Mend, Deliver, FinishPlain, Finish, Unstored, Ends
<1>10. CASE FinishEmpty \/ FinishUnsourced \/ Synthesize
  BY <1>10, Constants DEF FinishEmpty, FinishUnsourced, Synthesize, Finish,
     SynthesisBlocked, Unstored, Ends
<1>11. CASE Tick \/ Leave
  BY <1>11, Constants DEF Tick, Leave, Unstored, Ends
<1>12. CASE UNCHANGED vars
  BY <1>12 DEF vars, Unstored, Ends
<1> QED BY <1>1, <1>2, <1>3, <1>4, <1>5, <1>6, <1>7, <1>8, <1>9, <1>10, <1>11, <1>12
        DEF Next, Step, Stream, Final

\* What the checker found fault with is sent in the last step only.
LEMMA CheckingStep == LInv /\ [Next]_vars => Checking'
<1> SUFFICES ASSUME LInv, [Next]_vars PROVE Checking'
  OBVIOUS
<1> USE DEF LInv, loopVars, toolVars, tryVars, genVars, outVars, envVars, checkVars, Checking, Grades,
        TimeLeft
<1>1. ASSUME NEW kind \in {"blank", "text"}, Content(kind) PROVE Checking'
  BY <1>1 DEF Content
<1>2. CASE Top \/ CacheHit \/ Request
  BY <1>2 DEF Top, CacheHit, Request
<1>3. CASE StreamEnd \/ StreamTimeout \/ ContextError \/ Raise
  BY <1>3 DEF StreamEnd, StreamTimeout, ContextError, Raise
<1>4. CASE Recover \/ Reject \/ Accept \/ ToolsDone \/ Enforce
  BY <1>4 DEF Recover, Reject, Accept, ToolsDone, Enforce
<1>5. CASE FinishStream \/ RepairStream \/ RepairUnit \/ RepairEnd
  BY <1>5 DEF FinishStream, RepairStream, RepairUnit, RepairEnd, Finish, Flush
<1>6. CASE SettleStream
  BY <1>6 DEF SettleStream
<1>7. CASE Verify \/ Mend
  BY <1>7 DEF Verify, Mend, Finish, Grades
<1>8. CASE Deliver \/ FinishPlain \/ FinishEmpty \/ FinishUnsourced \/ Synthesize
  BY <1>8 DEF Deliver, FinishPlain, FinishEmpty, FinishUnsourced, Synthesize
<1>9. CASE Tick \/ Leave
  BY <1>9 DEF Tick, Leave, Times
<1>10. CASE UNCHANGED vars
  BY <1>10 DEF vars
<1> QED BY <1>1, <1>2, <1>3, <1>4, <1>5, <1>6, <1>7, <1>8, <1>9, <1>10
        DEF Next, Step, Stream, Final

\* A raw chunk is sent only without sources, and their arrival clears the answer.
LEMMA CheckedStep == LInv /\ [Next]_vars => DraftsAreChecked'
<1> SUFFICES ASSUME LInv, [Next]_vars, conf'.guard, srcs' > 0
             PROVE  /\ (shown' \cup {stored'}) \cap {"raw", "zero"} = {}
                    /\ "weak" \in shown' \cup {stored'} =>
                         repair' # "none" \/ ~conf'.repair \/ ~TimeLeft(time')
  BY DEF DraftsAreChecked
<1> DEFINE Fine == /\ (shown' \cup {stored'}) \cap {"raw", "zero"} = {}
                   /\ "weak" \in shown' \cup {stored'} =>
                        repair' # "none" \/ ~conf'.repair \/ ~TimeLeft(time')
<1> USE DEF LInv, loopVars, toolVars, tryVars, genVars, outVars, envVars, checkVars, Checking, Grades,
        TimeLeft, Unstored, DraftsAreChecked
<1>1. ASSUME NEW kind \in {"blank", "text"}, Content(kind) PROVE Fine
  BY <1>1 DEF Content, RawEmitted
<1>2. CASE Top \/ CacheHit \/ Request
  BY <1>2 DEF Top, CacheHit, Request
<1>3. CASE StreamEnd \/ StreamTimeout \/ ContextError \/ Raise
  BY <1>3 DEF StreamEnd, StreamTimeout, ContextError, Raise
<1>4. CASE Recover \/ Reject \/ Accept \/ ToolsDone \/ Enforce
  BY <1>4 DEF Recover, Reject, Accept, ToolsDone, Enforce
<1>5. CASE FinishStream \/ RepairStream \/ RepairUnit \/ RepairEnd
  BY <1>5 DEF FinishStream, RepairStream, RepairUnit, RepairEnd, Finish, Flush
<1>6. CASE SettleStream
  BY <1>6 DEF SettleStream
<1>7. CASE Verify \/ Mend
  BY <1>7 DEF Verify, Mend, Finish
<1>8. CASE Deliver
  <2>1. PICK t \in Given(final) :
          /\ shown' = IF t = "none" THEN shown ELSE shown \cup {t}
          /\ stored' = IF conf.cache /\ t # "none" /\ (repair # "llm" \/ final = "zero")
                       THEN t ELSE stored
    BY <1>8, Zenon DEF Deliver
  <2>2. t \in {final, "refusal", "good"} /\ t # "zero" /\ t # "raw"
    BY <2>1 DEF Given, Grades
  <2> QED BY <1>8, <2>1, <2>2 DEF Deliver
<1>9. CASE FinishPlain \/ FinishEmpty \/ FinishUnsourced \/ Synthesize
  BY <1>9 DEF FinishPlain, FinishEmpty, FinishUnsourced, Synthesize
<1>10. CASE Tick \/ Leave
  BY <1>10 DEF Tick, Leave, Times
<1>11. CASE UNCHANGED vars
  BY <1>11 DEF vars
<1> QED BY <1>1, <1>2, <1>3, <1>4, <1>5, <1>6, <1>7, <1>8, <1>9, <1>10, <1>11
        DEF Next, Step, Stream, Final

\* Every way to the end asks for the results, or gives a refusal.
LEMMA ComputedStep == LInv /\ [Next]_vars => NumbersAreComputed'
<1> SUFFICES ASSUME LInv, [Next]_vars PROVE NumbersAreComputed'
  OBVIOUS
<1> USE DEF LInv, loopVars, toolVars, tryVars, genVars, outVars, envVars
<1>1. ASSUME NEW kind \in {"blank", "text"}, Content(kind) PROVE NumbersAreComputed'
  BY <1>1, Constants DEF Content, Numbers, ConfType, Unstored, Sourced, Answering,
     NumbersAreComputed, Ends, Missing
<1>2. CASE Top \/ CacheHit \/ Request
  BY <1>2, Constants DEF Top, CacheHit, Request, CacheOpen, Forget, Numbers, ConfType,
     Unstored, Sourced, Answering, NumbersAreComputed, Ends, Missing
<1>3. CASE StreamEnd \/ StreamTimeout \/ ContextError \/ Raise
  BY <1>3, Constants DEF StreamEnd, StreamTimeout, ContextError, Raise, ContextRetries,
     Least, Forget, Numbers, ConfType, Unstored, Sourced, Answering, NumbersAreComputed,
     Ends, Missing
<1>4. CASE Recover \/ Reject \/ Accept
  BY <1>4, Constants DEF Recover, Reject, Accept, Forget, Numbers, ConfType, Unstored,
     Sourced, Answering, NumbersAreComputed, Ends, Missing
<1>5. CASE ToolsDone
  BY <1>5, Constants DEF ToolsDone, Forget, Extended, Least, SourcesAfter, TrustedAfter,
     Numbers, ConfType, Unstored, Sourced, Answering, NumbersAreComputed, Ends, Missing
<1>6. CASE Enforce
  BY <1>6, Constants DEF Enforce, Forget, Extended, Least, Numbers, ConfType, Unstored,
     Sourced, Answering, NumbersAreComputed, Ends, Missing
<1>7. CASE FinishStream \/ RepairStream \/ RepairUnit \/ RepairEnd
  BY <1>7, Constants DEF FinishStream, RepairStream, RepairUnit, RepairEnd, Finish,
     Flush, Streaming, Numbers, ConfType, Unstored, Sourced, Answering,
     NumbersAreComputed, Ends, Missing
<1>8. CASE SettleStream
  BY <1>8, Constants DEF SettleStream, MayRetry, Least, Forget, Numbers, ConfType,
     Unstored, Sourced, Answering, NumbersAreComputed, Ends, Missing
<1>9. CASE Verify \/ Mend \/ Deliver \/ FinishPlain
  BY <1>9, Constants DEF Verify, Mend, Deliver, FinishPlain, Finish, Numbers,
     ConfType, Unstored, Sourced, Answering, NumbersAreComputed, Ends, Missing
<1>10. CASE FinishEmpty \/ FinishUnsourced \/ Synthesize
  BY <1>10, Constants DEF FinishEmpty, FinishUnsourced, Synthesize, Finish,
     SynthesisBlocked, Numbers, ConfType, Unstored, Sourced, Answering,
     NumbersAreComputed, Ends, Missing
<1>11. CASE Tick \/ Leave
  BY <1>11, Constants DEF Tick, Leave, Numbers, ConfType, Unstored, Sourced, Answering,
     NumbersAreComputed, Ends, Missing
<1>12. CASE UNCHANGED vars
  BY <1>12 DEF vars, Numbers, ConfType, Unstored, Sourced, Answering,
     NumbersAreComputed, Ends, Missing
<1> QED BY <1>1, <1>2, <1>3, <1>4, <1>5, <1>6, <1>7, <1>8, <1>9, <1>10, <1>11, <1>12
        DEF Next, Step, Stream, Final

\* Every call is on the account of its pass, or of the one before.
LEMMA AccountStep == LInv /\ [Next]_vars => Account'
<1> SUFFICES ASSUME LInv, [Next]_vars PROVE Account'
  OBVIOUS
<1> USE DEF LInv, loopVars, toolVars, tryVars, genVars, outVars, envVars
<1> DEFINE big == W(HardLimit + 1)
<1>0. /\ gens \in Nat /\ big \in Nat /\ GenBound = big + 1
      /\ verRetry \in Nat /\ ctxRetry \in Nat /\ emptyRetry \in Nat /\ iter \in Nat
      /\ srcs \in Nat /\ ContextScales \in Nat
      /\ W(iter + verRetry) \in Nat /\ W(iter + 1 + verRetry) \in Nat
  BY Constants, Afford DEF Numbers
<1>. HIDE DEF big
<1>1. ASSUME NEW kind \in {"blank", "text"}, Content(kind) PROVE Account'
  BY <1>1, <1>0 DEF Content, Account, Count, Running, big
<1>2. CASE Top
  BY <1>2, <1>0, WithinBound DEF Top, Account, Count, Running, big
<1>3. CASE CacheHit
  BY <1>3, <1>0 DEF CacheHit, Account, Count, Running, big
<1>4. CASE Request
  <2>1. gens' \in Nat /\ gens' <= gens + 1 /\ gens <= big
    BY <1>4, Calls, WithinBound DEF Request, Running, big
  <2> QED BY <1>4, <1>0, <2>1 DEF Request, Account, Count, Running, big
<1>5. CASE StreamEnd
  BY <1>5, <1>0 DEF StreamEnd, Account, Count, Running, big
<1>6. CASE StreamTimeout \/ Raise
  BY <1>6, <1>0 DEF StreamTimeout, Raise, Account, Count, Running, big
<1>7. CASE ContextError
  BY <1>7, <1>0
     DEF ContextError, ContextRetries, Least, Account, Count, Running, big
<1>8. CASE Recover \/ Accept
  BY <1>8, <1>0 DEF Recover, Accept, Account, Count, Running, big
<1>9. CASE Reject \/ ToolsDone \/ Enforce
  <2>1. /\ pc \in {"branch", "tools"} /\ gens' = gens /\ verRetry' = verRetry
        /\ pc' \in {"top", "synth", "error"}
        /\ pc' = "top" => iter' = iter + 1
    BY <1>9 DEF Reject, ToolsDone, Enforce
  <2>2. srcs' \in Nat /\ (srcs > 0 => srcs' > 0)
    <3>1. CASE Reject \/ Enforce
      BY <3>1, <1>0 DEF Reject, Enforce
    <3>2. CASE ToolsDone
      <4>1. srcs' \in Least(srcs, 1)..MaxSources \/ srcs' = srcs
        BY <3>2 DEF ToolsDone, SourcesAfter
      <4>2. Least(srcs, 1) \in Nat /\ (srcs > 0 => Least(srcs, 1) = 1)
        BY <1>0 DEF Least
      <4> QED BY <1>0, <4>1, <4>2, Constants
    <3> QED BY <1>9, <3>1, <3>2
  <2>3. /\ gens <= big
        /\ srcs > 0 => gens + 1 <= W(iter + 1 + verRetry) + verRetry
        /\ srcs = 0 => gens + 1 <= W(iter + 1 + verRetry)
        /\ srcs = 0 => verRetry = 0
    BY <2>1, WithinBound DEF Running, Sourced, big
  <2> QED BY <1>0, <2>1, <2>2, <2>3 DEF Account, Count, Running, big
<1>10. CASE FinishStream \/ RepairUnit \/ RepairEnd
  BY <1>10, <1>0
     DEF FinishStream, Finish, RepairUnit, RepairEnd, Account, Count, Running, big
<1>11. CASE RepairStream
  <2>1. gens' \in Nat /\ gens' <= gens + 1 /\ gens <= big
    BY <1>11, Calls, WithinBound DEF RepairStream, Running, big
  <2> QED BY <1>11, <1>0, <2>1 DEF RepairStream, Account, Count, Running, big
<1>12. CASE SettleStream
  <2>1. pc = "settle" /\ gens' = gens /\ iter' = iter /\ srcs' = srcs
    BY <1>12 DEF SettleStream
  <2>2. gens <= W(iter + 1 + verRetry) + verRetry
    BY <2>1, WithinBound DEF Running
  <2>3. pc' = "done" \/ (pc' = "top" /\ verRetry = 0 /\ verRetry' = 1)
    BY <1>12, <1>0 DEF SettleStream, MayRetry, Least
  <2>4. verRetry = 0 => iter + 1 + verRetry = iter + 1
    BY <1>0
  <2> QED BY <1>0, <2>1, <2>2, <2>3, <2>4 DEF Account, Count, Running, big
<1>13. CASE Verify \/ Deliver
  <2>1. gens' = gens /\ pc' \in {"mend", "deliver", "done"} /\ (pc' = "mend" => gens <= big)
    BY <1>13, WithinBound DEF Verify, Deliver, Finish, Running, big
  <2> QED BY <1>0, <2>1 DEF Account, Running, big
<1>17. CASE Mend \/ Synthesize
  <2>1. pc \in {"mend", "synth"} /\ pc' \in {"deliver", "done"}
    BY <1>17 DEF Mend, Synthesize
  <2>2. gens <= big
    BY <2>1 DEF Account, big
  <2>3. gens' = gens \/ gens' = Least(gens + 1, GenCap)
    BY <1>17 DEF Mend, Synthesize, Called
  <2> QED BY <1>0, <2>1, <2>2, <2>3, Calls DEF Account, Running, big
<1>14. CASE FinishPlain \/ FinishEmpty \/ FinishUnsourced
  BY <1>14, <1>0 DEF FinishPlain, FinishEmpty, FinishUnsourced, Account, Running, big
<1>15. CASE Tick \/ Leave
  BY <1>15, <1>0 DEF Tick, Leave, Account, Count, Running, big
<1>16. CASE UNCHANGED vars
  BY <1>16, <1>0 DEF vars, Account, Count, Running, big
<1> QED BY <1>1, <1>2, <1>3, <1>4, <1>5, <1>6, <1>7, <1>8, <1>9, <1>10, <1>11, <1>12,
           <1>13, <1>14, <1>15, <1>16, <1>17
        DEF Next, Step, Stream, Final

-----------------------------------------------------------------------------
(* The theorems                                                              *)

LEMMA InitInv == Init => LInv
<1> SUFFICES ASSUME Init PROVE LInv
  OBVIOUS
<1>1. conf \in ConfType
  BY LoopAssumption DEF Init
<1>2. Numbers /\ Limits /\ Sourced
  BY <1>1, Constants DEF Init, Numbers, Limits, Sourced, Running, Answering
<1>3. W(0) \in Nat /\ W(HardLimit + 1) \in Nat
  BY Constants, Afford
<1>4. Account
  BY <1>3, Constants DEF Init, Account, Count, Running
<1>5. Unstored /\ Checking /\ DraftsAreChecked /\ NumbersAreComputed
  BY DEF Init, Unstored, Checking, Grades, DraftsAreChecked, NumbersAreComputed
<1> QED BY <1>2, <1>4, <1>5 DEF LInv

LEMMA AlwaysInv == Spec => []LInv
<1>1. LInv /\ [Next]_vars => LInv'
  BY NumbersStep, LimitsStep, SourcedStep, AccountStep, UnstoredStep, CheckingStep,
     CheckedStep, ComputedStep DEF LInv
<1> QED BY InitInv, <1>1, PTL DEF Spec

\* However retries, extensions, context errors and repairs combine, one question
\* costs at most HardLimit passes and GenBound calls of the model (loop.py 850-1900).
THEOREM WorkIsBounded == Spec => []WorkBounded
<1>1. LInv => WorkBounded
  BY DEF LInv, Limits, Account, WorkBounded
<1> QED BY AlwaysInv, <1>1, PTL

\* With grounding on and sources in hand neither an unchecked draft nor a text
\* without a supported fact reaches the client or the cache, and a text found
\* wanting only when it could not be repaired (the streaming and buffered
\* verification of loop.py).
THEOREM CheckedDrafts == Spec => []DraftsAreChecked
<1>1. LInv => DraftsAreChecked
  BY DEF LInv
<1> QED BY AlwaysInv, <1>1, PTL

\* A numeric question over sources ends with a refusal unless the calculator
\* delivered every result it needs (enforcement and synthesis of loop.py).
THEOREM CalculatorOnly == Spec => []NumbersAreComputed
<1>1. LInv => NumbersAreComputed
  BY DEF LInv
<1> QED BY AlwaysInv, <1>1, PTL

-----------------------------------------------------------------------------
(***************************************************************************)
(* The answer cache that the loop asks and fills (AnswerCache): for any    *)
(* documents, questions, sizes and bounds, what a turn finds in it is      *)
(* current, and no cached answer quotes a deleted document, under the      *)
(* conditions that AnswerCache states.                                     *)
(*                                                                         *)
(* An answer says something of the texts it was made from, and so does a   *)
(* turn that has retrieved and not answered yet.  The invariant Sound is   *)
(* about both: unless the turn was overtaken on that document, a text they *)
(* hold is the current one, or is gone, or its document is about to become *)
(* ready and to bump.                                                      *)
(***************************************************************************)
Turn == [pc : {"idle", "found", "asked", "over"},
         got : UNION {[D -> Nat] : D \in SUBSET Docs}, ids : SUBSET Docs, at : Nat]
Row  == {"none", "busy", "settled", "gone"}
Task == {"none", "claimed", "emptied", "shown"}

CacheTyped ==
  /\ row \in [Docs -> Row] /\ text \in [Docs -> Nat] /\ task \in [Docs -> Task]
  /\ texts \in Nat /\ version \in Nat /\ turn \in [Turns -> Turn] /\ since \in [Docs -> Nat]
  /\ archive \in [row : [Docs -> Row], text : [Docs -> Nat]]

\* A task works on a busy document, and a deleted one has no text, also in the
\* backup.
RowInv == \A d \in Docs :
  /\ task[d] # "none" => row[d] = "busy"
  /\ row[d] = "gone" => text[d] = 0
  /\ archive.row[d] = "gone" => archive.text[d] = 0

Sound(made, at) == \A d \in DOMAIN made : at < since[d] \/
  /\ text[d] = 0 \/ text[d] = made[d] \/ task[d] = "shown"
  /\ row[d] = "gone" => \E gone \in purges : d \in gone

TurnInv == \A t \in Turns :
  /\ turn[t].at <= version
  /\ turn[t].ids \subseteq DOMAIN turn[t].got /\ DOMAIN turn[t].got \subseteq Docs
  /\ Sound(turn[t].got, turn[t].at)

EntryInv == \A e \in cache :
  /\ e.at \in Nat /\ e.at <= version
  /\ e.key.ids \subseteq DOMAIN e.made /\ DOMAIN e.made \subseteq Docs
  /\ Sound(e.made, e.at)

CacheInv == CacheTyped /\ RowInv /\ TurnInv /\ EntryInv

-----------------------------------------------------------------------------
(* Turns and entries when the documents change                               *)

\* What was retrieved up to this version stays sound.
Stays == \A made, at :
  at \in Nat /\ at <= version /\ DOMAIN made \subseteq Docs /\ Sound(made, at) => Sound(made, at)'

\* That is all that matters to turns and entries.
LEMMA SoundKeeps ==
  ASSUME CacheTyped, TurnInv, EntryInv, turn' = turn, cache' \subseteq cache,
         version' \in {version, version + 1}, Stays
  PROVE  TurnInv' /\ EntryInv'
<1>1. version' \in Nat /\ version \in Nat /\ \A n \in Nat : n <= version => n <= version'
  BY DEF CacheTyped
<1>2. TurnInv'
  <2> SUFFICES ASSUME NEW t \in Turns
               PROVE  /\ turn[t].at <= version'
                      /\ turn[t].ids \subseteq DOMAIN turn[t].got
                      /\ DOMAIN turn[t].got \subseteq Docs
                      /\ Sound(turn[t].got, turn[t].at)'
    BY DEF TurnInv, Sound
  <2>1. turn[t].at \in Nat
    BY DEF CacheTyped, Turn
  <2> QED BY <1>1, <2>1 DEF TurnInv, Stays
<1>3. EntryInv'
  <2> SUFFICES ASSUME NEW e \in cache
               PROVE  /\ e.at \in Nat /\ e.at <= version'
                      /\ e.key.ids \subseteq DOMAIN e.made /\ DOMAIN e.made \subseteq Docs
                      /\ Sound(e.made, e.at)'
    BY DEF EntryInv, Sound
  <2> QED BY <1>1 DEF EntryInv, Stays
<1> QED BY <1>2, <1>3

\* A document whose change is noted, with a bump or without, is set apart; the others
\* must stay as they are.
LEMMA NotedStays ==
  ASSUME CacheTyped, NEW changed \in SUBSET Docs, Noted(changed, version + 1),
         \A d \in Docs \ changed : row'[d] = row[d] /\ text'[d] = text[d] /\ task'[d] = task[d],
         \A gone \in purges : gone \subseteq changed \/ gone \in purges'
  PROVE  Stays
<1> SUFFICES ASSUME NEW made, NEW at, at \in Nat, at <= version, DOMAIN made \subseteq Docs,
                    Sound(made, at), NEW d \in DOMAIN made
             PROVE  at < since'[d] \/
                    (/\ text'[d] = 0 \/ text'[d] = made[d] \/ task'[d] = "shown"
                     /\ row'[d] = "gone" => \E gone \in purges' : d \in gone)
  BY DEF Stays, Sound
<1>1. CASE d \in changed
  BY <1>1 DEF Noted, CacheTyped
<1>2. CASE d \notin changed
  BY <1>2 DEF Noted, CacheTyped, Sound
<1> QED BY <1>1, <1>2

\* A bump moves the version on and empties the cache.
LEMMA BumpNotes ==
  ASSUME NEW changed, Bump(changed)
  PROVE  /\ Noted(changed, version + 1)
         /\ version' \in {version, version + 1} /\ cache' \subseteq cache
BY DEF Bump, Noted

\* Without one, both stay.
LEMMA UnbumpedNotes ==
  ASSUME NEW changed, Unbumped(changed)
  PROVE  /\ Noted(changed, version + 1)
         /\ version' \in {version, version + 1} /\ cache' \subseteq cache
BY DEF Unbumped, Noted

-----------------------------------------------------------------------------
LEMMA CacheInitInv == CacheInit => CacheInv
<1> SUFFICES ASSUME CacheInit PROVE CacheInv
  OBVIOUS
<1>1. NewTurn \in Turn
  <2>1. [d \in {} |-> 0] \in [{} -> Nat]
    OBVIOUS
  <2>2. [d \in {} |-> 0] \in UNION {[D -> Nat] : D \in SUBSET Docs}
    BY <2>1
  <2> QED BY <2>2 DEF NewTurn, Turn
<1>2. CacheTyped
  BY <1>1 DEF CacheInit, CacheTyped, Row, Task, NoArchive
<1>3. RowInv
  BY DEF CacheInit, RowInv, NoArchive
<1>4. TurnInv
  BY DEF CacheInit, TurnInv, NewTurn, Sound
<1>5. EntryInv
  BY DEF CacheInit, EntryInv
<1> QED BY <1>2, <1>3, <1>4, <1>5 DEF CacheInv

LEMMA OverIsTurn == ASSUME NEW t \in Turns
                    PROVE  /\ [NewTurn EXCEPT !.pc = "over"] \in Turn
                           /\ [NewTurn EXCEPT !.pc = "over"].at = 0
                           /\ [NewTurn EXCEPT !.pc = "over"].ids = {}
                           /\ DOMAIN [NewTurn EXCEPT !.pc = "over"].got = {}
<1>1. [d \in {} |-> 0] \in [{} -> Nat]
  OBVIOUS
<1>2. [d \in {} |-> 0] \in UNION {[D -> Nat] : D \in SUBSET Docs}
  BY <1>1
<1> QED BY <1>2 DEF NewTurn, Turn

-----------------------------------------------------------------------------
LEMMA CacheStep == CacheInv /\ [CacheNext]_answerVars => CacheInv'
<1> SUFFICES ASSUME CacheInv, [CacheNext]_answerVars PROVE CacheInv'
  OBVIOUS
<1> USE DEF CacheInv
<1>k. CacheTyped /\ TurnInv /\ EntryInv
  OBVIOUS
<1>1. ASSUME NEW d \in Docs, Claim(d) PROVE CacheInv'
  <2>1. CASE Bump({d})
    <3>1. CacheTyped' /\ RowInv'
      BY <1>1, <2>1 DEF Claim, CacheTyped, RowInv, Row, Task, Bump, Noted
    <3>2. Stays
      BY <1>1, <1>k, <2>1, BumpNotes, NotedStays DEF Claim, CacheTyped
    <3> QED BY <1>1, <2>1, <3>1, <3>2, BumpNotes, SoundKeeps DEF Claim
  <2>2. CASE row[d] = "none" /\ UNCHANGED cacheVars
    <3>1. CacheTyped' /\ RowInv'
      BY <1>1, <2>2 DEF Claim, CacheTyped, RowInv, Row, Task, cacheVars
    <3>2. Stays
      BY <1>1, <2>2 DEF Claim, Stays, Sound, CacheTyped, RowInv, cacheVars
    <3> QED BY <1>1, <2>2, <3>1, <3>2, SoundKeeps DEF Claim, cacheVars
  <2> QED BY <1>1, <2>1, <2>2 DEF Claim
<1>2. ASSUME NEW d \in Docs, Empty(d) PROVE CacheInv'
  <2>1. CacheTyped' /\ RowInv'
    BY <1>2 DEF Empty, CacheTyped, RowInv, Row, Task, cacheVars
  <2>2. Stays
    BY <1>2 DEF Empty, Stays, Sound, CacheTyped, cacheVars
  <2> QED BY <1>2, <2>1, <2>2, SoundKeeps DEF Empty, cacheVars
<1>3. ASSUME NEW d \in Docs, Show(d) PROVE CacheInv'
  <2>1. CacheTyped' /\ RowInv'
    BY <1>3 DEF Show, CacheTyped, RowInv, Row, Task, cacheVars
  <2>2. Stays
    BY <1>3 DEF Show, Stays, Sound, CacheTyped, cacheVars
  <2> QED BY <1>3, <2>1, <2>2, SoundKeeps DEF Show, cacheVars
<1>4. ASSUME NEW d \in Docs, Ready(d) PROVE CacheInv'
  <2>0. Bump({d})
    BY <1>4 DEF Ready, BumpAtReady
  <2>1. CacheTyped' /\ RowInv'
    BY <1>4, <2>0 DEF Ready, Bump, Noted, CacheTyped, RowInv, Row, Task
  <2>2. Stays
    BY <1>4, <1>k, <2>0, BumpNotes, NotedStays DEF Ready, CacheTyped
  <2> QED BY <1>4, <2>0, <2>1, <2>2, BumpNotes, SoundKeeps DEF Ready
<1>5. ASSUME NEW d \in Docs, Undo(d) PROVE CacheInv'
  <2>1. CASE /\ UNCHANGED cacheVars
             /\ text' = [text EXCEPT ![d] = IF task[d] = "claimed" THEN @ ELSE 0]
    <3>1. CacheTyped' /\ RowInv'
      BY <1>5, <2>1 DEF Undo, CacheTyped, RowInv, Row, Task, cacheVars
    <3>2. Stays
      BY <1>5, <2>1 DEF Undo, Stays, Sound, CacheTyped, Task, RowInv, cacheVars
    <3> QED BY <1>5, <2>1, <3>1, <3>2, SoundKeeps DEF Undo, cacheVars
  <2>2. CASE UNCHANGED text /\ Unbumped({d})
    <3>1. CacheTyped' /\ RowInv'
      BY <1>5, <2>2 DEF Undo, CacheTyped, RowInv, Row, Task, Unbumped, Noted
    <3>2. Stays
      BY <1>5, <1>k, <2>2, UnbumpedNotes, NotedStays DEF Undo, CacheTyped
    <3> QED BY <1>5, <2>2, <3>1, <3>2, UnbumpedNotes, SoundKeeps DEF Undo
  <2> QED BY <1>5, <2>1, <2>2 DEF Undo, CleanedUp
<1>6. ASSUME NEW gone \in SUBSET Docs, DeleteRows(gone) PROVE CacheInv'
  <2>1. CacheTyped' /\ RowInv'
    BY <1>6 DEF DeleteRows, CacheTyped, RowInv, Row, Task, cacheVars
  <2>2. Stays
    BY <1>6 DEF DeleteRows, Stays, Sound, CacheTyped, cacheVars
  <2> QED BY <1>6, <2>1, <2>2, SoundKeeps DEF DeleteRows, cacheVars
<1>7. ASSUME NEW gone \in SUBSET Docs, PurgeDone(gone) PROVE CacheInv'
  <2>0. Bump(gone) \/ Unbumped(gone)
    BY <1>7 DEF PurgeDone, BumpAtPurge
  <2>1. CacheTyped' /\ RowInv'
    BY <1>7, <2>0 DEF PurgeDone, Bump, Unbumped, Noted, CacheTyped, RowInv, Row, Task
  <2>2. /\ Noted(gone, version + 1)
        /\ version' \in {version, version + 1} /\ cache' \subseteq cache
    BY <2>0, BumpNotes, UnbumpedNotes
  <2>3. \A g \in purges : g \subseteq gone \/ g \in purges'
    BY <1>7 DEF PurgeDone
  <2>4. Stays
    BY <1>7, <1>k, <2>2, <2>3, NotedStays DEF PurgeDone
  <2> QED BY <1>7, <2>1, <2>2, <2>4, SoundKeeps DEF PurgeDone
<1>8. ASSUME NEW t \in Turns, Retrieve(t) PROVE CacheInv'
  <2>1. PICK found \in SUBSET {d \in Docs : text[d] # 0} \ {{}} :
        \E n : \E ids \in kSubset(n, found) :
          turn' = [turn EXCEPT ![t] =
            [pc |-> "found", got |-> [d \in found |-> text[d]], ids |-> ids, at |-> version]]
    BY <1>8, Zenon DEF Retrieve
  <2>2. PICK ids \in SUBSET found :
          turn' = [turn EXCEPT ![t] =
            [pc |-> "found", got |-> [d \in found |-> text[d]], ids |-> ids, at |-> version]]
    BY <2>1 DEF kSubset
  <2> DEFINE got == [d \in found |-> text[d]]
  <2>3. got \in [found -> Nat] /\ found \in SUBSET Docs
    BY DEF CacheTyped
  <2>4. got \in UNION {[D -> Nat] : D \in SUBSET Docs}
    BY <2>3
  <2>5. [pc |-> "found", got |-> got, ids |-> ids, at |-> version] \in Turn
    BY <2>3, <2>4 DEF Turn, CacheTyped
  <2>6. UNCHANGED <<docVars, cacheVars, archive>>
    BY <1>8 DEF Retrieve
  <2>7. CacheTyped' /\ RowInv' /\ EntryInv'
    BY <2>2, <2>5, <2>6 DEF CacheTyped, RowInv, EntryInv, Sound, docVars, cacheVars
  <2>8. Sound(got, version)
    BY <2>3 DEF Sound, RowInv
  <2>9. TurnInv'
    <3> SUFFICES ASSUME NEW s \in Turns
                 PROVE  /\ turn'[s].at <= version
                        /\ turn'[s].ids \subseteq DOMAIN turn'[s].got
                        /\ DOMAIN turn'[s].got \subseteq Docs
                        /\ Sound(turn'[s].got, turn'[s].at)
      BY <2>6 DEF TurnInv, Sound, docVars, cacheVars
    <3>1. CASE s = t
      <4>1. turn'[s] = [pc |-> "found", got |-> got, ids |-> ids, at |-> version]
        BY <2>2, <3>1 DEF CacheTyped
      <4> QED BY <4>1, <2>3, <2>8 DEF CacheTyped
    <3>2. CASE s # t
      <4>1. turn'[s] = turn[s]
        BY <2>2, <3>2 DEF CacheTyped
      <4> QED BY <4>1 DEF TurnInv
    <3> QED BY <3>1, <3>2
  <2> QED BY <2>7, <2>9
<1>9. ASSUME NEW t \in Turns, Hit(t) PROVE CacheInv'
  <2>1. turn' = [turn EXCEPT ![t] = [NewTurn EXCEPT !.pc = "over"]]
        /\ UNCHANGED <<docVars, cacheVars, archive>>
    BY <1>9 DEF Hit
  <2>2. CacheTyped' /\ TurnInv'
    BY <2>1, OverIsTurn DEF CacheTyped, TurnInv, Sound, docVars, cacheVars
  <2>3. RowInv' /\ EntryInv'
    BY <2>1 DEF RowInv, EntryInv, Sound, docVars, cacheVars
  <2> QED BY <2>2, <2>3
<1>10. ASSUME NEW t \in Turns, Generate(t) PROVE CacheInv'
  <2>1. turn' = [turn EXCEPT ![t].pc = "asked"]
        /\ UNCHANGED <<docVars, cacheVars, archive>>
    BY <1>10 DEF Generate
  <2>2. turn' \in [Turns -> Turn] /\ \A s \in Turns :
          turn'[s].got = turn[s].got /\ turn'[s].ids = turn[s].ids /\ turn'[s].at = turn[s].at
    BY <2>1 DEF CacheTyped, Turn
  <2> QED BY <2>1, <2>2
          DEF CacheTyped, RowInv, EntryInv, TurnInv, Sound, docVars, cacheVars
<1>11. ASSUME NEW t \in Turns, Put(t) PROVE CacheInv'
  <2> DEFINE new == [key |-> Key(t), made |-> turn[t].got, at |-> turn[t].at]
  <2>1. turn' = [turn EXCEPT ![t] = [NewTurn EXCEPT !.pc = "over"]]
        /\ UNCHANGED <<docVars, version, since, archive>>
    BY <1>11 DEF Put
  <2>2. CacheTyped' /\ RowInv' /\ TurnInv'
    BY <2>1, OverIsTurn DEF CacheTyped, RowInv, TurnInv, Sound, docVars
  <2>3. cache' \subseteq cache \cup {new}
    BY <1>11 DEF Put, Rooms
  <2>4. /\ new.at \in Nat /\ new.at <= version
        /\ new.key.ids \subseteq DOMAIN new.made /\ DOMAIN new.made \subseteq Docs
        /\ Sound(new.made, new.at)
    BY DEF TurnInv, Key, CacheTyped, Turn
  <2>5. \A e \in cache' : /\ e.at \in Nat /\ e.at <= version
                         /\ e.key.ids \subseteq DOMAIN e.made /\ DOMAIN e.made \subseteq Docs
                         /\ Sound(e.made, e.at)
    BY <2>3, <2>4 DEF EntryInv
  <2>6. EntryInv'
    BY <2>1, <2>5 DEF EntryInv, Sound, docVars
  <2> QED BY <2>2, <2>6
<1>12. CASE Backup
  BY <1>12 DEF Backup, CacheTyped, RowInv, TurnInv, EntryInv, Sound, docVars,
               cacheVars
<1>13. CASE Restore
  <2>1. CacheTyped' /\ RowInv'
    BY <1>13 DEF Restore, Changing, CacheTyped, RowInv, Row, Task, NoArchive, Unbumped, Noted
  <2>2. Stays
    BY <1>13, <1>k, UnbumpedNotes, NotedStays DEF Restore
  <2> QED BY <1>13, <2>1, <2>2, UnbumpedNotes, SoundKeeps DEF Restore
<1>14. CASE Expire
  BY <1>14 DEF Expire, CacheTyped, RowInv, TurnInv, EntryInv, Sound, docVars
<1>15. CASE UNCHANGED answerVars
  BY <1>15 DEF answerVars, CacheTyped, RowInv, TurnInv, EntryInv, Sound
<1> QED BY <1>1, <1>2, <1>3, <1>4, <1>5, <1>6, <1>7, <1>8, <1>9, <1>10, <1>11, <1>12,
           <1>13, <1>14, <1>15 DEF CacheNext

LEMMA AlwaysCached == CacheSpec => []CacheInv
BY CacheInitInv, CacheStep, PTL DEF CacheSpec

-----------------------------------------------------------------------------
\* What a turn finds was made from the texts it retrieved itself, on every document
\* on which the turn that made it was not overtaken (FoundIsCurrent): with no change
\* under way no document is about to bump, so a sound text that a search finds is
\* the current one.
THEOREM CacheCurrent == CacheSpec => []FoundIsCurrent
<1>1. CacheInv => FoundIsCurrent
  <2> SUFFICES ASSUME CacheInv, ~Changing, NEW e \in cache,
                      Findable(e), NEW d \in e.key.ids, ~Overtaken(e, d)
               PROVE  e.made[d] = text[d]
    BY DEF FoundIsCurrent
  <2>1. d \in DOMAIN e.made /\ d \in Docs /\ Sound(e.made, e.at)
    BY DEF CacheInv, EntryInv
  <2>2. text[d] # 0 /\ task[d] = "none"
    BY <2>1 DEF Findable, Changing
  <2> QED BY <2>1, <2>2 DEF Sound, Overtaken
<1> QED BY <1>1, AlwaysCached, PTL

\* No cached answer quotes a deleted document whose clean-up is over
\* (DeletedNotQuoted).
THEOREM CacheForgets == CacheSpec => []DeletedNotQuoted
<1>1. CacheInv => DeletedNotQuoted
  BY DEF CacheInv, EntryInv, Sound, Overtaken, DeletedNotQuoted
<1> QED BY <1>1, AlwaysCached, PTL
=============================================================================
