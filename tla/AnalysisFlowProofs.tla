------------------------- MODULE AnalysisFlowProofs -------------------------
(***************************************************************************)
(* Theorems about AnalysisFlow for any number of redeliveries, chunks,     *)
(* batches and retries.                                                    *)
(***************************************************************************)
EXTENDS AnalysisFlow, TLAPS

\* Only the faults the code answers itself: a failing dispatch, a failing or
\* postponed fetch, an open breaker, a raising LLM call, a dying worker.
HandledOnly == Faults \cap {"pg", "preprocess", "ast", "quota", "aggregate"} = {}

\* analyze_llm never returns an empty result in place of an error.
NothingSwallowed == "llm_swallow" \notin Faults

\* Then every header task is queued or done, and an LLM task's retries are
\* exactly its failures: Celery's own limit never cuts the budget short.
PartsHealthy ==
    \A l \in Lane :
       /\ \A u \in Unit : part[l][u].st \in {"queued", "done"}
       /\ \A b \in Batch : /\ part[l][b].retries = part[l][b].failures
                           /\ part[l][b].failures <= LlmFailures

HandledInv == TypeOK /\ PartsHealthy /\ NeverLeftRunning

\* What a finished batch and a cached batch hold when nothing is swallowed.
ResultsTold ==
    /\ \A b \in Batch : cache[b] \in {"none", "full"}
    /\ \A l \in Lane, b \in Batch :
         part[l][b].st = "done" => part[l][b].llm \in {"full", "degraded"}
    /\ \A l \in Lane, u \in Unit :
         stage[l] \in {"aggregate", "handed"} => part[l][u].st = "done"

USE FlowAssumption

-----------------------------------------------------------------------------
\* What the updates of a header task's record leave and change.
LEMMA EndsFacts ==
  ASSUME NEW p \in Part, NEW s \in {"queued", "done", "failed", "gave_up"}
  PROVE  /\ Ends(p, s) \in Part /\ Ends(p, s).st = s
         /\ Ends(p, s).retries = p.retries /\ Ends(p, s).failures = p.failures
  BY DEF Ends, Part

\* A batch that returns a result is done and keeps its counters.
LEMMA ResultFacts ==
  ASSUME NEW p \in Part, NEW r \in {"full", "empty", "degraded"}
  PROVE  /\ Result(p, r) \in Part /\ Result(p, r).st = "done" /\ Result(p, r).llm = r
         /\ Result(p, r).retries = p.retries /\ Result(p, r).failures = p.failures
  BY DEF Result, Part

\* A retry counts one more Celery retry and nothing else.
LEMMA RetriedFacts ==
  ASSUME NEW p \in Part
  PROVE  /\ Retried(p) \in Part /\ Retried(p).st = p.st
         /\ Retried(p).retries = p.retries + 1 /\ Retried(p).failures = p.failures
  BY DEF Retried, Part

\* A retried failure counts in both counters.
LEMMA FailedOnceFacts ==
  ASSUME NEW p \in Part
  PROVE  /\ FailedOnce(p) \in Part /\ FailedOnce(p).st = p.st
         /\ FailedOnce(p).retries = p.retries + 1
         /\ FailedOnce(p).failures = p.failures + 1
  <1> DEFINE r == Retried(p)
             q == [r EXCEPT !.failures = @ + 1]
  <1>1. r \in Part /\ r.st = p.st /\ r.retries = p.retries + 1 /\ r.failures = p.failures
    BY RetriedFacts
  <1> HIDE DEF r
  <1>2. q \in Part /\ q.st = r.st /\ q.retries = r.retries /\ q.failures = r.failures + 1
    BY <1>1 DEF Part
  <1>3. QED
    BY <1>1, <1>2 DEF r, FailedOnce

\* An execution of a header task rewrites its own record only.
LEMMA AstOutcome ==
  ASSUME TypeOK, NEW l \in Lane, NEW c \in Chunk, AnalyzeAst(l, c)
  PROVE  \E q \in Part : Becomes(l, c, q)
  <1>1. part[l][c] \in Part
    BY DEF TypeOK, Unit
  <1>2. \A s \in {"done", "failed"} : Ends(part[l][c], s) \in Part
    BY <1>1, EndsFacts
  <1>3. Retried(part[l][c]) \in Part
    BY <1>1, RetriedFacts
  <1>4. QED
    BY <1>2, <1>3 DEF AnalyzeAst

\* The ways an execution of analyze_llm_task can end, whatever the cache, the
\* limiter, the breaker and the LLM answer.
LEMMA LlmOutcome ==
  ASSUME TypeOK, NEW l \in Lane, NEW b \in Batch, AnalyzeLlm(l, b)
  PROVE  LET p == part[l][b] IN
         \/ \E r \in {"full", "empty", "degraded"} :
              /\ Becomes(l, b, Result(p, r))
              /\ r \in {cache[b], "full", "degraded"} \/ May("llm_swallow")
         \/ Becomes(l, b, Retried(p)) /\ May("quota")
         \/ Becomes(l, b, Ends(p, "gave_up")) /\ May("quota")
         \/ Becomes(l, b, FailedOnce(p)) /\ p.failures < LlmFailures
         \/ Becomes(l, b, Ends(p, "failed")) /\ p.failures < LlmFailures /\ ~RetriesLeft(p)
  <1>1. cache[b] \in {"none", "full", "empty"}
    BY DEF TypeOK
  <1>2. CASE LlmCacheHit(l, b)
    BY <1>1, <1>2 DEF LlmCacheHit
  <1>3. CASE LlmNoToken(l, b)
    BY <1>3 DEF LlmNoToken
  <1>4. CASE LlmBreakerOpen(l, b)
    BY <1>4 DEF LlmBreakerOpen
  <1>5. CASE LlmRaised(l, b)
    BY <1>5 DEF LlmRaised
  <1>6. CASE LlmReturned(l, b)
    BY <1>6 DEF LlmReturned
  <1>7. QED
    BY <1>2, <1>3, <1>4, <1>5, <1>6 DEF AnalyzeLlm

-----------------------------------------------------------------------------
\* The variables of the flow keep their types.
LEMMA FlowTypeStep == TypeOK /\ [Next]_vars => TypeOK'
  <1> SUFFICES ASSUME TypeOK, [Next]_vars PROVE TypeOK'
    OBVIOUS
  <1> USE DEF TypeOK, Terminal, Stage
  <1>1. ASSUME NEW l \in Lane, OrchestratePrAnalysis(l) PROVE TypeOK'
    BY <1>1 DEF OrchestratePrAnalysis, BestEffort, Goto
  <1>2. ASSUME NEW l \in Lane, FetchPrDiff(l) PROVE TypeOK'
    BY <1>2 DEF FetchPrDiff, FetchPostponed, FetchFailed, FetchDone, FetchAgain,
                BestEffort, Goto
  <1>3. ASSUME NEW l \in Lane, PreprocessAndChunk(l) PROVE TypeOK'
    <2>1. [u \in Unit |-> NewPart] \in [Unit -> Part]
      BY DEF NewPart, Part
    <2>2. QED
      BY <1>3, <2>1 DEF PreprocessAndChunk, Goto
  <1>4. ASSUME NEW l \in Lane, NEW u \in Unit, NEW p \in Part, Becomes(l, u, p),
               UNCHANGED <<status, stage, retries>>, cache' \in [Batch -> {"none", "full", "empty"}]
        PROVE  TypeOK'
    BY <1>4 DEF Becomes
  <1>5. ASSUME NEW l \in Lane, NEW c \in Chunk, AnalyzeAst(l, c) PROVE TypeOK'
    <2>1. PICK q \in Part : Becomes(l, c, q)
      BY <1>5, AstOutcome
    <2>2. QED
      BY <2>1, <1>4, <1>5 DEF AnalyzeAst, Unit
  <1>6. ASSUME NEW l \in Lane, NEW b \in Batch, AnalyzeLlm(l, b) PROVE TypeOK'
    <2>1. part[l][b] \in Part
      BY DEF Unit
    <2>2. \E q \in Part : Becomes(l, b, q)
      BY <2>1, <1>6, LlmOutcome, EndsFacts, ResultFacts, RetriedFacts, FailedOnceFacts
    <2>3. cache' \in [Batch -> {"none", "full", "empty"}]
      BY <1>6 DEF AnalyzeLlm, LlmCacheHit, LlmNoToken, LlmBreakerOpen, LlmRaised, LlmReturned
    <2>4. QED
      BY <2>2, <2>3, <1>4, <1>6 DEF AnalyzeLlm, Unit
  <1>7. ASSUME NEW l \in Lane, ChordBody(l) \/ AggregateFindings(l) PROVE TypeOK'
    BY <1>7 DEF ChordBody, AggregateFindings, Goto
  <1>8. ASSUME NEW l \in Lane, NEW k \in Lane, Redeliver(l, k) PROVE TypeOK'
    BY <1>8 DEF Redeliver, Goto
  <1>9. ASSUME NEW b \in Batch, CacheExpires(b) PROVE TypeOK'
    BY <1>9 DEF CacheExpires
  <1>10. CASE UNCHANGED vars
    BY <1>10 DEF vars
  <1>11. ASSUME NEW l \in Lane, NEW b \in Batch, RedeliverLlm(l, b) PROVE TypeOK'
    BY <1>11 DEF RedeliverLlm
  <1>12. QED
    BY <1>1, <1>2, <1>3, <1>5, <1>6, <1>7, <1>8, <1>9, <1>10, <1>11 DEF Next, Step

\* Every variable of the analysis flow keeps its type, whatever fails.
THEOREM FlowTypeOK == Spec => []TypeOK
  <1>1. Init => TypeOK
    <2>1. NewPart \in Part
      BY DEF NewPart, Part
    <2>2. QED
      BY <2>1 DEF Init, TypeOK, Stage, Terminal
  <1>2. QED
    BY <1>1, FlowTypeStep, PTL DEF Spec

-----------------------------------------------------------------------------
\* With handled faults only, a header task is never lost.
LEMMA PartsHealthyStep ==
  ASSUME HandledOnly, TypeOK, PartsHealthy, [Next]_vars
  PROVE  PartsHealthy'
  <1>1. ASSUME NEW l \in Lane, PreprocessAndChunk(l) PROVE PartsHealthy'
    BY <1>1 DEF PreprocessAndChunk, PartsHealthy, NewPart, TypeOK, Unit
  <1>2. ASSUME NEW l \in Lane, NEW c \in Chunk, AnalyzeAst(l, c) PROVE PartsHealthy'
    <2>1. c \in Unit /\ c \notin Batch /\ part[l][c] \in Part
      BY DEF Unit, TypeOK
    <2>2. PICK q \in Part : Becomes(l, c, q) /\ q.st = "done"
      BY <1>2, <2>1, EndsFacts DEF AnalyzeAst, May, HandledOnly
    <2>3. QED
      BY <2>1, <2>2 DEF PartsHealthy, TypeOK, Becomes, Unit
  <1>3. ASSUME NEW l \in Lane, NEW b \in Batch, AnalyzeLlm(l, b) PROVE PartsHealthy'
    <2> DEFINE p == part[l][b]
    <2>1. /\ b \in Unit /\ p \in Part /\ p.st \in {"queued", "done"}
          /\ p.retries = p.failures /\ p.failures <= LlmFailures
      BY DEF Unit, TypeOK, PartsHealthy
    <2>2. p.failures < LlmFailures => RetriesLeft(p)
      BY <2>1 DEF RetriesLeft, Part
    <2>3. ~May("quota")
      BY DEF May, HandledOnly
    <2>4. \/ \E r \in {"full", "empty", "degraded"} : Becomes(l, b, Result(p, r))
          \/ Becomes(l, b, FailedOnce(p)) /\ p.failures < LlmFailures
      BY <1>3, <2>2, <2>3, LlmOutcome
    <2> HIDE DEF p
    <2>5. PICK q \in Part : /\ Becomes(l, b, q)
                            /\ q.st \in {"queued", "done"}
                            /\ q.retries = q.failures /\ q.failures <= LlmFailures
      <3>1. CASE \E r \in {"full", "empty", "degraded"} : Becomes(l, b, Result(p, r))
        BY <3>1, <2>1, ResultFacts
      <3>2. CASE Becomes(l, b, FailedOnce(p)) /\ p.failures < LlmFailures
        <4>1. /\ FailedOnce(p) \in Part /\ FailedOnce(p).st = p.st
              /\ FailedOnce(p).retries = p.retries + 1
              /\ FailedOnce(p).failures = p.failures + 1
          BY <2>1, FailedOnceFacts
        <4>2. p.failures \in Nat
          BY <2>1 DEF Part
        <4>3. FailedOnce(p).failures <= LlmFailures
          BY <4>1, <4>2, <3>2
        <4>4. QED
          BY <4>1, <4>3, <3>2, <2>1
      <3>3. QED
        BY <2>4, <3>1, <3>2
    <2>6. QED
      BY <2>1, <2>5 DEF PartsHealthy, Becomes, TypeOK, Unit
  <1>4. ASSUME NEW l \in Lane, NEW k \in Lane, Redeliver(l, k) PROVE PartsHealthy'
    BY <1>4 DEF Redeliver, PartsHealthy, TypeOK, Unit
  <1>5. CASE UNCHANGED part
    BY <1>5 DEF PartsHealthy
  <1>6. QED
    BY <1>1, <1>2, <1>3, <1>4, <1>5 DEF Next, Step, OrchestratePrAnalysis, FetchPrDiff,
       ChordBody, AggregateFindings, CacheExpires, RedeliverLlm, vars

\* With handled faults only, the step that settles the last lane writes a
\* terminal status or hands the run over.
LEMMA NeverLeftStep ==
  ASSUME HandledOnly, HandledInv, PartsHealthy', [Next]_vars
  PROVE  NeverLeftRunning'
  <1> SUFFICES ASSUME \A l \in Lane : Settled(l)' /\ stage'[l] # "handed"
               PROVE  status' \in Terminal
    BY DEF NeverLeftRunning
  <1>1. \A l \in Lane : stage'[l] \in {"idle", "skipped", "dead"}
    BY DEF Settled, PartsHealthy
  <1>2. ASSUME NEW l \in Lane, Step(l) PROVE status' \in Terminal
    <2>1. stage'[l] \in {"idle", "skipped", "dead"}
      BY <1>1
    <2> USE DEF HandledInv, TypeOK
    <2>2. CASE OrchestratePrAnalysis(l)
      BY <2>1, <2>2 DEF OrchestratePrAnalysis, Goto, BestEffort, May, HandledOnly, Terminal
    <2>3. CASE FetchPrDiff(l)
      BY <2>1, <2>3 DEF FetchPrDiff, FetchPostponed, FetchFailed, FetchDone, FetchAgain,
                        Goto, BestEffort, May, HandledOnly, Terminal
    <2>4. CASE PreprocessAndChunk(l)
      BY <2>1, <2>4 DEF PreprocessAndChunk, Goto, May, HandledOnly, Terminal
    <2>5. CASE (\E c \in Chunk : AnalyzeAst(l, c)) \/ (\E b \in Batch : AnalyzeLlm(l, b))
      BY <2>1, <2>5 DEF AnalyzeAst, AnalyzeLlm, Queued
    <2>6. CASE ChordBody(l) \/ AggregateFindings(l)
      BY <2>1, <2>6 DEF ChordBody, AggregateFindings, Goto, May, HandledOnly
    <2>7. QED
      BY <1>2, <2>2, <2>3, <2>4, <2>5, <2>6 DEF Step
  <1>3. ASSUME NEW l \in Lane, NEW k \in Lane, Redeliver(l, k) PROVE status' \in Terminal
    BY <1>1, <1>3 DEF Redeliver, Goto, HandledInv, TypeOK
  <1>4. CASE \/ \E b \in Batch : CacheExpires(b) \/ \E l \in Lane : RedeliverLlm(l, b)
             \/ UNCHANGED vars
    <2>1. UNCHANGED <<status, stage, part>>
      BY <1>4 DEF CacheExpires, RedeliverLlm, vars
    <2>2. \A l \in Lane : Settled(l) /\ stage[l] # "handed"
      BY <2>1, <1>1 DEF Settled
    <2>3. QED
      BY <2>1, <2>2 DEF HandledInv, NeverLeftRunning
  <1>5. QED
    BY <1>2, <1>3, <1>4 DEF Next

\* The Terminal Status Invariant of DEC-013 holds for every fault the code
\* handles, whatever the number of chunks, batches, retries and redeliveries.
THEOREM FlowNeverLeftRunning ==
  ASSUME HandledOnly
  PROVE  Spec => []NeverLeftRunning
  <1>1. Init => HandledInv
    <2>1. Init => TypeOK
      <3>1. NewPart \in Part
        BY DEF NewPart, Part
      <3>2. QED
        BY <3>1 DEF Init, TypeOK, Stage, Terminal
    <2>2. Init => PartsHealthy
      BY DEF Init, PartsHealthy, NewPart, Unit
    <2>3. Init => NeverLeftRunning
      BY DEF Init, NeverLeftRunning, Settled
    <2>4. QED
      BY <2>1, <2>2, <2>3 DEF HandledInv
  <1>2. HandledInv /\ [Next]_vars => HandledInv'
    BY HandledOnly, FlowTypeStep, PartsHealthyStep, NeverLeftStep DEF HandledInv
  <1>3. HandledInv => NeverLeftRunning
    BY DEF HandledInv
  <1>4. QED
    BY <1>1, <1>2, <1>3, PTL DEF Spec

-----------------------------------------------------------------------------
\* A batch result is full or flagged as degraded as long as no LLM error is
\* swallowed.
LEMMA ResultsToldStep ==
  ASSUME NothingSwallowed, TypeOK, ResultsTold, [Next]_vars
  PROVE  ResultsTold'
  <1> USE DEF TypeOK
  <1>1. ASSUME NEW l \in Lane,
               OrchestratePrAnalysis(l) \/ FetchPrDiff(l) \/ ChordBody(l) \/ AggregateFindings(l)
        PROVE  ResultsTold'
    BY <1>1 DEF ResultsTold, OrchestratePrAnalysis, FetchPrDiff, FetchPostponed, FetchFailed,
                FetchDone, FetchAgain, ChordBody, AggregateFindings, Goto
  <1>2. ASSUME NEW l \in Lane, PreprocessAndChunk(l) PROVE ResultsTold'
    <2>1. CASE part' = [part EXCEPT ![l] = [u \in Unit |-> NewPart]] /\ Goto(l, "chord")
      <3>1. \A u \in Unit : part'[l][u].st = "queued"
        BY <2>1 DEF NewPart
      <3>2. \A k \in Lane : k # l => part'[k] = part[k] /\ stage'[k] = stage[k]
        BY <2>1 DEF Goto
      <3>3. stage'[l] = "chord" /\ cache' = cache
        BY <1>2, <2>1 DEF Goto, PreprocessAndChunk
      <3>4. QED
        BY <3>1, <3>2, <3>3 DEF ResultsTold, Unit
    <2>2. CASE UNCHANGED part
      BY <1>2, <2>2 DEF ResultsTold, PreprocessAndChunk, Goto, Unit
    <2>3. QED
      BY <1>2, <2>1, <2>2 DEF PreprocessAndChunk
  <1>3. ASSUME NEW l \in Lane, NEW u \in Unit, NEW p \in Part, Becomes(l, u, p),
               Queued(l, u), UNCHANGED stage,
               u \in Batch /\ p.st = "done" => p.llm \in {"full", "degraded"},
               \A b \in Batch : cache'[b] \in {"none", "full"}
        PROVE  ResultsTold'
    BY <1>3 DEF ResultsTold, Becomes, Queued, Unit
  <1>4. ASSUME NEW l \in Lane, NEW c \in Chunk, AnalyzeAst(l, c) PROVE ResultsTold'
    <2>1. PICK q \in Part : Becomes(l, c, q)
      BY <1>4, AstOutcome
    <2>2. QED
      BY <2>1, <1>3, <1>4 DEF AnalyzeAst, ResultsTold, Unit
  <1>5. ASSUME NEW l \in Lane, NEW b \in Batch, AnalyzeLlm(l, b) PROVE ResultsTold'
    <2> DEFINE p == part[l][b]
    <2>1. b \in Unit /\ p \in Part /\ p.st = "queued" /\ Queued(l, b)
      BY <1>5 DEF Unit, AnalyzeLlm, Queued
    <2>2. ~May("llm_swallow") /\ cache[b] \in {"none", "full"}
      BY DEF May, NothingSwallowed, ResultsTold
    <2>3. \/ \E r \in {"full", "degraded"} : Becomes(l, b, Result(p, r))
          \/ Becomes(l, b, Retried(p)) \/ Becomes(l, b, FailedOnce(p))
          \/ \E s \in {"failed", "gave_up"} : Becomes(l, b, Ends(p, s))
      BY <1>5, <2>2, LlmOutcome
    <2> HIDE DEF p
    <2>4. PICK q \in Part : /\ Becomes(l, b, q)
                            /\ q.st = "done" => q.llm \in {"full", "degraded"}
      <3>1. CASE \E r \in {"full", "degraded"} : Becomes(l, b, Result(p, r))
        BY <3>1, <2>1, ResultFacts
      <3>2. CASE Becomes(l, b, Retried(p)) \/ Becomes(l, b, FailedOnce(p))
        BY <3>2, <2>1, RetriedFacts, FailedOnceFacts
      <3>3. CASE \E s \in {"failed", "gave_up"} : Becomes(l, b, Ends(p, s))
        BY <3>3, <2>1, EndsFacts
      <3>4. QED
        BY <2>3, <3>1, <3>2, <3>3
    <2>5. \A d \in Batch : cache'[d] \in {"none", "full"}
      BY <1>5 DEF AnalyzeLlm, LlmCacheHit, LlmNoToken, LlmBreakerOpen, LlmRaised,
                  LlmReturned, May, NothingSwallowed, ResultsTold
    <2>6. QED
      BY <2>1, <2>4, <2>5, <1>3, <1>5 DEF AnalyzeLlm
  <1>6. ASSUME NEW l \in Lane, NEW k \in Lane, Redeliver(l, k) PROVE ResultsTold'
    BY <1>6 DEF ResultsTold, Redeliver, Goto, Unit
  <1>7. ASSUME NEW b \in Batch, CacheExpires(b) PROVE ResultsTold'
    BY <1>7 DEF ResultsTold, CacheExpires
  <1>8. CASE UNCHANGED vars
    BY <1>8 DEF ResultsTold, vars
  <1>9. ASSUME NEW l \in Lane, NEW b \in Batch, RedeliverLlm(l, b) PROVE ResultsTold'
    BY <1>9 DEF RedeliverLlm, ResultsTold, May, NothingSwallowed
  <1>10. QED
    BY <1>1, <1>2, <1>4, <1>5, <1>6, <1>7, <1>8, <1>9 DEF Next, Step

\* A run is handed over as degraded exactly when some batch was not analysed,
\* for every fault but a swallowed LLM error.
THEOREM FlowDegradationReported ==
  ASSUME NothingSwallowed
  PROVE  Spec => []DegradationReported
  <1>1. Init => ResultsTold
    BY DEF Init, ResultsTold, NewPart, Unit
  <1>2. TypeOK /\ ResultsTold /\ [Next]_vars => ResultsTold'
    BY ResultsToldStep, NothingSwallowed
  <1>3. ResultsTold => DegradationReported
    BY DEF ResultsTold, DegradationReported, Degraded, Unit
  <1>4. QED
    BY <1>1, <1>2, <1>3, FlowTypeOK, PTL DEF Spec

-----------------------------------------------------------------------------
\* No message has been redelivered.
Undelivered == \A l \in Lane \ {FirstLane} : stage[l] = "idle"

\* As long as the webhook's lane is the only one, a terminal status means that
\* this lane is over.
EndedWithStatus ==
    Undelivered /\ status \in Terminal => stage[FirstLane] \in {"dead", "skipped"}

\* The task that writes a terminal status is the last of its lane.
LEMMA EndedWithStatusStep ==
  ASSUME TypeOK, EndedWithStatus, [Next]_vars
  PROVE  EndedWithStatus'
  <1> USE DEF TypeOK
  <1> SUFFICES ASSUME Undelivered', status' \in Terminal
               PROVE  stage'[FirstLane] \in {"dead", "skipped"}
    BY DEF EndedWithStatus, Undelivered
  <1>1. CASE UNCHANGED <<status, stage>>
    BY <1>1 DEF EndedWithStatus, Undelivered
  <1>2. ASSUME NEW l \in Lane, NEW k \in Lane, Redeliver(l, k)
        PROVE  stage'[FirstLane] \in {"dead", "skipped"}
    <2>1. /\ stage'[k] \in {"orchestrate", "fetch", "preprocess", "aggregate"}
          /\ stage[k] = "idle" /\ status' = status
          /\ \A j \in Lane \ {k} : stage'[j] = stage[j]
      BY <1>2 DEF Redeliver, Goto
    <2>2. k = FirstLane
      BY <2>1 DEF Undelivered
    <2>3. Undelivered /\ stage[FirstLane] = "idle"
      BY <2>1, <2>2 DEF Undelivered
    <2>4. QED
      BY <2>1, <2>3 DEF EndedWithStatus
  <1>3. ASSUME NEW l \in Lane, Step(l), stage[l] # "idle", stage'[l] # "idle",
               \A j \in Lane \ {l} : stage'[j] = stage[j],
               \/ status' = status /\ stage[l] \notin {"dead", "skipped"}
               \/ stage'[l] \in {"dead", "skipped"}
        PROVE  stage'[FirstLane] \in {"dead", "skipped"}
    <2>1. l = FirstLane
      BY <1>3 DEF Undelivered
    <2>2. Undelivered
      BY <1>3, <2>1 DEF Undelivered
    <2>3. QED
      BY <1>3, <2>1, <2>2 DEF EndedWithStatus
  <1>4. ASSUME NEW l \in Lane, OrchestratePrAnalysis(l)
        PROVE  stage'[FirstLane] \in {"dead", "skipped"}
    <2>1. /\ stage[l] = "orchestrate" /\ \A j \in Lane \ {l} : stage'[j] = stage[j]
          /\ \/ stage'[l] = "fetch" /\ status' \in {status, "running"}
             \/ stage'[l] = "dead"
      BY <1>4 DEF OrchestratePrAnalysis, Goto, BestEffort
    <2>2. "running" \notin Terminal
      BY DEF Terminal
    <2>3. QED
      BY <1>3, <1>4, <2>1, <2>2 DEF Step
  <1>5. ASSUME NEW l \in Lane, FetchPrDiff(l) PROVE stage'[FirstLane] \in {"dead", "skipped"}
    <2>1. CASE UNCHANGED <<status, stage>>
      BY <1>1, <2>1
    <2>2. CASE Goto(l, "dead") \/ (Goto(l, "preprocess") /\ status' = status)
      BY <1>3, <1>5, <2>2 DEF FetchPrDiff, Goto, Step
    <2>3. QED
      BY <1>5, <2>1, <2>2 DEF FetchPrDiff, FetchPostponed, FetchFailed, FetchDone, FetchAgain
  <1>6. ASSUME NEW l \in Lane, PreprocessAndChunk(l) PROVE stage'[FirstLane] \in {"dead", "skipped"}
    BY <1>3, <1>6 DEF PreprocessAndChunk, Goto, Step
  <1>7. ASSUME NEW l \in Lane, ChordBody(l) \/ AggregateFindings(l)
        PROVE  stage'[FirstLane] \in {"dead", "skipped"}
    BY <1>3, <1>7 DEF ChordBody, AggregateFindings, Goto, Step
  <1>8. QED
    BY <1>1, <1>2, <1>4, <1>5, <1>6, <1>7 DEF Next, Step, AnalyzeAst, AnalyzeLlm, CacheExpires,
       RedeliverLlm, vars

\* Until a message is redelivered, no later step of the run overwrites a terminal
\* status, whatever fails and for any number of retries, chunks and batches.
THEOREM FlowTerminalIsFinal == Spec => TerminalIsFinal
  <1>1. Init => EndedWithStatus
    BY DEF Init, EndedWithStatus, Terminal
  <1>2. TypeOK /\ EndedWithStatus /\ [Next]_vars => EndedWithStatus'
    BY EndedWithStatusStep
  <1>3. ASSUME EndedWithStatus, [Next]_vars
        PROVE  [(status \in Terminal /\ \A l \in Lane \ {FirstLane} : stage[l] = "idle")
                  => (status' = status)]_vars
    <2> SUFFICES ASSUME Next, status \in Terminal, \A l \in Lane \ {FirstLane} : stage[l] = "idle"
                 PROVE  status' = status
      BY <1>3 DEF vars
    <2>1. stage[FirstLane] \in {"dead", "skipped"}
      BY <1>3 DEF EndedWithStatus, Undelivered
    <2>2. \A l \in Lane : stage[l] \in {"dead", "skipped", "idle"}
      BY <2>1
    <2>3. \A l \in Lane : ~ Step(l)
      BY <2>2 DEF Step, OrchestratePrAnalysis, FetchPrDiff, PreprocessAndChunk, AnalyzeAst,
                  AnalyzeLlm, Queued, ChordBody, AggregateFindings
    <2>4. QED
      BY <2>3 DEF Next, Redeliver, RedeliverLlm, CacheExpires
  <1>4. QED
    BY <1>1, <1>2, <1>3, FlowTypeOK, PTL DEF Spec, TerminalIsFinal
=============================================================================
