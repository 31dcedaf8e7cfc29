---------------------------- MODULE AnalysisFlow ----------------------------
(***************************************************************************)
(* The analysis half of the Celery pipeline of worker/tasks.py for one     *)
(* analysis run: orchestrate_pr_analysis -> fetch_pr_diff ->               *)
(* preprocess_and_chunk -> a chord of analyze_ast and analyze_llm tasks -> *)
(* aggregate_findings, which hands the run over to post_review_to_github.  *)
(*                                                                         *)
(* A lane is one chain of task executions.  Messages are acknowledged      *)
(* late: when a worker dies after a task did its work the broker delivers  *)
(* the message again and the second execution starts a lane of its own.    *)
(*                                                                         *)
(* The breakers, the rate limiter and the external services appear here    *)
(* through their answers; the constant Faults names the bad answers the    *)
(* environment may give.                                                   *)
(***************************************************************************)
EXTENDS Integers, FiniteSets

CONSTANTS Lane,          \* executions of the chain: 1 + number of redeliveries
          FirstLane,     \* the lane the webhook starts
          Chunk,         \* chunks preprocess may produce (one AST task each)
          Batch,         \* LLM batches of those chunks
          FetchRetries,  \* fetch_pr_diff max_retries, 3
          AstRetries,    \* analyze_ast max_retries, 1
          LlmRetries,    \* analyze_llm max_retries, 3
          LlmFailures,   \* failure_retries budget of analyze_llm, 3
          Faults         \* what may go wrong

AllFaults == {"pg", "dispatch", "github_quota", "fetch", "preprocess", "ast",
              "quota", "llm_open", "llm_raise", "llm_swallow", "aggregate", "crash"}

ASSUME FlowAssumption ==
    /\ FirstLane \in Lane
    /\ Chunk \cap Batch = {} /\ Batch # {}
    /\ FetchRetries \in Nat /\ AstRetries \in Nat
    /\ LlmRetries \in Nat /\ LlmFailures \in Nat
    /\ LlmFailures <= LlmRetries
    /\ Faults \subseteq AllFaults

VARIABLES
    status,     \* analysis_runs.status
    stage,      \* the task each lane is at
    retries,    \* request.retries of the lane's fetch_pr_diff
    part,       \* per lane and chord header task, its message or outcome
    cache       \* llm_cache: what is cached for a batch's prompt

vars == <<status, stage, retries, part, cache>>

Unit == Chunk \cup Batch
Terminal == {"completed", "failed", "skipped"}
Stage == {"idle", "orchestrate", "fetch", "preprocess", "chord", "aggregate",
          "handed", "skipped", "dead"}
\* st "failed": the task raised; "gave_up": Celery raised MaxRetriesExceeded.
\* llm tells what the batch's result holds: "degraded" is flagged as such,
\* "empty" is an unflagged result without analysis.
Part == [st : {"queued", "done", "failed", "gave_up"}, retries : Nat,
         failures : Nat, llm : {"none", "full", "empty", "degraded"}]

NewPart == [st |-> "queued", retries |-> 0, failures |-> 0, llm |-> "none"]

TypeOK ==
    /\ status \in {"pending", "running"} \cup Terminal
    /\ stage \in [Lane -> Stage]
    /\ retries \in [Lane -> 0..FetchRetries]
    /\ part \in [Lane -> [Unit -> Part]]
    /\ cache \in [Batch -> {"none", "full", "empty"}]

Init ==
    /\ status = "pending"
    /\ stage = [l \in Lane |-> IF l = FirstLane THEN "orchestrate" ELSE "idle"]
    /\ retries = [l \in Lane |-> 0]
    /\ part = [l \in Lane |-> [u \in Unit |-> NewPart]]
    /\ cache = [b \in Batch |-> "none"]

-----------------------------------------------------------------------------
May(f) == f \in Faults

\* A status update whose exception is caught and logged: it takes effect, or
\* PostgreSQL is unreachable and the old status stays.
BestEffort(old, new) == {new} \cup (IF May("pg") THEN {old} ELSE {})

Goto(l, s) == stage' = [stage EXCEPT ![l] = s]

OrchestratePrAnalysis(l) ==
    /\ stage[l] = "orchestrate"
    /\ \E s \in BestEffort(status, "running") :
         \/ /\ Goto(l, "fetch")
            /\ status' = s
         \/ /\ May("dispatch")
            /\ Goto(l, "dead")
            /\ status' \in BestEffort(s, "failed")
    /\ UNCHANGED <<retries, part, cache>>

\* self.retry on behalf of the lane's fetch_pr_diff.
FetchAgain(l) ==
    /\ retries' = [retries EXCEPT ![l] = @ + 1]
    /\ UNCHANGED <<status, stage>>

\* GitHub quota nearly used up: rescheduled to cp-retry, on the first attempt.
FetchPostponed(l) ==
    /\ May("github_quota")
    /\ retries[l] = 0 /\ FetchRetries > 0
    /\ FetchAgain(l)

\* Mutant: the last failure is not recorded as terminal.
FetchFailedSilently(l) ==
    /\ May("fetch")
    /\ \/ retries[l] < FetchRetries /\ FetchAgain(l)
       \/ retries[l] = FetchRetries /\ Goto(l, "dead") /\ UNCHANGED <<status, retries>>

\* Mutant: every failure is recorded as terminal, also one that is retried.
FetchFailedEarly(l) ==
    /\ May("fetch")
    /\ status' = "failed"
    /\ \/ /\ retries[l] < FetchRetries
          /\ retries' = [retries EXCEPT ![l] = @ + 1]
          /\ UNCHANGED stage
       \/ retries[l] = FetchRetries /\ Goto(l, "dead") /\ UNCHANGED retries

\* The breaker refuses or the fetch raises: retry, or fail the run.
FetchFailed(l) ==
    /\ May("fetch")
    /\ \/ /\ retries[l] < FetchRetries
          /\ FetchAgain(l)
       \/ /\ retries[l] = FetchRetries
          /\ status' \in BestEffort(status, "failed")
          /\ Goto(l, "dead")
          /\ UNCHANGED retries

FetchDone(l) ==
    /\ Goto(l, "preprocess")
    /\ UNCHANGED <<status, retries>>

FetchPrDiff(l) ==
    /\ stage[l] = "fetch"
    /\ FetchPostponed(l) \/ FetchFailed(l) \/ FetchDone(l)
    /\ UNCHANGED <<part, cache>>

\* No handler encloses preprocess_and_chunk: an exception (soft time limit,
\* PostgreSQL while marking the run skipped) fails the task and nothing else.
PreprocessAndChunk(l) ==
    /\ stage[l] = "preprocess"
    /\ \/ /\ Goto(l, "skipped")
          /\ status' = "skipped"
          /\ UNCHANGED part
       \/ /\ Goto(l, "chord")
          /\ part' = [part EXCEPT ![l] = [u \in Unit |-> NewPart]]
          /\ UNCHANGED status
       \/ /\ May("preprocess") \/ May("pg")
          /\ Goto(l, "dead")
          /\ UNCHANGED <<status, part>>
    /\ UNCHANGED <<retries, cache>>

-----------------------------------------------------------------------------
(* The chord header.                                                       *)

Queued(l, u) == stage[l] = "chord" /\ part[l][u].st = "queued"
Becomes(l, u, p) == part' = [part EXCEPT ![l][u] = p]
Ends(p, st) == [p EXCEPT !.st = st]
Retried(p) == [p EXCEPT !.retries = @ + 1]
FailedOnce(p) == [Retried(p) EXCEPT !.failures = @ + 1]

\* analyze_ast_task: one retry, then a dead letter and the exception.
AnalyzeAst(l, c) ==
    /\ Queued(l, c)
    /\ LET p == part[l][c] IN
       \/ Becomes(l, c, Ends(p, "done"))
       \/ /\ May("ast")
          /\ Becomes(l, c, IF p.retries < AstRetries THEN Retried(p)
                           ELSE Ends(p, "failed"))
    /\ UNCHANGED <<status, stage, retries, cache>>

Result(p, llm) == [p EXCEPT !.st = "done", !.llm = llm]

\* Task.retry(max_retries=None) falls back on the task's max_retries, which
\* counts rate-limit retries and failure retries alike.
RetriesLeft(p) == p.retries < LlmRetries

LlmCacheHit(l, b) ==
    /\ cache[b] # "none"
    /\ Becomes(l, b, Result(part[l][b], cache[b]))
    /\ UNCHANGED cache

\* No token: wait within the deadline, or degrade once it has passed.
LlmNoToken(l, b) ==
    /\ cache[b] = "none" /\ May("quota")
    /\ LET p == part[l][b] IN
       \/ Becomes(l, b, Result(p, "degraded"))
       \/ Becomes(l, b, IF RetriesLeft(p) THEN Retried(p) ELSE Ends(p, "gave_up"))
    /\ UNCHANGED cache

\* Mutant: the AST-only result does not carry the degraded mark.
LlmBreakerOpenUnmarked(l, b) ==
    /\ cache[b] = "none" /\ May("llm_open")
    /\ Becomes(l, b, Result(part[l][b], "empty"))
    /\ UNCHANGED cache

LlmBreakerOpen(l, b) ==
    /\ cache[b] = "none" /\ May("llm_open")
    /\ Becomes(l, b, Result(part[l][b], "degraded"))
    /\ UNCHANGED cache

\* analyze_llm raised.  The failure is retried while the budget lasts and the
\* breaker has not just opened; otherwise a dead letter and a degraded result.
LlmRaised(l, b) ==
    /\ cache[b] = "none" /\ May("llm_raise")
    /\ LET p == part[l][b] IN
       \/ /\ p.failures < LlmFailures
          /\ Becomes(l, b, IF RetriesLeft(p) THEN FailedOnce(p) ELSE Ends(p, "failed"))
       \/ /\ p.failures = LlmFailures \/ May("llm_open")
          /\ Becomes(l, b, Result(p, "degraded"))
    /\ UNCHANGED cache

\* analyze_llm returned.  It catches the errors of the LLM client itself and
\* then returns no findings; either result is cached as a success.
LlmReturned(l, b) ==
    /\ cache[b] = "none"
    /\ \E r \in {"full"} \cup (IF May("llm_swallow") THEN {"empty"} ELSE {}) :
         /\ Becomes(l, b, Result(part[l][b], r))
         /\ cache' = [cache EXCEPT ![b] = r]

AnalyzeLlm(l, b) ==
    /\ Queued(l, b)
    /\ \/ LlmCacheHit(l, b) \/ LlmNoToken(l, b) \/ LlmBreakerOpen(l, b)
       \/ LlmRaised(l, b) \/ LlmReturned(l, b)
    /\ UNCHANGED <<status, stage, retries>>

\* The 24 h life of a cache entry ends.
CacheExpires(b) ==
    /\ cache[b] # "none"
    /\ cache' = [cache EXCEPT ![b] = "none"]
    /\ UNCHANGED <<status, stage, retries, part>>

\* Celery runs the chord body once every header task has returned a result.
ChordBody(l) ==
    /\ stage[l] = "chord"
    /\ \A u \in Unit : part[l][u].st = "done"
    /\ Goto(l, "aggregate")
    /\ UNCHANGED <<status, retries, part, cache>>

\* llm_degraded as aggregate_findings computes it from the results.
Degraded(l) == \E b \in Batch : part[l][b].llm = "degraded"

\* Mutant: a failing aggregation starts the chord again, without a limit.
AggregateAgain(l) ==
    /\ stage[l] = "aggregate"
    /\ \/ Goto(l, "handed")
       \/ May("aggregate") /\ Goto(l, "preprocess")
    /\ UNCHANGED <<status, retries, part, cache>>

\* No handler encloses aggregate_findings either.
AggregateFindings(l) ==
    /\ stage[l] = "aggregate"
    /\ \/ Goto(l, "handed")
       \/ May("aggregate") /\ Goto(l, "dead")
    /\ UNCHANGED <<status, retries, part, cache>>

\* A worker dies between the work of lane l's task and its acknowledgement:
\* the message is executed once more, as lane k.
Redeliver(l, k) ==
    /\ May("crash")
    /\ stage[l] \in {"orchestrate", "fetch", "preprocess", "aggregate"}
    /\ stage[k] = "idle"
    /\ Goto(k, stage[l])
    /\ retries' = [retries EXCEPT ![k] = retries[l]]
    /\ part' = [part EXCEPT ![k] = part[l]]
    /\ UNCHANGED <<status, cache>>

\* The same for an LLM task of the chord header: its answer may be cached already
\* when the message is executed once more.  (An AST task leaves nothing behind.)
RedeliverLlm(l, b) ==
    /\ May("crash")
    /\ Queued(l, b) /\ cache[b] = "none"
    /\ \E r \in {"full"} \cup (IF May("llm_swallow") THEN {"empty"} ELSE {}) :
         cache' = [cache EXCEPT ![b] = r]
    /\ UNCHANGED <<status, stage, retries, part>>

Step(l) ==
    \/ OrchestratePrAnalysis(l) \/ FetchPrDiff(l) \/ PreprocessAndChunk(l)
    \/ \E c \in Chunk : AnalyzeAst(l, c)
    \/ \E b \in Batch : AnalyzeLlm(l, b)
    \/ ChordBody(l) \/ AggregateFindings(l)

Next ==
    \/ \E l \in Lane :
         \/ Step(l)
         \/ \E k \in Lane : Redeliver(l, k)
         \/ \E b \in Batch : RedeliverLlm(l, b)
    \/ \E b \in Batch : CacheExpires(b)

Spec == Init /\ [][Next]_vars

\* Queued messages are delivered and tasks have time limits.
FairSpec ==
    /\ Spec
    /\ \A l \in Lane :
         /\ WF_vars(OrchestratePrAnalysis(l)) /\ WF_vars(FetchPrDiff(l))
         /\ WF_vars(PreprocessAndChunk(l)) /\ WF_vars(ChordBody(l))
         /\ WF_vars(AggregateFindings(l))
         /\ \A c \in Chunk : WF_vars(AnalyzeAst(l, c))
         /\ \A b \in Batch : WF_vars(AnalyzeLlm(l, b))

-----------------------------------------------------------------------------
(* Properties.                                                             *)

\* Nothing of lane l is left to execute.
Settled(l) ==
    \/ stage[l] \in {"idle", "handed", "skipped", "dead"}
    \/ /\ stage[l] = "chord"
       /\ \A u \in Unit : part[l][u].st # "queued"
       /\ \E u \in Unit : part[l][u].st # "done"

\* DECISIONS.md, DEC-013, Terminal Status Invariant: "An analysis run is never
\* left in "running" or "pending"" - once no task of the run is left and none
\* of its lanes reached the posting step, the run has a terminal status.
NeverLeftRunning ==
    (\A l \in Lane : Settled(l) /\ stage[l] # "handed") => status \in Terminal

\* Architecture, Branch D: a run whose LLM analysis did not happen for some
\* batch goes on to posting as a degraded run (and only such a run does), so
\* that the review says so and the run is flagged for re-analysis.
DegradationReported ==
    \A l \in Lane : stage[l] = "handed" =>
      (Degraded(l) <=> \E b \in Batch : part[l][b].llm # "full")

\* Until a message is redelivered a terminal status is final: no later step of
\* the run, retried or failing in another order, overwrites it.  (A redelivered
\* orchestrate_pr_analysis sets it back to running.)
TerminalIsFinal ==
    [][(status \in Terminal /\ \A l \in Lane \ {FirstLane} : stage[l] = "idle")
         => (status' = status)]_vars

\* Whatever fails, retries and redeliveries come to an end: all work on the
\* run is eventually over, for good.
WorkEnds == <>[](\A l \in Lane : Settled(l))
=============================================================================
