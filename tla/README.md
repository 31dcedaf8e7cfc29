# TLA+ models of CodePulse AI

CodePulse AI reviews GitHub pull requests. A webhook starts an analysis run; a
chain of Celery tasks fetches the diff, analyses it with AST heuristics and an
LLM, aggregates the findings, posts one review and stores the results. Redis
holds idempotency keys, locks, breakers, the rate limiter, caches and fallback
queues; PostgreSQL holds runs, findings, usage rows and dead letters. What is
hard in this code is what happens between those stores: retries, redelivered
messages, late answers, overlapping periodic tasks and failures between two
writes; and, on the way of the data, the boundary cases of paging, chunking,
merging and of putting a comment on the right line of a diff.

All paths below are relative to `src/src/codepulse/` unless they start with `src/`.

## Inventory

| Component | State | Operations | Hard behaviour | What makes it correct |
|---|---|---|---|---|
| Webhook ingestion (`ingestion/webhook.py`, `service.py`) | Redis `idempotency:*`; tables `repositories`, `analysis_runs`, `webhook_events_log`; queue cp-high | `handle_webhook` | concurrent and repeated deliveries, key expiry, failure between two stores | no commit is queued twice; no genuine commit is lost or wrongly called a duplicate |
| Circuit breaker (`analysis/circuit_breaker.py`) | Redis `circuit:{name}:state, opened_at, failures, probe` | `can_execute`, `record_success`, `record_failure`, `reset` | timestamps read before the script, late reports, lost probes | one probe at a time, cool-down kept, recovery certain |
| Rate limiter (`analysis/rate_limiter.py`) | Redis `rate_limit:gemini:tokens, ts` | `acquire`, `reset` | reordered timestamps, key expiry | rate bound in every window, exact wait |
| Analysis pipeline (`worker/tasks.py`, `celery_app.py`) | run status, Celery messages and retry counters, chord, LLM cache | `orchestrate_pr_analysis` … `aggregate_findings` | redelivery (acks_late), two retry counters, chord failure | a terminal status in every case, degradation told |
| Intake (`ingestion/diff_fetcher.py`, `preprocessor.py`) | file list, chunks, batches | `fetch_pr_files`, `preprocess_pr_files`, `batch_chunks_for_llm` | page boundaries, pushes while listing, rounding of token estimates | every hunk analysed once, limits kept |
| Aggregation (`aggregation/dedup.py`, `line_mapping.py`, `engine.py`, `summary.py`, `github_poster.py`; `analysis/llm_engine.py`) | dedup map, parser state, review payload | merge, rank, escalate, parse, map, compose, post | order of merges, truncation, diff lines that look like headers, partial answers, 422 | nothing lost or played down, comments GitHub accepts, on the right lines |
| Delivery (`worker/tasks.py`, `aggregation/persistence.py`) | run row, usage rows, dead letters, `review_payload:*`, `dead_letter:persist:*`, `codepulse:pending_persistence`, `lock:repost_unposted:*` | `post_review_to_github`, `persist_results`, drain, unposted scan | lost answers, overlapping scans, killed tasks, LPOP before store | one review, a truthful record, nothing lost |
| Admin retry (`ingestion/admin.py`) | shares delivery's | `execute_retry_posting` | no lock, letters of follow-ups | as delivery |
| Re-analysis (`worker/tasks.py` 1503-1828) | `reanalysis_needed`, findings rows, `lock:reanalyze:*`, `reanalyze:attempts:*` | `scan_reanalysis_needed` | stale list, killed between commits, failed follow-ups, starvation by older runs | comments do not add up over attempts, rows agree with GitHub, the flag settles |
| AST rules, web UI, metrics, tracing, schema, deploy | sessions, counters | views | - | outside the models |

Interaction: `handle_webhook` publishes `orchestrate_pr_analysis` (Ingestion →
AnalysisFlow); `fetch_pr_diff` and `preprocess_and_chunk` do what Intake models;
`aggregate_findings` does what Aggregation models and hands over to
`post_review_to_github` (→ ReviewDelivery); `persist_results` leaves a degraded
run flagged (→ Reanalysis), whose follow-up dead letters come back to the
unposted scan and the admin (→ ReviewDelivery); tasks ask breaker and limiter
before external calls; Celery Beat runs the scans and the drain beside the chain.

## Modules

| Module | Models | Proofs |
|---|---|---|
| `Ingestion`, `MCIngestion` | `handle_webhook` with the operations of `service.py` | `IngestionProofs` |
| `AnalysisRequests` | abstract: what the endpoint promises the rest of the system | (refined by `Ingestion`) |
| `CircuitBreaker`, `MCCircuitBreaker` | the three Lua scripts, `reset`, the callers' protocol | `CircuitBreakerProofs` |
| `RateLimiter`, `MCRateLimiter` | `TOKEN_BUCKET_LUA`, `acquire`, `reset` | `RateLimiterProofs` |
| `AnalysisFlow`, `MCAnalysisFlow` | the tasks from `orchestrate_pr_analysis` to `aggregate_findings` for one run | `AnalysisFlowProofs` |
| `Intake`, `MCIntake` | listing, filter, chunks, batches | `IntakeProofs` |
| `Dedup` | `deduplicate_and_sort` | `AggregationProofs` |
| `LineMapping` | `parse_unified_diff`, `map_findings_to_diff_positions`, and a reference reading of a diff | `AggregationProofs` |
| `Aggregation`, `MCAggregation` | composes Dedup and LineMapping with escalation, composition and posting | `AggregationProofs` |
| `ReviewDelivery`, `MCReviewDelivery` | posting, persistence, fallback, drain, unposted scan, admin retry, effect of re-analysis, for one run | `ReviewDeliveryProofs` |
| `Reanalysis`, `MCReanalysis` | `scan_reanalysis_needed` for several runs | `ReanalysisProofs` |

`PROJECT.json` maps every definition to its lines. Operators marked *Mutant* are
faulty variants of the definition after them; no specification uses them.

**Time.** CircuitBreaker and RateLimiter keep ages and remaining lifetimes, so a
behaviour is unbounded although its states are finite. `time.time()` is read
before the script runs; the scripts then carry a timestamp of up to `MaxLag`
ticks ago and run in any order.

**Lanes.** With `acks_late` a worker's death after a task's work leads to a second
execution. AnalysisFlow and ReviewDelivery give it a lane of its own, which runs
beside the first: the harshest reading of a redelivery. The tasks of the chord
header have no lane: a second execution of one repeats its work and may find the
answer of the first in the cache (`RedeliverLlm`), and what Celery's chord makes
of two results of one task is not modelled.

**Faults.** `AnalysisFlow`, `ReviewDelivery` and `Ingestion` have a constant
`Faults` with the bad answers their environment may give, Reanalysis one per run
(`FaultsOf`), so a run can ask what holds under which failures. Breakers and
limiter appear in the pipeline through their answers (an open breaker is the
fault `llm_open`, or `post`/`fetch`).

**AnalysisFlow.** `status` is `analysis_runs.status`; `stage[l]` the task lane `l`
is at; `part[l][u]` the chord header task of chunk or batch `u` with Celery's
retry counter, the task's own `failure_retries` and what its result says of the
LLM analysis; `cache` the LLM cache. `BestEffort` is a status update whose
exception is swallowed (`record_terminal_failure`).

**ReviewDelivery.** `row` is the run's row, `dead` the lanes whose posting dead
letter is unresolved (and "followup" for that of a follow-up), `payload` the 24 h
Redis copy, `pending` and `dump` the Branch G fallback. Each commit, Redis
command and GitHub call of the scanner, the drain and the admin endpoint is a
step. The scan's 15-minute age filter is modelled by its effect: the chain is
over and drained when a scan lists the run, unless the fault `slow` is on.
`reviews` counts what GitHub created; the fault `lost` is a created review whose
answer never arrived.

**Reanalysis.** `job[s]` is an execution of the task with the list it read;
`posted` and `unposted` count the findings rows, `comments` what GitHub shows. A
finding stands for file, line, category and family, and `SpotOf` leaves out the
family, as the code's two comparisons do. Counts are needed since an answer is a
list: `analyze_llm` puts the findings of all chunks together, and they are
compared with the rows but not with each other, so one answer may name a finding
up to `Copies` times. `InDiff` are the findings on a line of the diff, `diff` is
the stored diff (`diff:{run}`, 24 hours): once it has expired (`DiffExpires`) the
patches are joined without file headers and nothing is `Mapped` to it. The
histories `named` (how often one answer named a finding at most), `lost`
(comments of posts whose success was not recorded), `stripped` (runs with a
follow-up whose comments GitHub refused) and `blank` (runs with a follow-up posted
without the stored diff) record what the code cannot know or does not record.

**Ingestion.** A commit is the unique constraint (repository, PR number, head); a
key what the Redis key tells apart, so that keys may be shared between commits.
`hook[d]` is how far the handler of delivery `d` has come. `ServesRequests` maps
the accepted commits, the rows and the queue to `AnalysisRequests`.

**Intake, Dedup, LineMapping.** Data are abstracted to what decides: a patch to
its traits and the characters of its hunks, a diff to the kinds of its lines, a
finding to its place, ranks, title and family, a file name to what the parser
reads of it (`NameRead`: the part before a space). One step is one turn of the
code's loop.

## Runs

| Run | Bounds | Shows |
|---|---|---|
| `breaker` | 3 callers, threshold 3, window 3, recovery 2, probe TTL 3, lag 1; fair | `OneProbe`: two probes of one HALF_OPEN phase are in flight only if the first outlived its key. `CountedFailuresAreRecent`: a trip is backed by consecutive failures of the window. `CoolDown`: no probe earlier than recovery − lag. `OpenRecovers`, `ProbeReissued`: neither late failures nor lost probes block recovery |
| `limiter` | 2 callers, burst 2 tokens of 2 units, lag 2, window 4 | `RateBound` with its exact overrun (`regress`) by reordered timestamps; `WaitIsExact` |
| `flow_handled` | 2 lanes, 1 chunk, 2 batches, 2 retries; all handled faults and a redelivery | `NeverLeftRunning` (DEC-013), `DegradationReported` (Branch D), `TerminalIsFinal` |
| `flow_live` | 2 lanes, 1 chunk, 1 batch, 1 retry; every fault; fair | `WorkEnds`: no endless retry |
| `flow_quota` | 1 lane, the code's retry limits; only rate limiting | **violation** of `NeverLeftRunning` |
| `delivery_sequential` | 1 lane, 1 scanner, 1 drainer, 2 usage rows, 2 retries; failing stores, pushes, expiry | `OneReview`, `RecordTruthful` |
| `delivery_faults` | 2 lanes, 1 scanner, 1 drainer, 1 admin; every fault but lost dead letters and kills, follow-up letters included | `UnpostedIsRecoverable` (Branch F) |
| `delivery_live` | 2 lanes, 2 scanners, 1 drainer; kills, redelivery, lost answers, results that go through Redis; fair | `PostedIsReal`, `FallbackKept`, `OneScannerPosts`, `ReviewDelivered` |
| `ingestion` | 5 deliveries (2 of one commit, 1 of another, a ping, a forgery), one sent twice; all faults; fair | `QueuedOnce`, `RunIsQueued`, `DuplicateIsKnown`, `EveryCommitQueued`, and the refinement `ServesRequests` |
| `reanalysis` | 2 executions, 2 runs, limit 1, cap 2, 2 findings of the younger run (one on the diff that an answer may name twice, one outside); the older meets the faults of analysis, the younger those of posting and the expiry of its diff; fair | `CommentedOnce`, `RowsTruthful`, `UnpostedHasLetter`, `FlagSettles` |
| `intake` | pages of 2 with 0 to 3 files, a push to any other list; patches of up to 3 hunks around a limit of 2 tokens; batches of 2 chunks and 5 tokens | `ListedExactly`, `HunksPartitioned`, `ChunkBound`, `BatchBound` |
| `aggregation` | every list of up to 4 of 10 findings, cut at 2; every diff with a first hunk of up to 3 lines of 6 kinds and three continuations; 4 answers of the larger model, 2 attempts | `SeverityPreserved`, `OneEntryPerKey`, `SevereFirst`; `ParseAgrees` (`ParseSound` and `ParseComplete`) against the reference reading; `CommentAccepted`, `ChangedLineCommented`; `EveryFindingReported` across the composition; `EscalationOnlyRaises` |

**Why the bounds are enough.** Three breaker callers allow a late call, a probe
and its replacement at once. Two lanes are one redelivery at any point of the chain; two scans
are the least that overlap. One or two retries distinguish first, middle and last
attempts. A query limit of 1 with two runs is the least in which a run waits
behind another. Lists of 0 to 3 files meet an empty, a partial, a full and a
second page; sizes of 3 and 7 characters meet both roundings, 30 the hunk beyond
the limit. Four findings allow a merged entry to be met by a third and a fourth
one; three hunk lines allow a line that looks like a header with changed lines on
both sides, and the continuations a second hunk, a file listed twice and another
file. `MaxReviews` only stops the count after a duplicate exists; `MaxWindow`,
`MaxGrant` and `MaxRegress` end an observed window that can start at any moment;
`MaxAttempts` bounds GitHub's redeliveries of one delivery, `MaxPushes` the pushes
during a listing. The theorems carry most safety properties beyond all bounds.
Deadlock is not checked where a run of the program really ends.

**Fairness.** Weak fairness of Celery tasks and web handlers: queued messages are
delivered and tasks and HTTP calls have time limits. Weak fairness of the clock
and of workers that keep asking the breaker. Strong fairness of the unposted
scan's progress: Beat schedules it for ever, so it is not killed, refused by the
lock or failed by GitHub every single time. In Reanalysis strong fairness only of
counting the attempt and of giving up: an execution that comes to a run again and
again is not killed before its INCR every time, nor failed by PostgreSQL whenever
it clears the flag. The attempts themselves may all fail. Nothing is assumed of
faults, pushes and expiry.

## What is proved

All theorems hold for every value of the constants that satisfies the module's
assumption, without symmetry or bounds on behaviours. The type invariant of every
module with a proof module is a theorem, and so is every safety invariant and
action property of the passing runs; where one needs an assumption about faults,
processes or inputs, the theorem names it, and a run checks the property on an
instance that satisfies it.

* **CircuitBreakerProofs.** `OneProbe` and `CoolDown` are not inductive by
  themselves. `IInv` adds `History` (who has an era is in flight), `ProbeKey` (a
  young probe's age and the key's remaining life add up to the TTL, which is why
  `SET NX` cannot succeed beside it) and `OpenedAt` (`opened_at` is at most one
  lag older than the last trip). `BreakerInvariant` proves it; the others follow.
  `CountedFailuresAreRecent` needs `CounterKey`: the age of a counted failure
  (`recent`) and the remaining life of the counter's key together never exceed the
  window, so the key expires before a failure leaves it.
* **RateLimiterProofs.** The invariant is a potential argument: `granted` plus
  what the bucket could hand out to any timestamp not older than the lag never
  exceeds what the window has earned. A script with an older timestamp adds
  exactly its regression to both sides.
* **AnalysisFlowProofs.** `FlowNeverLeftRunning` assumes that only handled faults
  occur; then every header task is queued or done and Celery's counter equals the
  failure budget (`PartsHealthy`). `FlowDegradationReported` holds for every fault
  but a swallowed LLM error: a cached or finished batch is full or marked
  (`ResultsTold`). `FlowTerminalIsFinal` holds under every fault: the task that
  writes a terminal status is the last of its lane (`EndedWithStatus`).
* **ReviewDeliveryProofs.** `DeliveryOneScannerPosts` through `LockHeld` (who is
  past the lock holds it; a killed scan's lock outlives it).
  `DeliveryUnpostedIsRecoverable` through `PayloadDurable`: a dead letter of the
  primary exists from the moment a posting task gives up and is resolved only
  after a review exists or the head moved. It assumes that dead letters reach
  PostgreSQL. `DeliveryFallbackKept` through `ResultsKept` (the results of a
  finished chain are queued, popped or stored) assumes that the push to Redis
  works and that PostgreSQL does not fail in the drain. `DeliveryPostedIsReal` says
  that no row and no copy of the results (in a chain, a drain or the dump) claims
  a review that is not on GitHub, for any number of redeliveries, drains, scans
  and admin calls, under every fault but follow-up letters.
  `DeliveryOneReview` and `DeliveryRecordTruthful` hold when nothing overlaps and
  no answer is lost (`Undisturbed`): `ReviewKnown` ties the number of reviews to
  what row, payload, scan and drain each believe at every point of the chain, so
  that whoever posts next knows of the review or there is none.
* **IngestionProofs.** `IngestionQueuedOnce` through `OnePublisher`: only the
  handler that inserted the row comes to publish, and it has not published yet.
  `RunIsQueued` and `DuplicateIsKnown` through `Accounted`: every row and every
  key in Redis has a handler under way, a message or a failure that explains it.
  `IngestionServesRequests` is the refinement: initial states map to initial
  states and every step to a step of `AnalysisRequests` or a stutter.
* **ReanalysisProofs.** `IInv` adds to the types `LockOwned` (who works on a run
  holds its lock) and the books: `Prepared` (the unposted rows an execution is
  about to post are, under the lock, still those of the run, and what is new was
  named by an answer and has no posted row), `Counted` (comments balance posted
  rows, the post in flight and `lost`: exactly, but for `stripped` and `blank`),
  `Recorded` (who took the bare summary or an expired diff has left its mark) and
  `Lettered`. Without the lock `Prepared` fails, which is the double comment of
  two overlapping executions.
* **AggregationProofs.** Merging: `KeysApart` (entries of one spot have different
  keys, and an entry whose title is not its key is merged) makes
  `SeverityPreserved` inductive, for findings in any order. Ranking: the place of
  an entry in the sorted list is the number of entries up to it, a cardinality;
  `SortedEntries` proves that this is a permutation ordered by severity, which
  gives `DedupSevereFirst`. `RankInv` (every entry is kept or dropped, every kept
  finding is a comment or a line of the body) carries that through escalation,
  composition and posting to `AggregationEveryFindingReported`.
  The diff: `ParserInv` says there is a strictly increasing assignment `hd` of hunk
  headers to the parser's hunks such that each hunk holds only lines and numbers
  of the body of its header (all of them, where no line looks like a header), and
  the open one continues with the next number of its header; `CloseStep`,
  `OpenStep` and `LineStep` keep it. `AggregationParseSound` holds for every diff,
  `AggregationParseAgrees` for diffs as git writes them (`WellFormed`: hunks after
  the header of their file, lines only in hunks, names not empty, hunks with new
  lines start at 1 or later). The comments: `MapInv` ties positions to the hunks
  and payloads to the positions. `AggregationCommentAccepted` assumes that a name
  the parser reads, and a finding is of, is that of a file of the diff
  (`OwnNames`); the findings are of files of the pull request.
  `AggregationChangedLineCommented` also uses that `hd` increases: the first hunk
  touched is the one the finding ends in. It needs `NamesApart`, which the property
  names since the proof asked for it: a hunk of the file `a b` is taken for one of
  the file `a`, and may come first.
* **IntakeProofs.** `ChunkBound` through the slack of the open chunk
  (characters ≤ 4·tokens + 4·hunks − 1: three for the rounding and one for the
  newline of each hunk); `BatchBound` is inductive; `ListedExactly` through
  `PagesListed` (what is listed are the first (page − 1)·PerPage files).
  `HunksPartitioned` through `Partition`: each chunk starts where the one before
  it ended, the open chunk where the last one did, and the next hunk where the
  open chunk does, across files that are skipped.

Only model-checked: the liveness properties `OpenRecovers`, `ProbeReissued`,
`WorkEnds`, `ReviewDelivered`, `EveryCommitQueued` and `FlagSettles`; fairness and
ENABLED are out of the prover's reach.

## Where code and documents disagree

`flow_quota` has a run of its own (a finding in `PROJECT.json`):
`Task.retry(max_retries=None)` falls back on the task's 3 retries
(`worker/tasks.py:816`), so rate limiting can fail the chord and leave the run
running, against DEC-013 (`src/DECISIONS.md:312`).

Others show up when the named fault or process is added to a passing run, or as
the exceptions the properties state:

* `NeverLeftRunning` fails with the fault `ast` (`worker/tasks.py:688`),
  `preprocess` or `aggregate` (no handler), or `pg` (`worker/tasks.py:199`).
* `DegradationReported` fails with `llm_swallow`: `analysis/llm_engine.py:207-221`
  turns errors into an empty result, which the task reports to the breaker as a
  success and caches for 24 h.
* `OneReview` fails with a second scanner (the list is not read again under the
  lock, `worker/tasks.py:1867`), a redelivery, a lost answer or the admin endpoint.
* `FallbackKept` fails when PostgreSQL fails in the drain: it pops before it
  stores (`worker/tasks.py:223`), against `src/DECISIONS.md:310`.
* Branch D (`src/codepulse_ai_architecture.md:1150`: "`reanalysis_needed=true` is set
  on the analysis run") does not hold of a degraded run whose results come in by
  the drain: `fallback_data` has no `llm_degraded` (`worker/tasks.py:1445`,
  `FallBackToRedis`). The admin endpoint clears the flag of a run that has its
  review also when the payload it posts again is that review's
  (`ingestion/admin.py:149`). No property is stated of the flag in ReviewDelivery:
  what these leave over is one assignment.
* `rows` exceeds `Usages` after a persist retry, although `persist_results` is
  called idempotent (`src/DECISIONS.md:324`).
* `RunIsQueued` excepts a failed handler (`ingestion/webhook.py:176`), and
  `DuplicateIsKnown` a key that outlives one (`ingestion/webhook.py:135`; against
  `src/codepulse_ai_architecture.md:713`) or is shared: it has the PR's number
  where `src/codepulse_ai_architecture.md:153` has its id.
* The breaker's window is fixed, not rolling (`circuit_breaker.py:5` and 84), and
  late reports settle HALF_OPEN in place of the probe (`circuit_breaker.py:7`).
* The 422 fallback posts the body as it is (`aggregation/github_poster.py:237`);
  `src/README.md:150` ("Convert comments to bullet list") and
  `src/docs/LIVE_SMOKE_TEST.md:186` say the comments are moved into it.
  `EveryFindingReported` and `RowsTruthful` except it; the findings are stored as
  posted.
* `src/DECISIONS.md:253` ("a finding may merge with at most one counterpart"): a
  merged entry still merges with findings of its own key (`aggregation/dedup.py:153`);
  a merge may take over the other title while the key stays, so that a later
  finding of that title becomes a second entry (the exception in
  `OneEntryPerKey`); and two findings of one engine are also marked "merged".
* A chunk may exceed its limit ("each chunk is <= max_tokens",
  `ingestion/preprocessor.py:207`) by a token per further hunk (`ChunkBound`).
* `src/DECISIONS.md:340` calls re-analysis completely idempotent: each post that is
  not recorded costs another comment (`lost` in `CommentedOnce`), a finding that
  one answer names twice gets two comments and two rows (`named`;
  `worker/tasks.py:1622`), and findings outside the diff are stored as unposted, so
  an overlapping execution with a stale list posts them in a second follow-up.
* Once the stored diff has expired (`worker/tasks.py:1602`) a follow-up has no
  comments: the rows found before count as posted although nothing shows them, new
  findings stay unposted, the flag is cleared and no dead letter is left,
  although the code says of them "must never be lost" (`worker/tasks.py:1769`).
  `RowsTruthful` and `UnpostedHasLetter` except such runs (`blank`). Aggregation has
  the same dependence (`worker/tasks.py:987`): its properties take the diff as stored.
* An LLM error that `analyze_llm` swallows clears `reanalysis_needed` as if
  nothing had been found (`worker/tasks.py:1598`); a follow-up that fails in an
  execution with a stale list does not set the flag again
  (`src/DECISIONS.md:380`).
* The unposted scan posts a follow-up's letter as the primary review
  (`worker/tasks.py:1884`); nothing in the re-analysis scan resolves letters.
* The diff is fetched by pull request number, not by commit
  (`worker/tasks.py:486`), so a push during the listing mixes revisions.
* The diff parser ends a hunk at a deleted `-- x` or an added `++ x`, and never
  finds a file whose path has a space (`aggregation/line_mapping.py:63-76`): the
  findings there go to the body.

## Plan

1. Done: CircuitBreaker, RateLimiter, AnalysisFlow, ReviewDelivery, Ingestion with
   AnalysisRequests, Reanalysis, Intake, Dedup, LineMapping, Aggregation; theorems
   in eight modules.
2. Done: theorems for all safety and action properties of the passing runs. Next:
   weaker assumptions where the code allows, above all for `OneReview` and
   `RecordTruthful` with overlapping scans, and what holds of them then.
3. A model of the unposted scan with several runs and the limit of ten, for
   starvation by runs that cannot be posted (`worker/tasks.py:1860`).

## Not modelled

AST rules (stateless, over syntax trees), `get_vulnerability_family` beyond the
relation it defines, prompt text and JSON schemas, HTTP clients (their outcomes
are faults), score, verdict and wording of the review, reconstruction of sources
from patches, the fetcher's caches (no caller configures them) and the mocks, UI,
metrics, tracing, configuration, migrations and deployment. Failures of Redis
itself are modelled only where the code handles them (`rpush` of the fallback, the
write after a follow-up) or as the loss of a key.
