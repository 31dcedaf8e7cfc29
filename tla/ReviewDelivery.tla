--------------------------- MODULE ReviewDelivery ---------------------------
(***************************************************************************)
(* The delivery half of the pipeline for one analysis run: from the result *)
(* aggregate_findings hands over, post_review_to_github and persist_results*)
(* (worker/tasks.py) bring one review to the pull request and the results  *)
(* into PostgreSQL.  What they could not do is finished later by           *)
(* scan_unposted_reviews and drain_pending_persistence_task, run by Celery *)
(* Beat, and by the admin endpoint execute_retry_posting                   *)
(* (ingestion/admin.py).                                                   *)
(*                                                                         *)
(* Each commit, each call of GitHub and each Redis command another process *)
(* can come between is a step of its own.  Re-analysis of a degraded run   *)
(* (module Reanalysis) appears here by the dead letter of a follow-up that *)
(* could not be posted, which the scanner and the admin endpoint pick up.  *)
(***************************************************************************)
EXTENDS Integers, FiniteSets

CONSTANTS Lane,            \* executions of the chain: 1 + number of redeliveries
          FirstLane,
          Scanner,         \* overlapping executions of scan_unposted_reviews
          Drainer,         \* overlapping executions of the drain task
          Admin,           \* overlapping calls of the admin endpoint
          Usages,          \* LLM usage records of the run
          PostRetries,     \* post_review_to_github max_retries, 5
          PersistRetries,  \* persist_results max_retries, 3
          MaxReviews,      \* bound: reviews GitHub is ever asked to create
          Faults

AllFaults == {"github_quota", "post", "lost", "pg_dl", "pg_persist", "redis_push",
              "pg_drain", "pg_scan", "crash", "kill", "push", "expiry", "slow", "followup", "head"}

ASSUME DeliveryAssumption ==
    /\ FirstLane \in Lane
    /\ Usages \in Nat /\ PostRetries \in Nat /\ PersistRetries \in Nat
    /\ MaxReviews \in Nat
    /\ Faults \subseteq AllFaults
    /\ "free" \notin Scanner
    /\ "followup" \notin Lane

VARIABLES
    lane,      \* per chain execution: its task, retries, progress and outcome
    row,       \* the analysis_runs row: status, review_posted_at, reanalysis_needed
    rows,      \* llm_usage_log rows of the run
    degraded,  \* context["llm_degraded"], settled before delivery begins
    dead,      \* who left an unresolved posting dead letter: lanes, re-analysis
    payload,   \* review_payload:{run} in Redis
    pending,   \* entries of codepulse:pending_persistence
    dump,      \* dead_letter:persist:{run} in Redis
    scan, lock, drain, admin,
    head,      \* whether the PR's head is still the analysed commit
    reviews    \* primary reviews of this run on GitHub

vars == <<lane, row, rows, degraded, dead, payload, pending, dump, scan, lock, drain,
          admin, head, reviews>>
chainVars == <<lane, rows, degraded>>
queueVars == <<pending, dump, drain>>

YesNo == {"yes", "no"}
Letter == Lane \cup {"followup"}
LaneState == [at : {"idle", "post", "persist", "flag", "done"},
              retries : 0..(PostRetries + PersistRetries), saved : 0..Usages, posted : YesNo]
\* target: which unresolved dead letter the caller chose, none when the
\* payload came from Redis.
ScanState == [at : {"idle", "listed", "locked", "ready", "sent", "dead"},
              target : SUBSET Letter]
AdminState == [at : {"idle", "ready", "sent"}, target : SUBSET Letter, followup : YesNo]
DrainState == [at : {"idle", "popped", "usage"}, saved : 0..Usages, posted : YesNo]

TypeOK ==
    /\ lane \in [Lane -> LaneState]
    /\ row \in [status : {"running", "completed"}, posted : YesNo, flag : YesNo]
    /\ rows \in Nat
    /\ degraded \in YesNo
    /\ dead \subseteq Letter
    /\ payload \in {"present", "absent"}
    /\ pending \in Nat
    /\ dump \in {"none"} \cup YesNo
    /\ scan \in [Scanner -> ScanState]
    /\ lock \in Scanner \cup {"free"}
    /\ drain \in [Drainer -> DrainState]
    /\ admin \in [Admin -> AdminState]
    /\ head \in {"same", "moved"}
    /\ reviews \in 0..MaxReviews

IdleScan == [at |-> "idle", target |-> {}]
IdleAdmin == [at |-> "idle", target |-> {}, followup |-> "no"]
IdleDrain == [at |-> "idle", saved |-> 0, posted |-> "no"]
NewLane(at) == [at |-> at, retries |-> 0, saved |-> 0, posted |-> "no"]

Init ==
    /\ lane = [l \in Lane |-> NewLane(IF l = FirstLane THEN "post" ELSE "idle")]
    /\ row = [status |-> "running", posted |-> "no", flag |-> "no"]
    /\ rows = 0
    /\ degraded \in YesNo
    /\ dead = {}
    /\ payload = "present"
    /\ pending = 0 /\ dump = "none"
    /\ scan = [s \in Scanner |-> IdleScan] /\ lock = "free"
    /\ drain = [d \in Drainer |-> IdleDrain]
    /\ admin = [a \in Admin |-> IdleAdmin]
    /\ head = "same"
    /\ reviews = 0

May(f) == f \in Faults

\* GitHub creates a review.
Create == reviews < MaxReviews /\ reviews' = reviews + 1

\* The same for a payload found under the dead letters t.
CreateFrom(t) == IF t = {"followup"} THEN UNCHANGED reviews ELSE Create

-----------------------------------------------------------------------------
(* post_review_to_github.                                                  *)

LaneGoes(l, r) == lane' = [lane EXCEPT ![l] = r]

\* The task returns its data, with or without review_posted_at, to persist_results.
PostReturns(l, posted) ==
    LaneGoes(l, [at |-> "persist", retries |-> 0, saved |-> 0, posted |-> posted])

PostAgain(l) == LaneGoes(l, [lane[l] EXCEPT !.retries = lane[l].retries + 1])

PostPostponed(l) ==
    /\ May("github_quota")
    /\ lane[l].retries = 0 /\ PostRetries > 0
    /\ PostAgain(l)
    /\ UNCHANGED <<dead, reviews>>

\* Mutant: review_posted_at is set before GitHub is asked.
PostFailedStamped(l) ==
    /\ \/ May("post") /\ UNCHANGED reviews
       \/ May("lost") /\ Create
    /\ \/ /\ lane[l].retries < PostRetries
          /\ PostAgain(l)
          /\ UNCHANGED dead
       \/ /\ lane[l].retries = PostRetries
          /\ PostReturns(l, "yes")
          /\ dead' = dead \cup {l}

\* The breaker refuses, GitHub fails or, "lost", the review was created and
\* the answer or the breaker's bookkeeping after it failed.
PostFailed(l) ==
    /\ \/ May("post") /\ UNCHANGED reviews
       \/ May("lost") /\ Create
    /\ \/ /\ lane[l].retries < PostRetries
          /\ PostAgain(l)
          /\ UNCHANGED dead
       \/ /\ lane[l].retries = PostRetries
          /\ PostReturns(l, "no")
          /\ \/ dead' = dead \cup {l}
             \/ May("pg_dl") /\ UNCHANGED dead   \* only in dead_letter:fallback

PostDone(l) ==
    /\ Create
    /\ PostReturns(l, "yes")
    /\ UNCHANGED dead

PostReviewToGithub(l) ==
    /\ lane[l].at = "post"
    /\ PostPostponed(l) \/ PostFailed(l) \/ PostDone(l)
    /\ UNCHANGED <<row, rows, degraded, payload, queueVars, scan, lock, admin, head>>

-----------------------------------------------------------------------------
(* persist_results: each usage row is committed by itself, then findings   *)
(* and run statistics in one transaction, then the re-analysis flag.       *)

PersistUsage(l) ==
    /\ lane[l].at = "persist" /\ lane[l].saved < Usages
    /\ LaneGoes(l, [lane[l] EXCEPT !.saved = lane[l].saved + 1])
    /\ rows' = rows + 1
    /\ UNCHANGED <<row, pending, dump>>

\* Mutant: review_posted_at is left alone.
PersistedStatusOnly(posted) == [row EXCEPT !.status = "completed"]

\* persist_analysis_results: replaces the findings and overwrites the run's
\* status and its posting record with what this execution knows.
Persisted(posted) == [row EXCEPT !.status = "completed", !.posted = posted]

PersistAnalysisResults(l) ==
    /\ lane[l].at = "persist" /\ lane[l].saved = Usages
    /\ row' = Persisted(lane[l].posted)
    /\ LaneGoes(l, [lane[l] EXCEPT !.at = IF degraded = "yes" THEN "flag" ELSE "done"])
    /\ UNCHANGED <<rows, pending, dump>>

PersistFlag(l) ==
    /\ lane[l].at = "flag"
    /\ row' = [row EXCEPT !.flag = "yes"]
    /\ LaneGoes(l, [lane[l] EXCEPT !.at = "done"])
    /\ UNCHANGED <<rows, pending, dump>>

\* Mutant: the dump is stored but the run is not queued for the drain.
FallBackUnqueued(l) ==
    /\ dump' = lane[l].posted
    /\ LaneGoes(l, [lane[l] EXCEPT !.at = "done"])
    /\ UNCHANGED pending

\* Branch G: the data goes to Redis, without the llm_degraded mark.
FallBackToRedis(l) ==
    /\ dump' = lane[l].posted
    /\ \/ pending' = pending + 1
       \/ May("redis_push") /\ UNCHANGED pending
    /\ LaneGoes(l, [lane[l] EXCEPT !.at = "done"])

PersistFailed(l) ==
    /\ May("pg_persist")
    /\ lane[l].at \in {"persist", "flag"}
    /\ \/ /\ lane[l].retries < PersistRetries
          /\ LaneGoes(l, [lane[l] EXCEPT !.at = "persist", !.saved = 0,
                                         !.retries = lane[l].retries + 1])
          /\ UNCHANGED <<pending, dump>>
       \/ /\ lane[l].retries = PersistRetries
          /\ FallBackToRedis(l)
    /\ UNCHANGED <<row, rows>>

PersistResults(l) ==
    /\ \/ PersistUsage(l) \/ PersistAnalysisResults(l) \/ PersistFlag(l)
       \/ PersistFailed(l)
    /\ UNCHANGED <<degraded, dead, payload, scan, lock, drain, admin, head, reviews>>

\* A worker dies before the message of lane l is acknowledged: the message
\* is executed from its beginning once more, as lane k.
Redeliver(l, k) ==
    /\ May("crash")
    /\ lane[l].at \in {"post", "persist", "flag"} /\ lane[k].at = "idle"
    /\ LaneGoes(k, [lane[l] EXCEPT !.at = IF lane[l].at = "post" THEN "post" ELSE "persist",
                                   !.saved = 0])
    /\ UNCHANGED <<row, rows, degraded, dead, payload, queueVars, scan, lock, admin,
                   head, reviews>>

-----------------------------------------------------------------------------
(* drain_pending_persistence_task / recover_pending_persistence.           *)

DrainGoes(d, r) == drain' = [drain EXCEPT ![d] = r]

\* LPOP, then GET of the dump; without a dump the entry is dropped.
DrainPop(d) ==
    /\ drain[d].at = "idle" /\ pending > 0
    /\ pending' = pending - 1
    /\ DrainGoes(d, IF dump = "none" THEN IdleDrain
                    ELSE [at |-> "popped", saved |-> 0, posted |-> dump])
    /\ UNCHANGED <<row, rows, dump>>

DrainPersist(d) ==
    /\ drain[d].at = "popped"
    /\ row' = Persisted(drain[d].posted)
    /\ DrainGoes(d, [drain[d] EXCEPT !.at = "usage"])
    /\ UNCHANGED <<rows, pending, dump>>

DrainUsage(d) ==
    /\ drain[d].at = "usage"
    /\ \/ /\ drain[d].saved < Usages
          /\ rows' = rows + 1
          /\ DrainGoes(d, [drain[d] EXCEPT !.saved = drain[d].saved + 1])
          /\ UNCHANGED dump
       \/ /\ drain[d].saved = Usages
          /\ dump' = "none"
          /\ DrainGoes(d, IdleDrain)
          /\ UNCHANGED rows
    /\ UNCHANGED <<row, pending>>

\* PostgreSQL fails during the drain, or the worker dies: the popped entry
\* is not put back.
DrainFailed(d) ==
    /\ May("pg_drain")
    /\ drain[d].at # "idle"
    /\ DrainGoes(d, IdleDrain)
    /\ UNCHANGED <<row, rows, pending, dump>>

DrainPendingPersistence(d) ==
    /\ DrainPop(d) \/ DrainPersist(d) \/ DrainUsage(d) \/ DrainFailed(d)
    /\ UNCHANGED <<lane, degraded, dead, payload, scan, lock, admin, head, reviews>>

-----------------------------------------------------------------------------
(* scan_unposted_reviews, for this run.                                    *)

ScanGoes(s, at, target) == scan' = [scan EXCEPT ![s] = [at |-> at, target |-> target]]

\* Mutant: no finally clause deletes the lock.
ScanLeavesLocked(s) == ScanGoes(s, "idle", {}) /\ UNCHANGED lock

\* The finally clause deletes the lock on every way out.
ScanLeaves(s) == ScanGoes(s, "idle", {}) /\ lock' = "free"

ChainOver == \A l \in Lane : lane[l].at \in {"idle", "done"}
Drained == pending = 0 /\ \A d \in Drainer : drain[d].at = "idle"

\* Mutant: the query does not ask whether the review was posted.
ScanListAll(s) ==
    /\ scan[s].at = "idle"
    /\ (ChainOver /\ Drained) \/ May("slow")
    /\ row.status = "completed"
    /\ ScanGoes(s, "listed", {})
    /\ UNCHANGED <<row, dead, lock, reviews>>

\* The query, whose result is not read again: completed and not posted.  That
\* the run is at least 15 minutes old means that its chain is over and drained
\* (retries last seconds, the drain runs every minute), unless "slow".
ScanList(s) ==
    /\ scan[s].at = "idle"
    /\ (ChainOver /\ Drained) \/ May("slow")
    /\ row.status = "completed" /\ row.posted = "no"
    /\ ScanGoes(s, "listed", {})
    /\ UNCHANGED <<row, dead, lock, reviews>>

\* Mutant: SET without NX.
ScanLockAlways(s) ==
    /\ scan[s].at = "listed"
    /\ lock' = s /\ ScanGoes(s, "locked", {})
    /\ UNCHANGED <<row, dead, reviews>>

\* SET lock:repost_unposted:{run} NX EX 300; when taken, the run is skipped.
ScanLock(s) ==
    /\ scan[s].at = "listed"
    /\ \/ lock = "free" /\ lock' = s /\ ScanGoes(s, "locked", {})
       \/ lock # "free" /\ UNCHANGED lock /\ ScanGoes(s, "idle", {})
    /\ UNCHANGED <<row, dead, reviews>>

\* The payload of an unresolved dead letter of the run, or else the payload in
\* Redis: where a caller finds one.  The code takes the letter with the highest
\* id; their order is left open.
PayloadSources ==
    IF dead # {} THEN {{d} : d \in dead}
    ELSE IF payload = "present" THEN {{}} ELSE {}

\* No payload: skip.  Head moved: the dead letter is resolved, if the commit
\* succeeds.  Breaker open: skip.  Otherwise go on to post, also when the head
\* cannot be read ("head").
ScanLookup(s) ==
    /\ scan[s].at = "locked"
    /\ \/ PayloadSources = {} /\ ScanLeaves(s) /\ UNCHANGED dead
       \/ \E t \in PayloadSources :
            \/ /\ head = "moved" /\ ScanLeaves(s)
               /\ dead' = dead \ t \/ (May("pg_scan") /\ UNCHANGED dead)
            \/ /\ head = "same" \/ May("head")
               /\ \/ May("post") /\ ScanLeaves(s) /\ UNCHANGED dead
                  \/ ScanGoes(s, "ready", t) /\ UNCHANGED <<lock, dead>>
    /\ UNCHANGED <<row, reviews>>

\* Mutant: the dead letter is resolved whether or not the post succeeds.
ScanPostResolves(s) ==
    /\ scan[s].at = "ready"
    /\ \/ CreateFrom(scan[s].target) /\ ScanGoes(s, "sent", scan[s].target) /\ UNCHANGED lock
       \/ May("post") /\ ScanLeaves(s) /\ UNCHANGED reviews
    /\ dead' = dead \ scan[s].target
    /\ UNCHANGED row

ScanPost(s) ==
    /\ scan[s].at = "ready"
    /\ \/ CreateFrom(scan[s].target) /\ ScanGoes(s, "sent", scan[s].target) /\ UNCHANGED lock
       \/ May("post") /\ ScanLeaves(s) /\ UNCHANGED reviews
       \/ May("lost") /\ CreateFrom(scan[s].target) /\ ScanLeaves(s)
    /\ UNCHANGED <<row, dead>>

ScanCommit(s) ==
    /\ scan[s].at = "sent"
    /\ \/ row' = [row EXCEPT !.posted = "yes"] /\ dead' = dead \ scan[s].target
       \/ May("pg_scan") /\ UNCHANGED <<row, dead>>
    /\ ScanLeaves(s)
    /\ UNCHANGED reviews

\* The task's time limit (180 s) kills it; its lock stays until it expires.
\* Nothing else outlives the lock's 300 s.
ScanKilled(s) ==
    /\ May("kill")
    /\ scan[s].at \notin {"idle", "dead"}
    /\ ScanGoes(s, "dead", {})
    /\ UNCHANGED <<row, dead, lock, reviews>>

LockExpires(s) ==
    /\ scan[s].at = "dead"
    /\ lock' = IF lock = s THEN "free" ELSE lock
    /\ ScanGoes(s, "idle", {})
    /\ UNCHANGED <<row, dead, reviews>>

ScanUnpostedReviews(s) ==
    /\ \/ ScanList(s) \/ ScanLock(s) \/ ScanLookup(s) \/ ScanPost(s) \/ ScanCommit(s)
       \/ ScanKilled(s) \/ LockExpires(s)
    /\ UNCHANGED <<chainVars, payload, queueVars, admin, head>>

-----------------------------------------------------------------------------
(* execute_retry_posting: no lock, no look at status or review_posted_at.  *)

AdminGoes(a, r) == admin' = [admin EXCEPT ![a] = r]

\* The run is loaded together with its github_review_id (404 when no payload).
AdminLookup(a) ==
    /\ admin[a].at = "idle"
    /\ \E t \in PayloadSources :
         AdminGoes(a, [at |-> "ready", target |-> t,
                       followup |-> IF t = {"followup"} THEN "yes" ELSE row.posted])
    /\ UNCHANGED <<row, dead, reviews>>

AdminPost(a) ==
    /\ admin[a].at = "ready"
    /\ \/ CreateFrom(admin[a].target) /\ AdminGoes(a, [admin[a] EXCEPT !.at = "sent"])
       \/ May("post") /\ AdminGoes(a, IdleAdmin) /\ UNCHANGED reviews
       \/ May("lost") /\ CreateFrom(admin[a].target) /\ AdminGoes(a, IdleAdmin)
    /\ UNCHANGED <<row, dead>>

\* A run that already has a review id, or a follow-up's payload, counts as a
\* follow-up, whose posting clears reanalysis_needed.
AdminCommit(a) ==
    /\ admin[a].at = "sent"
    /\ \/ /\ row' = IF admin[a].followup = "yes" THEN [row EXCEPT !.flag = "no"]
                    ELSE [row EXCEPT !.posted = "yes"]
          /\ dead' = dead \ admin[a].target
       \/ May("pg_scan") /\ UNCHANGED <<row, dead>>
    /\ AdminGoes(a, IdleAdmin)
    /\ UNCHANGED reviews

ExecuteRetryPosting(a) ==
    /\ AdminLookup(a) \/ AdminPost(a) \/ AdminCommit(a)
    /\ UNCHANGED <<chainVars, payload, queueVars, scan, lock, head>>

-----------------------------------------------------------------------------
\* scan_reanalysis_needed for this run: the follow-up is posted, or a dead
\* letter under the name of post_review_to_github is left for it.
Reanalyse ==
    /\ May("followup") /\ row.status = "completed" /\ row.flag = "yes"
    /\ \/ row' = [row EXCEPT !.flag = "no"] /\ UNCHANGED dead
       \/ dead' = dead \cup {"followup"} /\ UNCHANGED row
    /\ UNCHANGED <<chainVars, payload, queueVars, scan, lock, admin, head, reviews>>

(* The world outside.                                                      *)

\* The author pushes another commit.
HeadMoves ==
    /\ May("push") /\ head = "same"
    /\ head' = "moved"
    /\ UNCHANGED <<chainVars, row, dead, payload, queueVars, scan, lock, admin, reviews>>

\* The 24 h life of review_payload:{run} ends.
PayloadExpires ==
    /\ May("expiry") /\ payload = "present"
    /\ payload' = "absent"
    /\ UNCHANGED <<chainVars, row, dead, queueVars, scan, lock, admin, head, reviews>>

Next ==
    \/ \E l \in Lane : PostReviewToGithub(l) \/ PersistResults(l)
                       \/ (\E k \in Lane : Redeliver(l, k))
    \/ \E d \in Drainer : DrainPendingPersistence(d)
    \/ \E s \in Scanner : ScanUnpostedReviews(s)
    \/ \E a \in Admin : ExecuteRetryPosting(a)
    \/ Reanalyse \/ HeadMoves \/ PayloadExpires

Spec == Init /\ [][Next]_vars

\* Messages are delivered and tasks have time limits; Beat schedules the scan
\* for ever, so a scan that keeps trying is not killed, refused by the lock or
\* failed by GitHub every time.
FairSpec ==
    /\ Spec
    /\ \A l \in Lane : WF_vars(PostReviewToGithub(l)) /\ WF_vars(PersistResults(l))
    /\ \A d \in Drainer : WF_vars(DrainPendingPersistence(d))
    /\ \A s \in Scanner :
         /\ WF_vars(ScanUnpostedReviews(s))
         /\ \A at \in {"locked", "ready", "sent"} :
              SF_vars(ScanUnpostedReviews(s) /\ scan'[s].at = at)

-----------------------------------------------------------------------------
(* Properties.                                                             *)

\* scan_unposted_reviews "re-posts the review to GitHub idempotently": chain,
\* retries and scanner together create at most one review of the run.
OneReview == reviews <= 1

\* Once the run is completed, analysis_runs says whether its review is on
\* GitHub, except between a scanner's post and its commit.
RecordTruthful ==
    row.status = "completed" /\ (\A s \in Scanner : scan[s].at # "sent")
      => (row.posted = "yes" <=> reviews > 0)

\* Branch F: as long as no review of a completed run was ever created and its
\* commit is current, an unresolved dead letter holds its payload - durable
\* beyond the Redis TTL - whoever retries, is killed or redelivered meanwhile,
\* and although the scanner and the admin may take the letter of a follow-up
\* for it and record the run as posted.
UnpostedIsRecoverable ==
    row.status = "completed" /\ reviews = 0 /\ head = "same" => dead \cap Lane # {}

\* The repost lock: never two scanners between look-up and commit.
OneScannerPosts ==
    \A s, t \in Scanner :
       scan[s].at \in {"locked", "ready", "sent"} /\ scan[t].at \in {"locked", "ready", "sent"}
         => s = t

\* DEC-013, Branch G: the drain "inserts all pending findings and metrics once
\* PostgreSQL recovers" - a run that finished without results in PostgreSQL
\* is still queued or being drained.
FallbackKept ==
    ChainOver /\ Drained => row.status = "completed"

\* Nobody claims a review that GitHub does not have, or it would never be posted
\* again: neither analysis_runs, nor the results a chain, a drain or the dump in
\* Redis still brings to it, however late and in whatever order they are stored.
PostedIsReal ==
    reviews = 0 =>
      /\ \A l \in Lane : lane[l].posted = "no"
      /\ row.posted = "no" /\ dump # "yes"
      /\ \A d \in Drainer : drain[d].posted = "no"
      /\ \A s \in Scanner : scan[s].at # "sent"
      /\ \A a \in Admin : admin[a].at # "sent"

\* Branch F: the review of a completed run eventually is on GitHub, unless the
\* author pushes another commit first.
ReviewDelivered ==
    (row.status = "completed") ~> (reviews > 0 \/ head = "moved")
=============================================================================
