----------------------------- MODULE Ingestion -----------------------------
(***************************************************************************)
(* The webhook endpoint: handle_webhook of ingestion/webhook.py with the   *)
(* database operations of ingestion/service.py.  Web workers handle        *)
(* deliveries side by side; every Redis command, commit and publication is *)
(* a step another worker can come between.                                 *)
(*                                                                         *)
(* A commit stands for (repository, pull request number, head sha), the    *)
(* unique constraint of analysis_runs; a key for what the Redis key        *)
(* idempotency:{installation}:{number}:{sha} tells apart.                  *)
(***************************************************************************)
EXTENDS Integers

CONSTANTS Delivery,        \* webhook deliveries of GitHub
          Commit, Key,
          CommitOf,        \* the commit a delivery is about
          KeyOf,           \* the idempotency key of a commit
          KindOf,          \* "forged", "ping", "ignored" or "pr"
          MaxAttempts,     \* bound: times GitHub sends each delivery
          Faults

Kinds == {"forged", "ping", "ignored", "pr"}

ASSUME IngestionAssumption ==
    /\ CommitOf \in [Delivery -> Commit]
    /\ KeyOf \in [Commit -> Key]
    /\ KindOf \in [Delivery -> Kinds]
    /\ MaxAttempts \in [Delivery -> Nat]
    /\ Faults \subseteq {"pg", "broker", "crash", "expiry"}

VARIABLES
    hook,      \* where the handler of each delivery is
    answer,    \* the HTTP answer it gave last
    attempts,  \* how often GitHub has sent it
    key,       \* the Redis idempotency keys
    run,       \* the analysis_runs rows
    queue,     \* orchestrate_pr_analysis messages published per commit
    logged     \* webhook_events_log, by delivery_id

vars == <<hook, answer, attempts, key, run, queue, logged>>
store == <<key, run, queue, logged>>

Answers == {"none", "unauthorized", "ok", "duplicate", "accepted", "error"}

TypeOK ==
    /\ hook \in [Delivery -> {"out", "received", "claimed", "stored", "created", "queued", "seen"}]
    /\ answer \in [Delivery -> Answers]
    /\ attempts \in [Delivery -> Nat]
    /\ \A d \in Delivery : attempts[d] <= MaxAttempts[d]
    /\ key \in [Key -> {"absent", "present"}]
    /\ run \in [Commit -> {"none", "pending"}]
    /\ queue \in [Commit -> Nat]
    /\ logged \subseteq Delivery

Init ==
    /\ hook = [d \in Delivery |-> "out"]
    /\ answer = [d \in Delivery |-> "none"]
    /\ attempts = [d \in Delivery |-> 0]
    /\ key = [k \in Key |-> "absent"]
    /\ run = [c \in Commit |-> "none"]
    /\ queue = [c \in Commit |-> 0]
    /\ logged = {}

-----------------------------------------------------------------------------
May(f) == f \in Faults
Goto(d, at) == hook' = [hook EXCEPT ![d] = at]
Reply(d, a) == Goto(d, "out") /\ answer' = [answer EXCEPT ![d] = a]
Keep == UNCHANGED answer

\* GitHub sends a delivery: once by itself, again when somebody asks it to
\* redeliver one that failed.
Deliver(d) ==
    /\ hook[d] = "out" /\ answer[d] \in {"none", "error"}
    /\ attempts[d] < MaxAttempts[d]
    /\ attempts' = [attempts EXCEPT ![d] = @ + 1]
    /\ Goto(d, "received") /\ Keep
    /\ UNCHANGED store

\* Mutant: the publication comes before the row.
UpsertAndEnqueue(d) ==
    /\ hook[d] = "claimed"
    /\ queue' = [queue EXCEPT ![CommitOf[d]] = IF @ = 0 THEN 1 ELSE @]
    /\ Goto(d, "stored") /\ Keep
    /\ UNCHANGED <<attempts, key, run, logged>>

\* Signature, ping, event filter; log_webhook_event ignores a known id.
Filter(d) ==
    /\ hook[d] = "received"
    /\ \/ KindOf[d] = "forged" /\ Reply(d, "unauthorized") /\ UNCHANGED logged
       \/ KindOf[d] \in {"ping", "ignored"} /\ Reply(d, "ok") /\ logged' = logged \cup {d}
    /\ UNCHANGED <<attempts, key, run, queue>>

\* Mutant: an idempotency key without the commit.
ClaimPerInstallation(d) ==
    /\ hook[d] = "received" /\ KindOf[d] = "pr"
    /\ LET k == KeyOf[CommitOf[d]] IN
       \/ /\ \A j \in Key : key[j] = "absent"
          /\ key' = [key EXCEPT ![k] = "present"] /\ Goto(d, "claimed")
       \/ (\E j \in Key : key[j] = "present") /\ UNCHANGED key /\ Goto(d, "seen")
    /\ Keep
    /\ UNCHANGED <<attempts, run, queue, logged>>

\* SET idempotency_key NX EX 3600.
Claim(d) ==
    /\ hook[d] = "received" /\ KindOf[d] = "pr"
    /\ LET k == KeyOf[CommitOf[d]] IN
       \/ key[k] = "absent" /\ key' = [key EXCEPT ![k] = "present"] /\ Goto(d, "claimed")
       \/ key[k] = "present" /\ UNCHANGED key /\ Goto(d, "seen")
    /\ Keep
    /\ UNCHANGED <<attempts, run, queue, logged>>

\* The commit of upsert_repository.
UpsertRepository(d) ==
    /\ hook[d] = "claimed"
    /\ Goto(d, "stored") /\ Keep
    /\ UNCHANGED <<attempts, store>>

\* Mutant: an INSERT without ON CONFLICT DO NOTHING on a table without the
\* unique constraint.
CreateAnotherRun(d) ==
    /\ hook[d] = "stored"
    /\ run' = [run EXCEPT ![CommitOf[d]] = "pending"] /\ Goto(d, "created")
    /\ Keep
    /\ UNCHANGED <<attempts, key, queue, logged>>

\* INSERT ... ON CONFLICT DO NOTHING, in a transaction of its own.
CreateAnalysisRun(d) ==
    /\ hook[d] = "stored"
    /\ LET c == CommitOf[d] IN
       \/ run[c] = "none" /\ run' = [run EXCEPT ![c] = "pending"] /\ Goto(d, "created")
       \/ run[c] # "none" /\ UNCHANGED run /\ Goto(d, "seen")
    /\ Keep
    /\ UNCHANGED <<attempts, key, queue, logged>>

\* Mutant: the message is not published.
EnqueueNothing(d) ==
    /\ hook[d] = "created"
    /\ Goto(d, "queued") /\ Keep
    /\ UNCHANGED <<attempts, key, run, queue, logged>>

Enqueue(d) ==
    /\ hook[d] = "created"
    /\ queue' = [queue EXCEPT ![CommitOf[d]] = @ + 1]
    /\ Goto(d, "queued") /\ Keep
    /\ UNCHANGED <<attempts, key, run, logged>>

\* log_webhook_event and the answer.
LogAndReply(d) ==
    /\ \/ hook[d] = "queued" /\ Reply(d, "accepted")
       \/ hook[d] = "seen" /\ Reply(d, "duplicate")
    /\ logged' = logged \cup {d}
    /\ UNCHANGED <<attempts, key, run, queue>>

\* An exception leaves the handler (HTTP 500), or the web worker dies; what
\* was written before stays, the idempotency key included.
HandlerFails(d) ==
    /\ \/ May("pg") /\ hook[d] \in {"claimed", "stored", "queued", "seen"}
       \/ May("pg") /\ hook[d] = "received" /\ KindOf[d] \in {"ping", "ignored"}
       \/ May("broker") /\ hook[d] = "created"
       \/ May("crash") /\ hook[d] # "out"
    /\ Reply(d, "error")
    /\ UNCHANGED <<attempts, store>>

\* The hour of an idempotency key is over, or Redis lost it in a failover.
KeyExpires(k) ==
    /\ May("expiry") /\ key[k] = "present"
    /\ key' = [key EXCEPT ![k] = "absent"]
    /\ UNCHANGED <<hook, answer, attempts, run, queue, logged>>

HandleWebhook(d) ==
    \/ Filter(d) \/ Claim(d) \/ UpsertRepository(d) \/ CreateAnalysisRun(d)
    \/ Enqueue(d) \/ LogAndReply(d) \/ HandlerFails(d)

Next ==
    \/ \E d \in Delivery : Deliver(d) \/ HandleWebhook(d)
    \/ \E k \in Key : KeyExpires(k)

Spec == Init /\ [][Next]_vars

\* GitHub sends every delivery and a request that was started is served.
FairSpec ==
    Spec /\ \A d \in Delivery : WF_vars(Deliver(d)) /\ WF_vars(HandleWebhook(d))

-----------------------------------------------------------------------------
(* Properties.                                                             *)

\* Some worker is about to publish the analysis of commit c.
Underway(c) ==
    \E d \in Delivery : CommitOf[d] = c /\ hook[d] \in {"claimed", "stored", "created"}

\* A handler of d ended in an error, now or before GitHub sent d again.
Failed(d) == answer[d] = "error" \/ attempts[d] > 1

\* The idempotency key of commit c may have been left behind by a handler
\* that failed, or be that of another commit.
KeySpoilt(c) ==
    \E e \in Delivery :
       /\ KindOf[e] = "pr" /\ attempts[e] > 0 /\ KeyOf[CommitOf[e]] = KeyOf[c]
       /\ Failed(e) \/ CommitOf[e] # c

\* Architecture 6.1: no commit is analysed twice, although deliveries are
\* repeated and handled concurrently and the Redis key may be gone.
QueuedOnce == \A c \in Commit : queue[c] <= 1

\* DEC-013, Terminal Status Invariant ("never left in running or pending"), at
\* its source: a pending row has a message that will move it on, or its
\* handler is about to publish one, unless a handler of that commit failed
\* (between the row's commit and the publication nothing repairs it).
RunIsQueued ==
    \A c \in Commit : run[c] = "pending" =>
       \/ queue[c] > 0
       \/ \E d \in Delivery : CommitOf[d] = c /\ (hook[d] = "created" \/ Failed(d))

\* Architecture 6.1, "effectively exactly-once processing": a delivery is only
\* dismissed as a duplicate when the analysis of its commit is, or is about
\* to be, queued.  The one exception is a key left behind by a failure or
\* shared with another commit: the code has no way to tell.
DuplicateIsKnown ==
    \A d \in Delivery : answer[d] = "duplicate" /\ hook[d] = "out" =>
       LET c == CommitOf[d] IN queue[c] > 0 \/ Underway(c) \/ KeySpoilt(c)

\* Every genuine pull request delivery leads to an analysis of its commit,
\* unless a handler failed or another commit has the same key: no order of
\* concurrent handlers, no expired key and no delivery of a commit with another
\* key can prevent it.
EveryCommitQueued ==
    \A d \in Delivery : KindOf[d] = "pr" =>
       <>(queue[CommitOf[d]] > 0 \/ KeySpoilt(CommitOf[d]))

\* The promise of the endpoint, with the commits of the genuine deliveries
\* received, the rows and the messages published.
Requests == INSTANCE AnalysisRequests WITH
    wanted <- {c \in Commit : \E d \in Delivery :
                  CommitOf[d] = c /\ KindOf[d] = "pr" /\ attempts[d] > 0},
    recorded <- {c \in Commit : run[c] = "pending"},
    started <- queue

\* The endpoint implements AnalysisRequests: signature check, event filter,
\* idempotency key, unique constraint and publication together start the
\* analysis of a commit once, after its row and only when it was asked for.
ServesRequests == Requests!Spec
=============================================================================
