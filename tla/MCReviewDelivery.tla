-------------------------- MODULE MCReviewDelivery --------------------------
(* Instances of ReviewDelivery for TLC. *)
EXTENDS ReviewDelivery

\* Nothing overlaps and no answer is lost, but every store may fail.
SequentialFaults == {"github_quota", "post", "pg_dl", "pg_persist", "push", "expiry"}
\* Everything but a dead letter that misses PostgreSQL; kills are in LiveFaults.
DurableFaults == AllFaults \ {"pg_dl", "kill"}
LiveFaults == {"post", "lost", "crash", "kill", "push", "expiry", "pg_scan", "slow",
               "pg_persist"}
=============================================================================
