---------------------------- MODULE MCIngestion ----------------------------
(* Instances of Ingestion for TLC. *)
EXTENDS Ingestion, TLC

CONSTANTS d1, d2, d3, d4, d5, c1, c2, k1, k2

\* Two deliveries of one commit, one of another, a ping and a forgery.
Deliveries == {d1, d2, d3, d4, d5}
CommitOfDelivery == d1 :> c1 @@ d2 :> c1 @@ d3 :> c2 @@ d4 :> c1 @@ d5 :> c1
KindOfDelivery == d1 :> "pr" @@ d2 :> "pr" @@ d3 :> "pr"
                  @@ d4 :> "ping" @@ d5 :> "forged"
KeyPerCommit == c1 :> k1 @@ c2 :> k2
\* One delivery is sent again after it failed.
Attempts == d1 :> 2 @@ d2 :> 1 @@ d3 :> 1 @@ d4 :> 1 @@ d5 :> 1

AllFaults == {"pg", "broker", "crash", "expiry"}
=============================================================================
