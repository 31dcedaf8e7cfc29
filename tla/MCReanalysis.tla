---------------------------- MODULE MCReanalysis ----------------------------
(* An instance of Reanalysis for TLC. *)
EXTENDS Reanalysis, TLC

CONSTANTS f1, f2

\* f2 lies outside the diff.
Spots == f1 :> "a" @@ f2 :> "b"
Twice == f1 :> 2 @@ f2 :> 1
Reports == 1 :> {} @@ 2 :> {f1, f2}

\* The older run meets every fault of the analysis, the younger every fault
\* of the posting.
Troubles == 1 :> {"llm", "empty", "kill", "push"} @@ 2 :> {"post", "lost", "redis", "422", "pg", "expiry"}
=============================================================================
