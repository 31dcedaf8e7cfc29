--------------------------- MODULE MCAnalysisFlow ---------------------------
(* Instances of AnalysisFlow for TLC. *)
EXTENDS AnalysisFlow

\* The faults the code answers with a retry, a degraded result or a terminal
\* status.
HandledFaults == {"dispatch", "github_quota", "fetch", "llm_open", "llm_raise", "crash"}
QuotaFault == {"quota"}
=============================================================================
