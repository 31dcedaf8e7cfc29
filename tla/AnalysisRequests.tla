-------------------------- MODULE AnalysisRequests --------------------------
(***************************************************************************)
(* What the webhook endpoint promises to the rest of the system, whatever  *)
(* becomes of single deliveries: a commit is analysed only if a genuine    *)
(* pull request event asked for it, its row exists before its analysis is  *)
(* started, and the analysis is started once.                              *)
(***************************************************************************)
EXTENDS Naturals

CONSTANT Commit

VARIABLES wanted,    \* commits some genuine event was received for
          recorded,  \* commits with a row
          started    \* how often the analysis of each was started

requestVars == <<wanted, recorded, started>>

Init ==
    /\ wanted = {} /\ recorded = {}
    /\ started = [c \in Commit |-> 0]

Want(c) ==
    /\ c \notin wanted
    /\ wanted' = wanted \cup {c}
    /\ UNCHANGED <<recorded, started>>

Record(c) ==
    /\ c \in wanted \ recorded
    /\ recorded' = recorded \cup {c}
    /\ UNCHANGED <<wanted, started>>

Start(c) ==
    /\ c \in recorded /\ started[c] = 0
    /\ started' = [started EXCEPT ![c] = 1]
    /\ UNCHANGED <<wanted, recorded>>

Next == \E c \in Commit : Want(c) \/ Record(c) \/ Start(c)

Spec == Init /\ [][Next]_requestVars
=============================================================================
