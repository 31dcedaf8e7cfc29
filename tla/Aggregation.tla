----------------------------- MODULE Aggregation -----------------------------
(***************************************************************************)
(* aggregate_findings of worker/tasks.py (aggregate_and_post of            *)
(* aggregation/engine.py is the same pipeline in one process): the         *)
(* findings of all analysis tasks are deduplicated (Dedup), doubtful       *)
(* critical ones are put to a larger model (run_tier2_escalation with      *)
(* analyze_llm), the rest of the task maps them to the diff (LineMapping)  *)
(* and composes the review, which GitHubPoster posts.                      *)
(***************************************************************************)
EXTENDS Dedup, LineMapping

CONSTANTS Inputs,          \* findings and diffs that may come together
          RawCategory,     \* what an LLM may call a category
          KeywordCategory, \* category of the first keyword in an unknown name
          FallbackCategory,\* A04
          Answers,         \* lists of findings the larger model may answer with
          MaxCalls         \* attempts of analyze_llm, 2

ASSUME AggregationAssumption ==
    /\ Inputs \subseteq [raw : Seq(Finding), diff : Seq(DiffLine)]
    /\ FallbackCategory \in Category
    /\ KeywordCategory \in [DOMAIN KeywordCategory -> Category]
    /\ Answers \subseteq Seq([file : File, cat : RawCategory, conf : Confidence])
    /\ MaxCalls \in Nat \ {0}

VARIABLES
    stage,    \* the step of the task
    calls,    \* calls of the larger model
    payload,  \* indices of the findings in comments and in the body
    review    \* GitHub: those of the review, once posted

vars == <<dedupVars, mappingVars, stage, calls, payload, review>>

Indices == 1..Len(kept)
Nothing == [comments |-> {}, body |-> {}]
Parts == [comments : SUBSET Nat, body : SUBSET Nat]

TypeOK ==
    /\ DedupTypeOK /\ MappingTypeOK
    /\ stage \in {"dedup", "tier2", "map", "post", "posted", "raised"}
    /\ calls \in 0..MaxCalls
    /\ payload \in Parts /\ review \in Parts
    /\ Len(position) <= Len(kept)

Init ==
    /\ \E in \in Inputs : raw = in.raw /\ diff = in.diff
    /\ DedupInit /\ MappingInit
    /\ stage = "dedup" /\ calls = 0 /\ payload = Nothing /\ review = Nothing

-----------------------------------------------------------------------------
(* Tier 2.                                                                 *)

Doubtful(e) == e.sev = Critical /\ e.conf < 3
SomeDoubtful(es) == \E i \in 1..Len(es) : Doubtful(es[i])

Deduplicate ==
    /\ stage = "dedup"
    /\ DedupFinding
    /\ UNCHANGED <<mappingVars, stage, calls, payload, review>>

\* The end of deduplicate_and_sort, and check_tier2_escalation.
Rank ==
    /\ stage = "dedup"
    /\ SortAndTruncate
    /\ stage' = IF SomeDoubtful(kept') THEN "tier2" ELSE "map"
    /\ UNCHANGED <<mappingVars, calls, payload, review>>

\* remap_category
RemapCategory(c) ==
    IF c \in Category THEN c
    ELSE IF c \in DOMAIN KeywordCategory THEN KeywordCategory[c] ELSE FallbackCategory

Affected == {kept[i].file : i \in {j \in Indices : Doubtful(kept[j])}}

\* The findings of the answer on the file and category of e; those on files
\* that were not in the prompt have been discarded.
Confirmations(e, answer) ==
    {i \in 1..Len(answer) : /\ answer[i].file \in Affected
                            /\ answer[i].file = e.file
                            /\ RemapCategory(answer[i].cat) = e.cat}

\* Mutant: the answer replaces the confidence.
EscalatedReplaces(e, answer) ==
    IF Doubtful(e) /\ Confirmations(e, answer) # {}
    THEN [e EXCEPT !.conf = answer[Last(Confirmations(e, answer))].conf]
    ELSE e

\* Of several only the last is in the dictionary.
Escalated(e, answer) ==
    IF Doubtful(e) /\ Confirmations(e, answer) # {}
    THEN [e EXCEPT !.conf = Higher(@, answer[Last(Confirmations(e, answer))].conf)]
    ELSE e

\* client.analyze returns a valid response.
Tier2Answers ==
    /\ stage = "tier2" /\ calls < MaxCalls
    /\ \E answer \in Answers :
         kept' = [i \in Indices |-> Escalated(kept[i], answer)]
    /\ calls' = calls + 1 /\ stage' = "map"
    /\ UNCHANGED <<raw, read, entries, merged, dropped, mappingVars, payload, review>>

\* A response that does not match the schema (ValueError) is asked for again.
Tier2Invalid ==
    /\ stage = "tier2" /\ calls < MaxCalls
    /\ calls' = calls + 1
    /\ stage' = IF calls' = MaxCalls THEN "map" ELSE "tier2"
    /\ UNCHANGED <<dedupVars, mappingVars, payload, review>>

\* Any other exception of the call (an API error, a blocked or empty answer,
\* also the soft time limit of the task) ends the attempts: the findings stay.
Tier2Fails ==
    /\ stage = "tier2" /\ calls < MaxCalls
    /\ calls' = calls + 1 /\ stage' = "map"
    /\ UNCHANGED <<dedupVars, mappingVars, payload, review>>

\* analyze_llm
AnalyzeLlm == Tier2Answers \/ Tier2Invalid \/ Tier2Fails

-----------------------------------------------------------------------------
(* The review.                                                             *)

Parse ==
    /\ stage = "map"
    /\ ParseLine
    /\ UNCHANGED <<dedupVars, stage, calls, payload, review>>

Map ==
    /\ stage = "map" /\ Len(position) < Len(kept)
    /\ MapFinding(kept[Len(position) + 1])
    /\ UNCHANGED <<dedupVars, stage, calls, payload, review>>

\* Mutant: only findings of files outside the diff are listed in the body.
UnmappedFiles == {i \in Indices : kept[i].file \notin {hunks[j].file : j \in 1..Len(hunks)}}

\* compose_review_summary: of the texts of the body, the findings it lists.
Unmapped == {i \in Indices : position[i].line = 0}

\* Inline comments for the mapped findings, a line of the body for the others.
Compose ==
    /\ stage = "map" /\ parsed = Len(diff) /\ Len(position) = Len(kept)
    /\ payload' = [comments |-> {i \in Indices : position[i].line # 0}, body |-> Unmapped]
    /\ stage' = "post"
    /\ UNCHANGED <<dedupVars, mappingVars, calls, review>>

\* The soft time limit of the task, wherever it is not caught.
TimeLimit ==
    /\ stage \in {"dedup", "map"}
    /\ stage' = "raised"
    /\ UNCHANGED <<dedupVars, mappingVars, calls, payload, review>>

PostReview ==
    /\ stage = "post"
    /\ review' = payload /\ stage' = "posted"
    /\ UNCHANGED <<dedupVars, mappingVars, calls, payload>>

\* 422 for a review with comments: the review is posted without them.
PostSummaryOnly ==
    /\ stage = "post" /\ payload.comments # {}
    /\ review' = [payload EXCEPT !.comments = {}] /\ stage' = "posted"
    /\ UNCHANGED <<dedupVars, mappingVars, calls, payload>>

\* Any other refusal (the retries are those of ReviewDelivery).
PostFails ==
    /\ stage = "post"
    /\ stage' = "raised"
    /\ UNCHANGED <<dedupVars, mappingVars, calls, payload, review>>

Next ==
    \/ Deduplicate \/ Rank
    \/ AnalyzeLlm
    \/ Parse \/ Map \/ Compose \/ TimeLimit
    \/ PostReview \/ PostSummaryOnly \/ PostFails

Spec == Init /\ [][Next]_vars

-----------------------------------------------------------------------------
(* Properties.                                                             *)

\* Once ranked, findings stay: the escalation may only raise the confidence of
\* a doubtful critical finding, whatever the larger model answers and also
\* when it fails.
EscalationOnlyRaises ==
    [][kept # <<>> =>
         /\ Len(kept') = Len(kept)
         /\ \A i \in Indices :
              \/ kept'[i] = kept[i]
              \/ Doubtful(kept[i]) /\ \E c \in Confidence :
                   c > kept[i].conf /\ kept'[i] = [kept[i] EXCEPT !.conf = c]]_vars

\* GitHub takes every comment: its line is a changed line of the file it names
\* and its range begins on an earlier line of the same hunk, also where changed
\* lines look like file headers, unless one looks like that of a file of the diff.
CommentAccepted ==
    NamesApart =>
       \A i \in payload.comments :
          \E h \in HunksOf(kept[i].file) :
             /\ position[i].line \in Added(h)
             /\ position[i].start # 0 =>
                  position[i].start \in Shown(h) /\ position[i].start < position[i].line

\* A finding that ends on a changed line is commented on that line, unless the
\* diff has lines that look like headers, the path has a space or is what the
\* parser reads of another, or the finding begins in an earlier hunk.  (The
\* stored diff is there: it is read seconds after it was stored for a day.)
ChangedLineCommented ==
    stage \in {"post", "posted"} /\ Plain /\ NamesApart =>
       \A i \in Indices :
          LET f == kept[i]
          IN (/\ NameRead[f.file] = f.file
              /\ \E h \in HunksOf(f.file) :
                    /\ f.end \in Added(h)
                    /\ \A g \in HunksOf(f.file) : g < h => {f.line, f.end} \cap Shown(g) = {})
               => i \in payload.comments /\ position[i].line = f.end

\* Unless GitHub refuses the comments, the posted review tells of every finding
\* any engine reported: at its file, line and category there is a comment or a
\* line of the body that is at least as severe, or the finding there was
\* dropped for others that are (SevereFirst).
EveryFindingReported ==
    stage = "posted" /\ review.comments = payload.comments =>
       \A n \in 1..Len(raw) :
          \/ \E i \in review.comments \cup review.body :
                Spot(kept[i]) = Spot(raw[n]) /\ kept[i].sev <= raw[n].sev
          \/ \E j \in 1..Len(dropped) : Spot(dropped[j]) = Spot(raw[n])
=============================================================================
