------------------------------- MODULE Dedup -------------------------------
(***************************************************************************)
(* deduplicate_and_sort of aggregation/dedup.py: the findings of all       *)
(* analysis results are merged one by one into dedup_map, then sorted by   *)
(* severity, file and line, and cut to the number of comments GitHub       *)
(* takes.                                                                  *)
(*                                                                         *)
(* Severities and confidences are their numbers in SEVERITY_ORDER (0 is    *)
(* critical) and CONFIDENCE_ORDER (3 is high), file paths are numbers in   *)
(* the order of the paths, and "fam" is what get_vulnerability_family      *)
(* makes of the rule and the texts of a finding.                           *)
(***************************************************************************)
EXTENDS Integers, Sequences, FiniteSets

CONSTANTS File, Category, Title, Family,
          MaxFindings      \* MAX_REVIEW_COMMENTS, 256

Severity == 0..3
Confidence == 1..3
Source == {"ast", "llm"}
Critical == 0

ASSUME DedupAssumption ==
    /\ File \subseteq Nat \ {0}
    /\ MaxFindings \in Nat

Finding == [file : File, line : Nat, end : Nat, sev : Severity, cat : Category,
            title : Title, fam : Family, conf : Confidence, src : Source]
\* A value of dedup_map; its key keeps the title it was entered with.
Entry == [file : File, line : Nat, end : Nat, sev : Severity, cat : Category,
          title : Title, fam : Family, conf : Confidence, src : Source \cup {"merged"},
          key : Title]

VARIABLES
    raw,      \* the findings of all results, in the order of the results
    read,     \* how many of them have been merged
    entries,  \* the values of dedup_map in insertion order
    merged,   \* merged_count
    kept,     \* the findings of the review
    dropped   \* dropped_findings

dedupVars == <<raw, read, entries, merged, kept, dropped>>

DedupTypeOK ==
    /\ raw \in Seq(Finding)
    /\ read \in 0..Len(raw)
    /\ entries \in Seq(Entry)
    /\ merged \in Nat
    /\ kept \in Seq(Entry) /\ dropped \in Seq(Entry)
    /\ Len(entries) + merged = read
    /\ Len(kept) <= MaxFindings

DedupInit ==
    /\ read = 0 /\ entries = <<>> /\ merged = 0
    /\ kept = <<>> /\ dropped = <<>>

-----------------------------------------------------------------------------
Spot(f) == <<f.file, f.line, f.cat>>
Lower(a, b) == IF a <= b THEN a ELSE b
Higher(a, b) == IF a >= b THEN a ELSE b

\* dedup_map.get(key)
SameKey(f) == {i \in 1..Len(entries) : Spot(entries[i]) = Spot(f) /\ entries[i].key = f.title}

\* get_vulnerability_family says the same of both.
SameFamily(e, f) == e.fam = f.fam

\* Mutant: the vulnerability family is not compared.
CrossSourceAnyFamily(f) ==
    {i \in 1..Len(entries) : /\ Spot(entries[i]) = Spot(f)
                             /\ entries[i].src # f.src
                             /\ entries[i].src # "merged"}

\* The entries of the other engine that describe the same vulnerability.
CrossSource(f) ==
    {i \in 1..Len(entries) : /\ Spot(entries[i]) = Spot(f)
                             /\ entries[i].src # f.src
                             /\ entries[i].src # "merged"
                             /\ SameFamily(entries[i], f)}

\* Mutant: the key is not looked up.
MatchesOtherSource(f) == CrossSource(f)

Matches(f) == IF SameKey(f) # {} THEN SameKey(f) ELSE CrossSource(f)

\* The new finding gives the text.
Wins(f, e) == f.conf > e.conf \/ (f.conf = e.conf /\ f.sev < e.sev)

\* The line range stays that of the entry.
Merged(e, f) ==
    [file |-> e.file, line |-> e.line, end |-> e.end, cat |-> e.cat, fam |-> e.fam, key |-> e.key,
     title |-> IF Wins(f, e) THEN f.title ELSE e.title,
     sev |-> Lower(e.sev, f.sev), conf |-> Higher(e.conf, f.conf), src |-> "merged"]

NewEntry(f) ==
    [file |-> f.file, line |-> f.line, end |-> f.end, sev |-> f.sev, cat |-> f.cat,
     title |-> f.title, fam |-> f.fam, conf |-> f.conf, src |-> f.src, key |-> f.title]

\* One turn of the loop over the findings.
DedupFinding ==
    /\ read < Len(raw)
    /\ LET f == raw[read + 1]
       IN \/ /\ Matches(f) = {}
             /\ entries' = Append(entries, NewEntry(f))
             /\ UNCHANGED merged
          \/ /\ \E i \in Matches(f) :
                  /\ \A j \in Matches(f) : i <= j
                  /\ entries' = [entries EXCEPT ![i] = Merged(entries[i], f)]
             /\ merged' = merged + 1
    /\ read' = read + 1
    /\ UNCHANGED <<raw, kept, dropped>>

\* Mutant: sorted by file and line only.
BeforeByPlace(e, f) ==
    \/ e.file < f.file
    \/ e.file = f.file /\ e.line < f.line

Before(e, f) ==
    \/ e.sev < f.sev
    \/ e.sev = f.sev /\ e.file < f.file
    \/ e.sev = f.sev /\ e.file = f.file /\ e.line < f.line

\* sorted() is stable: the place of entry i counts those before it.
Place(i) ==
    Cardinality({j \in 1..Len(entries) :
                   \/ Before(entries[j], entries[i])
                   \/ ~ Before(entries[i], entries[j]) /\ j <= i})
Sorted == [p \in 1..Len(entries) |-> entries[CHOOSE i \in 1..Len(entries) : Place(i) = p]]

\* The re-sort that would put critical findings first changes nothing: the
\* order is by severity already.
SortAndTruncate ==
    /\ read = Len(raw)
    /\ kept' = SubSeq(Sorted, 1, Lower(MaxFindings, Len(entries)))
    /\ dropped' = SubSeq(Sorted, MaxFindings + 1, Len(entries))
    /\ UNCHANGED <<raw, read, entries, merged>>

-----------------------------------------------------------------------------
(* Properties.                                                             *)

\* Entry e speaks for finding f.
Covers(e, f) ==
    /\ Spot(e) = Spot(f)
    /\ e.sev <= f.sev /\ e.conf >= f.conf
    /\ e.src \in {f.src, "merged"}
    /\ e.key = f.title \/ e.fam = f.fam

\* Findings f and g account for severity and confidence of entry e.
Backs(f, g, e) ==
    /\ Spot(f) = Spot(e) /\ f.sev = e.sev
    /\ Spot(g) = Spot(e) /\ g.conf = e.conf

\* A merge never loses a vulnerability or plays one down: each finding read so
\* far is in an entry of its spot that is at least as severe, at least as
\* certain and, unless it is the finding's own entry, marked as merged and of
\* its key or family; and no entry claims more than some finding of its spot.
SeverityPreserved ==
    /\ \A n \in 1..read : \E i \in 1..Len(entries) : Covers(entries[i], raw[n])
    /\ \A i \in 1..Len(entries) : \E n, k \in 1..read : Backs(raw[n], raw[k], entries[i])

\* "Retain the strict 4-field key for findings originating from the same
\* engine": entries have different keys, so two comments of one file, line,
\* category and title are possible only after a merge that renamed one of them.
OneEntryPerKey ==
    \A i, j \in 1..Len(entries) :
       i # j /\ Spot(entries[i]) = Spot(entries[j]) =>
          /\ entries[i].key # entries[j].key
          /\ entries[i].title = entries[j].title =>
                \E e \in {entries[i], entries[j]} : e.src = "merged" /\ e.title # e.key

\* "Critical findings must never be dropped while non-critical are kept", and
\* the notice of the summary, "lower-severity findings were omitted": nothing
\* dropped is more severe than anything kept, and nothing is lost in between.
SevereFirst ==
    /\ \A i \in 1..Len(kept), j \in 1..Len(dropped) : kept[i].sev <= dropped[j].sev
    /\ Len(dropped) > 0 => Len(kept) = MaxFindings
    /\ kept # <<>> => Len(kept) + Len(dropped) = Len(entries)
=============================================================================
