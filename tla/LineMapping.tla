----------------------------- MODULE LineMapping -----------------------------
(***************************************************************************)
(* aggregation/line_mapping.py: parse_unified_diff reads the unified diff  *)
(* of the pull request line by line, map_findings_to_diff_positions gives  *)
(* each finding the line of the diff its comment goes to.                  *)
(*                                                                         *)
(* A line of the diff is abstracted to its kind.  "+++" and "---" are file *)
(* headers; "add", "del" and "context" are lines of a hunk; "added ++" and *)
(* "deleted --" are lines of a hunk whose content makes them look like a   *)
(* file header ("+++ " and "--- "); "other" is anything else, such as the  *)
(* empty line between two files.                                           *)
(***************************************************************************)
EXTENDS Integers, Sequences, FiniteSets

CONSTANTS Path,            \* names of files, as numbers; 0 is the empty one
          NameRead         \* the name the parser reads in the header of a path:
                           \* the part before the first space

ASSUME PathAssumption ==
    /\ Path \subseteq Nat \ {0}
    /\ NameRead \in [Path \cup {0} -> Path \cup {0}]

Kind == {"+++", "---", "@@", "add", "del", "context", "added ++", "deleted --", "other"}
\* name: the path in a header; no: new_start of a hunk
DiffLine == [kind : Kind, name : Path \cup {0}, no : Nat]
Hunk == [file : Path, modified : SUBSET Nat, context : SUBSET Nat]
Position == [line : Nat, start : Nat]

VARIABLES
    diff,      \* the unified diff
    parsed,    \* how many of its lines have been read
    path,      \* current_file; 0 for none
    hunks,     \* the hunks of file_diffs, each with its file
    open,      \* current_hunk is not None (it is the last one)
    newLine,   \* current_new_line
    position   \* the positions of the findings mapped so far

mappingVars == <<diff, parsed, path, hunks, open, newLine, position>>

MappingTypeOK ==
    /\ diff \in Seq(DiffLine)
    /\ parsed \in 0..Len(diff)
    /\ path \in Path \cup {0}
    /\ hunks \in Seq(Hunk)
    /\ open \in BOOLEAN /\ (open => hunks # <<>> /\ hunks[Len(hunks)].file = path)
    /\ newLine \in Nat
    /\ position \in Seq(Position)

MappingInit ==
    /\ parsed = 0 /\ path = 0 /\ hunks = <<>> /\ open = FALSE /\ newLine = 0
    /\ position = <<>>

-----------------------------------------------------------------------------
(* parse_unified_diff.                                                     *)

Reading(kinds) == parsed < Len(diff) /\ diff[parsed + 1].kind \in kinds
Line == diff[parsed + 1]

ReadNewHeader ==
    /\ Reading({"+++", "added ++"})
    /\ path' = NameRead[Line.name] /\ open' = FALSE
    /\ parsed' = parsed + 1 /\ UNCHANGED <<diff, hunks, newLine, position>>

ReadOldHeader ==
    /\ Reading({"---", "deleted --"})
    /\ open' = FALSE
    /\ parsed' = parsed + 1 /\ UNCHANGED <<diff, path, hunks, newLine, position>>

\* Mutant: the hunk is opened without a file.
ReadHunkHeaderAnyway ==
    /\ Reading({"@@"})
    /\ hunks' = Append(hunks, [file |-> path, modified |-> {}, context |-> {}])
    /\ open' = TRUE /\ newLine' = Line.no
    /\ parsed' = parsed + 1 /\ UNCHANGED <<diff, path, position>>

ReadHunkHeader ==
    /\ Reading({"@@"})
    /\ \/ /\ path # 0
          /\ hunks' = Append(hunks, [file |-> path, modified |-> {}, context |-> {}])
          /\ open' = TRUE /\ newLine' = Line.no
       \/ path = 0 /\ open' = FALSE /\ UNCHANGED <<hunks, newLine>>
    /\ parsed' = parsed + 1 /\ UNCHANGED <<diff, path, position>>

\* Mutant: a deleted line counts as a line of the new file.
ReadHunkLineCountsDeleted ==
    /\ Reading({"add", "context", "del", "other"})
    /\ LET n == Len(hunks)
       IN \/ /\ open /\ Line.kind \in {"add", "del"}
             /\ hunks' = [hunks EXCEPT ![n].modified =
                             IF Line.kind = "add" THEN @ \cup {newLine} ELSE @]
             /\ newLine' = newLine + 1
          \/ /\ open /\ Line.kind = "context"
             /\ hunks' = [hunks EXCEPT ![n].context = @ \cup {newLine}]
             /\ newLine' = newLine + 1
          \/ /\ ~ open \/ Line.kind = "other"
             /\ UNCHANGED <<hunks, newLine>>
    /\ parsed' = parsed + 1 /\ UNCHANGED <<diff, path, open, position>>

ReadHunkLine ==
    /\ Reading({"add", "context", "del", "other"})
    /\ LET n == Len(hunks)
       IN \/ /\ open /\ Line.kind = "add"
             /\ hunks' = [hunks EXCEPT ![n].modified = @ \cup {newLine}]
             /\ newLine' = newLine + 1
          \/ /\ open /\ Line.kind = "context"
             /\ hunks' = [hunks EXCEPT ![n].context = @ \cup {newLine}]
             /\ newLine' = newLine + 1
          \/ /\ ~ open \/ Line.kind \in {"del", "other"}
             /\ UNCHANGED <<hunks, newLine>>
    /\ parsed' = parsed + 1 /\ UNCHANGED <<diff, path, open, position>>

ParseLine == ReadNewHeader \/ ReadOldHeader \/ ReadHunkHeader \/ ReadHunkLine

-----------------------------------------------------------------------------
(* map_findings_to_diff_positions.                                         *)

Outside == [line |-> 0, start |-> 0]
All(h) == h.modified \cup h.context
Distance(a, b) == IF a < b THEN b - a ELSE a - b
Nearest(S, n) == {m \in S : \A k \in S : Distance(m, n) <= Distance(k, n)}

\* Mutant: only the first line of the finding is looked up.
TouchedByStart(f) ==
    {i \in 1..Len(hunks) : hunks[i].file = f.file /\ f.line \in All(hunks[i])}

Touched(f) ==
    {i \in 1..Len(hunks) : hunks[i].file = f.file /\ {f.end, f.line} \cap All(hunks[i]) # {}}

FirstTouched(f) == hunks[CHOOSE i \in Touched(f) : \A j \in Touched(f) : i <= j]

\* Mutant: the start of the range is not looked up in the hunk.
PositionsLongRange(f) ==
    LET h == FirstTouched(f)
    IN CASE Touched(f) = {} -> {Outside}
         [] OTHER -> {[line |-> f.end, start |-> IF f.line < f.end THEN f.line ELSE 0]}

\* The positions a finding may get; of two changed lines equally near, min
\* takes the one the set yields first.
Positions(f) ==
    IF Touched(f) = {} THEN {Outside}
    ELSE LET h == FirstTouched(f)
         IN CASE f.end \in h.modified ->
                   {[line |-> f.end,
                     start |-> IF f.line < f.end /\ f.line \in All(h) THEN f.line ELSE 0]}
              [] f.end \in h.context \ h.modified ->
                   IF h.modified = {} THEN {Outside}
                   ELSE {[line |-> n, start |-> 0] : n \in Nearest(h.modified, f.end)}
              [] f.end \notin All(h) ->
                   {IF f.line \in h.modified THEN [line |-> f.line, start |-> 0] ELSE Outside}

MapFinding(f) ==
    /\ parsed = Len(diff)
    /\ \E p \in Positions(f) : position' = Append(position, p)
    /\ UNCHANGED <<diff, parsed, path, hunks, open, newLine>>

-----------------------------------------------------------------------------
(* What the diff says, read with the structure of the whole in view.       *)

Headers(kind, p) == {q \in 1..(p - 1) : diff[q].kind = kind}
Last(S) == CHOOSE q \in S : \A r \in S : r <= q
Owner(p) == diff[Last(Headers("+++", p))].name
NewLines == {"add", "added ++", "context"}
BodyOf(h) == {p \in (h + 1)..Len(diff) : diff[p].kind \in NewLines /\ Last(Headers("@@", p)) = h}
\* The number in the new file of line p of hunk h.
Number(h, p) == diff[h].no + Cardinality({q \in BodyOf(h) : q < p})
HunksOf(f) == {h \in 1..Len(diff) : diff[h].kind = "@@" /\ Owner(h) = f}
Shown(h) == {Number(h, p) : p \in BodyOf(h)}
Added(h) == {Number(h, p) : p \in {q \in BodyOf(h) : diff[q].kind # "context"}}

Owned == {diff[p].name : p \in {q \in 1..Len(diff) : diff[q].kind = "+++"}}
Plain == \A p \in 1..Len(diff) : diff[p].kind \notin {"added ++", "deleted --"}
\* Neither a name cut at a space nor the text of a changed line names a file of
\* the diff.
NamesApart ==
    \A p \in 1..Len(diff) :
       /\ diff[p].kind = "+++" => NameRead[diff[p].name] \notin Owned \ {diff[p].name}
       /\ diff[p].kind = "added ++" => NameRead[diff[p].name] \notin Owned

\* Whatever the lines of a diff look like, as long as what the parser reads of a
\* name or of a line that looks like a header is not another file of the diff
\* (NamesApart), it takes no line of a file for changed, or for part of a hunk,
\* that is not: such a line makes it miss lines, never misnumber them.
ParseSound ==
    NamesApart =>
       \A i \in 1..Len(hunks) : hunks[i].file \in Owned =>
          \E h \in HunksOf(hunks[i].file) :
             hunks[i].modified \subseteq Added(h) /\ All(hunks[i]) \subseteq Shown(h)

\* Where no line looks like a header, every changed line is found, also of a
\* file that is listed twice.
ParseComplete ==
    parsed = Len(diff) /\ Plain =>
       \A f \in Owned : NameRead[f] = f =>
          \A h \in HunksOf(f) : \E i \in 1..Len(hunks) :
             hunks[i].file = f /\ Added(h) \subseteq hunks[i].modified

\* Both: the parser agrees with the reference reading of the diff.
ParseAgrees == ParseSound /\ ParseComplete
=============================================================================
