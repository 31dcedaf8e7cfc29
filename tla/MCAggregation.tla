---------------------------- MODULE MCAggregation ----------------------------
(* An instance of Aggregation for TLC. *)
EXTENDS Aggregation, TLC

CONSTANTS eval1, eval2, sql

\* The path of file 3 has a space; the name 4 is what is before it.
Names == [p \in 0..5 |-> IF p = 3 THEN 4 ELSE p]
Keywords == "resource" :> "leak"

Ln(kind, name, no) == [kind |-> kind, name |-> name, no |-> no]
Header(f) == <<Ln("---", f, 0), Ln("+++", f, 0)>>
At(n) == <<Ln("@@", 0, n)>>
Body(kinds) == [i \in 1..Len(kinds) |-> Ln(kinds[i], 0, 0)]

\* Many diffs: every hunk of up to three lines, with a line that looks like a
\* header of an unknown or of an empty name, before a second hunk of the same
\* file (listed once or twice) and another file.
HunkLine == {Ln(k, 0, 0) : k \in {"add", "del", "context", "added ++", "deleted --"}}
              \cup {Ln("added ++", 5, 0)}
Bodies == UNION {[1..n -> HunkLine] : n \in 1..3}
Rest == {At(8) \o Body(<<"add", "context">>),
         <<Ln("other", 0, 0)>> \o Header(1) \o At(8) \o Body(<<"context", "del", "add">>),
         Header(2) \o At(1) \o Body(<<"add">>) \o Header(3) \o At(1) \o Body(<<"add">>)}
ManyDiffs == {Header(1) \o At(2) \o b \o r : b \in Bodies, r \in Rest}

At1(line, end) == [file |-> 1, line |-> line, end |-> end, sev |-> 1, cat |-> "A03",
                   title |-> sql, fam |-> "sql", conf |-> 3, src |-> "ast"]
FewFindings == {<<At1(2, 3), At1(3, 9)>>, <<At1(2, 2), At1(8, 9)>>,
                <<[At1(1, 1) EXCEPT !.file = 3], [At1(4, 4) EXCEPT !.src = "llm"]>>}

\* Many findings: every list of up to four, of one line and its neighbour.
Spoken(title) == IF title = sql THEN "sql" ELSE "eval"
Reported(title, src, rank) ==
    [file |-> 1, line |-> 2, end |-> 2, sev |-> rank[1], cat |-> "A03", title |-> title,
     fam |-> Spoken(title), conf |-> rank[2], src |-> src]
Pool == {Reported(t, s, r) : t \in {eval1, eval2}, s \in Source, r \in {<<0, 1>>, <<2, 3>>}}
          \cup {Reported(sql, "llm", <<0, 2>>),
                [Reported(sql, "ast", <<1, 3>>) EXCEPT !.file = 2, !.cat = "leak"]}
ManyFindings == UNION {[1..n -> Pool] : n \in 0..4}
OneDiff == Header(1) \o At(2) \o Body(<<"add">>)

Cases == [raw : FewFindings, diff : ManyDiffs] \cup [raw : ManyFindings, diff : {OneDiff}]

Said(f, c, conf) == [file |-> f, cat |-> c, conf |-> conf]
SomeAnswers == {<<>>, <<Said(1, "A03", 3), Said(1, "A03", 1)>>, <<Said(1, "A03", 3)>>,
                <<Said(2, "resource", 2), Said(1, "odd", 3)>>}
=============================================================================
