----------------------------- MODULE Reanalysis -----------------------------
(***************************************************************************)
(* scan_reanalysis_needed of worker/tasks.py: Celery Beat starts it every  *)
(* five minutes to analyse degraded runs again and to post what the LLM    *)
(* finds as a follow-up review.  Executions overlap, are killed by their   *)
(* time limit, and work through a list that is read once, before the       *)
(* per-run lock is taken.                                                  *)
(*                                                                         *)
(* A run is its rank by created_at.  A finding stands for a file, line,    *)
(* category and vulnerability family; its spot leaves out the family.      *)
(***************************************************************************)
EXTENDS Integers, FiniteSets

CONSTANTS Run,             \* degraded, completed runs, oldest first
          Scanner,         \* overlapping executions of the task
          Finding,
          FindingsOf,      \* what AST and LLM may report about a run
          Copies,          \* how often one answer may name a finding
          InDiff,          \* findings on a line of the diff
          SpotOf,          \* (file, line, category) of a finding
          Limit,           \* runs per execution, 10 in the code
          Cap,             \* attempts per run, 3 in the code
          FaultsOf         \* what may go wrong with each run

ASSUME ReanalysisAssumption ==
    /\ Run \subseteq Nat /\ IsFiniteSet(Run)
    /\ InDiff \subseteq Finding
    /\ FindingsOf \in [Run -> SUBSET Finding] /\ Copies \in [Finding -> Nat]
    /\ Limit \in Nat \ {0} /\ Cap \in Nat
    /\ "free" \notin Scanner
    /\ FaultsOf \in [Run -> SUBSET {"llm", "empty", "post", "lost", "redis", "422", "pg", "kill",
                                    "push", "expiry"}]

VARIABLES
    flag,      \* analysis_runs.reanalysis_needed
    attempts,  \* reanalyze:attempts:{run} in Redis, at most Cap + 1
    lock,      \* lock:reanalyze:{run}
    posted,    \* findings rows of the run with is_posted, counted per finding
    unposted,  \* and those without
    diff,      \* diff:{run} in Redis, which lives for 24 hours
    comments,  \* inline comments on GitHub per finding
    letter,    \* runs with an unresolved posting dead letter
    job,       \* the executions of the task
    named,     \* history: how often an answer, or the primary analysis, named it at most
    lost,      \* history: comments of posts whose success was not recorded
    stripped,  \* history: runs with a follow-up whose comments GitHub refused
    blank      \* history: runs with a follow-up posted without the stored diff

vars == <<flag, attempts, lock, posted, unposted, diff, comments, letter, job,
          named, lost, stripped, blank>>
rows == <<posted, unposted>>
github == <<comments, lost, stripped, blank>>

YesNo == {"yes", "no"}
Places == {"idle", "next", "locked", "spent", "work", "analysed", "sent", "stored", "dead"}
JobState == [at : Places, todo : SUBSET Run, run : Run \cup {-1},
             new : [Finding -> Nat], old : [Finding -> Nat],
             diff : {"kept", "expired"}, followup : {"no", "yes", "bare"}]

TypeOK ==
    /\ flag \in [Run -> YesNo]
    /\ attempts \in [Run -> 0..(Cap + 1)]
    /\ lock \in [Run -> Scanner \cup {"free"}]
    /\ posted \in [Run -> [Finding -> Nat]]
    /\ unposted \in [Run -> [Finding -> Nat]]
    /\ diff \in [Run -> {"kept", "expired"}]
    /\ comments \in [Run -> [Finding -> Nat]]
    /\ letter \subseteq Run
    /\ job \in [Scanner -> JobState]
    /\ named \in [Run -> [Finding -> Nat]]
    /\ lost \in [Run -> [Finding -> Nat]]
    /\ stripped \subseteq Run
    /\ blank \subseteq Run

NoFinding == [f \in Finding |-> 0]
Job(at, todo, r) ==
    [at |-> at, todo |-> todo, run |-> r, new |-> NoFinding, old |-> NoFinding,
     diff |-> "kept", followup |-> "no"]
Idle == Job("idle", {}, -1)

May(f, r) == f \in FaultsOf[r]

\* What one answer of the LLM may report: the findings of the chunks put together
\* as they come, so one finding may be there more than once.
Answers(r) ==
    {a \in [Finding -> UNION {0..Copies[f] : f \in Finding}] :
       \A f \in Finding : a[f] <= IF f \in FindingsOf[r] THEN Copies[f] ELSE 0}

Only(count, set) == [f \in Finding |-> IF f \in set THEN count[f] ELSE 0]

\* The rows of the degraded run, several for one finding if their titles differ.
\* Those on a line of the diff are marked as posted if the primary review was
\* posted, and else the primary's dead letter exists.
Init ==
    /\ \E known \in [Run -> UNION {Answers(r) : r \in Run}], primary \in [Run -> YesNo] :
         /\ \A r \in Run : known[r] \in Answers(r) /\ (primary[r] = "no" => May("post", r))
         /\ posted = [r \in Run |-> IF primary[r] = "yes" THEN Only(known[r], InDiff) ELSE NoFinding]
         /\ unposted = [r \in Run |-> IF primary[r] = "yes" THEN Only(known[r], Finding \ InDiff)
                                      ELSE known[r]]
         /\ letter = {r \in Run : primary[r] = "no"}
         /\ named = [r \in Run |-> Only(known[r], InDiff)]
    /\ comments = posted
    /\ flag = [r \in Run |-> "yes"]
    /\ attempts = [r \in Run |-> 0]
    /\ lock = [r \in Run |-> "free"]
    /\ diff = [r \in Run |-> "kept"]
    /\ job = [s \in Scanner |-> Idle]
    /\ lost = [r \in Run |-> NoFinding]
    /\ stripped = {} /\ blank = {}

-----------------------------------------------------------------------------
Set(s, j) == job' = [job EXCEPT ![s] = j]
At(s, at) == job[s].at = at
Clear(r) == flag' = [flag EXCEPT ![r] = "no"]

\* On to the next run of the list, if there is one.
Proceed(s, todo) ==
    \/ todo = {} /\ Set(s, Idle)
    \/ todo # {} /\ Set(s, Job("next", todo, -1))

\* On with the work on the run.
Goto(s, at) == Set(s, [job[s] EXCEPT !.at = at])

\* The finally clause: the lock goes, and the loop goes on.
LeaveRun(s) ==
    /\ lock' = [lock EXCEPT ![job[s].run] = "free"]
    /\ Proceed(s, job[s].todo)

\* An exception leaves the loop after the finally clause: the other runs of
\* the list are not looked at.
Abort(s) ==
    /\ lock' = [lock EXCEPT ![job[s].run] = "free"]
    /\ Set(s, Idle)

Flagged == {r \in Run : flag[r] = "yes"}

\* The query: the oldest runs whose flag is set.  (No step is taken while the
\* breaker is OPEN.)
List(s) ==
    /\ At(s, "idle") /\ Flagged # {}
    /\ Proceed(s, {r \in Flagged : Cardinality({q \in Flagged : q < r}) < Limit})
    /\ UNCHANGED <<flag, attempts, lock, rows, letter, diff, github, named>>

\* r comes first in what is left of the list.
Oldest(r, todo) == r \in todo /\ \A q \in todo : r <= q

\* Mutant: SET without NX.
TakeLockAlways(s) ==
    /\ At(s, "next")
    /\ \E r \in Run :
         /\ Oldest(r, job[s].todo)
         /\ lock' = [lock EXCEPT ![r] = s] /\ Set(s, Job("locked", job[s].todo \ {r}, r))
    /\ UNCHANGED <<flag, attempts, rows, letter, diff, github, named>>

\* SET lock NX EX 300; when taken, the run is skipped.
TakeLock(s) ==
    /\ At(s, "next")
    /\ \E r \in Run :
         /\ Oldest(r, job[s].todo)
         /\ LET rest == job[s].todo \ {r}
            IN \/ /\ lock[r] = "free"
                  /\ lock' = [lock EXCEPT ![r] = s] /\ Set(s, Job("locked", rest, r))
               \/ lock[r] # "free" /\ Proceed(s, rest) /\ UNCHANGED lock
    /\ UNCHANGED <<flag, attempts, rows, letter, diff, github, named>>

\* INCR; above the cap only the flag is cleared.  (The key's 24 hours begin
\* again with every attempt.)
CountAttempt(s) ==
    /\ At(s, "locked")
    /\ LET r == job[s].run
       IN \/ /\ attempts[r] < Cap
             /\ attempts' = [attempts EXCEPT ![r] = attempts[r] + 1]
             /\ Goto(s, "work")
          \/ /\ attempts[r] >= Cap
             /\ attempts' = [attempts EXCEPT ![r] = Cap + 1]
             /\ Goto(s, "spent")
    /\ UNCHANGED <<flag, lock, rows, letter, diff, github, named>>

\* Mutant: the run keeps its flag.
GiveUpFlagged(s) ==
    /\ At(s, "spent")
    /\ LeaveRun(s)
    /\ UNCHANGED <<flag, attempts, rows, letter, diff, github, named>>

GiveUp(s) ==
    /\ At(s, "spent")
    /\ Clear(job[s].run) /\ LeaveRun(s)
    /\ UNCHANGED <<attempts, rows, letter, diff, github, named>>

\* The head moved, or nothing of the pull request is left to analyse.  A push
\* may also bring the head back, so what a look-up says is left open; one that
\* fails counts as unmoved.
Superseded(s) ==
    /\ At(s, "work")
    /\ May("push", job[s].run) \/ May("empty", job[s].run)
    /\ Clear(job[s].run) /\ LeaveRun(s)
    /\ UNCHANGED <<attempts, rows, letter, diff, github, named>>

\* An answer is compared with the rows of the run, not with itself: a posted finding
\* is confirmed in place, one at the spot of an unposted row is left out, the
\* rest is new.
Unmatched(r, answer) ==
    [f \in Finding |->
       IF posted[r][f] > 0 \/ (\E g \in Finding : unposted[r][g] > 0 /\ SpotOf[g] = SpotOf[f])
       THEN 0 ELSE answer[f]]

\* On with what is to be posted: the new findings and all unposted rows, mapped
\* to the stored diff if there still is one.
Prepare(s, new, old) ==
    Set(s, [job[s] EXCEPT !.at = IF \E f \in Finding : new[f] + old[f] > 0 THEN "analysed" ELSE "sent",
                          !.new = new, !.old = old, !.diff = diff[job[s].run], !.followup = "no"])

NoteNamed(r, answer) ==
    named' = [named EXCEPT ![r] =
                [f \in Finding |-> IF f \in InDiff /\ answer[f] > named[r][f]
                                   THEN answer[f] ELSE named[r][f]]]

\* Mutant: findings confirmed by the LLM are reported again.
AnalyseUnmatched(s) ==
    /\ At(s, "work")
    /\ \E answer \in Answers(job[s].run) :
         Prepare(s, answer, unposted[job[s].run]) /\ NoteNamed(job[s].run, answer)
    /\ UNCHANGED <<flag, attempts, lock, rows, letter, diff, github>>

\* An error analyze_llm has swallowed looks like an answer without findings.
Analyse(s) ==
    /\ At(s, "work")
    /\ \E answer \in Answers(job[s].run) :
         /\ Prepare(s, Unmatched(job[s].run, answer), unposted[job[s].run])
         /\ NoteNamed(job[s].run, answer)
    /\ UNCHANGED <<flag, attempts, lock, rows, letter, diff, github>>

\* Without the stored diff the patches of the files are joined without file
\* headers, and the mapping finds no line of any finding in them.
Mapped(s, f) == f \in InDiff /\ job[s].diff = "kept"

ToPost(s, f) == job[s].new[f] + job[s].old[f]
Inline(s, f) == IF Mapped(s, f) THEN ToPost(s, f) ELSE 0

Plus(count, s) ==
    [count EXCEPT ![job[s].run] = [f \in Finding |-> count[job[s].run][f] + Inline(s, f)]]

\* GitHub shows the comments of the review.
Comment(s) == comments' = Plus(comments, s)
AddLost(s) == lost' = Plus(lost, s)

Sent(s, followup) == Set(s, [job[s] EXCEPT !.at = "sent", !.followup = followup])

\* The follow-up review is posted, or GitHub refuses its comments (422) and
\* the summary alone is posted.  It is posted, too, if it has no comments.
ReviewShown(s) ==
    /\ \/ Sent(s, "yes") /\ Comment(s) /\ UNCHANGED stripped
       \/ /\ May("422", job[s].run) /\ \E f \in Finding : Inline(s, f) > 0
          /\ Sent(s, "bare") /\ stripped' = stripped \cup {job[s].run} /\ UNCHANGED comments
    /\ blank' = IF job[s].diff = "expired" THEN blank \cup {job[s].run} ELSE blank
    /\ UNCHANGED lost

FollowupPosted(s) ==
    /\ At(s, "analysed")
    /\ ReviewShown(s)
    /\ UNCHANGED <<flag, attempts, lock, rows, letter, diff, named>>

\* Mutant: no dead letter.
FollowupForgotten(s) ==
    /\ At(s, "analysed")
    /\ May("post", job[s].run) /\ Sent(s, "no")
    /\ UNCHANGED <<flag, attempts, lock, rows, letter, diff, github, named>>

\* It is not, or the answer is lost, or the Redis write after it fails (then
\* followup_posted is set already): a dead letter is recorded.
FollowupFailed(s) ==
    /\ At(s, "analysed")
    /\ \/ May("post", job[s].run) /\ Sent(s, "no") /\ UNCHANGED github
       \/ /\ May("lost", job[s].run) /\ Sent(s, "no")
          /\ Comment(s) /\ AddLost(s) /\ UNCHANGED <<stripped, blank>>
       \/ May("redis", job[s].run) /\ ReviewShown(s)
    /\ letter' = letter \cup {job[s].run}
    /\ UNCHANGED <<flag, attempts, lock, rows, diff, named>>

\* The rows the follow-up marks as posted: all unposted ones of the look-up,
\* with a comment or not, and new ones only if they were mapped to the diff.
Marked(s, f) ==
    IF job[s].followup = "no" THEN 0
    ELSE job[s].old[f] + IF Mapped(s, f) THEN job[s].new[f] ELSE 0

\* The commit of record_llm_usage, which also commits the findings.
StoreFindings(s) ==
    /\ At(s, "sent")
    /\ LET r == job[s].run
       IN /\ posted' = [posted EXCEPT ![r] = [f \in Finding |-> posted[r][f] + Marked(s, f)]]
          /\ unposted' = [unposted EXCEPT ![r] =
                            [f \in Finding |-> unposted[r][f] + job[s].new[f] - Marked(s, f)]]
    /\ Goto(s, "stored")
    /\ UNCHANGED <<flag, attempts, lock, letter, diff, github, named>>

\* The counts and the flag are committed; it is kept for another attempt only
\* when the follow-up failed.
CommitRun(s) ==
    /\ At(s, "stored")
    /\ \/ /\ (\A f \in Finding : ToPost(s, f) = 0) \/ job[s].followup # "no"
          /\ Clear(job[s].run)
       \/ /\ \E f \in Finding : ToPost(s, f) > 0
          /\ job[s].followup = "no" /\ UNCHANGED flag
    /\ LeaveRun(s)
    /\ UNCHANGED <<attempts, rows, letter, diff, github, named>>

\* The comments shown without being stored.
Unrecorded(s) ==
    \/ At(s, "sent") /\ job[s].followup = "yes" /\ AddLost(s)
    \/ ~ (At(s, "sent") /\ job[s].followup = "yes") /\ UNCHANGED lost

\* Fetching or the LLM raises, or a commit fails.
ScanRaises(s) ==
    /\ \/ At(s, "work") /\ May("llm", job[s].run)
       \/ job[s].at \in {"spent", "work", "sent", "stored"} /\ May("pg", job[s].run)
    /\ Abort(s) /\ Unrecorded(s)
    /\ UNCHANGED <<flag, attempts, rows, letter, diff, comments, stripped, blank, named>>

\* The time limit (180 s) kills the task; its lock stays.
ScanKilled(s) ==
    /\ job[s].at \notin {"idle", "next", "dead"} /\ May("kill", job[s].run)
    /\ Set(s, Job("dead", {}, job[s].run)) /\ Unrecorded(s)
    /\ UNCHANGED <<flag, attempts, lock, rows, letter, diff, comments, stripped, blank, named>>

\* 300 s after it was taken, when the task no longer lives.
LockExpires(s) ==
    /\ At(s, "dead")
    /\ lock' = [lock EXCEPT ![job[s].run] = "free"]
    /\ Set(s, Idle)
    /\ UNCHANGED <<flag, attempts, rows, letter, diff, github, named>>

\* The 24 hours of the stored diff are over.
DiffExpires(r) ==
    /\ May("expiry", r) /\ diff[r] = "kept"
    /\ diff' = [diff EXCEPT ![r] = "expired"]
    /\ UNCHANGED <<flag, attempts, lock, rows, letter, job, github, named>>

ScanReanalysisNeeded(s) ==
    \/ List(s) \/ TakeLock(s) \/ CountAttempt(s) \/ GiveUp(s) \/ Superseded(s)
    \/ Analyse(s) \/ FollowupPosted(s) \/ FollowupFailed(s) \/ StoreFindings(s)
    \/ CommitRun(s) \/ ScanRaises(s) \/ ScanKilled(s) \/ LockExpires(s)

Next ==
    \/ \E s \in Scanner : ScanReanalysisNeeded(s)
    \/ \E r \in Run : DiffExpires(r)

Spec == Init /\ [][Next]_vars

\* Beat starts the task for ever and tasks have time limits; a task that keeps
\* coming to a run is not killed before it counted its attempt, or failed by
\* PostgreSQL when it clears the flag, every time.
FairSpec ==
    Spec /\ \A s \in Scanner :
       /\ WF_vars(ScanReanalysisNeeded(s))
       /\ SF_vars(CountAttempt(s)) /\ SF_vars(GiveUp(s))

-----------------------------------------------------------------------------
(* Properties.                                                             *)

\* DEC-014: although executions overlap, act on stale lists, and the LLM
\* answers differently each time, the comments on a finding do not add up over
\* the attempts: there are no more than one answer named it (the answer is not
\* compared with itself), but for posts whose success could not be recorded.
CommentedOnce ==
    \A r \in Run, f \in Finding : comments[r][f] <= named[r][f] + lost[r][f]

\* The rows tell what is on GitHub, comment by comment: a row marked as posted
\* has its comment unless GitHub refused the comments of a follow-up or one was
\* posted without the stored diff, and every comment has its row unless the
\* success of its post was not recorded.
RowsTruthful ==
    \A r \in Run, f \in InDiff :
       /\ posted[r][f] + lost[r][f] <= comments[r][f] \/ r \in stripped \cup blank
       /\ lock[r] = "free" => comments[r][f] <= posted[r][f] + lost[r][f]

\* A finding on a line of the diff that is stored and was not posted leaves a
\* dead letter behind, also when the flag is already cleared, unless a
\* follow-up was posted without the stored diff: that one clears the flag and
\* leaves its new findings unposted.
UnpostedHasLetter ==
    \A r \in Run, f \in InDiff : unposted[r][f] > 0 => r \in letter \cup blank

\* DEC-014: the flag does not stay set for ever, for any run: not behind older
\* runs the query prefers, not when every attempt fails.
FlagSettles == \A r \in Run : (flag[r] = "yes") ~> (flag[r] = "no")
=============================================================================
