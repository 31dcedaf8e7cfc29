-------------------------- MODULE ReanalysisProofs --------------------------
(***************************************************************************)
(* Theorems about Reanalysis for any runs, scanners, findings, limits and  *)
(* faults.                                                                 *)
(***************************************************************************)
EXTENDS Reanalysis, TLAPS

USE ReanalysisAssumption

Holding == {"locked", "spent", "work", "analysed", "sent", "stored", "dead"}

\* The lock of a run is held exactly by the execution that works on the run,
\* or died working on it.
LockOwned ==
    /\ \A s \in Scanner : job[s].at \in Holding => job[s].run \in Run /\ lock[job[s].run] = s
    /\ \A r \in Run : lock[r] # "free" => job[lock[r]].at \in Holding /\ job[lock[r]].run = r

\* What is to be posted: all unposted rows, and findings without a row that
\* one answer named.
Prepared ==
    \A s \in Scanner : job[s].at \in {"analysed", "sent"} =>
       \A f \in Finding :
          LET r == job[s].run
          IN /\ job[s].old[f] = unposted[r][f]
             /\ job[s].new[f] > 0 => posted[r][f] = 0 /\ unposted[r][f] = 0
             /\ f \in InDiff => job[s].new[f] <= named[r][f]

\* s has shown its comments for run r and not stored that yet.
Shows(s, r) == job[s].at = "sent" /\ job[s].followup = "yes" /\ job[s].run = r

\* The comments of a finding are those of its posted rows, those of posts that
\* were not recorded and n more; none is missing but for the two ways a
\* follow-up goes out without its comments.
Even(r, f, n) ==
    /\ comments[r][f] <= posted[r][f] + lost[r][f] + n
    /\ posted[r][f] + lost[r][f] + n <= comments[r][f] \/ r \in stripped \cup blank

Balanced(r, f) ==
    /\ (\A s \in Scanner : ~ Shows(s, r)) => Even(r, f, 0)
    /\ \A s \in Scanner : Shows(s, r) => Even(r, f, Inline(s, f))

Counted ==
    \A r \in Run, f \in Finding :
       /\ f \notin InDiff => comments[r][f] = 0
       /\ f \in InDiff => posted[r][f] + unposted[r][f] <= named[r][f] /\ Balanced(r, f)

\* A follow-up that went out without its comments is on record.
Recorded ==
    \A s \in Scanner : job[s].at = "sent" =>
       /\ job[s].followup # "no" /\ job[s].diff = "expired" => job[s].run \in blank
       /\ job[s].followup = "bare" => job[s].run \in stripped

\* A post that failed has left its dead letter before the rows are written.
Lettered ==
    /\ \A s \in Scanner :
          job[s].at = "sent" /\ job[s].followup = "no" /\ (\E f \in Finding : ToPost(s, f) > 0)
            => job[s].run \in letter
    /\ UnpostedHasLetter

Books == Prepared /\ Counted /\ Recorded /\ Lettered

IInv == TypeOK /\ LockOwned /\ Books

-----------------------------------------------------------------------------
\* The work on a run begins with nothing found.
LEMMA JobType ==
  ASSUME NEW at \in Places, NEW todo \in SUBSET Run, NEW r \in Run \cup {-1}
  PROVE  Job(at, todo, r) \in JobState
  BY DEF Job, JobState, NoFinding

\* What the fields of the work hold.
LEMMA JobFields ==
  ASSUME NEW j \in JobState
  PROVE  /\ j.at \in Places /\ j.todo \in SUBSET Run /\ j.run \in Run \cup {-1}
         /\ j.diff \in {"kept", "expired"} /\ j.followup \in {"no", "yes", "bare"}
         /\ \A f \in Finding : j.new[f] \in Nat /\ j.old[f] \in Nat
  BY DEF JobState

\* Rows and comments are counted.
LEMMA Counts ==
  ASSUME TypeOK, NEW r \in Run, NEW f \in Finding
  PROVE  /\ posted[r][f] \in Nat /\ unposted[r][f] \in Nat
         /\ comments[r][f] \in Nat /\ named[r][f] \in Nat /\ lost[r][f] \in Nat
  BY DEF TypeOK

\* The work goes on to the next place.
LEMMA JobGoes ==
  ASSUME NEW j \in JobState, NEW at \in Places
  PROVE  /\ [j EXCEPT !.at = at] \in JobState
         /\ [j EXCEPT !.at = at].at = at /\ [j EXCEPT !.at = at].run = j.run
  BY DEF JobState

\* It is posted, or is not.
LEMMA JobSent ==
  ASSUME NEW j \in JobState, NEW p \in {"no", "yes", "bare"}
  PROVE  LET k == [j EXCEPT !.at = "sent", !.followup = p]
         IN /\ k \in JobState
            /\ k.at = "sent" /\ k.run = j.run /\ k.followup = p
            /\ k.new = j.new /\ k.old = j.old /\ k.diff = j.diff
  BY DEF JobState, Places

\* One execution goes on, the others do not.
LEMMA SetType ==
  ASSUME job \in [Scanner -> JobState], NEW s \in Scanner, NEW j \in JobState, Set(s, j)
  PROVE  /\ job' \in [Scanner -> JobState]
         /\ job'[s] = j /\ \A q \in Scanner : q # s => job'[q] = job[q]
  BY DEF Set

\* What is left of the list becomes the next work or none.
LEMMA ProceedType ==
  ASSUME job \in [Scanner -> JobState], NEW s \in Scanner, NEW todo \in SUBSET Run, Proceed(s, todo)
  PROVE  job' \in [Scanner -> JobState]
  <1>1. Idle \in JobState /\ Job("next", todo, -1) \in JobState
    BY JobType DEF Idle, Places
  <1>2. QED
    BY <1>1 DEF Proceed, Set

\* The two ends of the work on a run.
LEMMA LeaveRunType ==
  ASSUME TypeOK, NEW s \in Scanner, LeaveRun(s) \/ Abort(s)
  PROVE  /\ job' \in [Scanner -> JobState]
         /\ lock' \in [Run -> Scanner \cup {"free"}]
  <1>1. lock' \in [Run -> Scanner \cup {"free"}]
    BY DEF TypeOK, LeaveRun, Abort
  <1>2. CASE LeaveRun(s)
    <2>1. job[s].todo \in SUBSET Run
      BY DEF TypeOK, JobState
    <2>2. QED
      BY <1>1, <1>2, <2>1, ProceedType DEF TypeOK, LeaveRun
  <1>3. CASE Abort(s)
    <2>1. Idle \in JobState
      BY JobType DEF Idle, Places
    <2>2. QED
      BY <1>1, <1>3, <2>1 DEF TypeOK, Abort, Set
  <1>4. QED
    BY <1>2, <1>3

\* Counts of comments stay counts.
LEMMA PlusType ==
  ASSUME TypeOK, NEW s \in Scanner, NEW count \in [Run -> [Finding -> Nat]]
  PROVE  Plus(count, s) \in [Run -> [Finding -> Nat]]
  <1>1. \A f \in Finding : Inline(s, f) \in Nat
    BY JobFields DEF TypeOK, Inline, ToPost
  <1>2. ASSUME NEW r \in Run
        PROVE  [f \in Finding |-> count[r][f] + Inline(s, f)] \in [Finding -> Nat]
    BY <1>1
  <1>3. CASE job[s].run \in Run
    BY <1>2, <1>3 DEF Plus
  <1>4. CASE job[s].run \notin Run
    BY <1>4 DEF Plus
  <1>5. QED
    BY <1>3, <1>4

\* What is marked as posted is a count, and none of it is missing among the
\* unposted rows and the new findings.
LEMMA MarkedType ==
  ASSUME TypeOK, NEW s \in Scanner, NEW f \in Finding
  PROVE  Marked(s, f) \in Nat /\ Marked(s, f) <= job[s].old[f] + job[s].new[f]
  <1>1. job[s].old[f] \in Nat /\ job[s].new[f] \in Nat
    BY DEF TypeOK, JobState
  <1>2. QED
    BY <1>1 DEF Marked

\* An answer counts the findings.
LEMMA AnswerType ==
  ASSUME NEW r, NEW answer \in Answers(r)
  PROVE  answer \in [Finding -> Nat]
  <1>1. UNION {0..Copies[f] : f \in Finding} \subseteq Nat
    OBVIOUS
  <1>2. QED
    BY <1>1 DEF Answers

\* What Analyse prepares.
LEMMA Prepares ==
  ASSUME TypeOK, LockOwned, NEW s \in Scanner, Analyse(s)
  PROVE  \E answer \in [Finding -> Nat], at \in {"sent", "analysed"} :
           LET new == Unmatched(job[s].run, answer)
           IN /\ new \in [Finding -> Nat]
              /\ Set(s, [job[s] EXCEPT !.at = at, !.new = new, !.old = unposted[job[s].run],
                                      !.diff = diff[job[s].run], !.followup = "no"])
              /\ at = "sent" => \A f \in Finding : ~ (new[f] + unposted[job[s].run][f] > 0)
              /\ NoteNamed(job[s].run, answer)
  <1>1. PICK answer \in Answers(job[s].run) :
           /\ Prepare(s, Unmatched(job[s].run, answer), unposted[job[s].run])
           /\ NoteNamed(job[s].run, answer)
    BY DEF Analyse
  <1> DEFINE new == Unmatched(job[s].run, answer)
             some == \E f \in Finding : new[f] + unposted[job[s].run][f] > 0
  <1>2. answer \in [Finding -> Nat]
    BY <1>1, AnswerType
  <1>3. new \in [Finding -> Nat]
    BY <1>2 DEF Unmatched
  <1>4. Set(s, [job[s] EXCEPT !.at = IF some THEN "analysed" ELSE "sent",
                              !.new = new, !.old = unposted[job[s].run], !.diff = diff[job[s].run], !.followup = "no"])
    BY <1>1 DEF Prepare
  <1>5. CASE some
    BY <1>1, <1>2, <1>3, <1>4, <1>5
  <1>6. CASE ~ some
    BY <1>1, <1>2, <1>3, <1>4, <1>6
  <1>7. QED
    BY <1>5, <1>6

\* Each step of a scan keeps the types.
LEMMA ReanalysisTypeStep ==
  ASSUME TypeOK, LockOwned, Prepared, [Next]_vars
  PROVE  TypeOK'
  <1> USE DEF TypeOK, rows, github
  <1>1. ASSUME NEW s \in Scanner, List(s) PROVE TypeOK'
    <2>1. job' \in [Scanner -> JobState]
      BY <1>1, ProceedType DEF List, Flagged
    <2>2. QED
      BY <1>1, <2>1 DEF List
  <1>2. ASSUME NEW s \in Scanner, TakeLock(s) PROVE TypeOK'
    <2>1. PICK r \in Run :
             \/ /\ lock' = [lock EXCEPT ![r] = s]
                /\ Set(s, Job("locked", job[s].todo \ {r}, r))
             \/ Proceed(s, job[s].todo \ {r}) /\ UNCHANGED lock
      BY <1>2 DEF TakeLock
    <2>2. job[s].todo \ {r} \in SUBSET Run
      BY DEF JobState
    <2>3. job' \in [Scanner -> JobState]
      <3>1. CASE Set(s, Job("locked", job[s].todo \ {r}, r))
        <4>1. Job("locked", job[s].todo \ {r}, r) \in JobState
          BY <2>2, JobType DEF Places
        <4>2. QED
          BY <3>1, <4>1 DEF Set
      <3>2. CASE Proceed(s, job[s].todo \ {r})
        BY <2>2, <3>2, ProceedType
      <3>3. QED
        BY <2>1, <3>1, <3>2
    <2>4. lock' \in [Run -> Scanner \cup {"free"}]
      BY <2>1
    <2>5. QED
      BY <1>2, <2>3, <2>4 DEF TakeLock
  <1>3. ASSUME NEW s \in Scanner, CountAttempt(s) PROVE TypeOK'
    <2>1. job[s].run \in Run
      BY <1>3 DEF CountAttempt, At, LockOwned, Holding
    <2>2. attempts' \in [Run -> 0..(Cap + 1)]
      BY <1>3, <2>1 DEF CountAttempt
    <2>3. job' \in [Scanner -> JobState]
      <3>1. \E at \in Places : Goto(s, at)
        BY <1>3 DEF CountAttempt, Places
      <3>2. QED
        BY <3>1, JobGoes, SetType DEF Goto
    <2>4. QED
      BY <1>3, <2>2, <2>3 DEF CountAttempt
  <1>4. ASSUME NEW s \in Scanner, GiveUp(s) \/ Superseded(s) \/ CommitRun(s) PROVE TypeOK'
    <2>1. flag' \in [Run -> YesNo]
      BY <1>4 DEF GiveUp, Superseded, CommitRun, Clear, YesNo
    <2>2. LeaveRun(s)
      BY <1>4 DEF GiveUp, Superseded, CommitRun
    <2>3. QED
      BY <1>4, <2>1, <2>2, LeaveRunType DEF GiveUp, Superseded, CommitRun
  <1>5. ASSUME NEW s \in Scanner, Analyse(s) PROVE TypeOK'
    <2>1. job[s].run \in Run
      BY <1>5 DEF Analyse, At, LockOwned, Holding
    <2>2. PICK answer \in [Finding -> Nat], at \in {"sent", "analysed"} :
             LET new == Unmatched(job[s].run, answer)
             IN /\ new \in [Finding -> Nat]
                /\ Set(s, [job[s] EXCEPT !.at = at, !.new = new, !.old = unposted[job[s].run],
                                        !.diff = diff[job[s].run], !.followup = "no"])
                /\ NoteNamed(job[s].run, answer)
      BY <1>5, Prepares
    <2>3. PICK new \in [Finding -> Nat], old \in [Finding -> Nat], d \in {"kept", "expired"} :
             Set(s, [job[s] EXCEPT !.at = at, !.new = new, !.old = old, !.diff = d, !.followup = "no"])
      BY <2>1, <2>2
    <2>4. job' \in [Scanner -> JobState]
      <3>1. job[s] \in JobState /\ at \in Places
        BY DEF Places
      <3>2. [job[s] EXCEPT !.at = at, !.new = new, !.old = old, !.diff = d, !.followup = "no"] \in JobState
        BY <3>1 DEF JobState
      <3>3. QED
        BY <2>3, <3>2, SetType
    <2>5. named' \in [Run -> [Finding -> Nat]]
      BY <2>1, <2>2 DEF NoteNamed
    <2>6. QED
      BY <1>5, <2>4, <2>5 DEF Analyse
  <1>6. ASSUME NEW s \in Scanner, FollowupPosted(s) \/ FollowupFailed(s) PROVE TypeOK'
    <2>1. job[s].run \in Run
      BY <1>6 DEF FollowupPosted, FollowupFailed, At, LockOwned, Holding
    <2>2. comments' \in [Run -> [Finding -> Nat]] /\ lost' \in [Run -> [Finding -> Nat]]
      BY <1>6, PlusType DEF FollowupPosted, FollowupFailed, ReviewShown, Comment, AddLost
    <2>3. \E p \in {"no", "yes", "bare"} : Sent(s, p)
      BY <1>6 DEF FollowupPosted, FollowupFailed, ReviewShown
    <2>4. job' \in [Scanner -> JobState]
      BY <2>3, JobSent, SetType DEF Sent
    <2>5. stripped' \subseteq Run /\ blank' \subseteq Run /\ letter' \subseteq Run
      BY <1>6, <2>1 DEF FollowupPosted, FollowupFailed, ReviewShown
    <2>6. QED
      BY <1>6, <2>2, <2>4, <2>5 DEF FollowupPosted, FollowupFailed
  <1>7. ASSUME NEW s \in Scanner, StoreFindings(s) PROVE TypeOK'
    <2> DEFINE r == job[s].run
    <2>1. r \in Run /\ job[s].at = "sent"
      BY <1>7 DEF StoreFindings, At, LockOwned, Holding
    <2>2. ASSUME NEW f \in Finding
          PROVE  /\ posted[r][f] + Marked(s, f) \in Nat
                 /\ unposted[r][f] + job[s].new[f] - Marked(s, f) \in Nat
      <3> HIDE DEF r
      <3>1. posted[r][f] \in Nat /\ unposted[r][f] \in Nat
        BY <2>1
      <3>2. job[s].new[f] \in Nat /\ job[s].old[f] \in Nat
        BY JobFields
      <3>3. job[s].old[f] = unposted[r][f]
        BY <2>1 DEF Prepared, r
      <3>4. QED
        BY <3>1, <3>2, <3>3, MarkedType
    <2>3. /\ posted' = [posted EXCEPT ![r] = [f \in Finding |-> posted[r][f] + Marked(s, f)]]
          /\ unposted' = [unposted EXCEPT ![r] =
                            [f \in Finding |-> unposted[r][f] + job[s].new[f] - Marked(s, f)]]
      BY <1>7 DEF StoreFindings
    <2>4. posted' \in [Run -> [Finding -> Nat]] /\ unposted' \in [Run -> [Finding -> Nat]]
      BY <2>2, <2>3
    <2>5. job' \in [Scanner -> JobState]
      <3>1. "stored" \in Places /\ Goto(s, "stored")
        BY <1>7 DEF StoreFindings, Places
      <3>2. QED
        BY <3>1, JobGoes, SetType DEF Goto
    <2>6. QED
      BY <1>7, <2>4, <2>5 DEF StoreFindings
  <1>8. ASSUME NEW s \in Scanner, ScanRaises(s) PROVE TypeOK'
    <2>1. lost' \in [Run -> [Finding -> Nat]]
      BY <1>8, PlusType DEF ScanRaises, Unrecorded, AddLost
    <2>2. QED
      BY <1>8, <2>1, LeaveRunType DEF ScanRaises
  <1>9. ASSUME NEW s \in Scanner, ScanKilled(s) PROVE TypeOK'
    <2>1. lost' \in [Run -> [Finding -> Nat]]
      BY <1>9, PlusType DEF ScanKilled, Unrecorded, AddLost
    <2>2. job[s].run \in Run \cup {-1}
      BY DEF JobState
    <2>3. job' \in [Scanner -> JobState]
      BY <1>9, <2>2, JobType DEF ScanKilled, Set, Places
    <2>4. QED
      BY <1>9, <2>1, <2>3 DEF ScanKilled
  <1>10. ASSUME NEW s \in Scanner, LockExpires(s) PROVE TypeOK'
    <2>1. Idle \in JobState
      BY JobType DEF Idle, Places
    <2>2. QED
      BY <1>10, <2>1 DEF LockExpires, Set
  <1>11. ASSUME NEW r \in Run, DiffExpires(r) PROVE TypeOK'
    BY <1>11 DEF DiffExpires
  <1>12. CASE UNCHANGED vars
    BY <1>12 DEF vars
  <1>13. QED
    BY <1>1, <1>2, <1>3, <1>4, <1>5, <1>6, <1>7, <1>8, <1>9, <1>10, <1>11, <1>12
       DEF Next, ScanReanalysisNeeded

-----------------------------------------------------------------------------
\* The lock stays with an execution that goes on with its run.
LEMMA LockStays ==
  ASSUME TypeOK, LockOwned, NEW s \in Scanner, NEW j, Set(s, j), UNCHANGED lock,
         \/ job[s].at \in Holding /\ j.at \in Holding /\ j.run = job[s].run
         \/ job[s].at \notin Holding /\ j.at \notin Holding
  PROVE  LockOwned'
  BY DEF TypeOK, LockOwned, Set

\* It is freed with the run.
LEMMA LockFreed ==
  ASSUME TypeOK, LockOwned, NEW s \in Scanner, job[s].at \in Holding, NEW j, Set(s, j),
         j.at \notin Holding, lock' = [lock EXCEPT ![job[s].run] = "free"]
  PROVE  LockOwned'
  BY DEF TypeOK, LockOwned, Set

\* What LeaveRun and Abort do to an execution.
LEMMA LeaveRunSets ==
  ASSUME NEW s \in Scanner, LeaveRun(s) \/ Abort(s)
  PROVE  /\ lock' = [lock EXCEPT ![job[s].run] = "free"]
         /\ \E j : Set(s, j) /\ j.at \in {"idle", "next"}
  BY DEF LeaveRun, Abort, Proceed, Idle, Job

\* No step takes a run away from the execution that holds its lock.
LEMMA LockOwnedStep ==
  ASSUME TypeOK, LockOwned, [Next]_vars
  PROVE  LockOwned'
  <1> USE DEF Holding
  <1>1. ASSUME NEW s \in Scanner, List(s) PROVE LockOwned'
    <2>1. \E j : Set(s, j) /\ j.at \in {"idle", "next"}
      BY <1>1 DEF List, Proceed, Idle, Job
    <2>2. QED
      BY <1>1, <2>1, LockStays DEF List, At
  <1>2. ASSUME NEW s \in Scanner, TakeLock(s) PROVE LockOwned'
    <2>1. PICK r \in Run :
             \/ /\ lock[r] = "free" /\ lock' = [lock EXCEPT ![r] = s]
                /\ Set(s, Job("locked", job[s].todo \ {r}, r))
             \/ Proceed(s, job[s].todo \ {r}) /\ UNCHANGED lock
      BY <1>2 DEF TakeLock
    <2>2. CASE Proceed(s, job[s].todo \ {r}) /\ UNCHANGED lock
      <3>1. \E j : Set(s, j) /\ j.at \in {"idle", "next"}
        BY <2>2 DEF Proceed, Idle, Job
      <3>2. QED
        BY <1>2, <2>2, <3>1, LockStays DEF TakeLock, At
    <2>3. CASE /\ lock[r] = "free" /\ lock' = [lock EXCEPT ![r] = s]
               /\ Set(s, Job("locked", job[s].todo \ {r}, r))
      <3>1. job[s].at = "next"
        BY <1>2 DEF TakeLock, At
      <3>2. \A q \in Run : lock[q] # s
        BY <3>1 DEF TypeOK, LockOwned
      <3>3. job'[s].at = "locked" /\ job'[s].run = r /\ \A q \in Scanner : q # s => job'[q] = job[q]
        BY <2>3 DEF Set, Job, TypeOK
      <3>4. lock'[r] = s /\ \A q \in Run : q # r => lock'[q] = lock[q]
        BY <2>3 DEF TypeOK
      <3>5. \A q \in Scanner : job[q].at \in Holding => job[q].run # r
        BY <2>3 DEF LockOwned
      <3>6. \A q \in Scanner : job'[q].at \in Holding => job'[q].run \in Run /\ lock'[job'[q].run] = q
        BY <3>3, <3>4, <3>5 DEF LockOwned
      <3>7. \A q \in Run : lock'[q] # "free" => job'[lock'[q]].at \in Holding /\ job'[lock'[q]].run = q
        BY <3>2, <3>3, <3>4 DEF LockOwned, TypeOK
      <3>8. QED
        BY <3>6, <3>7 DEF LockOwned
    <2>4. QED
      BY <2>1, <2>2, <2>3
  <1>3. ASSUME NEW s \in Scanner, CountAttempt(s) \/ Analyse(s) \/ FollowupPosted(s)
                                  \/ FollowupFailed(s) \/ StoreFindings(s)
        PROVE  LockOwned'
    <2>1. job[s] \in JobState
      BY DEF TypeOK
    <2>2. \E j : Set(s, j) /\ j.at \in Holding /\ j.run = job[s].run
      <3>1. CASE CountAttempt(s) \/ StoreFindings(s)
        <4>1. PICK at \in Holding : Goto(s, at)
          BY <3>1 DEF CountAttempt, StoreFindings
        <4> DEFINE k == [job[s] EXCEPT !.at = at]
        <4>2. at \in Places
          BY DEF Places
        <4>3. Set(s, k) /\ k.at = at /\ k.run = job[s].run
          BY <2>1, <4>1, <4>2, JobGoes DEF Goto
        <4>4. QED
          BY <4>3
      <3>2. CASE Analyse(s)
        <4>1. PICK answer \in [Finding -> Nat], at \in {"sent", "analysed"} :
                 Set(s, [job[s] EXCEPT !.at = at, !.new = Unmatched(job[s].run, answer),
                                       !.old = unposted[job[s].run], !.diff = diff[job[s].run], !.followup = "no"])
          BY <3>2, Prepares
        <4> DEFINE k == [job[s] EXCEPT !.at = at, !.new = Unmatched(job[s].run, answer),
                                       !.old = unposted[job[s].run], !.diff = diff[job[s].run], !.followup = "no"]
        <4>2. k.at = at /\ k.run = job[s].run
          BY <2>1 DEF JobState
        <4>3. Set(s, k) /\ at \in Holding
          BY <4>1
        <4>4. QED
          BY <4>2, <4>3
      <3>3. CASE FollowupPosted(s) \/ FollowupFailed(s)
        <4>1. PICK p \in {"no", "yes", "bare"} : Sent(s, p)
          BY <3>3 DEF FollowupPosted, FollowupFailed, ReviewShown
        <4> DEFINE k == [job[s] EXCEPT !.at = "sent", !.followup = p]
        <4>2. Set(s, k)
          BY <4>1 DEF Sent
        <4>3. k.at = "sent" /\ k.run = job[s].run
          BY <2>1 DEF JobState
        <4>4. QED
          BY <4>2, <4>3
      <3>4. QED
        BY <1>3, <3>1, <3>2, <3>3
    <2>3. job[s].at \in Holding /\ UNCHANGED lock
      BY <1>3 DEF CountAttempt, Analyse, FollowupPosted, FollowupFailed, StoreFindings, At
    <2>4. QED
      BY <2>2, <2>3, LockStays
  <1>4. ASSUME NEW s \in Scanner, GiveUp(s) \/ Superseded(s) \/ CommitRun(s) \/ ScanRaises(s)
        PROVE  LockOwned'
    <2>1. job[s].at \in Holding
      BY <1>4 DEF GiveUp, Superseded, CommitRun, ScanRaises, At
    <2>2. LeaveRun(s) \/ Abort(s)
      BY <1>4 DEF GiveUp, Superseded, CommitRun, ScanRaises
    <2>3. QED
      BY <2>1, <2>2, LeaveRunSets, LockFreed
  <1>5. ASSUME NEW s \in Scanner, ScanKilled(s) PROVE LockOwned'
    <2>1. job[s].at \in Holding
      BY <1>5 DEF ScanKilled, TypeOK, JobState, Places
    <2>2. QED
      BY <1>5, <2>1, LockStays DEF ScanKilled, Job
  <1>6. ASSUME NEW s \in Scanner, LockExpires(s) PROVE LockOwned'
    <2>1. Idle.at \notin Holding
      BY DEF Idle, Job
    <2>2. QED
      BY <1>6, <2>1, LockFreed DEF LockExpires, At
  <1>7. ASSUME NEW r \in Run, DiffExpires(r) PROVE LockOwned'
    BY <1>7 DEF DiffExpires, LockOwned
  <1>8. CASE UNCHANGED vars
    BY <1>8 DEF vars, LockOwned
  <1>9. QED
    BY <1>1, <1>2, <1>3, <1>4, <1>5, <1>6, <1>7, <1>8 DEF Next, ScanReanalysisNeeded

-----------------------------------------------------------------------------

-----------------------------------------------------------------------------
\* Two executions never work on the same run.
LEMMA Alone ==
  ASSUME LockOwned, NEW s \in Scanner, NEW q \in Scanner, job[s].at \in Holding,
         job[q].at \in Holding, job[q].run = job[s].run
  PROVE  q = s
  BY DEF LockOwned

\* What the other executions have shown and prepared stays when s goes on.
LEMMA OthersStay ==
  ASSUME TypeOK, NEW s \in Scanner, NEW j, Set(s, j)
  PROVE  /\ job'[s] = j
         /\ \A q \in Scanner : q # s =>
              /\ job'[q] = job[q]
              /\ \A r : Shows(q, r)' <=> Shows(q, r)
              /\ \A f : Inline(q, f)' = Inline(q, f) /\ ToPost(q, f)' = ToPost(q, f)
  <1>1. job'[s] = j /\ \A q \in Scanner : q # s => job'[q] = job[q]
    BY DEF TypeOK, Set
  <1>2. QED
    BY <1>1 DEF Shows, Inline, ToPost, Mapped

\* A step of s that neither posts, stores nor forgets comments.
LEMMA BooksKept ==
  ASSUME TypeOK, Books, NEW s \in Scanner, NEW j, Set(s, j),
         j.at \notin {"analysed", "sent"},
         \A r \in Run : ~ Shows(s, r),
         UNCHANGED <<posted, unposted, comments, letter, lost, stripped, blank, named>>
  PROVE  Books'
  <1>1. job'[s] = j
    BY OthersStay
  <1>2. \A q \in Scanner : q # s => job'[q] = job[q]
    BY OthersStay
  <1>3. \A q \in Scanner, r \in Run : Shows(q, r)' <=> Shows(q, r)
    BY <1>1, OthersStay DEF Shows
  <1>4. \A q \in Scanner, f \in Finding :
           q # s => Inline(q, f)' = Inline(q, f) /\ ToPost(q, f)' = ToPost(q, f)
    BY OthersStay
  <1>5. ASSUME NEW r \in Run, NEW f \in Finding, Balanced(r, f)
        PROVE  Balanced(r, f)'
    <2>1. ASSUME \A q \in Scanner : ~ Shows(q, r)' PROVE Even(r, f, 0)'
      BY <1>3, <1>5, <2>1 DEF Balanced, Even
    <2>2. ASSUME NEW q \in Scanner, Shows(q, r)' PROVE Even(r, f, Inline(q, f))'
      <3>1. q # s /\ Shows(q, r)
        BY <1>3, <2>2
      <3>2. Even(r, f, Inline(q, f)) /\ Inline(q, f)' = Inline(q, f)
        BY <1>4, <1>5, <3>1 DEF Balanced
      <3>3. QED
        BY <3>2 DEF Even
    <2>3. QED
      BY <2>1, <2>2 DEF Balanced
  <1>6. Counted'
    BY <1>5 DEF Books, Counted
  <1>7. Prepared'
    BY <1>1, <1>2 DEF Books, Prepared
  <1>8. Recorded' /\ Lettered'
    BY <1>1, <1>2, <1>4 DEF Books, Recorded, Lettered, UnpostedHasLetter
  <1>9. QED
    BY <1>6, <1>7, <1>8 DEF Books

\* A count that the comments of s are added to.
LEMMA PlusIs ==
  ASSUME NEW s \in Scanner, NEW count \in [Run -> [Finding -> Nat]], job[s].run \in Run,
         NEW r \in Run, NEW f \in Finding
  PROVE  Plus(count, s)[r][f] = count[r][f] + IF r = job[s].run THEN Inline(s, f) ELSE 0
  <1> DEFINE r0 == job[s].run
             more == [g \in Finding |-> count[r0][g] + Inline(s, g)]
  <1>1. Plus(count, s)[r] = IF r = r0 THEN more ELSE count[r]
    BY DEF Plus
  <1>2. more[f] = count[r0][f] + Inline(s, f)
    OBVIOUS
  <1>3. CASE r = r0
    BY <1>1, <1>2, <1>3
  <1>4. CASE r # r0
    <2>1. count[r][f] \in Nat
      OBVIOUS
    <2>2. QED
      BY <1>1, <1>4, <2>1
  <1>5. QED
    BY <1>3, <1>4

\* What showing and losing the comments of s does to the counts.
LEMMA CommentIs ==
  ASSUME TypeOK, NEW s \in Scanner, job[s].run \in Run, NEW r \in Run, NEW f \in Finding
  PROVE  /\ Comment(s) => comments'[r][f] = comments[r][f] + IF r = job[s].run THEN Inline(s, f) ELSE 0
         /\ AddLost(s) => lost'[r][f] = lost[r][f] + IF r = job[s].run THEN Inline(s, f) ELSE 0
  <1>1. comments \in [Run -> [Finding -> Nat]] /\ lost \in [Run -> [Finding -> Nat]]
    BY DEF TypeOK
  <1>2. QED
    BY <1>1, PlusIs DEF Comment, AddLost

\* The comments of s are a count; those outside the diff are none.
LEMMA InlineIs ==
  ASSUME TypeOK, NEW s \in Scanner, NEW f \in Finding
  PROVE  /\ Inline(s, f) \in Nat /\ Inline(s, f) <= job[s].new[f] + job[s].old[f]
         /\ f \notin InDiff \/ job[s].diff = "expired" => Inline(s, f) = 0
         /\ f \in InDiff /\ job[s].diff # "expired" => Inline(s, f) = job[s].new[f] + job[s].old[f]
  <1>1. /\ job[s].new[f] \in Nat /\ job[s].old[f] \in Nat
        /\ job[s].diff \in {"kept", "expired"}
    BY JobFields DEF TypeOK
  <1>2. QED
    BY <1>1 DEF Inline, ToPost, Mapped

\* A step of s, dying or failing after its comments were shown.
LEMMA BooksLost ==
  ASSUME TypeOK, LockOwned, Books, NEW s \in Scanner, NEW j, Set(s, j),
         j.at \notin {"analysed", "sent"}, Shows(s, job[s].run), AddLost(s),
         UNCHANGED <<posted, unposted, comments, letter, stripped, blank, named>>
  PROVE  Books'
  <1> DEFINE r0 == job[s].run
  <1>1. job'[s] = j /\ \A q \in Scanner : q # s => job'[q] = job[q]
    BY OthersStay
  <1>2. job[s].at \in Holding /\ r0 \in Run
    BY DEF Shows, Holding, LockOwned
  <1>3. \A q \in Scanner : q # s => ~ Shows(q, r0)
    BY <1>2, Alone DEF Shows, Holding
  <1>4. ASSUME NEW r \in Run, NEW f \in Finding, Balanced(r, f)
        PROVE  Balanced(r, f)'
    <2>1. /\ comments[r][f] \in Nat /\ posted[r][f] \in Nat /\ lost[r][f] \in Nat
          /\ Inline(s, f) \in Nat
      BY InlineIs DEF TypeOK
    <2>2. lost'[r][f] = lost[r][f] + IF r = r0 THEN Inline(s, f) ELSE 0
      BY <1>2, CommentIs
    <2>3. \A q \in Scanner : q # s =>
            (Shows(q, r)' <=> Shows(q, r)) /\ Inline(q, f)' = Inline(q, f)
      BY OthersStay
    <2>4. ~ Shows(s, r)'
      BY <1>1 DEF Shows
    <2>5. CASE r = r0
      <3>1. Even(r, f, Inline(s, f))
        BY <1>4, <2>5 DEF Balanced
      <3>2. Even(r, f, 0)'
        BY <2>1, <2>2, <2>5, <3>1 DEF Even
      <3>3. \A q \in Scanner : ~ Shows(q, r)'
        BY <1>3, <2>3, <2>4, <2>5
      <3>4. QED
        BY <3>2, <3>3 DEF Balanced
    <2>6. CASE r # r0
      <3>1. ~ Shows(s, r)
        BY <2>6 DEF Shows
      <3>2. ASSUME \A q \in Scanner : ~ Shows(q, r)' PROVE Even(r, f, 0)'
        <4>1. Even(r, f, 0)
          BY <1>4, <2>3, <3>1, <3>2 DEF Balanced
        <4>2. QED
          BY <2>1, <2>2, <2>6, <4>1 DEF Even
      <3>3. ASSUME NEW q \in Scanner, Shows(q, r)' PROVE Even(r, f, Inline(q, f))'
        <4>1. q # s
          BY <2>4, <3>3
        <4>2. Shows(q, r) /\ Inline(q, f)' = Inline(q, f)
          BY <2>3, <3>3, <4>1
        <4>3. Even(r, f, Inline(q, f))
          BY <1>4, <4>2 DEF Balanced
        <4>4. QED
          BY <2>1, <2>2, <2>6, <4>2, <4>3 DEF Even
      <3>4. QED
        BY <3>2, <3>3 DEF Balanced
    <2>7. QED
      BY <2>5, <2>6
  <1>5. Counted'
    BY <1>4 DEF Books, Counted
  <1>6. Prepared'
    BY <1>1 DEF Books, Prepared
  <1>7. Recorded' /\ Lettered'
    <2>1. \A q \in Scanner, f \in Finding : q # s => ToPost(q, f)' = ToPost(q, f)
      BY OthersStay
    <2>2. QED
      BY <1>1, <2>1 DEF Books, Recorded, Lettered, UnpostedHasLetter
  <1>8. QED
    BY <1>5, <1>6, <1>7 DEF Books

\* The look-up: all unposted rows, and what has no row.
LEMMA BooksAnalyse ==
  ASSUME TypeOK, LockOwned, Books, NEW s \in Scanner, Analyse(s)
  PROVE  Books'
  <1>0. PICK r0 \in Run : r0 = job[s].run
    BY DEF Analyse, At, LockOwned, Holding
  <1>1. job[s].at = "work" /\ r0 = job[s].run
    BY <1>0 DEF Analyse, At
  <1>2. UNCHANGED <<posted, unposted, comments, letter, lost, stripped, blank>>
    BY DEF Analyse, rows, github
  <1>3. PICK answer \in [Finding -> Nat], at \in {"sent", "analysed"} :
           LET new == Unmatched(r0, answer)
           IN /\ new \in [Finding -> Nat]
              /\ Set(s, [job[s] EXCEPT !.at = at, !.new = new, !.old = unposted[r0],
                                      !.diff = diff[r0], !.followup = "no"])
              /\ at = "sent" => \A f \in Finding : ~ (new[f] + unposted[r0][f] > 0)
              /\ NoteNamed(r0, answer)
    BY <1>0, Prepares
  <1> DEFINE new == Unmatched(r0, answer)
             k == [job[s] EXCEPT !.at = at, !.new = new, !.old = unposted[r0], !.diff = diff[r0], !.followup = "no"]
  <1>4. /\ k.at = at /\ k.run = r0 /\ k.followup = "no"
        /\ k.new = new /\ k.old = unposted[r0]
    <2>1. /\ job[s] \in JobState /\ at \in Places /\ new \in [Finding -> Nat]
          /\ unposted[r0] \in [Finding -> Nat] /\ diff[r0] \in {"kept", "expired"}
      BY <1>3 DEF TypeOK, Places
    <2> HIDE DEF new
    <2>2. QED
      BY <1>0, <2>1 DEF JobState
  <1>5. job'[s] = k /\ \A q \in Scanner : q # s => job'[q] = job[q]
    BY <1>3, OthersStay
  <1>6. \A f \in Finding :
           /\ job'[s].old[f] = unposted'[r0][f] /\ job'[s].new[f] = new[f]
           /\ ToPost(s, f)' = new[f] + unposted[r0][f]
    BY <1>2, <1>4, <1>5 DEF ToPost
  <1>7. ASSUME NEW f \in Finding
        PROVE  /\ new[f] > 0 => posted[r0][f] = 0 /\ unposted[r0][f] = 0
               /\ new[f] <= answer[f]
    <2>1. posted[r0][f] \in Nat /\ unposted[r0][f] \in Nat /\ answer[f] \in Nat
      BY Counts
    <2>2. new[f] = IF posted[r0][f] > 0 \/ (\E g \in Finding : unposted[r0][g] > 0 /\ SpotOf[g] = SpotOf[f])
                   THEN 0 ELSE answer[f]
      BY DEF Unmatched
    <2>3. QED
      BY <2>1, <2>2
  <1>8. \A r \in Run, f \in Finding :
           /\ named[r][f] <= named'[r][f]
           /\ r = r0 /\ f \in InDiff => answer[f] <= named'[r][f]
    <2>1. ASSUME NEW f \in Finding
          PROVE  /\ named[r0][f] <= named'[r0][f]
                 /\ f \in InDiff => answer[f] <= named'[r0][f]
      <3>1. named'[r0][f] = IF f \in InDiff /\ answer[f] > named[r0][f] THEN answer[f] ELSE named[r0][f]
        BY <1>1, <1>3 DEF NoteNamed, TypeOK
      <3>2. named[r0][f] \in Nat /\ answer[f] \in Nat
        BY Counts
      <3>3. QED
        BY <3>1, <3>2
    <2>2. ASSUME NEW r \in Run, NEW f \in Finding, r # r0 PROVE named[r][f] <= named'[r][f]
      <3>1. named'[r] = named[r]
        BY <1>1, <1>3, <2>2 DEF NoteNamed, TypeOK
      <3>2. named[r][f] \in Nat
        BY DEF TypeOK
      <3>3. QED
        BY <3>1, <3>2
    <2>3. QED
      BY <2>1, <2>2
  <1>9. ASSUME NEW r \in Run, NEW f \in Finding, Balanced(r, f) PROVE Balanced(r, f)'
    <2>1. \A q \in Scanner : Shows(q, r)' <=> Shows(q, r)
      <3>1. ~ Shows(s, r) /\ ~ Shows(s, r)'
        BY <1>1, <1>4, <1>5 DEF Shows
      <3>2. QED
        BY <1>3, <3>1, OthersStay
    <2>2. \A q \in Scanner : Shows(q, r) => Inline(q, f)' = Inline(q, f)
      <3>1. ~ Shows(s, r)
        BY <1>1 DEF Shows
      <3>2. \A q \in Scanner : q # s => Inline(q, f)' = Inline(q, f)
        BY <1>3, OthersStay
      <3>3. QED
        BY <3>1, <3>2
    <2>3. ASSUME \A q \in Scanner : ~ Shows(q, r)' PROVE Even(r, f, 0)'
      BY <1>2, <1>9, <2>1, <2>3 DEF Balanced, Even
    <2>4. ASSUME NEW q \in Scanner, Shows(q, r)' PROVE Even(r, f, Inline(q, f))'
      <3>1. Even(r, f, Inline(q, f)) /\ Inline(q, f)' = Inline(q, f)
        BY <1>9, <2>1, <2>2, <2>4 DEF Balanced
      <3>2. QED
        BY <1>2, <3>1 DEF Even
    <2>5. QED
      BY <2>3, <2>4 DEF Balanced
  <1> HIDE DEF new, k
  <1>10. Counted'
    <2>1. ASSUME NEW r \in Run, NEW f \in InDiff
          PROVE  (posted[r][f] + unposted[r][f] <= named[r][f])'
      <3>1. f \in Finding
        OBVIOUS
      <3>2. posted[r][f] \in Nat /\ unposted[r][f] \in Nat /\ named[r][f] \in Nat
        BY <3>1, Counts
      <3>3. posted[r][f] + unposted[r][f] <= named[r][f]
        BY <3>1 DEF Books, Counted
      <3>4. named'[r][f] \in Nat
        <4>1. TypeOK'
          BY ReanalysisTypeStep DEF Books, Next, ScanReanalysisNeeded
        <4>2. QED
          BY <3>1, <4>1 DEF TypeOK
      <3>5. QED
        BY <1>2, <1>8, <3>1, <3>2, <3>3, <3>4
    <2>2. QED
      BY <1>2, <1>9, <2>1 DEF Books, Counted
  <1>11. Prepared'
    <2>1. ASSUME NEW q \in Scanner, job'[q].at \in {"analysed", "sent"}, NEW f \in Finding
          PROVE  /\ job'[q].old[f] = unposted'[job'[q].run][f]
                 /\ job'[q].new[f] > 0 => /\ posted'[job'[q].run][f] = 0
                                          /\ unposted'[job'[q].run][f] = 0
                 /\ f \in InDiff => job'[q].new[f] <= named'[job'[q].run][f]
      <3>1. TypeOK'
        BY ReanalysisTypeStep DEF Books, Next, ScanReanalysisNeeded
      <3>2. CASE q = s
        <4>1. job'[s].run = r0
          BY <1>4, <1>5
        <4>2. new[f] \in Nat /\ answer[f] \in Nat /\ named'[r0][f] \in Nat
          BY <1>1, <1>3, <3>1 DEF TypeOK, new
        <4>3. QED
          BY <1>1, <1>2, <1>6, <1>7, <1>8, <3>2, <4>1, <4>2
      <3>3. CASE q # s
        <4>1. job'[q] = job[q] /\ job[q].run \in Run
          BY <1>5, <2>1, <3>3 DEF LockOwned, Holding
        <4>2. /\ job[q].old[f] = unposted[job[q].run][f]
              /\ job[q].new[f] > 0 => posted[job[q].run][f] = 0 /\ unposted[job[q].run][f] = 0
              /\ f \in InDiff => job[q].new[f] <= named[job[q].run][f]
          BY <2>1, <4>1 DEF Books, Prepared
        <4>3. job[q].new[f] \in Nat /\ named[job[q].run][f] \in Nat /\ named'[job[q].run][f] \in Nat
          <5>1. job[q].new[f] \in Nat
            BY JobFields DEF TypeOK
          <5>2. named[job[q].run][f] \in Nat
            BY <4>1, Counts
          <5>3. \A r \in Run : named'[r][f] \in Nat
            BY <3>1 DEF TypeOK
          <5>4. QED
            BY <4>1, <5>1, <5>2, <5>3
        <4>4. QED
          BY <1>2, <1>8, <4>1, <4>2, <4>3
      <3>4. QED
        BY <3>2, <3>3
    <2>2. QED
      BY <2>1 DEF Prepared
  <1>12. Recorded'
    BY <1>2, <1>4, <1>5 DEF Books, Recorded
  <1>13. Lettered'
    <2>1. job'[s].at = "sent" => \A f \in Finding : ~ (ToPost(s, f)' > 0)
      BY <1>3, <1>4, <1>5, <1>6 DEF new
    <2>2. \A q \in Scanner, f \in Finding : q # s => ToPost(q, f)' = ToPost(q, f)
      BY <1>3, OthersStay
    <2>3. QED
      BY <1>2, <1>5, <2>1, <2>2 DEF Books, Lettered, UnpostedHasLetter
  <1>14. QED
    BY <1>10, <1>11, <1>12, <1>13 DEF Books

\* A post, or its failure.
LEMMA BooksPost ==
  ASSUME TypeOK, LockOwned, Books, NEW s \in Scanner, FollowupPosted(s) \/ FollowupFailed(s)
  PROVE  Books'
  <1>0. PICK r0 \in Run : r0 = job[s].run
    BY DEF FollowupPosted, FollowupFailed, At, LockOwned, Holding
  <1>1. job[s].at = "analysed" /\ UNCHANGED <<posted, unposted, named>> /\ letter \subseteq letter'
    BY DEF FollowupPosted, FollowupFailed, At, rows
  <1>2. PICK p \in {"no", "yes", "bare"} :
           /\ Sent(s, p)
           /\ p = "no" => r0 \in letter'
           /\ p # "no" => blank' = IF job[s].diff = "expired" THEN blank \cup {r0} ELSE blank
           /\ \/ p = "yes" /\ Comment(s) /\ UNCHANGED <<lost, stripped>>
              \/ p = "bare" /\ UNCHANGED <<comments, lost>> /\ stripped' = stripped \cup {r0}
              \/ p = "no" /\ UNCHANGED <<comments, lost, stripped, blank>>
              \/ p = "no" /\ Comment(s) /\ AddLost(s) /\ UNCHANGED <<stripped, blank>>
    <2>1. ASSUME ReviewShown(s)
          PROVE  \E p \in {"yes", "bare"} :
                    /\ Sent(s, p)
                    /\ blank' = IF job[s].diff = "expired" THEN blank \cup {r0} ELSE blank
                    /\ \/ p = "yes" /\ Comment(s) /\ UNCHANGED <<lost, stripped>>
                       \/ p = "bare" /\ UNCHANGED <<comments, lost>> /\ stripped' = stripped \cup {r0}
      BY <1>0, <2>1 DEF ReviewShown
    <2>2. CASE ReviewShown(s)
      BY <2>1, <2>2
    <2>3. CASE ~ ReviewShown(s)
      BY <1>0, <2>3 DEF FollowupPosted, FollowupFailed, github
    <2>4. QED
      BY <2>2, <2>3
  <1>3. /\ job'[s].at = "sent" /\ job'[s].run = r0 /\ job'[s].followup = p
        /\ job'[s].new = job[s].new /\ job'[s].old = job[s].old /\ job'[s].diff = job[s].diff
        /\ \A q \in Scanner : q # s => job'[q] = job[q]
    <2>1. job[s] \in JobState /\ job \in [Scanner -> JobState]
      BY DEF TypeOK
    <2>2. QED
      BY <1>0, <1>2, <2>1 DEF JobState, Sent, Set
  <1>4. \A q \in Scanner, f \in Finding : Inline(q, f)' = Inline(q, f) /\ ToPost(q, f)' = ToPost(q, f)
    BY <1>3 DEF Inline, ToPost, Mapped
  <1>5. blank \subseteq blank' /\ stripped \subseteq stripped'
    BY <1>2
  <1>6. \A q \in Scanner : q # s => ~ Shows(q, r0)
    BY <1>0, <1>1, Alone DEF Shows, Holding
  <1>7. /\ \A q \in Scanner, r \in Run : q # s => (Shows(q, r)' <=> Shows(q, r))
        /\ \A r \in Run : Shows(s, r)' <=> (r = r0 /\ p = "yes")
        /\ \A r \in Run : ~ Shows(s, r)
    BY <1>1, <1>3 DEF Shows
  <1>8. ASSUME NEW r \in Run, NEW f \in Finding, f \in InDiff
        PROVE  Balanced(r, f)'
    <2>1. Balanced(r, f)
      BY <1>8 DEF Books, Counted
    <2>2. /\ comments[r][f] \in Nat /\ posted[r][f] \in Nat /\ lost[r][f] \in Nat
          /\ Inline(s, f) \in Nat
      BY Counts, InlineIs
    <2>3. CASE r # r0
      <3>1. comments'[r][f] = comments[r][f] /\ lost'[r][f] = lost[r][f]
        <4>1. Comment(s) => comments'[r][f] = comments[r][f]
          BY <1>0, <2>2, <2>3, CommentIs
        <4>2. AddLost(s) => lost'[r][f] = lost[r][f]
          BY <1>0, <2>2, <2>3, CommentIs
        <4>3. QED
          BY <1>2, <4>1, <4>2
      <3>2. \A n : Even(r, f, n) => (comments'[r][f] <= posted'[r][f] + lost'[r][f] + n
                     /\ (posted'[r][f] + lost'[r][f] + n <= comments'[r][f] \/ r \in stripped' \cup blank'))
        BY <1>1, <1>5, <3>1 DEF Even
      <3>3. ASSUME \A q \in Scanner : ~ Shows(q, r)' PROVE Even(r, f, 0)'
        BY <1>7, <2>1, <3>2, <3>3 DEF Balanced, Even
      <3>4. ASSUME NEW q \in Scanner, Shows(q, r)' PROVE Even(r, f, Inline(q, f))'
        <4>1. Shows(q, r)
          BY <1>7, <2>3, <3>4
        <4>2. Even(r, f, Inline(q, f)) /\ Inline(q, f)' = Inline(q, f)
          BY <1>4, <2>1, <4>1 DEF Balanced
        <4>3. QED
          BY <3>2, <4>2 DEF Even
      <3>5. QED
        BY <3>3, <3>4 DEF Balanced
    <2>4. CASE r = r0
      <3>1. Even(r0, f, 0)
        BY <1>6, <1>7, <2>1, <2>4 DEF Balanced
      <3>2. Comment(s) => comments'[r0][f] = comments[r0][f] + Inline(s, f)
        BY <1>0, CommentIs
      <3>3. AddLost(s) => lost'[r0][f] = lost[r0][f] + Inline(s, f)
        BY <1>0, CommentIs
      <3>4. p = "yes" => Even(r0, f, Inline(s, f))'
        BY <1>1, <1>2, <1>4, <1>5, <2>2, <2>4, <3>1, <3>2 DEF Even
      <3>5. p # "yes" => Even(r0, f, 0)'
        <4>1. CASE p = "bare"
          BY <1>1, <1>2, <1>5, <2>2, <2>4, <3>1, <4>1 DEF Even
        <4>2. CASE p = "no"
          BY <1>1, <1>2, <1>5, <2>2, <2>4, <3>1, <3>2, <3>3, <4>2 DEF Even
        <4>3. QED
          BY <4>1, <4>2
      <3>6. \A q \in Scanner : Shows(q, r0)' <=> (q = s /\ p = "yes")
        BY <1>6, <1>7
      <3>7. QED
        BY <2>4, <3>4, <3>5, <3>6 DEF Balanced
    <2>5. QED
      BY <2>3, <2>4
  <1>9. Counted'
    <2>1. ASSUME NEW r \in Run, NEW f \in Finding, f \notin InDiff PROVE comments'[r][f] = 0
      <3>1. comments[r][f] = 0 /\ Inline(s, f) = 0
        BY <2>1, InlineIs DEF Books, Counted
      <3>2. Comment(s) => comments'[r][f] = comments[r][f] + IF r = r0 THEN Inline(s, f) ELSE 0
        BY <1>0, CommentIs
      <3>3. QED
        BY <1>2, <3>1, <3>2
    <2>2. QED
      BY <1>1, <1>8, <2>1 DEF Books, Counted
  <1>10. Prepared'
    BY <1>0, <1>1, <1>3 DEF Books, Prepared
  <1>11. Recorded'
    BY <1>2, <1>3, <1>5 DEF Books, Recorded
  <1>12. Lettered'
    BY <1>1, <1>2, <1>3, <1>4, <1>5 DEF Books, Lettered, UnpostedHasLetter
  <1>13. QED
    BY <1>9, <1>10, <1>11, <1>12 DEF Books

\* The rows tell what was posted.
LEMMA BooksStored ==
  ASSUME TypeOK, LockOwned, Books, NEW s \in Scanner, StoreFindings(s)
  PROVE  Books'
  <1>0. PICK r0 \in Run : r0 = job[s].run
    BY DEF StoreFindings, At, LockOwned, Holding
  <1>1. job[s].at = "sent" /\ UNCHANGED <<letter, comments, lost, stripped, blank, named>>
    BY DEF StoreFindings, At, github
  <1>2. job'[s].at = "stored" /\ \A q \in Scanner : q # s => job'[q] = job[q]
    <2>1. job[s] \in JobState /\ "stored" \in Places /\ job \in [Scanner -> JobState]
      BY DEF TypeOK, Places
    <2>2. Set(s, [job[s] EXCEPT !.at = "stored"])
      BY DEF StoreFindings, Goto
    <2>3. job'[s] = [job[s] EXCEPT !.at = "stored"] /\ \A q \in Scanner : q # s => job'[q] = job[q]
      BY <2>2, OthersStay
    <2>4. QED
      BY <2>1, <2>3, JobGoes
  <1>3. /\ \A q \in Scanner, r \in Run : Shows(q, r)' <=> q # s /\ Shows(q, r)
        /\ \A q \in Scanner, f \in Finding : q # s =>
              Inline(q, f)' = Inline(q, f) /\ ToPost(q, f)' = ToPost(q, f)
    BY <1>2 DEF Shows, Inline, ToPost, Mapped
  <1>4. \A q \in Scanner : q # s /\ job[q].at \in Holding => job[q].run # r0 /\ job[q].run \in Run
    BY <1>0, <1>1, Alone DEF Holding, LockOwned
  <1>5. \A r \in Run : r # r0 => posted'[r] = posted[r] /\ unposted'[r] = unposted[r]
    BY <1>0 DEF StoreFindings, TypeOK
  <1>6. ASSUME NEW f \in Finding
        PROVE  /\ posted'[r0][f] = posted[r0][f] + Marked(s, f)
               /\ unposted'[r0][f] = unposted[r0][f] + job[s].new[f] - Marked(s, f)
    BY <1>0 DEF StoreFindings, TypeOK
  <1>7. ASSUME NEW f \in Finding
        PROVE  /\ posted[r0][f] \in Nat /\ unposted[r0][f] \in Nat /\ comments[r0][f] \in Nat
               /\ lost[r0][f] \in Nat /\ named[r0][f] \in Nat
               /\ job[s].new[f] \in Nat /\ job[s].old[f] \in Nat
               /\ Marked(s, f) \in Nat /\ Inline(s, f) \in Nat
               /\ job[s].followup \in {"no", "yes", "bare"} /\ job[s].diff \in {"kept", "expired"}
    BY Counts, JobFields, MarkedType, InlineIs DEF TypeOK
  <1>8. ASSUME NEW f \in Finding
        PROVE  /\ job[s].old[f] = unposted[r0][f]
               /\ job[s].new[f] > 0 => posted[r0][f] = 0 /\ unposted[r0][f] = 0
               /\ f \in InDiff => job[s].new[f] <= named[r0][f]
    BY <1>0, <1>1 DEF Books, Prepared
  <1>9. ASSUME NEW f \in Finding, f \in InDiff
        PROVE  /\ (posted[r0][f] + unposted[r0][f] <= named[r0][f])'
               /\ Balanced(r0, f)'
    <2>1. posted[r0][f] + unposted[r0][f] <= named[r0][f] /\ Balanced(r0, f)
      BY <1>9 DEF Books, Counted
    <2>2. (posted[r0][f] + unposted[r0][f] <= named[r0][f])'
      BY <1>1, <1>6, <1>7, <1>8, <1>9, <2>1
    <2>3. \A q \in Scanner : ~ Shows(q, r0)'
      BY <1>3, <1>4 DEF Shows, Holding
    <2>4. CASE job[s].followup = "yes"
      <3>1. Even(r0, f, Inline(s, f))
        BY <1>0, <1>1, <2>1, <2>4 DEF Balanced, Shows
      <3>2. job[s].diff = "expired" => r0 \in blank
        BY <1>0, <1>1, <2>4 DEF Books, Recorded
      <3>3. job[s].diff # "expired" => Marked(s, f) = Inline(s, f)
        BY <1>7, <1>9, <2>4, InlineIs DEF Marked, Mapped
      <3>4. Inline(s, f) <= Marked(s, f)
        BY <1>7, <1>9, <3>3, InlineIs
      <3>5. Even(r0, f, 0)'
        BY <1>1, <1>6, <1>7, <3>1, <3>2, <3>3, <3>4 DEF Even
      <3>6. QED
        BY <2>2, <2>3, <3>5 DEF Balanced
    <2>5. CASE job[s].followup # "yes"
      <3>1. \A q \in Scanner : ~ Shows(q, r0)
        BY <1>3, <2>3, <2>5 DEF Shows
      <3>2. Even(r0, f, 0)
        BY <2>1, <3>1 DEF Balanced
      <3>3. job[s].followup = "bare" => r0 \in stripped
        BY <1>0, <1>1 DEF Books, Recorded
      <3>4. job[s].followup = "no" => Marked(s, f) = 0
        BY DEF Marked
      <3>5. Even(r0, f, 0)'
        BY <1>1, <1>6, <1>7, <2>5, <3>2, <3>3, <3>4 DEF Even
      <3>6. QED
        BY <2>2, <2>3, <3>5 DEF Balanced
    <2>6. QED
      BY <2>4, <2>5
  <1>10. ASSUME NEW r \in Run, NEW f \in Finding, r # r0, f \in InDiff
         PROVE  /\ (posted[r][f] + unposted[r][f] <= named[r][f])'
                /\ Balanced(r, f)'
    <2>1. posted[r][f] + unposted[r][f] <= named[r][f] /\ Balanced(r, f)
      BY <1>10 DEF Books, Counted
    <2>2. (posted[r][f] + unposted[r][f] <= named[r][f])'
      BY <1>1, <1>5, <1>10, <2>1
    <2>3. \A q \in Scanner : Shows(q, r)' <=> Shows(q, r)
      BY <1>0, <1>3, <1>10 DEF Shows
    <2>4. ASSUME \A q \in Scanner : ~ Shows(q, r)' PROVE Even(r, f, 0)'
      BY <1>1, <1>5, <1>10, <2>1, <2>3, <2>4 DEF Balanced, Even
    <2>5. ASSUME NEW q \in Scanner, Shows(q, r)' PROVE Even(r, f, Inline(q, f))'
      <3>1. Shows(q, r) /\ Inline(q, f)' = Inline(q, f)
        BY <1>3, <2>5
      <3>2. Even(r, f, Inline(q, f))
        BY <2>1, <3>1 DEF Balanced
      <3>3. QED
        BY <1>1, <1>5, <1>10, <3>1, <3>2 DEF Even
    <2>6. QED
      BY <2>2, <2>4, <2>5 DEF Balanced
  <1>11. Counted'
    BY <1>1, <1>9, <1>10 DEF Books, Counted
  <1>12. Prepared'
    <2>1. ASSUME NEW q \in Scanner, job'[q].at \in {"analysed", "sent"}, NEW f \in Finding
          PROVE  /\ job'[q].old[f] = unposted'[job'[q].run][f]
                 /\ job'[q].new[f] > 0 => /\ posted'[job'[q].run][f] = 0
                                          /\ unposted'[job'[q].run][f] = 0
                 /\ f \in InDiff => job'[q].new[f] <= named'[job'[q].run][f]
      <3>1. job'[q] = job[q] /\ job[q].run # r0 /\ job[q].run \in Run
        BY <1>2, <1>4, <2>1 DEF Holding
      <3>2. /\ job[q].old[f] = unposted[job[q].run][f]
            /\ job[q].new[f] > 0 => posted[job[q].run][f] = 0 /\ unposted[job[q].run][f] = 0
            /\ f \in InDiff => job[q].new[f] <= named[job[q].run][f]
        BY <2>1, <3>1 DEF Books, Prepared
      <3>3. QED
        BY <1>1, <1>5, <3>1, <3>2
    <2>2. QED
      BY <2>1 DEF Prepared
  <1>13. Recorded'
    BY <1>1, <1>2 DEF Books, Recorded
  <1>14. Lettered'
    <2>1. ASSUME NEW f \in Finding, f \in InDiff, unposted'[r0][f] > 0
          PROVE  r0 \in letter \cup blank
      <3>1. unposted[r0][f] > 0 => r0 \in letter \cup blank
        BY <2>1 DEF Books, Lettered, UnpostedHasLetter
      <3>2. CASE job[s].followup = "no"
        <4>1. ToPost(s, f) > 0 => r0 \in letter
          BY <1>0, <1>1, <3>2 DEF Books, Lettered
        <4>2. Marked(s, f) = 0 /\ ToPost(s, f) = job[s].new[f] + job[s].old[f]
          BY <3>2 DEF Marked, ToPost
        <4>3. QED
          <5>1. unposted'[r0][f] = unposted[r0][f] + job[s].new[f]
            BY <1>6, <1>7, <4>2
          <5>2. unposted[r0][f] > 0 \/ job[s].new[f] > 0
            BY <1>7, <2>1, <5>1
          <5>3. job[s].new[f] > 0 => ToPost(s, f) > 0
            BY <1>7, <4>2
          <5>4. QED
            BY <3>1, <4>1, <5>2, <5>3
      <3>3. CASE job[s].followup # "no"
        <4>1. job[s].diff = "expired" => r0 \in blank
          BY <1>0, <1>1, <3>3 DEF Books, Recorded
        <4>2. job[s].diff # "expired" => Marked(s, f) = job[s].old[f] + job[s].new[f]
          BY <1>7, <2>1, <3>3 DEF Marked, Mapped
        <4>3. QED
          BY <1>6, <1>7, <1>8, <2>1, <4>1, <4>2
      <3>4. QED
        BY <3>2, <3>3
    <2>2. UnpostedHasLetter'
      BY <1>1, <1>5, <2>1 DEF Books, Lettered, UnpostedHasLetter
    <2>3. QED
      BY <1>1, <1>2, <1>3, <2>2 DEF Books, Lettered
  <1>15. QED
    BY <1>11, <1>12, <1>13, <1>14 DEF Books

-----------------------------------------------------------------------------
\* Every step of every execution keeps rows, comments and dead letters
\* consistent.
LEMMA BooksStep ==
  ASSUME TypeOK, LockOwned, Books, [Next]_vars
  PROVE  Books'
  <1>1. ASSUME NEW s \in Scanner, List(s) \/ TakeLock(s) \/ CountAttempt(s) PROVE Books'
    <2>1. \E j : Set(s, j) /\ j.at \notin {"analysed", "sent"}
      <3>1. \A todo : Proceed(s, todo) => \E j : Set(s, j) /\ j.at \in {"idle", "next"}
        BY DEF Proceed, Idle, Job
      <3>2. \A todo, r : Job("locked", todo, r).at = "locked"
        BY DEF Job
      <3>3. CASE List(s)
        BY <3>1, <3>3 DEF List
      <3>4. CASE TakeLock(s)
        BY <3>1, <3>2, <3>4 DEF TakeLock
      <3>5. CASE CountAttempt(s)
        <4>1. PICK at \in {"work", "spent"} : Goto(s, at)
          BY <3>5 DEF CountAttempt
        <4> DEFINE k == [job[s] EXCEPT !.at = at]
        <4>2. job[s] \in JobState /\ at \in Places
          BY DEF TypeOK, Places
        <4>3. Set(s, k) /\ k.at = at
          BY <4>1, <4>2, JobGoes DEF Goto
        <4>4. QED
          BY <4>3
      <3>6. QED
        BY <1>1, <3>3, <3>4, <3>5
    <2>2. /\ \A r \in Run : ~ Shows(s, r)
          /\ UNCHANGED <<posted, unposted, comments, letter, lost, stripped, blank, named>>
      BY <1>1 DEF List, TakeLock, CountAttempt, At, rows, github, Shows
    <2>3. QED
      BY <2>1, <2>2, BooksKept
  <1>2. ASSUME NEW s \in Scanner, GiveUp(s) \/ Superseded(s) \/ CommitRun(s) PROVE Books'
    <2>1. /\ LeaveRun(s) /\ \A r \in Run : ~ Shows(s, r)
          /\ UNCHANGED <<posted, unposted, comments, letter, lost, stripped, blank, named>>
      BY <1>2 DEF GiveUp, Superseded, CommitRun, At, rows, github, Shows
    <2>2. \E j : Set(s, j) /\ j.at \in {"idle", "next"}
      BY <2>1, LeaveRunSets
    <2>3. QED
      BY <2>1, <2>2, BooksKept
  <1>3. ASSUME NEW s \in Scanner, Analyse(s) PROVE Books'
    BY <1>3, BooksAnalyse
  <1>4. ASSUME NEW s \in Scanner, FollowupPosted(s) \/ FollowupFailed(s) PROVE Books'
    BY <1>4, BooksPost
  <1>5. ASSUME NEW s \in Scanner, StoreFindings(s) PROVE Books'
    BY <1>5, BooksStored
  <1>6. ASSUME NEW s \in Scanner, ScanRaises(s) \/ ScanKilled(s) PROVE Books'
    <2>1. \E j : Set(s, j) /\ j.at \in {"idle", "next", "dead"}
      <3>1. CASE ScanRaises(s)
        BY <3>1, LeaveRunSets DEF ScanRaises
      <3>2. CASE ScanKilled(s)
        BY <3>2 DEF ScanKilled, Job
      <3>3. QED
        BY <1>6, <3>1, <3>2
    <2>2. UNCHANGED <<posted, unposted, comments, letter, stripped, blank, named>> /\ Unrecorded(s)
      BY <1>6 DEF ScanRaises, ScanKilled, rows
    <2>3. CASE Shows(s, job[s].run)
      <3>1. AddLost(s)
        BY <2>2, <2>3 DEF Unrecorded, At, Shows
      <3>2. QED
        BY <2>1, <2>2, <2>3, <3>1, BooksLost
    <2>4. CASE ~ Shows(s, job[s].run)
      <3>1. UNCHANGED lost /\ \A r \in Run : ~ Shows(s, r)
        BY <2>2, <2>4 DEF Unrecorded, At, Shows
      <3>2. QED
        BY <2>1, <2>2, <3>1, BooksKept
    <2>5. QED
      BY <2>3, <2>4
  <1>7. ASSUME NEW s \in Scanner, LockExpires(s) PROVE Books'
    <2>1. Idle.at = "idle" /\ \A r \in Run : ~ Shows(s, r)
      BY <1>7 DEF Idle, Job, LockExpires, At, Shows
    <2>2. UNCHANGED <<posted, unposted, comments, letter, lost, stripped, blank, named>>
      BY <1>7 DEF LockExpires, rows, github
    <2>3. QED
      BY <1>7, <2>1, <2>2, BooksKept DEF LockExpires
  <1>8. CASE UNCHANGED <<job, posted, unposted, comments, letter, lost, stripped, blank, named>>
    <2>1. \A s \in Scanner, f \in Finding : ToPost(s, f)' = ToPost(s, f) /\ Inline(s, f)' = Inline(s, f)
      BY <1>8 DEF ToPost, Inline, Mapped
    <2>2. \A r \in Run, f \in Finding : Balanced(r, f) => Balanced(r, f)'
      <3>1. ASSUME NEW r \in Run, NEW f \in Finding, Balanced(r, f),
                   NEW s \in Scanner, Shows(s, r)'
            PROVE  Even(r, f, Inline(s, f))'
        <4>1. Even(r, f, Inline(s, f)) /\ Inline(s, f)' = Inline(s, f)
          BY <1>8, <2>1, <3>1 DEF Balanced, Shows
        <4>2. QED
          BY <1>8, <4>1 DEF Even
      <3>2. ASSUME NEW r \in Run, NEW f \in Finding, Balanced(r, f),
                   \A s \in Scanner : ~ Shows(s, r)'
            PROVE  Even(r, f, 0)'
        BY <1>8, <3>2 DEF Balanced, Shows, Even
      <3>3. QED
        BY <3>1, <3>2 DEF Balanced
    <2>3. Prepared' /\ Recorded'
      BY <1>8 DEF Books, Prepared, Recorded
    <2>4. Counted'
      BY <1>8, <2>2 DEF Books, Counted
    <2>5. Lettered'
      BY <1>8, <2>1 DEF Books, Lettered, UnpostedHasLetter
    <2>6. QED
      BY <2>3, <2>4, <2>5 DEF Books
  <1>9. ASSUME NEW r \in Run, DiffExpires(r) PROVE Books'
    BY <1>8, <1>9 DEF DiffExpires, rows, github
  <1>10. CASE UNCHANGED vars
    BY <1>8, <1>10 DEF vars
  <1>11. QED
    BY <1>1, <1>2, <1>3, <1>4, <1>5, <1>6, <1>7, <1>9, <1>10 DEF Next, ScanReanalysisNeeded

\* The inductive invariant of the re-analysis scan: types, the ownership of the
\* per-run lock, and what rows, comments, dead letters and posts in flight say
\* of each other.
THEOREM ReanalysisInvariant == Spec => []IInv
  <1>1. Init => IInv
    <2> SUFFICES ASSUME Init PROVE IInv
      OBVIOUS
    <2>1. PICK known \in [Run -> UNION {Answers(r) : r \in Run}], primary \in [Run -> YesNo] :
             /\ \A r \in Run : known[r] \in Answers(r)
             /\ posted = [r \in Run |-> IF primary[r] = "yes" THEN Only(known[r], InDiff) ELSE NoFinding]
             /\ unposted = [r \in Run |-> IF primary[r] = "yes" THEN Only(known[r], Finding \ InDiff)
                                          ELSE known[r]]
             /\ letter = {r \in Run : primary[r] = "no"}
             /\ named = [r \in Run |-> Only(known[r], InDiff)]
      BY DEF Init
    <2>2. /\ \A r \in Run : known[r] \in [Finding -> Nat]
          /\ NoFinding \in [Finding -> Nat]
      BY <2>1, AnswerType DEF NoFinding
    <2>10. ASSUME NEW r \in Run, NEW set PROVE Only(known[r], set) \in [Finding -> Nat]
      BY <2>2 DEF Only
    <2>3. TypeOK
      <3>1. Idle \in JobState
        BY JobType DEF Idle, Places
      <3>2. /\ posted \in [Run -> [Finding -> Nat]] /\ unposted \in [Run -> [Finding -> Nat]]
            /\ named \in [Run -> [Finding -> Nat]] /\ letter \subseteq Run
        BY <2>1, <2>2, <2>10
      <3>3. lost \in [Run -> [Finding -> Nat]]
        BY DEF Init, NoFinding
      <3>4. comments \in [Run -> [Finding -> Nat]]
        BY <3>2 DEF Init
      <3>5. job \in [Scanner -> JobState]
        BY <3>1 DEF Init
      <3>6. /\ flag \in [Run -> YesNo] /\ attempts \in [Run -> 0..(Cap + 1)]
            /\ lock \in [Run -> Scanner \cup {"free"}] /\ diff \in [Run -> {"kept", "expired"}]
            /\ stripped \subseteq Run /\ blank \subseteq Run
        BY DEF Init, YesNo
      <3>7. QED
        BY <3>2, <3>3, <3>4, <3>5, <3>6 DEF TypeOK
    <2>4. \A s \in Scanner : job[s].at = "idle"
      BY DEF Init, Idle, Job
    <2>5. LockOwned /\ Prepared /\ Recorded
      BY <2>4 DEF Init, LockOwned, Prepared, Recorded, Holding
    <2>6. ASSUME NEW r \in Run, NEW f \in Finding
          PROVE  /\ comments[r][f] = posted[r][f] /\ lost[r][f] = 0
                 /\ f \notin InDiff => posted[r][f] = 0
                 /\ f \in InDiff => posted[r][f] + unposted[r][f] <= named[r][f]
                 /\ f \in InDiff /\ unposted[r][f] > 0 => r \in letter
      <3>1. comments[r][f] = posted[r][f] /\ lost[r][f] = 0
        BY DEF Init, NoFinding
      <3>2. CASE primary[r] = "yes"
        <4>1. /\ posted[r][f] = IF f \in InDiff THEN known[r][f] ELSE 0
              /\ unposted[r][f] = IF f \in InDiff THEN 0 ELSE known[r][f]
              /\ named[r][f] = IF f \in InDiff THEN known[r][f] ELSE 0
          BY <2>1, <3>2 DEF Only
        <4>2. known[r][f] \in Nat
          BY <2>2
        <4>3. QED
          BY <3>1, <4>1, <4>2
      <3>3. CASE primary[r] # "yes"
        <4>1. /\ posted[r][f] = 0
              /\ unposted[r][f] = known[r][f]
              /\ named[r][f] = IF f \in InDiff THEN known[r][f] ELSE 0
          BY <2>1, <3>3 DEF Only, NoFinding
        <4>2. r \in letter
          BY <2>1, <3>3 DEF YesNo
        <4>3. known[r][f] \in Nat
          BY <2>2
        <4>4. QED
          BY <3>1, <4>1, <4>2, <4>3
      <3>4. QED
        BY <3>2, <3>3
    <2>7. Counted
      <3>1. ASSUME NEW r \in Run, NEW f \in Finding PROVE Balanced(r, f)
        <4>1. Even(r, f, 0)
          <5>1. comments[r][f] = posted[r][f] /\ lost[r][f] = 0
            BY <2>6
          <5>2. posted[r][f] \in Nat
            BY <2>3, Counts
          <5>3. QED
            BY <5>1, <5>2 DEF Even
        <4>2. \A s \in Scanner : ~ Shows(s, r)
          BY <2>4 DEF Shows
        <4>3. QED
          BY <4>1, <4>2 DEF Balanced
      <3>2. QED
        BY <2>6, <3>1 DEF Counted
    <2>8. Lettered
      BY <2>4, <2>6 DEF Lettered, UnpostedHasLetter
    <2>9. QED
      BY <2>3, <2>5, <2>7, <2>8 DEF IInv, Books
  <1>2. IInv /\ [Next]_vars => IInv'
    <2> SUFFICES ASSUME IInv, [Next]_vars PROVE IInv'
      OBVIOUS
    <2>1. TypeOK /\ LockOwned /\ Books /\ Prepared
      BY DEF IInv, Books
    <2>2. TypeOK' /\ LockOwned' /\ Books'
      BY <2>1, ReanalysisTypeStep, LockOwnedStep, BooksStep
    <2>3. QED
      BY <2>2 DEF IInv
  <1>3. QED
    BY <1>1, <1>2, PTL DEF Spec

\* The variables of the re-analysis scan keep their types.
THEOREM ReanalysisTypeOK == Spec => []TypeOK
  <1>1. IInv => TypeOK
    BY DEF IInv
  <1>2. QED
    BY <1>1, ReanalysisInvariant, PTL

\* The comments on a finding are as many as one answer named it, but for posts
\* that were not recorded, for any number of overlapping, killed and failing
\* scans and any answers of the LLM.
THEOREM ReanalysisCommentedOnce == Spec => []CommentedOnce
  <1>1. IInv => CommentedOnce
    <2> SUFFICES ASSUME IInv, NEW r \in Run, NEW f \in Finding
                 PROVE  comments[r][f] <= named[r][f] + lost[r][f]
      BY DEF CommentedOnce
    <2>1. /\ posted[r][f] \in Nat /\ unposted[r][f] \in Nat
          /\ comments[r][f] \in Nat /\ named[r][f] \in Nat /\ lost[r][f] \in Nat
      BY Counts DEF IInv
    <2>2. CASE f \notin InDiff
      <3>1. comments[r][f] = 0
        BY <2>2 DEF IInv, Books, Counted
      <3>2. QED
        BY <2>1, <3>1
    <2>3. CASE f \in InDiff
      <3>1. posted[r][f] + unposted[r][f] <= named[r][f] /\ Balanced(r, f)
        BY <2>3 DEF IInv, Books, Counted
      <3>2. CASE \A s \in Scanner : ~ Shows(s, r)
        BY <2>1, <3>1, <3>2 DEF Balanced, Even
      <3>3. ASSUME NEW s \in Scanner, Shows(s, r)
            PROVE  comments[r][f] <= named[r][f] + lost[r][f]
        <4>1. comments[r][f] <= posted[r][f] + lost[r][f] + Inline(s, f)
          BY <3>1, <3>3 DEF Balanced, Even
        <4>2. /\ Inline(s, f) \in Nat /\ Inline(s, f) <= job[s].new[f] + job[s].old[f]
              /\ job[s].new[f] \in Nat
          BY InlineIs, JobFields DEF IInv, TypeOK
        <4>3. /\ job[s].old[f] = unposted[r][f] /\ job[s].new[f] <= named[r][f]
              /\ job[s].new[f] > 0 => posted[r][f] = 0 /\ unposted[r][f] = 0
          BY <2>3, <3>3 DEF IInv, Books, Prepared, Shows
        <4>4. QED
          BY <2>1, <3>1, <4>1, <4>2, <4>3
      <3>4. QED
        BY <3>2, <3>3
    <2>4. QED
      BY <2>2, <2>3
  <1>2. QED
    BY <1>1, ReanalysisInvariant, PTL

\* Rows and comments agree, comment by comment, but for refused comments, posts
\* without the stored diff and posts that were not recorded.
THEOREM ReanalysisRowsTruthful == Spec => []RowsTruthful
  <1>1. IInv => RowsTruthful
    <2> SUFFICES ASSUME IInv, NEW r \in Run, NEW f \in InDiff
                 PROVE  /\ \/ posted[r][f] + lost[r][f] <= comments[r][f]
                           \/ r \in stripped \cup blank
                        /\ lock[r] = "free" => comments[r][f] <= posted[r][f] + lost[r][f]
      BY DEF RowsTruthful
    <2>1. f \in Finding
      OBVIOUS
    <2>2. Balanced(r, f) /\ TypeOK
      BY <2>1 DEF IInv, Books, Counted
    <2>3. posted[r][f] \in Nat /\ comments[r][f] \in Nat /\ lost[r][f] \in Nat
      BY <2>1, <2>2, Counts
    <2>4. CASE \A s \in Scanner : ~ Shows(s, r)
      BY <2>2, <2>3, <2>4 DEF Balanced, Even
    <2>5. ASSUME NEW s \in Scanner, Shows(s, r)
          PROVE  /\ \/ posted[r][f] + lost[r][f] <= comments[r][f]
                    \/ r \in stripped \cup blank
                 /\ lock[r] = "free" => comments[r][f] <= posted[r][f] + lost[r][f]
      <3>1. Even(r, f, Inline(s, f)) /\ Inline(s, f) \in Nat
        BY <2>1, <2>2, <2>5, InlineIs DEF Balanced
      <3>2. lock[r] = s /\ s # "free"
        BY <2>5 DEF IInv, LockOwned, Shows, Holding
      <3>3. QED
        BY <2>3, <3>1, <3>2 DEF Even
    <2>6. QED
      BY <2>4, <2>5
  <1>2. QED
    BY <1>1, ReanalysisInvariant, PTL

\* A finding that could be commented on and was not leaves a dead letter, but
\* for follow-ups posted without the stored diff.
THEOREM ReanalysisUnpostedHasLetter == Spec => []UnpostedHasLetter
  <1>1. IInv => UnpostedHasLetter
    BY DEF IInv, Books, Lettered
  <1>2. QED
    BY <1>1, ReanalysisInvariant, PTL
=============================================================================
