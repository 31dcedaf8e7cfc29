------------------------ MODULE ReviewDeliveryProofs ------------------------
(***************************************************************************)
(* Theorems about ReviewDelivery for any number of redeliveries, scanners, *)
(* drains, admin calls, usage rows and retries.                            *)
(***************************************************************************)
EXTENDS ReviewDelivery, TLAPS

USE DeliveryAssumption

-----------------------------------------------------------------------------
\* Updates of the records the model keeps stay in their types; the field sets
\* are hidden because the provers need not look into them.
LEMMA LaneUpdate ==
  ASSUME NEW p \in LaneState, NEW a \in {"idle", "post", "persist", "flag", "done"},
         NEW n \in 0..Usages, NEW r \in 0..(PostRetries + PersistRetries)
  PROVE  /\ [p EXCEPT !.at = a, !.saved = n] \in LaneState
         /\ [p EXCEPT !.at = a, !.saved = n, !.retries = r] \in LaneState
  <1> DEFINE A == {"idle", "post", "persist", "flag", "done"}
             N == 0..Usages
             R == 0..(PostRetries + PersistRetries)
  <1>1. LaneState = [at : A, retries : R, saved : N, posted : YesNo]
    BY DEF LaneState
  <1>2. a \in A /\ n \in N /\ r \in R
    OBVIOUS
  <1> HIDE DEF A, N, R
  <1>3. QED
    BY <1>1, <1>2

Row == [status : {"running", "completed"}, posted : YesNo, flag : YesNo]

\* The updates of the analysis_runs row stay in its type.
LEMMA RowUpdate ==
  ASSUME NEW q \in Row, NEW p \in YesNo
  PROVE  /\ [q EXCEPT !.posted = p] \in Row
         /\ [q EXCEPT !.flag = p] \in Row
         /\ [q EXCEPT !.status = "completed", !.posted = p] \in Row
  <1> DEFINE S == {"running", "completed"}
  <1>1. Row = [status : S, posted : YesNo, flag : YesNo] /\ "completed" \in S
    BY DEF Row
  <1> HIDE DEF S
  <1>2. QED
    BY <1>1

-----------------------------------------------------------------------------
\* The variables of the delivery keep their types.
LEMMA DeliveryTypeStep == TypeOK /\ [Next]_vars => TypeOK'
  <1> SUFFICES ASSUME TypeOK, [Next]_vars PROVE TypeOK'
    OBVIOUS
  <1> USE DEF TypeOK, YesNo, Letter
  <1>1. ASSUME NEW l \in Lane, PostReviewToGithub(l) PROVE TypeOK'
    <2>1. lane[l] \in LaneState
      OBVIOUS
    <2>2. reviews' \in 0..MaxReviews
      BY <1>1 DEF PostReviewToGithub, PostPostponed, PostFailed, PostDone, Create
    <2>3. dead' \subseteq Letter
      BY <1>1 DEF PostReviewToGithub, PostPostponed, PostFailed, PostDone
    <2>4. CASE PostAgain(l) /\ lane[l].retries < PostRetries
      <3>1. [lane[l] EXCEPT !.retries = lane[l].retries + 1] \in LaneState
        BY <2>1, <2>4 DEF LaneState
      <3>2. QED
        BY <1>1, <2>2, <2>3, <2>4, <3>1 DEF PostReviewToGithub, PostAgain, LaneGoes, queueVars
    <2>5. CASE \E p \in YesNo : PostReturns(l, p)
      <3>1. \A p \in YesNo : [at |-> "persist", retries |-> 0, saved |-> 0, posted |-> p] \in LaneState
        BY DEF LaneState
      <3>2. QED
        BY <1>1, <2>2, <2>3, <2>5, <3>1 DEF PostReviewToGithub, PostReturns, LaneGoes, queueVars
    <2>6. QED
      BY <1>1, <2>4, <2>5 DEF PostReviewToGithub, PostPostponed, PostFailed, PostDone
  <1>2. ASSUME NEW l \in Lane, PersistResults(l) PROVE TypeOK'
    <2>1. lane[l] \in LaneState
      OBVIOUS
    <2>2. PICK r \in LaneState : LaneGoes(l, r)
      <3>1. CASE PersistUsage(l)
        <4>1. [lane[l] EXCEPT !.saved = lane[l].saved + 1] \in LaneState
          BY <2>1, <3>1 DEF LaneState, PersistUsage
        <4>2. QED
          BY <3>1, <4>1 DEF PersistUsage
      <3>2. CASE PersistAnalysisResults(l) \/ PersistFlag(l)
        <4>1. \A a \in {"flag", "done"} : [lane[l] EXCEPT !.at = a] \in LaneState
          BY <2>1 DEF LaneState
        <4>2. QED
          BY <3>2, <4>1 DEF PersistAnalysisResults, PersistFlag
      <3>3. CASE PersistFailed(l)
        <4>1. [lane[l] EXCEPT !.at = "done"] \in LaneState
          BY <2>1 DEF LaneState
        <4>2. lane[l].retries < PersistRetries =>
                [lane[l] EXCEPT !.at = "persist", !.saved = 0,
                                !.retries = lane[l].retries + 1] \in LaneState
          <5>1. lane[l].retries < PersistRetries =>
                  lane[l].retries + 1 \in 0..(PostRetries + PersistRetries)
            BY <2>1 DEF LaneState
          <5>2. 0 \in 0..Usages
            OBVIOUS
          <5>3. QED
            BY <2>1, <5>1, <5>2, LaneUpdate
        <4>3. QED
          BY <3>3, <4>1, <4>2 DEF PersistFailed, FallBackToRedis
      <3>4. QED
        BY <1>2, <3>1, <3>2, <3>3 DEF PersistResults
    <2>3. lane' \in [Lane -> LaneState]
      BY <2>2 DEF LaneGoes
    <2>4. row' \in Row /\ rows' \in Nat
      <3>1. lane[l].posted \in YesNo /\ row \in Row
        BY <2>1 DEF LaneState, Row
      <3>2. Persisted(lane[l].posted) \in Row /\ [row EXCEPT !.flag = "yes"] \in Row
        BY <3>1, RowUpdate DEF Persisted
      <3>3. QED
        BY <1>2, <3>1, <3>2 DEF PersistResults, PersistUsage, PersistAnalysisResults,
              PersistFlag, PersistFailed
    <2>5. pending' \in Nat /\ dump' \in {"none"} \cup YesNo
      BY <1>2, <2>1 DEF PersistResults, PersistUsage, PersistAnalysisResults, PersistFlag,
                        PersistFailed, FallBackToRedis, LaneState
    <2>6. QED
      BY <1>2, <2>3, <2>4, <2>5 DEF PersistResults, Row
  <1>3. ASSUME NEW l \in Lane, NEW k \in Lane, Redeliver(l, k) PROVE TypeOK'
    <2>1. lane[l] \in LaneState
      OBVIOUS
    <2>2. \A a \in {"post", "persist"} : [lane[l] EXCEPT !.at = a, !.saved = 0] \in LaneState
      <3>1. 0 \in 0..Usages /\ lane[l].retries \in 0..(PostRetries + PersistRetries)
        BY <2>1 DEF LaneState
      <3>2. QED
        BY <2>1, <3>1, LaneUpdate
    <2>3. lane' \in [Lane -> LaneState]
      BY <1>3, <2>2 DEF Redeliver, LaneGoes
    <2>4. QED
      BY <1>3, <2>3 DEF Redeliver, queueVars
  <1>4. ASSUME NEW d \in Drainer, DrainPendingPersistence(d) PROVE TypeOK'
    <2>1. drain[d] \in DrainState
      OBVIOUS
    <2>2. IdleDrain \in DrainState
      BY DEF IdleDrain, DrainState
    <2>3. PICK r \in DrainState : DrainGoes(d, r)
      <3>1. CASE DrainPop(d)
        <4>1. dump # "none" => [at |-> "popped", saved |-> 0, posted |-> dump] \in DrainState
          BY DEF DrainState
        <4>2. QED
          BY <3>1, <4>1, <2>2 DEF DrainPop
      <3>2. CASE DrainPersist(d)
        <4>1. [drain[d] EXCEPT !.at = "usage"] \in DrainState
          BY <2>1 DEF DrainState
        <4>2. QED
          BY <3>2, <4>1 DEF DrainPersist
      <3>3. CASE DrainUsage(d)
        <4>1. drain[d].saved < Usages =>
                [drain[d] EXCEPT !.saved = drain[d].saved + 1] \in DrainState
          BY <2>1 DEF DrainState
        <4>2. QED
          BY <3>3, <4>1, <2>2 DEF DrainUsage
      <3>4. CASE DrainFailed(d)
        BY <3>4, <2>2 DEF DrainFailed
      <3>5. QED
        BY <1>4, <3>1, <3>2, <3>3, <3>4 DEF DrainPendingPersistence
    <2>4. drain' \in [Drainer -> DrainState]
      BY <2>3 DEF DrainGoes
    <2>5. rows' \in Nat /\ pending' \in Nat /\ dump' \in {"none"} \cup YesNo
      BY <1>4 DEF DrainPendingPersistence, DrainPop, DrainPersist, DrainUsage, DrainFailed
    <2>6. row' \in Row
      <3>1. drain[d].posted \in YesNo /\ row \in Row
        BY <2>1 DEF DrainState, Row
      <3>2. Persisted(drain[d].posted) \in Row
        BY <3>1, RowUpdate DEF Persisted
      <3>3. QED
        BY <1>4, <3>1, <3>2 DEF DrainPendingPersistence, DrainPop, DrainPersist,
              DrainUsage, DrainFailed
    <2>7. QED
      BY <1>4, <2>4, <2>5, <2>6 DEF DrainPendingPersistence, Row
  <1>5. PayloadSources \subseteq SUBSET Letter
    BY DEF PayloadSources
  <1>6. ASSUME NEW s \in Scanner, ScanUnpostedReviews(s) PROVE TypeOK'
    <2>1. PICK a \in {"idle", "listed", "locked", "ready", "sent", "dead"},
               t \in SUBSET Letter : ScanGoes(s, a, t)
      <3>1. scan[s].target \in SUBSET Letter
        BY DEF ScanState
      <3>2. QED
        BY <1>5, <1>6, <3>1 DEF ScanUnpostedReviews, ScanList, ScanLock, ScanLookup, ScanPost,
              ScanCommit, ScanKilled, LockExpires, ScanLeaves
    <2>2. scan' \in [Scanner -> ScanState]
      BY <2>1 DEF ScanGoes, ScanState
    <2>3. lock' \in Scanner \cup {"free"} /\ dead' \subseteq Letter /\ reviews' \in 0..MaxReviews
      BY <1>6 DEF ScanUnpostedReviews, ScanList, ScanLock, ScanLookup, ScanPost,
              ScanCommit, ScanKilled, LockExpires, ScanLeaves, CreateFrom, Create
    <2>4. row' \in [status : {"running", "completed"}, posted : YesNo, flag : YesNo]
      BY <1>6 DEF ScanUnpostedReviews, ScanList, ScanLock, ScanLookup, ScanPost,
              ScanCommit, ScanKilled, LockExpires
    <2>5. QED
      BY <1>6, <2>2, <2>3, <2>4 DEF ScanUnpostedReviews, chainVars, queueVars
  <1>7. ASSUME NEW a \in Admin, ExecuteRetryPosting(a) PROVE TypeOK'
    <2>1. PICK r \in AdminState : AdminGoes(a, r)
      <3>1. IdleAdmin \in AdminState
        BY DEF IdleAdmin, AdminState
      <3>2. \A t \in SUBSET Letter :
              [at |-> "ready", target |-> t,
               followup |-> IF t = {"followup"} THEN "yes" ELSE row.posted] \in AdminState
        BY DEF AdminState
      <3>3. [admin[a] EXCEPT !.at = "sent"] \in AdminState
        BY DEF AdminState
      <3>4. QED
        BY <1>5, <1>7, <3>1, <3>2, <3>3 DEF ExecuteRetryPosting, AdminLookup, AdminPost, AdminCommit
    <2>2. admin' \in [Admin -> AdminState]
      BY <2>1 DEF AdminGoes
    <2>3. dead' \subseteq Letter /\ reviews' \in 0..MaxReviews
      BY <1>7 DEF ExecuteRetryPosting, AdminLookup, AdminPost, AdminCommit, CreateFrom, Create
    <2>4. row' \in [status : {"running", "completed"}, posted : YesNo, flag : YesNo]
      BY <1>7 DEF ExecuteRetryPosting, AdminLookup, AdminPost, AdminCommit
    <2>5. QED
      BY <1>7, <2>2, <2>3, <2>4 DEF ExecuteRetryPosting, chainVars, queueVars
  <1>8. CASE Reanalyse \/ HeadMoves \/ PayloadExpires \/ UNCHANGED vars
    BY <1>8 DEF Reanalyse, HeadMoves, PayloadExpires, vars, chainVars, queueVars
  <1>9. QED
    BY <1>1, <1>2, <1>3, <1>4, <1>6, <1>7, <1>8 DEF Next

\* Every variable of the delivery keeps its type, whatever fails.
THEOREM DeliveryTypeOK == Spec => []TypeOK
  <1>1. Init => TypeOK
    BY DEF Init, TypeOK, NewLane, LaneState, IdleScan, ScanState, IdleDrain, DrainState,
           IdleAdmin, AdminState, YesNo
  <1>2. QED
    BY <1>1, DeliveryTypeStep, PTL DEF Spec

-----------------------------------------------------------------------------
\* A scanner past the lock holds it.
LockHeld == \A s \in Scanner : scan[s].at \in {"locked", "ready", "sent"} => lock = s

\* At most one scanner is between taking the repost lock and leaving it,
\* however many scans overlap or are killed.
THEOREM DeliveryOneScannerPosts == Spec => []OneScannerPosts
  <1>1. Init => LockHeld
    BY DEF Init, LockHeld, IdleScan
  <1>2. TypeOK /\ LockHeld /\ [Next]_vars => LockHeld'
    <2> SUFFICES ASSUME TypeOK, LockHeld, [Next]_vars PROVE LockHeld'
      OBVIOUS
    <2>1. CASE UNCHANGED <<scan, lock>>
      BY <2>1 DEF LockHeld
    <2>2. ASSUME NEW s \in Scanner, ScanUnpostedReviews(s) PROVE LockHeld'
      BY <2>2 DEF LockHeld, TypeOK, ScanState, ScanUnpostedReviews, ScanList, ScanLock,
                  ScanLookup, ScanPost, ScanCommit, ScanKilled, LockExpires, ScanLeaves, ScanGoes
    <2>3. QED
      BY <2>1, <2>2 DEF Next, vars, PostReviewToGithub, PersistResults, Redeliver,
            DrainPendingPersistence, ExecuteRetryPosting, Reanalyse, HeadMoves, PayloadExpires
  <1>3. LockHeld => OneScannerPosts
    BY DEF LockHeld, OneScannerPosts
  <1>4. QED
    BY <1>1, <1>2, <1>3, DeliveryTypeOK, PTL DEF Spec

-----------------------------------------------------------------------------
\* Some part of the system carries the results of a finished posting task.
ResultsExist ==
    \/ \E l \in Lane : lane[l].at \in {"persist", "flag", "done"}
    \/ pending > 0
    \/ \E d \in Drainer : drain[d].at # "idle"
    \/ row.status = "completed"

\* The inductive form of UnpostedIsRecoverable: a dead letter exists from the
\* moment a posting task gives up, and is resolved only after a review exists;
\* whoever has posted without creating one had the letter of a follow-up.
PayloadDurable ==
    /\ \A s \in Scanner : scan[s].at = "sent" /\ reviews = 0 => scan[s].target = {"followup"}
    /\ \A a \in Admin : admin[a].at = "sent" /\ reviews = 0 => admin[a].target = {"followup"}
    /\ ResultsExist /\ reviews = 0 /\ head = "same" => dead \cap Lane # {}

\* Every step of every process keeps the payload durable.
LEMMA PayloadDurableStep ==
  ASSUME "pg_dl" \notin Faults, TypeOK, PayloadDurable, [Next]_vars
  PROVE  PayloadDurable'
  <1> USE DEF TypeOK
  <1>1. ASSUME NEW l \in Lane, PostReviewToGithub(l) PROVE PayloadDurable'
    <2>1. CASE PostAgain(l) /\ (reviews' = reviews \/ reviews' = reviews + 1) /\ dead' = dead
      <3>1. lane[l] \in LaneState /\ lane[l].at = "post"
        BY <1>1 DEF PostReviewToGithub
      <3>2. [lane[l] EXCEPT !.retries = lane[l].retries + 1].at = "post"
        BY <3>1 DEF LaneState
      <3>3. \A k \in Lane : lane'[k].at = lane[k].at
        BY <2>1, <3>1, <3>2 DEF PostAgain, LaneGoes
      <3>4. UNCHANGED <<row, pending, drain, scan, admin, head>>
        BY <1>1 DEF PostReviewToGithub, queueVars
      <3>5. ResultsExist' => ResultsExist
        BY <3>3, <3>4 DEF ResultsExist
      <3>6. QED
        BY <2>1, <3>4, <3>5 DEF PayloadDurable
    <2>2. CASE (reviews' = reviews \/ reviews' = reviews + 1) /\ (reviews' > 0 \/ dead' \cap Lane # {})
      BY <1>1, <2>2 DEF PostReviewToGithub, PayloadDurable
    <2>3. QED
      BY <1>1, <2>1, <2>2 DEF PostReviewToGithub, PostPostponed, PostFailed, PostDone, Create, May
  <1>2. ASSUME NEW l \in Lane, PersistResults(l) PROVE PayloadDurable'
    <2>1. lane[l].at \in {"persist", "flag"}
      BY <1>2 DEF PersistResults, PersistUsage, PersistAnalysisResults, PersistFlag, PersistFailed
    <2>2. ResultsExist
      BY <2>1 DEF ResultsExist
    <2>3. QED
      BY <1>2, <2>2 DEF PayloadDurable, PersistResults
  <1>3. ASSUME NEW l \in Lane, NEW k \in Lane, Redeliver(l, k) PROVE PayloadDurable'
    <2>1. lane[l] \in LaneState
      OBVIOUS
    <2>2. CASE lane[l].at = "post"
      <3>1. [lane[l] EXCEPT !.at = "post", !.saved = 0].at = "post"
        BY <2>1 DEF LaneState
      <3>2. \A j \in Lane : lane'[j].at = (IF j = k THEN "post" ELSE lane[j].at)
        BY <1>3, <2>2, <3>1 DEF Redeliver, LaneGoes
      <3>3. QED
        BY <1>3, <3>2 DEF Redeliver, PayloadDurable, ResultsExist, queueVars
    <2>3. CASE lane[l].at \in {"persist", "flag"}
      BY <1>3, <2>3 DEF Redeliver, PayloadDurable, ResultsExist, queueVars
    <2>4. QED
      BY <1>3, <2>2, <2>3 DEF Redeliver
  <1>4. ASSUME NEW d \in Drainer, DrainPendingPersistence(d) PROVE PayloadDurable'
    <2>1. ResultsExist
      BY <1>4 DEF DrainPendingPersistence, DrainPop, DrainPersist, DrainUsage, DrainFailed,
                  ResultsExist
    <2>2. QED
      BY <1>4, <2>1 DEF DrainPendingPersistence, PayloadDurable
  <1>5. ASSUME UNCHANGED <<lane, pending, drain>>, row'.status = row.status
        PROVE  ResultsExist' => ResultsExist
    BY <1>5 DEF ResultsExist
  <1>6. ASSUME NEW s \in Scanner, ScanUnpostedReviews(s) PROVE PayloadDurable'
    <2>1. row'.status = row.status
      BY <1>6 DEF ScanUnpostedReviews, ScanList, ScanLock, ScanLookup, ScanPost, ScanCommit,
                  ScanKilled, LockExpires
    <2>2. UNCHANGED <<lane, pending, drain, admin, head>>
      BY <1>6 DEF ScanUnpostedReviews, chainVars, queueVars
    <2>3. reviews' = reviews \/ (reviews' = reviews + 1)
      BY <1>6 DEF ScanUnpostedReviews, ScanList, ScanLock, ScanLookup, ScanPost, ScanCommit,
                  ScanKilled, LockExpires, CreateFrom, Create
    <2>4. \A t \in Scanner : scan'[t].at = "sent" /\ reviews' = 0 => scan'[t].target = {"followup"}
      BY <1>6, <2>3 DEF PayloadDurable, ScanUnpostedReviews, ScanList, ScanLock, ScanLookup,
            ScanPost, ScanCommit, ScanKilled, LockExpires, CreateFrom, Create, ScanGoes, ScanLeaves
    <2>5. reviews' = 0 /\ head = "same" => dead' = dead \/ dead' = dead \ {"followup"}
      BY <1>6 DEF PayloadDurable, ScanUnpostedReviews, ScanList, ScanLock, ScanLookup,
            ScanPost, ScanCommit, ScanKilled, LockExpires, CreateFrom, Create
    <2>6. QED
      BY <1>5, <2>1, <2>2, <2>3, <2>4, <2>5 DEF PayloadDurable
  <1>7. ASSUME NEW a \in Admin, ExecuteRetryPosting(a) PROVE PayloadDurable'
    <2>1. row'.status = row.status
      BY <1>7 DEF ExecuteRetryPosting, AdminLookup, AdminPost, AdminCommit
    <2>2. UNCHANGED <<lane, pending, drain, scan, head>>
      BY <1>7 DEF ExecuteRetryPosting, chainVars, queueVars
    <2>3. reviews' = reviews \/ (reviews' = reviews + 1)
      BY <1>7 DEF ExecuteRetryPosting, AdminLookup, AdminPost, AdminCommit, CreateFrom, Create
    <2>4. \A b \in Admin : admin'[b].at = "sent" /\ reviews' = 0 => admin'[b].target = {"followup"}
      <3>1. admin[a] \in AdminState
        OBVIOUS
      <3>2. [admin[a] EXCEPT !.at = "sent"].target = admin[a].target
        BY <3>1 DEF AdminState
      <3>3. \A b \in Admin \ {a} : admin'[b] = admin[b]
        BY <1>7 DEF ExecuteRetryPosting, AdminLookup, AdminPost, AdminCommit, AdminGoes
      <3>4. admin'[a].at = "sent" =>
              CreateFrom(admin[a].target) /\ admin'[a].target = admin[a].target
        <4>1. CASE AdminLookup(a) \/ AdminCommit(a)
          BY <4>1 DEF AdminLookup, AdminCommit, AdminGoes, IdleAdmin
        <4>2. CASE AdminPost(a)
          <5>1. \/ CreateFrom(admin[a].target) /\ AdminGoes(a, [admin[a] EXCEPT !.at = "sent"])
                \/ AdminGoes(a, IdleAdmin)
            BY <4>2 DEF AdminPost
          <5>2. \A q : AdminGoes(a, q) => admin'[a] = q
            BY DEF AdminGoes
          <5>3. CASE AdminGoes(a, IdleAdmin)
            <6>1. admin'[a].at = "idle"
              BY <5>2, <5>3 DEF IdleAdmin
            <6>2. QED
              BY <6>1
          <5>4. CASE CreateFrom(admin[a].target) /\ AdminGoes(a, [admin[a] EXCEPT !.at = "sent"])
            <6>1. admin'[a] = [admin[a] EXCEPT !.at = "sent"]
              BY <5>2, <5>4
            <6>2. QED
              BY <3>2, <5>4, <6>1
          <5>5. QED
            BY <5>1, <5>3, <5>4
        <4>3. QED
          BY <1>7, <4>1, <4>2 DEF ExecuteRetryPosting
      <3>5. QED
        BY <2>3, <3>3, <3>4 DEF PayloadDurable, CreateFrom, Create
    <2>5. reviews' = 0 => dead' = dead \/ dead' = dead \ {"followup"}
      BY <1>7 DEF PayloadDurable, ExecuteRetryPosting, AdminLookup, AdminPost, AdminCommit,
            CreateFrom, Create
    <2>6. QED
      BY <1>5, <2>1, <2>2, <2>3, <2>4, <2>5 DEF PayloadDurable
  <1>8. CASE Reanalyse \/ HeadMoves \/ PayloadExpires \/ UNCHANGED vars
    <2>1. /\ UNCHANGED <<lane, pending, drain, scan, admin, reviews>>
          /\ dead \subseteq dead' /\ row'.status = row.status
          /\ head' = "same" => head = "same"
      BY <1>8 DEF Reanalyse, HeadMoves, PayloadExpires, vars, chainVars, queueVars
    <2>2. QED
      BY <1>5, <2>1 DEF PayloadDurable
  <1>9. QED
    BY <1>1, <1>2, <1>3, <1>4, <1>6, <1>7, <1>8 DEF Next

\* As long as no review of a completed run exists and its commit is current, a
\* dead letter keeps the payload in PostgreSQL: for any number of redelivered
\* chains, scanners, drains and admin calls and every fault but a PostgreSQL
\* failure while the dead letter itself is written.
THEOREM DeliveryUnpostedIsRecoverable ==
  ASSUME "pg_dl" \notin Faults
  PROVE  Spec => []UnpostedIsRecoverable
  <1>1. Init => PayloadDurable
    <2> SUFFICES ASSUME Init PROVE PayloadDurable
      OBVIOUS
    <2>1. \A l \in Lane : lane[l].at \in {"post", "idle"}
      BY DEF Init, NewLane
    <2>2. /\ \A s \in Scanner : scan[s].at = "idle"
          /\ \A a \in Admin : admin[a].at = "idle"
          /\ \A d \in Drainer : drain[d].at = "idle"
      BY DEF Init, IdleScan, IdleAdmin, IdleDrain
    <2>3. row.status = "running" /\ pending = 0
      BY DEF Init
    <2>4. QED
      BY <2>1, <2>2, <2>3 DEF PayloadDurable, ResultsExist
  <1>2. TypeOK /\ PayloadDurable /\ [Next]_vars => PayloadDurable'
    BY PayloadDurableStep
  <1>3. PayloadDurable => UnpostedIsRecoverable
    BY DEF PayloadDurable, UnpostedIsRecoverable, ResultsExist
  <1>4. QED
    BY <1>1, <1>2, <1>3, DeliveryTypeOK, PTL DEF Spec

-----------------------------------------------------------------------------
(* What a step of each process does to the parts the next theorems look at. *)

\* The posting task tries again, or returns to persist_results.
LEMMA PostEffect ==
  ASSUME TypeOK, NEW l \in Lane, PostReviewToGithub(l)
  PROVE  /\ \A k \in Lane \ {l} : lane'[k] = lane[k]
         /\ lane[l].at = "post"
         /\ \/ lane'[l].at = "post" /\ lane'[l].posted = lane[l].posted
            \/ lane'[l].at = "persist" /\ lane'[l].posted = "no"
            \/ lane'[l].at = "persist" /\ lane'[l].posted = "yes" /\ reviews' = reviews + 1
         /\ \/ reviews' = reviews
            \/ reviews' = reviews + 1 /\ lane'[l].at = "persist" /\ lane'[l].posted = "yes"
            \/ reviews' = reviews + 1 /\ May("lost")
         /\ dead' = dead \/ dead' = dead \cup {l}
         /\ UNCHANGED <<row, rows, degraded, payload, pending, dump, drain, scan, lock, admin, head>>
  <1> USE DEF TypeOK
  <1>1. lane[l] \in LaneState /\ lane[l].at = "post"
    BY DEF PostReviewToGithub
  <1>2. /\ [lane[l] EXCEPT !.retries = lane[l].retries + 1].at = "post"
        /\ [lane[l] EXCEPT !.retries = lane[l].retries + 1].posted = lane[l].posted
    BY <1>1 DEF LaneState
  <1>3. \A r : LaneGoes(l, r) => lane'[l] = r /\ \A k \in Lane \ {l} : lane'[k] = lane[k]
    BY DEF LaneGoes
  <1>4. PostAgain(l) => /\ \A k \in Lane \ {l} : lane'[k] = lane[k]
                        /\ lane'[l].at = "post" /\ lane'[l].posted = lane[l].posted
    BY <1>2, <1>3 DEF PostAgain
  <1>5. \A p : PostReturns(l, p) => /\ \A k \in Lane \ {l} : lane'[k] = lane[k]
                                    /\ lane'[l].at = "persist" /\ lane'[l].posted = p
    BY <1>3 DEF PostReturns
  <1>6. UNCHANGED <<row, rows, degraded, payload, pending, dump, drain, scan, lock, admin, head>>
    BY DEF PostReviewToGithub, queueVars
  <1>7. CASE PostPostponed(l)
    BY <1>1, <1>4, <1>6, <1>7 DEF PostPostponed
  <1>8. CASE PostFailed(l)
    <2>1. /\ reviews' = reviews \/ (reviews' = reviews + 1 /\ May("lost"))
          /\ PostAgain(l) \/ PostReturns(l, "no")
          /\ dead' = dead \/ dead' = dead \cup {l}
      BY <1>8 DEF PostFailed, Create
    <2>2. QED
      BY <1>1, <1>4, <1>5, <1>6, <2>1
  <1>9. CASE PostDone(l)
    BY <1>1, <1>5, <1>6, <1>9 DEF PostDone, Create
  <1>10. QED
    BY <1>7, <1>8, <1>9 DEF PostReviewToGithub

\* persist_results counts a usage row, stores the results, sets the flag, tries
\* again from its beginning or falls back to Redis.
LEMMA PersistEffect ==
  ASSUME TypeOK, NEW l \in Lane, PersistResults(l)
  PROVE  /\ \A k \in Lane \ {l} : lane'[k] = lane[k]
         /\ lane'[l].posted = lane[l].posted
         /\ \/ /\ lane[l].at = "persist" /\ lane'[l].at = "persist"
               /\ UNCHANGED <<row, pending, dump>>
            \/ /\ lane[l].at = "persist" /\ row' = Persisted(lane[l].posted)
               /\ lane'[l].at = (IF degraded = "yes" THEN "flag" ELSE "done")
               /\ UNCHANGED <<pending, dump>>
            \/ /\ lane[l].at = "flag" /\ row' = [row EXCEPT !.flag = "yes"]
               /\ lane'[l].at = "done"
               /\ UNCHANGED <<pending, dump>>
            \/ /\ May("pg_persist") /\ lane[l].at \in {"persist", "flag"}
               /\ lane'[l].at = "persist"
               /\ UNCHANGED <<row, pending, dump>>
            \/ /\ May("pg_persist") /\ lane[l].at \in {"persist", "flag"}
               /\ lane'[l].at = "done" /\ dump' = lane[l].posted
               /\ pending' = pending + 1 \/ (May("redis_push") /\ pending' = pending)
               /\ UNCHANGED row
         /\ UNCHANGED <<degraded, dead, payload, scan, lock, drain, admin, head, reviews>>
  <1> USE DEF TypeOK
  <1>1. lane[l] \in LaneState
    OBVIOUS
  <1>2. \A r : LaneGoes(l, r) => lane'[l] = r /\ \A k \in Lane \ {l} : lane'[k] = lane[k]
    BY DEF LaneGoes
  <1>3. UNCHANGED <<degraded, dead, payload, scan, lock, drain, admin, head, reviews>>
    BY DEF PersistResults
  <1>4. CASE PersistUsage(l)
    <2>1. /\ [lane[l] EXCEPT !.saved = lane[l].saved + 1].at = lane[l].at
          /\ [lane[l] EXCEPT !.saved = lane[l].saved + 1].posted = lane[l].posted
      BY <1>1 DEF LaneState
    <2>2. QED
      BY <1>2, <1>3, <1>4, <2>1 DEF PersistUsage
  <1>5. \A a : /\ [lane[l] EXCEPT !.at = a].at = a
               /\ [lane[l] EXCEPT !.at = a].posted = lane[l].posted
    BY <1>1 DEF LaneState
  <1>6. CASE PersistAnalysisResults(l)
    <2>1. lane'[l] = [lane[l] EXCEPT !.at = IF degraded = "yes" THEN "flag" ELSE "done"]
      BY <1>2, <1>6 DEF PersistAnalysisResults
    <2>2. /\ lane'[l].at = (IF degraded = "yes" THEN "flag" ELSE "done")
          /\ lane'[l].posted = lane[l].posted
      BY <1>5, <2>1
    <2>3. QED
      BY <1>2, <1>3, <1>6, <2>2 DEF PersistAnalysisResults
  <1>7. CASE PersistFlag(l)
    <2>1. lane'[l].at = "done" /\ lane'[l].posted = lane[l].posted
      BY <1>2, <1>5, <1>7 DEF PersistFlag
    <2>2. QED
      BY <1>2, <1>3, <1>7, <2>1 DEF PersistFlag
  <1>8. CASE PersistFailed(l)
    <2>1. CASE FallBackToRedis(l)
      <3>1. lane'[l].at = "done" /\ lane'[l].posted = lane[l].posted
        BY <1>2, <1>5, <2>1 DEF FallBackToRedis
      <3>2. QED
        BY <1>2, <1>3, <1>8, <2>1, <3>1 DEF PersistFailed, FallBackToRedis
    <2>2. CASE ~ FallBackToRedis(l)
      <3>1. LaneGoes(l, [lane[l] EXCEPT !.at = "persist", !.saved = 0,
                                        !.retries = lane[l].retries + 1])
        BY <1>8, <2>2 DEF PersistFailed
      <3>2. /\ [lane[l] EXCEPT !.at = "persist", !.saved = 0,
                               !.retries = lane[l].retries + 1].at = "persist"
            /\ [lane[l] EXCEPT !.at = "persist", !.saved = 0,
                               !.retries = lane[l].retries + 1].posted = lane[l].posted
        BY <1>1 DEF LaneState
      <3>3. QED
        BY <1>2, <1>3, <1>8, <2>2, <3>1, <3>2 DEF PersistFailed
    <2>3. QED
      BY <2>1, <2>2
  <1>9. QED
    BY <1>4, <1>6, <1>7, <1>8 DEF PersistResults

\* A redelivered message is executed from its beginning by an idle lane.
LEMMA RedeliverEffect ==
  ASSUME TypeOK, NEW l \in Lane, NEW k \in Lane, Redeliver(l, k)
  PROVE  /\ \A j \in Lane \ {k} : lane'[j] = lane[j]
         /\ lane[k].at = "idle" /\ lane'[k].posted = lane[l].posted
         /\ lane'[k].at \in {"post", "persist"}
         /\ UNCHANGED <<row, rows, degraded, dead, payload, pending, dump, drain, scan, lock,
                        admin, head, reviews>>
  <1> USE DEF TypeOK
  <1>1. lane[l] \in LaneState
    OBVIOUS
  <1>2. \A a : /\ [lane[l] EXCEPT !.at = a, !.saved = 0].at = a
               /\ [lane[l] EXCEPT !.at = a, !.saved = 0].posted = lane[l].posted
    BY <1>1 DEF LaneState
  <1>3. /\ lane'[k] = [lane[l] EXCEPT !.at = IF lane[l].at = "post" THEN "post" ELSE "persist",
                                      !.saved = 0]
        /\ \A j \in Lane \ {k} : lane'[j] = lane[j]
    BY DEF Redeliver, LaneGoes
  <1>4. /\ lane'[k].at = (IF lane[l].at = "post" THEN "post" ELSE "persist")
        /\ lane'[k].posted = lane[l].posted
    BY <1>2, <1>3
  <1>5. QED
    BY <1>3, <1>4 DEF Redeliver, queueVars

\* The drain takes an entry, drops it without a dump, stores it, or is over.
LEMMA DrainEffect ==
  ASSUME TypeOK, NEW d \in Drainer, DrainPendingPersistence(d)
  PROVE  /\ \A e \in Drainer \ {d} : drain'[e] = drain[e]
         /\ \/ /\ drain[d].at = "idle" /\ pending > 0 /\ pending' = pending - 1
               /\ \/ dump = "none" /\ drain'[d] = IdleDrain
                  \/ dump # "none" /\ drain'[d].at = "popped" /\ drain'[d].posted = dump
               /\ UNCHANGED <<row, dump>>
            \/ /\ drain[d].at = "popped" /\ row' = Persisted(drain[d].posted)
               /\ drain'[d].at = "usage" /\ drain'[d].posted = drain[d].posted
               /\ UNCHANGED <<pending, dump>>
            \/ /\ drain[d].at = "usage" /\ drain'[d].at = "usage"
               /\ drain'[d].posted = drain[d].posted
               /\ UNCHANGED <<row, pending, dump>>
            \/ /\ drain[d].at = "usage" /\ drain'[d] = IdleDrain /\ dump' = "none"
               /\ UNCHANGED <<row, pending>>
            \/ /\ May("pg_drain") /\ drain[d].at # "idle" /\ drain'[d] = IdleDrain
               /\ UNCHANGED <<row, pending, dump>>
         /\ UNCHANGED <<lane, degraded, dead, payload, scan, lock, admin, head, reviews>>
  <1> USE DEF TypeOK
  <1>1. drain[d] \in DrainState
    OBVIOUS
  <1>2. \A r : DrainGoes(d, r) => drain'[d] = r /\ \A e \in Drainer \ {d} : drain'[e] = drain[e]
    BY DEF DrainGoes
  <1>3. UNCHANGED <<lane, degraded, dead, payload, scan, lock, admin, head, reviews>>
    BY DEF DrainPendingPersistence
  <1>4. CASE DrainPop(d)
    BY <1>2, <1>3, <1>4 DEF DrainPop
  <1>5. CASE DrainPersist(d)
    <2>1. /\ [drain[d] EXCEPT !.at = "usage"].at = "usage"
          /\ [drain[d] EXCEPT !.at = "usage"].posted = drain[d].posted
      BY <1>1 DEF DrainState
    <2>2. QED
      BY <1>2, <1>3, <1>5, <2>1 DEF DrainPersist
  <1>6. CASE DrainUsage(d)
    <2>1. /\ [drain[d] EXCEPT !.saved = drain[d].saved + 1].at = drain[d].at
          /\ [drain[d] EXCEPT !.saved = drain[d].saved + 1].posted = drain[d].posted
      BY <1>1 DEF DrainState
    <2>2. QED
      BY <1>2, <1>3, <1>6, <2>1 DEF DrainUsage
  <1>7. CASE DrainFailed(d)
    BY <1>2, <1>3, <1>7 DEF DrainFailed
  <1>8. QED
    BY <1>4, <1>5, <1>6, <1>7 DEF DrainPendingPersistence

\* The fields of the row after each kind of update.
LEMMA RowFields ==
  ASSUME TypeOK, NEW p
  PROVE  /\ Persisted(p).status = "completed" /\ Persisted(p).posted = p
         /\ Persisted(p).flag = row.flag
         /\ [row EXCEPT !.flag = p].status = row.status
         /\ [row EXCEPT !.flag = p].posted = row.posted
         /\ [row EXCEPT !.flag = p].flag = p
         /\ [row EXCEPT !.posted = p].status = row.status
         /\ [row EXCEPT !.posted = p].posted = p
         /\ [row EXCEPT !.posted = p].flag = row.flag
  <1>1. row \in Row
    BY DEF TypeOK, Row
  <1>2. QED
    BY <1>1 DEF Row, Persisted

\* A scan or an admin call leaves the chain, the queue and the row's status alone.
LEMMA CallerEffect ==
  ASSUME TypeOK,
         \/ \E s \in Scanner : ScanUnpostedReviews(s)
         \/ \E a \in Admin : ExecuteRetryPosting(a)
         \/ Reanalyse \/ HeadMoves \/ PayloadExpires \/ UNCHANGED vars
  PROVE  /\ UNCHANGED <<lane, degraded, pending, dump, drain>>
         /\ row'.status = row.status
  <1>1. CASE \E s \in Scanner : ScanUnpostedReviews(s)
    <2>1. row' = row \/ row' = [row EXCEPT !.posted = "yes"]
      BY <1>1 DEF ScanUnpostedReviews, ScanList, ScanLock, ScanLookup, ScanPost, ScanCommit,
                  ScanKilled, LockExpires
    <2>2. row'.status = row.status
      BY <2>1 DEF TypeOK
    <2>3. QED
      BY <1>1, <2>2 DEF ScanUnpostedReviews, chainVars, queueVars
  <1>2. CASE \E a \in Admin : ExecuteRetryPosting(a)
    <2>1. \/ row' = row \/ row' = [row EXCEPT !.posted = "yes"]
          \/ row' = [row EXCEPT !.flag = "no"]
      BY <1>2 DEF ExecuteRetryPosting, AdminLookup, AdminPost, AdminCommit
    <2>2. row'.status = row.status
      BY <2>1 DEF TypeOK
    <2>3. QED
      BY <1>2, <2>2 DEF ExecuteRetryPosting, chainVars, queueVars
  <1>3. CASE Reanalyse \/ HeadMoves \/ PayloadExpires \/ UNCHANGED vars
    <2>1. row' = row \/ row' = [row EXCEPT !.flag = "no"]
      BY <1>3 DEF Reanalyse, HeadMoves, PayloadExpires, vars
    <2>2. row'.status = row.status
      BY <2>1 DEF TypeOK
    <2>3. QED
      BY <1>3, <2>2 DEF Reanalyse, HeadMoves, PayloadExpires, vars, chainVars, queueVars
  <1>4. QED
    BY <1>1, <1>2, <1>3

-----------------------------------------------------------------------------
\* The inductive form of FallbackKept. Until the run is completed, results that
\* went to Redis are queued with their dump or in the hands of a drain; nothing
\* has been told that they are stored.
ResultsKept ==
    /\ lane[FirstLane].at # "idle"
    /\ row.status = "running" =>
         /\ \A l \in Lane : lane[l].at # "flag"
         /\ \A d \in Drainer : drain[d].at # "usage"
         /\ pending > 0 => dump # "none"
         /\ (\E l \in Lane : lane[l].at = "done")
              => pending > 0 \/ \E d \in Drainer : drain[d].at = "popped"

\* Every step keeps the results.
LEMMA ResultsKeptStep ==
  ASSUME "redis_push" \notin Faults, "pg_drain" \notin Faults,
         TypeOK, ResultsKept, [Next]_vars
  PROVE  ResultsKept'
  <1>1. pending \in Nat /\ row.status \in {"running", "completed"} /\ dump \in {"none", "yes", "no"}
    BY DEF TypeOK, YesNo
  <1>2. ASSUME NEW l \in Lane, PostReviewToGithub(l) PROVE ResultsKept'
    <2>1. /\ \A k \in Lane \ {l} : lane'[k] = lane[k]
          /\ lane[l].at = "post" /\ lane'[l].at \in {"post", "persist"}
          /\ UNCHANGED <<row, pending, dump, drain>>
      BY <1>2, PostEffect
    <2>2. \A k \in Lane : lane'[k].at \in {"done", "flag", "idle"} => lane'[k].at = lane[k].at
      BY <2>1
    <2>3. QED
      BY <2>1, <2>2 DEF ResultsKept
  <1>3. ASSUME NEW l \in Lane, PersistResults(l) PROVE ResultsKept'
    <2>1. /\ \A k \in Lane \ {l} : lane'[k] = lane[k]
          /\ drain' = drain
      BY <1>3, PersistEffect
    <2>2. CASE row' = row /\ pending' = pending /\ dump' = dump /\ lane'[l].at = "persist"
      <3>1. \A k \in Lane : lane'[k].at \in {"done", "flag", "idle"} => lane'[k].at = lane[k].at
        BY <2>1, <2>2
      <3>2. QED
        BY <2>1, <2>2, <3>1 DEF ResultsKept
    <2>3. CASE row'.status = "completed" /\ lane'[l].at \in {"flag", "done"}
      BY <2>1, <2>3 DEF ResultsKept
    <2>4. CASE row' = row /\ pending' = pending + 1 /\ dump' = lane[l].posted /\ lane'[l].at = "done"
      <3>1. dump' # "none" /\ pending' > 0
        <4>1. lane[l] \in LaneState
          BY DEF TypeOK
        <4>2. lane[l].posted \in YesNo
          BY <4>1 DEF LaneState
        <4>3. QED
          BY <1>1, <2>4, <4>2 DEF YesNo
      <3>2. QED
        BY <2>1, <2>4, <3>1 DEF ResultsKept
    <2>5. lane[l].at = "flag" => row.status = "completed"
      BY <1>1 DEF ResultsKept
    <2>6. Persisted(lane[l].posted).status = "completed"
      BY RowFields
    <2>7. [row EXCEPT !.flag = "yes"].status = row.status
      BY RowFields
    <2>8. \/ row' = row /\ pending' = pending /\ dump' = dump /\ lane'[l].at = "persist"
          \/ row' = Persisted(lane[l].posted) /\ lane'[l].at \in {"flag", "done"}
          \/ row' = [row EXCEPT !.flag = "yes"] /\ lane[l].at = "flag" /\ lane'[l].at = "done"
          \/ row' = row /\ pending' = pending + 1 /\ dump' = lane[l].posted /\ lane'[l].at = "done"
      BY <1>3, PersistEffect DEF May
    <2>9. QED
      BY <2>2, <2>3, <2>4, <2>5, <2>6, <2>7, <2>8
  <1>4. ASSUME NEW l \in Lane, NEW k \in Lane, Redeliver(l, k) PROVE ResultsKept'
    <2>1. /\ \A j \in Lane \ {k} : lane'[j] = lane[j]
          /\ lane'[k].at \in {"post", "persist"} /\ lane[k].at = "idle"
          /\ UNCHANGED <<row, pending, dump, drain>>
      BY <1>4, RedeliverEffect
    <2>2. \A j \in Lane : lane'[j].at \in {"done", "flag", "idle"} => lane'[j].at = lane[j].at
      BY <2>1
    <2>3. \A j \in Lane : lane[j].at = "done" => lane'[j].at = "done"
      BY <2>1
    <2>4. QED
      BY <2>1, <2>2, <2>3 DEF ResultsKept
  <1>5. ASSUME NEW d \in Drainer, DrainPendingPersistence(d) PROVE ResultsKept'
    <2>1. /\ \A e \in Drainer \ {d} : drain'[e] = drain[e]
          /\ lane' = lane
      BY <1>5, DrainEffect
    <2>2. CASE row'.status = "completed"
      BY <2>1, <2>2 DEF ResultsKept
    <2>3. CASE row.status = "running" /\ row' = row
      <3>1. /\ drain[d].at = "idle" /\ pending > 0 /\ pending' = pending - 1
            /\ drain'[d].at = "popped" /\ dump' = dump
        BY <1>5, <2>3, DrainEffect, RowFields DEF ResultsKept, May
      <3>2. QED
        BY <1>1, <2>1, <2>3, <3>1 DEF ResultsKept
    <2>4. row' = row \/ row'.status = "completed"
      BY <1>5, DrainEffect, RowFields
    <2>5. QED
      BY <1>1, <2>2, <2>3, <2>4
  <1>6. CASE \/ \E s \in Scanner : ScanUnpostedReviews(s)
             \/ \E a \in Admin : ExecuteRetryPosting(a)
             \/ Reanalyse \/ HeadMoves \/ PayloadExpires \/ UNCHANGED vars
    <2>1. UNCHANGED <<lane, pending, dump, drain>> /\ row'.status = row.status
      BY <1>6, CallerEffect
    <2>2. QED
      BY <2>1 DEF ResultsKept
  <1>7. QED
    BY <1>2, <1>3, <1>4, <1>5, <1>6 DEF Next

\* Branch G: a run whose chain is over and whose queue is drained has its results
\* in PostgreSQL, for any number of redelivered chains, overlapping drains, scans
\* and admin calls, unless the push to the Redis queue fails or the drain does
\* after it took the entry.
THEOREM DeliveryFallbackKept ==
  ASSUME "redis_push" \notin Faults, "pg_drain" \notin Faults
  PROVE  Spec => []FallbackKept
  <1>1. Init => ResultsKept
    <2> SUFFICES ASSUME Init PROVE ResultsKept
      OBVIOUS
    <2>1. lane[FirstLane].at = "post" /\ \A l \in Lane : lane[l].at \in {"post", "idle"}
      BY DEF Init, NewLane
    <2>2. pending = 0 /\ \A d \in Drainer : drain[d].at = "idle"
      BY DEF Init, IdleDrain
    <2>3. QED
      BY <2>1, <2>2 DEF ResultsKept
  <1>2. TypeOK /\ ResultsKept /\ [Next]_vars => ResultsKept'
    BY ResultsKeptStep
  <1>3. TypeOK /\ ResultsKept => FallbackKept
    <2> SUFFICES ASSUME TypeOK, ResultsKept, ChainOver, Drained, row.status # "completed"
                 PROVE  FALSE
      BY DEF FallbackKept
    <2>1. row.status = "running"
      BY DEF TypeOK
    <2>2. lane[FirstLane].at = "done"
      BY DEF ResultsKept, ChainOver
    <2>3. QED
      BY <2>1, <2>2 DEF ResultsKept, Drained
  <1>4. QED
    BY <1>1, <1>2, <1>3, DeliveryTypeOK, PTL DEF Spec

-----------------------------------------------------------------------------
\* The letter of a follow-up does not occur.
NoFollowup ==
    /\ "followup" \notin dead
    /\ \A s \in Scanner : scan[s].target # {"followup"}
    /\ \A a \in Admin : admin[a].target # {"followup"}

\* No step claims a review that GitHub did not create.
LEMMA PostedIsRealStep ==
  ASSUME "followup" \notin Faults, TypeOK, NoFollowup, PostedIsReal, [Next]_vars
  PROVE  NoFollowup' /\ PostedIsReal'
  <1>1. reviews \in Nat
    BY DEF TypeOK
  <1>2. ASSUME NEW l \in Lane, PostReviewToGithub(l) PROVE NoFollowup' /\ PostedIsReal'
    <2>1. /\ \A k \in Lane \ {l} : lane'[k] = lane[k]
          /\ \/ lane'[l].posted = lane[l].posted
             \/ lane'[l].posted = "no"
             \/ lane'[l].posted = "yes" /\ reviews' = reviews + 1
          /\ reviews' = reviews \/ reviews' = reviews + 1
          /\ dead' = dead \/ dead' = dead \cup {l}
          /\ UNCHANGED <<row, dump, drain, scan, admin>>
      BY <1>2, PostEffect
    <2>2. NoFollowup'
      BY <2>1 DEF NoFollowup
    <2>3. PostedIsReal'
      BY <1>1, <2>1 DEF PostedIsReal
    <2>4. QED
      BY <2>2, <2>3
  <1>3. ASSUME NEW l \in Lane, PersistResults(l) PROVE NoFollowup' /\ PostedIsReal'
    <2>1. /\ \A k \in Lane \ {l} : lane'[k] = lane[k]
          /\ lane'[l].posted = lane[l].posted
          /\ UNCHANGED <<dead, scan, admin, drain, reviews>>
      BY <1>3, PersistEffect
    <2>2. /\ \/ row' = row \/ row' = Persisted(lane[l].posted)
             \/ row' = [row EXCEPT !.flag = "yes"]
          /\ dump' = dump \/ dump' = lane[l].posted
      BY <1>3, PersistEffect
    <2>3. Persisted(lane[l].posted).posted = lane[l].posted
      BY RowFields
    <2>4. [row EXCEPT !.flag = "yes"].posted = row.posted
      BY DEF TypeOK
    <2>5. QED
      BY <2>1, <2>2, <2>3, <2>4 DEF NoFollowup, PostedIsReal
  <1>4. ASSUME NEW l \in Lane, NEW k \in Lane, Redeliver(l, k) PROVE NoFollowup' /\ PostedIsReal'
    <2>1. /\ \A j \in Lane \ {k} : lane'[j] = lane[j]
          /\ lane'[k].posted = lane[l].posted
          /\ UNCHANGED <<row, dead, dump, drain, scan, admin, reviews>>
      BY <1>4, RedeliverEffect
    <2>2. QED
      BY <2>1 DEF NoFollowup, PostedIsReal
  <1>5. ASSUME NEW d \in Drainer, DrainPendingPersistence(d) PROVE NoFollowup' /\ PostedIsReal'
    <2>1. /\ \A e \in Drainer \ {d} : drain'[e] = drain[e]
          /\ UNCHANGED <<lane, dead, scan, admin, reviews>>
      BY <1>5, DrainEffect
    <2>2. IdleDrain.posted = "no"
      BY DEF IdleDrain
    <2>3. /\ \/ drain'[d] = IdleDrain
             \/ drain'[d].posted = drain[d].posted
             \/ drain'[d].posted = dump /\ dump # "none"
          /\ row' = row \/ row' = Persisted(drain[d].posted)
          /\ dump' = dump \/ dump' = "none"
      BY <1>5, DrainEffect
    <2>4. Persisted(drain[d].posted).posted = drain[d].posted
      BY RowFields
    <2>5. dump \in {"none", "yes", "no"}
      BY DEF TypeOK, YesNo
    <2>6. QED
      BY <2>1, <2>2, <2>3, <2>4, <2>5 DEF NoFollowup, PostedIsReal
  <1>6. \A t \in PayloadSources : t # {"followup"}
    BY DEF PayloadSources, NoFollowup
  <1>7. ASSUME NEW s \in Scanner, ScanUnpostedReviews(s) PROVE NoFollowup' /\ PostedIsReal'
    <2>1. UNCHANGED <<lane, dump, drain, admin>>
      BY <1>7 DEF ScanUnpostedReviews, chainVars, queueVars
    <2>2. PICK a, t : ScanGoes(s, a, t) /\ t # {"followup"} /\ (a = "sent" => reviews' = reviews + 1)
      BY <1>6, <1>7 DEF ScanUnpostedReviews, ScanList, ScanLock, ScanLookup, ScanPost, ScanCommit,
            ScanKilled, LockExpires, ScanLeaves, CreateFrom, Create, NoFollowup
    <2>3. /\ scan'[s] = [at |-> a, target |-> t]
          /\ \A u \in Scanner \ {s} : scan'[u] = scan[u]
      BY <2>2 DEF ScanGoes, TypeOK
    <2>4. dead' \subseteq dead
      BY <1>7 DEF ScanUnpostedReviews, ScanList, ScanLock, ScanLookup, ScanPost, ScanCommit,
            ScanKilled, LockExpires
    <2>5. reviews' = reviews \/ reviews' = reviews + 1
      BY <1>7 DEF ScanUnpostedReviews, ScanList, ScanLock, ScanLookup, ScanPost, ScanCommit,
            ScanKilled, LockExpires, CreateFrom, Create
    <2>6. row' = row \/ scan[s].at = "sent"
      BY <1>7 DEF ScanUnpostedReviews, ScanList, ScanLock, ScanLookup, ScanPost, ScanCommit,
            ScanKilled, LockExpires
    <2>7. NoFollowup'
      BY <2>1, <2>2, <2>3, <2>4 DEF NoFollowup
    <2>8. PostedIsReal'
      BY <1>1, <2>1, <2>2, <2>3, <2>5, <2>6 DEF PostedIsReal
    <2>9. QED
      BY <2>7, <2>8
  <1>8. ASSUME NEW a \in Admin, ExecuteRetryPosting(a) PROVE NoFollowup' /\ PostedIsReal'
    <2>1. UNCHANGED <<lane, dump, drain, scan>>
      BY <1>8 DEF ExecuteRetryPosting, chainVars, queueVars
    <2>2. \A r : AdminGoes(a, r) => admin'[a] = r /\ \A b \in Admin \ {a} : admin'[b] = admin[b]
      BY DEF AdminGoes, TypeOK
    <2>3. admin[a] \in AdminState
      BY DEF TypeOK
    <2>4. /\ [admin[a] EXCEPT !.at = "sent"].target = admin[a].target
          /\ IdleAdmin.at = "idle" /\ IdleAdmin.target = {}
      BY <2>3 DEF AdminState, IdleAdmin
    <2>5. /\ \A b \in Admin \ {a} : admin'[b] = admin[b]
          /\ admin'[a].target # {"followup"}
          /\ admin'[a].at = "sent" => reviews' = reviews + 1
          /\ reviews' = reviews \/ reviews' = reviews + 1
          /\ dead' \subseteq dead
          /\ row' = row \/ admin[a].at = "sent"
      <3>1. CASE AdminLookup(a)
        <4>1. PICK t \in PayloadSources : \E f :
                AdminGoes(a, [at |-> "ready", target |-> t, followup |-> f])
          BY <3>1 DEF AdminLookup
        <4>2. \E f : admin'[a] = [at |-> "ready", target |-> t, followup |-> f]
          BY <2>2, <4>1
        <4>3. admin'[a].at = "ready" /\ admin'[a].target = t
          BY <4>2
        <4>4. QED
          BY <1>6, <2>2, <3>1, <4>1, <4>3 DEF AdminLookup
      <3>2. CASE AdminPost(a)
        <4>1. /\ \/ AdminGoes(a, [admin[a] EXCEPT !.at = "sent"]) /\ CreateFrom(admin[a].target)
                 \/ AdminGoes(a, IdleAdmin)
              /\ reviews' = reviews \/ reviews' = reviews + 1
              /\ UNCHANGED <<row, dead>>
          BY <3>2 DEF AdminPost, CreateFrom, Create
        <4>2. CreateFrom(admin[a].target) => reviews' = reviews + 1
          BY DEF NoFollowup, CreateFrom, Create
        <4>3. CASE AdminGoes(a, IdleAdmin)
          BY <2>2, <2>4, <4>1, <4>3
        <4>4. CASE AdminGoes(a, [admin[a] EXCEPT !.at = "sent"]) /\ CreateFrom(admin[a].target)
          <5>1. admin'[a].target = admin[a].target
            BY <2>2, <2>4, <4>4
          <5>2. QED
            BY <2>2, <4>1, <4>2, <4>4, <5>1 DEF NoFollowup
        <4>5. QED
          BY <4>1, <4>3, <4>4
      <3>3. CASE AdminCommit(a)
        BY <2>2, <2>4, <3>3 DEF AdminCommit
      <3>4. QED
        BY <1>8, <3>1, <3>2, <3>3 DEF ExecuteRetryPosting
    <2>6. NoFollowup'
      BY <2>1, <2>5 DEF NoFollowup
    <2>7. PostedIsReal'
      BY <1>1, <2>1, <2>5 DEF PostedIsReal
    <2>8. QED
      BY <2>6, <2>7
  <1>9. CASE Reanalyse \/ HeadMoves \/ PayloadExpires \/ UNCHANGED vars
    <2>1. UNCHANGED <<lane, row, dump, drain, scan, admin, reviews, dead>>
      BY <1>9 DEF Reanalyse, HeadMoves, PayloadExpires, vars, chainVars, queueVars, May
    <2>2. QED
      BY <2>1 DEF NoFollowup, PostedIsReal
  <1>10. QED
    BY <1>2, <1>3, <1>4, <1>5, <1>7, <1>8, <1>9 DEF Next

\* Neither the row nor a copy of the results on its way to it claims a review that
\* is not on GitHub: for any number of redeliveries, scans, drains and admin calls,
\* and for every fault, unless the letter of a follow-up is taken for the review's.
THEOREM DeliveryPostedIsReal ==
  ASSUME "followup" \notin Faults
  PROVE  Spec => []PostedIsReal
  <1>1. Init => NoFollowup /\ PostedIsReal
    <2> SUFFICES ASSUME Init PROVE NoFollowup /\ PostedIsReal
      OBVIOUS
    <2>1. \A l \in Lane : lane[l].posted = "no"
      BY DEF Init, NewLane
    <2>2. \A s \in Scanner : scan[s].at = "idle" /\ scan[s].target = {}
      BY DEF Init, IdleScan
    <2>3. \A a \in Admin : admin[a].at = "idle" /\ admin[a].target = {}
      BY DEF Init, IdleAdmin
    <2>4. \A d \in Drainer : drain[d].posted = "no"
      BY DEF Init, IdleDrain
    <2>5. row.posted = "no" /\ dump = "none" /\ dead = {}
      BY DEF Init
    <2>6. QED
      BY <2>1, <2>2, <2>3, <2>4, <2>5 DEF NoFollowup, PostedIsReal
  <1>2. TypeOK /\ (NoFollowup /\ PostedIsReal) /\ [Next]_vars => (NoFollowup /\ PostedIsReal)'
    BY PostedIsRealStep
  <1>3. QED
    BY <1>1, <1>2, DeliveryTypeOK, PTL DEF Spec

-----------------------------------------------------------------------------
\* What "nothing overlaps and no answer is lost" means for the faults: messages
\* are not redelivered, an answer of GitHub arrives, a scan is neither killed nor
\* early, and its commit succeeds; one scan runs at a time and nobody uses the
\* admin endpoint.
Undisturbed ==
    /\ {"crash", "lost", "kill", "slow", "pg_scan"} \cap Faults = {}
    /\ \A s, t \in Scanner : s = t
    /\ Admin = {}

\* The results are still in the hands of the chain.
InChain == lane[FirstLane].at \in {"post", "persist", "flag"}

\* The inductive form of OneReview: while a review exists, whoever may still
\* write the row or look at it knows of the review; a scan has begun only after
\* everybody else is through.
ReviewKnown ==
    /\ reviews <= 1
    /\ \A l \in Lane \ {FirstLane} : lane[l].at = "idle"
    /\ lane[FirstLane].at = "post" => reviews = 0 /\ row.status = "running"
    /\ InChain => Drained
    /\ reviews > 0 =>
         /\ lane[FirstLane].at \in {"persist", "flag"} => lane[FirstLane].posted # "no"
         /\ pending > 0 => dump # "no"
         /\ \A d \in Drainer : drain[d].at = "popped" => drain[d].posted # "no"
         /\ row.status = "completed" /\ (\A s \in Scanner : scan[s].at # "sent")
              => row.posted # "no"
    /\ \A s \in Scanner : scan[s].at # "idle" =>
         /\ lane[FirstLane].at \in {"idle", "done"} /\ Drained
         /\ row.status = "completed" /\ row.posted = "no"

\* The steps of the chain and of the drain keep the review known.
LEMMA ReviewKnownChain ==
  ASSUME Undisturbed, TypeOK, ReviewKnown, NEW l \in Lane,
         PostReviewToGithub(l) \/ PersistResults(l) \/ \E k \in Lane : Redeliver(l, k)
  PROVE  ReviewKnown'
  <1>1. l = FirstLane
    <2>1. lane[l].at # "idle"
      BY PostEffect, PersistEffect DEF Redeliver, Undisturbed, May
    <2>2. QED
      BY <2>1 DEF ReviewKnown
  <1>2. ~ \E k \in Lane : Redeliver(l, k)
    BY DEF Redeliver, Undisturbed, May
  <1>3. reviews \in Nat /\ pending \in Nat
    BY DEF TypeOK
  <1>4. ASSUME PostReviewToGithub(l) PROVE ReviewKnown'
    <2>1. /\ \A k \in Lane \ {FirstLane} : lane'[k] = lane[k]
          /\ lane[FirstLane].at = "post"
          /\ UNCHANGED <<row, pending, dump, drain, scan>>
      BY <1>1, <1>4, PostEffect
    <2>2. \/ lane'[FirstLane].at = "post" /\ reviews' = reviews
          \/ lane'[FirstLane].at = "persist" /\ reviews' = reviews
          \/ /\ lane'[FirstLane].at = "persist" /\ lane'[FirstLane].posted = "yes"
             /\ reviews' = reviews + 1
      BY <1>1, <1>4, PostEffect DEF Undisturbed, May
    <2>3. Drained /\ reviews = 0 /\ row.status = "running" /\ \A s \in Scanner : scan[s].at = "idle"
      BY <2>1 DEF ReviewKnown, InChain
    <2>4. Drained' /\ pending' = 0 /\ \A d \in Drainer : drain'[d].at # "popped"
      BY <2>1, <2>3 DEF Drained
    <2>5. QED
      BY <1>3, <2>1, <2>2, <2>3, <2>4 DEF ReviewKnown
  <1>5. ASSUME PersistResults(l) PROVE ReviewKnown'
    <2>1. /\ \A k \in Lane \ {FirstLane} : lane'[k] = lane[k]
          /\ lane'[FirstLane].posted = lane[FirstLane].posted
          /\ lane[FirstLane].at \in {"persist", "flag"}
          /\ lane'[FirstLane].at \in {"persist", "flag", "done"}
          /\ UNCHANGED <<drain, scan, reviews>>
      BY <1>1, <1>5, PersistEffect
    <2>2. /\ Drained /\ pending = 0 /\ \A d \in Drainer : drain[d].at = "idle"
          /\ \A s \in Scanner : scan[s].at = "idle"
      BY <2>1 DEF ReviewKnown, InChain, Drained
    <2>3. /\ \/ row' = row
             \/ row' = Persisted(lane[FirstLane].posted)
             \/ row' = [row EXCEPT !.flag = "yes"]
          /\ \/ pending' = pending
             \/ lane'[FirstLane].at = "done" /\ dump' = lane[FirstLane].posted
      BY <1>1, <1>5, PersistEffect
    <2>4. Persisted(lane[FirstLane].posted).posted = lane[FirstLane].posted
      BY RowFields
    <2>5. /\ [row EXCEPT !.flag = "yes"].posted = row.posted
          /\ [row EXCEPT !.flag = "yes"].status = row.status
      BY DEF TypeOK
    <2>6. reviews' > 0 /\ row'.status = "completed" => row'.posted # "no"
      BY <2>1, <2>2, <2>3, <2>4, <2>5 DEF ReviewKnown
    <2>7. InChain' => Drained'
      BY <2>1, <2>2, <2>3 DEF InChain, Drained
    <2>8. reviews' > 0 =>
            /\ lane'[FirstLane].at \in {"persist", "flag"} => lane'[FirstLane].posted # "no"
            /\ pending' > 0 => dump' # "no"
      BY <2>1, <2>2, <2>3 DEF ReviewKnown
    <2>9. QED
      BY <2>1, <2>2, <2>6, <2>7, <2>8 DEF ReviewKnown
  <1>6. QED
    BY <1>2, <1>4, <1>5

\* A drain keeps what rows and reviews know of each other.
LEMMA ReviewKnownDrain ==
  ASSUME TypeOK, ReviewKnown, NEW d \in Drainer, DrainPendingPersistence(d)
  PROVE  ReviewKnown'
  <1>1. /\ \A e \in Drainer \ {d} : drain'[e] = drain[e]
        /\ UNCHANGED <<lane, scan, reviews>>
    BY DrainEffect
  <1>2. (pending \in Nat /\ pending > 0) \/ drain[d].at # "idle"
    BY DrainEffect DEF TypeOK
  <1>3. ~ InChain /\ \A s \in Scanner : scan[s].at = "idle"
    BY <1>2 DEF ReviewKnown, Drained
  <1>4. ASSUME reviews > 0
        PROVE  /\ pending' > 0 => dump' # "no"
               /\ drain'[d].at = "popped" => drain'[d].posted # "no"
               /\ row'.status = "completed" => row'.posted # "no"
    <2>1. Persisted(drain[d].posted).posted = drain[d].posted
      BY RowFields
    <2>2. IdleDrain.at = "idle"
      BY DEF IdleDrain
    <2>3. pending \in Nat
      BY DEF TypeOK
    <2>4. /\ pending > 0 => dump # "no"
          /\ drain[d].at = "popped" => drain[d].posted # "no"
          /\ row.status = "completed" => row.posted # "no"
      BY <1>3, <1>4 DEF ReviewKnown
    <2>5. pending' > 0 => dump' # "no"
      BY <2>3, <2>4, DrainEffect
    <2>6. drain'[d].at = "popped" => drain'[d].posted # "no"
      BY <2>2, <2>4, DrainEffect
    <2>7. row' = row \/ (drain[d].at = "popped" /\ row' = Persisted(drain[d].posted))
      BY DrainEffect
    <2>8. QED
      BY <2>1, <2>4, <2>5, <2>6, <2>7
  <1>5. ~ InChain' /\ lane[FirstLane].at # "post"
    BY <1>1, <1>3 DEF InChain
  <1>6. QED
    BY <1>1, <1>3, <1>4, <1>5 DEF ReviewKnown

\* A scan keeps it known too: it creates a review only when there is none.
LEMMA ReviewKnownScan ==
  ASSUME Undisturbed, TypeOK, ReviewKnown, NEW s \in Scanner, ScanUnpostedReviews(s)
  PROVE  ReviewKnown'
  <1>1. UNCHANGED <<lane, pending, dump, drain>>
    BY DEF ScanUnpostedReviews, chainVars, queueVars
  <1>2. Drained' = Drained /\ InChain' = InChain
    BY <1>1 DEF Drained, InChain
  <1>3. \A t \in Scanner : t = s
    BY DEF Undisturbed
  <1>4. reviews \in Nat
    BY DEF TypeOK
  <1>5. \A a, t : ScanGoes(s, a, t) => scan'[s].at = a
    BY DEF ScanGoes, TypeOK
  <1>6. FirstLane \in Lane
    OBVIOUS
  <1>7. CASE ScanList(s)
    <2>1. /\ Drained /\ lane[FirstLane].at \in {"idle", "done"}
          /\ row.status = "completed" /\ row.posted = "no"
          /\ scan[s].at = "idle" /\ scan'[s].at = "listed" /\ UNCHANGED <<row, reviews>>
      BY <1>5, <1>6, <1>7 DEF ScanList, ChainOver, Undisturbed, May
    <2>2. QED
      BY <1>1, <1>2, <1>3, <2>1 DEF ReviewKnown
  <1>8. CASE /\ row' = row /\ reviews' = reviews
             /\ scan[s].at \notin {"idle", "sent"} /\ scan'[s].at # "sent"
    BY <1>1, <1>2, <1>3, <1>8 DEF ReviewKnown
  <1>9. CASE /\ row' = row /\ (reviews' = reviews \/ reviews' = reviews + 1)
             /\ scan[s].at = "ready" /\ scan'[s].at = "sent"
    <2>1. /\ reviews = 0 /\ Drained /\ ~ InChain
          /\ row.status = "completed" /\ row.posted = "no"
      BY <1>3, <1>4, <1>9 DEF ReviewKnown, InChain
    <2>2. pending = 0 /\ \A d \in Drainer : drain[d].at # "popped"
      BY <2>1 DEF Drained
    <2>3. QED
      BY <1>1, <1>2, <1>3, <1>9, <2>1, <2>2 DEF ReviewKnown, InChain
  <1>10. CASE /\ row' = [row EXCEPT !.posted = "yes"] /\ reviews' = reviews
              /\ scan[s].at = "sent" /\ scan'[s].at = "idle"
    <2>1. row'.posted = "yes" /\ row'.status = row.status
      BY <1>10 DEF TypeOK
    <2>2. QED
      BY <1>1, <1>2, <1>3, <1>10, <2>1 DEF ReviewKnown
  <1>11. ScanKilled(s) => FALSE
    BY DEF ScanKilled, Undisturbed, May
  <1>12. CASE ScanLock(s) \/ ScanLookup(s) \/ LockExpires(s)
    BY <1>5, <1>8, <1>12 DEF ScanLock, ScanLookup, LockExpires, ScanLeaves
  <1>13. CASE ScanPost(s)
    BY <1>5, <1>8, <1>9, <1>13 DEF ScanPost, ScanLeaves, CreateFrom, Create, Undisturbed, May
  <1>14. CASE ScanCommit(s)
    BY <1>5, <1>10, <1>14 DEF ScanCommit, ScanLeaves, Undisturbed, May
  <1>15. QED
    BY <1>7, <1>11, <1>12, <1>13, <1>14 DEF ScanUnpostedReviews

\* The inductive invariant of one review.
LEMMA ReviewKnownAlways ==
  ASSUME Undisturbed
  PROVE  Spec => []ReviewKnown
  <1>1. Init => ReviewKnown
    <2> SUFFICES ASSUME Init PROVE ReviewKnown
      OBVIOUS
    <2>1. \A l \in Lane \ {FirstLane} : lane[l].at = "idle"
      BY DEF Init, NewLane
    <2>2. Drained
      BY DEF Init, Drained, IdleDrain
    <2>3. row.status = "running" /\ reviews = 0
      BY DEF Init
    <2>4. \A s \in Scanner : scan[s].at = "idle"
      BY DEF Init, IdleScan
    <2>5. QED
      BY <2>1, <2>2, <2>3, <2>4 DEF ReviewKnown
  <1>2. TypeOK /\ ReviewKnown /\ [Next]_vars => ReviewKnown'
    <2> SUFFICES ASSUME TypeOK, ReviewKnown, [Next]_vars PROVE ReviewKnown'
      OBVIOUS
    <2>1. CASE Reanalyse \/ HeadMoves \/ PayloadExpires \/ UNCHANGED vars
      <3>1. UNCHANGED <<lane, pending, dump, drain, scan, reviews>>
        BY <2>1 DEF Reanalyse, HeadMoves, PayloadExpires, vars, chainVars, queueVars
      <3>2. row' = row \/ row' = [row EXCEPT !.flag = "no"]
        BY <2>1 DEF Reanalyse, HeadMoves, PayloadExpires, vars
      <3>3. row'.status = row.status /\ row'.posted = row.posted
        BY <3>2 DEF TypeOK
      <3>4. QED
        BY <3>1, <3>3 DEF ReviewKnown, InChain, Drained
    <2>2. QED
      BY <2>1, ReviewKnownChain, ReviewKnownDrain, ReviewKnownScan DEF Next, Undisturbed
  <1>3. QED
    BY <1>1, <1>2, DeliveryTypeOK, PTL DEF Spec

\* The chain with its retries, the drains and the scanner together create at most
\* one review, whatever GitHub, PostgreSQL and Redis refuse and whenever, as long
\* as nothing overlaps and no answer is lost.
THEOREM DeliveryOneReview ==
  ASSUME Undisturbed
  PROVE  Spec => []OneReview
  <1>1. ReviewKnown => OneReview
    BY DEF ReviewKnown, OneReview
  <1>2. QED
    BY <1>1, ReviewKnownAlways, PTL

\* Under the same assumption, and without follow-up letters, the row of a completed
\* run says whether its review is on GitHub.
THEOREM DeliveryRecordTruthful ==
  ASSUME Undisturbed, "followup" \notin Faults
  PROVE  Spec => []RecordTruthful
  <1>1. TypeOK /\ ReviewKnown /\ PostedIsReal => RecordTruthful
    <2> SUFFICES ASSUME TypeOK, ReviewKnown, PostedIsReal,
                        row.status = "completed", \A s \in Scanner : scan[s].at # "sent"
                 PROVE  row.posted = "yes" <=> reviews > 0
      BY DEF RecordTruthful
    <2>1. row.posted \in {"yes", "no"} /\ reviews \in Nat
      BY DEF TypeOK, YesNo
    <2>2. reviews > 0 => row.posted # "no"
      BY DEF ReviewKnown
    <2>3. reviews = 0 => row.posted = "no"
      BY DEF PostedIsReal
    <2>4. QED
      BY <2>1, <2>2, <2>3
  <1>2. QED
    BY <1>1, ReviewKnownAlways, DeliveryPostedIsReal, DeliveryTypeOK, PTL
=============================================================================
