------------------------ MODULE CircuitBreakerProofs ------------------------
(***************************************************************************)
(* Proofs about CircuitBreaker for any set of callers and any thresholds   *)
(* and timeouts.  The inductive invariant ties the life of the probe key   *)
(* to the age of the probe it stands for, and the age of opened_at to the  *)
(* moment the breaker was opened.                                          *)
(***************************************************************************)
EXTENDS CircuitBreaker, TLAPS

\* Only a caller with an admitted call has an era, and only such a caller's
\* call has an age: the history variables follow the protocol of a caller.
History ==
    \A c \in Caller : /\ era[c] # "none" => InFlight(c)
                      /\ ~InFlight(c) => age[c] = 0

\* While a young probe is in flight, the probe key lives exactly as long as
\* the probe stays young.
ProbeKey ==
    state = "HALF_OPEN" =>
      \A c \in Caller :
         era[c] = "current" /\ age[c] < ProbeTTL => probe_ttl = ProbeTTL - age[c]

\* opened_at is at most one script delay older than the opening itself.
OpenedAt == state = "OPEN" => opened_ago <= trip_ago + MaxLag

IInv == TypeOK /\ History /\ ProbeKey /\ OneProbe /\ OpenedAt

USE BreakerAssumption

\* The initial state of the breaker (no Redis key exists, all callers idle)
\* satisfies the inductive invariant.
LEMMA InitIInv == Init => IInv
  BY DEF Init, IInv, TypeOK, History, ProbeKey, OneProbe, OpenedAt, AgeCap,
         NoFailures, InFlight

\* Asking for admission (time.time() before can_execute) keeps the invariant.
LEMMA AskIInv ==
  ASSUME IInv, NEW c \in Caller, Ask(c)
  PROVE  IInv'
  BY DEF Ask, IInv, TypeOK, History, ProbeKey, OneProbe, OpenedAt, AgeCap,
         InFlight, redis

\* The can_execute script keeps the invariant: it hands out a probe only when
\* no probe key lives, that is, when no young probe is in flight.
LEMMA CanExecuteIInv ==
  ASSUME IInv, NEW c \in Caller, CanExecute(c)
  PROVE  IInv'
  <1> USE DEF IInv, TypeOK, History, InFlight, AgeCap
  <1>1. CASE AdmitClosed(c)
    <2> USE <1>1 DEF CanExecute, AdmitClosed, Admit
    <2>1. TypeOK'
      OBVIOUS
    <2>2. History'
      OBVIOUS
    <2>3. ProbeKey'
      BY DEF ProbeKey
    <2>4. OneProbe'
      BY DEF OneProbe, ProbeKey
    <2>5. OpenedAt'
      BY DEF OpenedAt
    <2>6. QED
      BY <2>1, <2>2, <2>3, <2>4, <2>5
  <1>2. CASE AdmitRecovered(c)
    <2> USE <1>2 DEF CanExecute, AdmitRecovered, Admit
    <2>1. TypeOK' /\ History' /\ OpenedAt'
      BY DEF OpenedAt, Outlived
    <2>2. age'[c] = 0 /\ probe_ttl' = ProbeTTL
      OBVIOUS
    <2>3. \A d \in Caller : era'[d] = "current" => d = c
      BY DEF Outlived
    <2>4. ProbeKey' /\ OneProbe'
      BY <2>1, <2>2, <2>3 DEF ProbeKey, OneProbe
    <2>5. QED
      BY <2>1, <2>4
  <1>3. CASE AdmitProbe(c)
    <2> USE <1>3 DEF CanExecute, AdmitProbe, Admit
    <2>1. TypeOK' /\ History' /\ OpenedAt'
      BY DEF OpenedAt
    <2>2. age'[c] = 0 /\ probe_ttl' = ProbeTTL
      OBVIOUS
    <2>3. \A d \in Caller : era'[d] = "current" /\ d # c => age'[d] = ProbeTTL
      <3> SUFFICES ASSUME NEW d \in Caller, era[d] = "current" PROVE age[d] = ProbeTTL
        OBVIOUS
      <3>1. age[d] \in 0..ProbeTTL /\ ~ (age[d] < ProbeTTL)
        BY DEF ProbeKey
      <3>2. QED
        BY <3>1
    <2>4. ProbeKey' /\ OneProbe'
      BY <2>1, <2>2, <2>3 DEF ProbeKey, OneProbe
    <2>5. QED
      BY <2>1, <2>4
  <1>4. CASE Refuse(c)
    <2> USE <1>4 DEF CanExecute, Refuse, Leave
    <2>1. TypeOK' /\ History' /\ OpenedAt'
      BY DEF OpenedAt
    <2>2. era[c] = "none"
      OBVIOUS
    <2>3. ProbeKey'
      BY <2>2 DEF ProbeKey
    <2>4. OneProbe'
      BY <2>2 DEF OneProbe
    <2>5. QED
      BY <2>1, <2>3, <2>4
  <1>5. QED
    BY <1>1, <1>2, <1>3, <1>4 DEF CanExecute

\* Reporting a success keeps the invariant.
LEMMA RecordSuccessIInv ==
  ASSUME IInv, NEW c \in Caller, RecordSuccess(c)
  PROVE  IInv'
  BY DEF RecordSuccess, CloseOnSuccess, ForgetFailures, Leave, Outlived, IInv,
         TypeOK, History, ProbeKey, OneProbe, OpenedAt, AgeCap, InFlight, NoFailures

\* Reporting a failure keeps the invariant: whichever call reports it, the
\* age of opened_at becomes the lag of its timestamp.
LEMMA RecordFailureIInv ==
  ASSUME IInv, NEW c \in Caller, RecordFailure(c)
  PROVE  IInv'
  <1> USE DEF IInv, TypeOK, History, InFlight, AgeCap, Leave, Outlived, NoFailures
  <1>1. CASE ReopenOnFailure(c) \/ TripOnThreshold(c)
    BY <1>1 DEF RecordFailure, ReopenOnFailure, TripOnThreshold, Trip, ProbeKey,
                OneProbe, OpenedAt
  <1>2. CASE CountFailure
    <2> USE <1>2 DEF RecordFailure, CountFailure
    <2>1. recent' \in [1..Threshold -> 0..Window]
      BY DEF OneMoreFailure
    <2>2. TypeOK' /\ History' /\ OpenedAt'
      BY <2>1 DEF OpenedAt
    <2>3. ProbeKey' /\ OneProbe'
      BY DEF ProbeKey, OneProbe
    <2>4. QED
      BY <2>2, <2>3
  <1>3. QED
    BY <1>1, <1>2 DEF RecordFailure

\* A failed call and an abandoned one leave Redis alone.
LEMMA CallEndIInv ==
  ASSUME IInv, NEW c \in Caller, CallFails(c) \/ Abandon(c)
  PROVE  IInv'
  <1> USE DEF IInv, TypeOK, History, ProbeKey, OneProbe, OpenedAt, AgeCap, InFlight, redis
  <1>1. CASE CallFails(c)
    BY <1>1 DEF CallFails
  <1>2. CASE Abandon(c)
    BY <1>2 DEF Abandon, Leave
  <1>3. QED
    BY <1>1, <1>2

\* CircuitBreaker.reset keeps the invariant.
LEMMA ResetIInv ==
  ASSUME IInv, Reset
  PROVE  IInv'
  BY DEF Reset, Outlived, IInv, TypeOK, History, ProbeKey, OneProbe, OpenedAt,
         AgeCap, InFlight, NoFailures

\* The clock keeps the invariant: ages and lifetimes move together.
LEMMA TickIInv ==
  ASSUME IInv, Tick
  PROVE  IInv'
  <1> USE DEF IInv, Tick, Older, Younger, Lesser, WaitingForScript, InFlight, AgeCap
  <1>1. TypeOK'
    BY DEF TypeOK, History
  <1>2. History'
    BY DEF History, TypeOK
  <1>3. ProbeKey'
    BY DEF ProbeKey, TypeOK, History
  <1>4. OneProbe'
    BY DEF OneProbe, TypeOK, History
  <1>5. OpenedAt'
    BY DEF OpenedAt, TypeOK
  <1>6. QED
    BY <1>1, <1>2, <1>3, <1>4, <1>5

\* The inductive invariant holds in every reachable state of the breaker,
\* whatever scripts interleave, workers die and timestamps arrive late.
THEOREM BreakerInvariant == Spec => []IInv
  <1>1. Init => IInv
    BY InitIInv
  <1>2. IInv /\ [Next]_vars => IInv'
    <2> SUFFICES ASSUME IInv, [Next]_vars
                 PROVE  IInv'
      OBVIOUS
    <2>1. CASE UNCHANGED vars
      BY <2>1 DEF vars, redis, IInv, TypeOK, History, ProbeKey, OneProbe,
                  OpenedAt, InFlight, AgeCap
    <2>2. ASSUME NEW c \in Caller,
                 \/ Ask(c) \/ CanExecute(c) \/ RecordSuccess(c)
                 \/ CallFails(c) \/ RecordFailure(c) \/ Abandon(c)
          PROVE  IInv'
      BY <2>2, AskIInv, CanExecuteIInv, RecordSuccessIInv, CallEndIInv,
         RecordFailureIInv
    <2>3. QED
      BY <2>1, <2>2, ResetIInv, TickIInv DEF Next
  <1>3. QED
    BY <1>1, <1>2, PTL DEF Spec

\* Every variable of the breaker keeps its type.
THEOREM BreakerTypeOK == Spec => []TypeOK
  BY BreakerInvariant, PTL DEF IInv

\* "Allows 1 test request": no two young probes of the same HALF_OPEN state
\* are in flight together, for any number of callers and any timeouts.
THEOREM BreakerOneProbe == Spec => []OneProbe
  BY BreakerInvariant, PTL DEF IInv

\* The breaker turns HALF_OPEN no earlier than Recovery - MaxLag ticks after
\* the script that opened it.
THEOREM BreakerCoolDown == Spec => CoolDown
  <1>1. ASSUME IInv, [Next]_vars
        PROVE  [state = "OPEN" /\ state' = "HALF_OPEN" => trip_ago >= Recovery - MaxLag]_vars
    <2> SUFFICES ASSUME Next, state = "OPEN", state' = "HALF_OPEN"
                 PROVE  trip_ago >= Recovery - MaxLag
      BY <1>1 DEF vars
    <2>1. PICK c \in Caller : CanExecute(c)
      BY <1>1 DEF Next, Ask, RecordSuccess, CallFails, RecordFailure, Abandon, Reset,
             Tick, redis, CloseOnSuccess, ForgetFailures, ReopenOnFailure,
             TripOnThreshold, CountFailure, Trip
    <2>2. RecoveryElapsed(c)
      BY <2>1 DEF CanExecute, AdmitClosed, AdmitRecovered, AdmitProbe, Refuse
    <2>3. QED
      BY <1>1, <2>2 DEF RecoveryElapsed, IInv, TypeOK, OpenedAt, AgeCap
  <1>2. QED
    BY <1>1, BreakerInvariant, PTL DEF Spec, CoolDown

-----------------------------------------------------------------------------
\* The failures key lives while it counts, and no failure it counts is older than
\* the key itself.
CounterKey ==
    /\ failures < Threshold
    /\ failures > 0 => failures_ttl > 0
    /\ \A n \in 1..failures : recent[n] <= Window - failures_ttl

\* Scripts and clock keep the counter and its key together.
LEMMA CounterKeyStep ==
  ASSUME TypeOK, CounterKey, [Next]_vars
  PROVE  CounterKey'
  <1> USE DEF TypeOK, CounterKey
  <1>1. CASE UNCHANGED <<failures, failures_ttl, recent>>
    BY <1>1
  <1>2. CASE failures' = 0
    BY <1>2
  <1>3. CASE CountFailure
    <2>1. \A n \in 1..Threshold : recent'[n] = (IF n = 1 THEN 0 ELSE recent[n - 1])
      BY <1>3 DEF CountFailure, OneMoreFailure
    <2>2. failures' = failures + 1 /\ failures + 1 < Threshold
      BY <1>3 DEF CountFailure
    <2>3. /\ failures = 0 => failures_ttl' = Window
          /\ failures > 0 => failures_ttl' = failures_ttl
      BY <1>3 DEF CountFailure
    <2>4. ASSUME NEW n \in 1..(failures + 1) PROVE recent'[n] <= Window - failures_ttl'
      <3>1. CASE n = 1
        <4>1. recent'[n] = 0
          BY <2>1, <2>2, <3>1
        <4>2. \A x \in 0..Window : 0 <= Window - x
          OBVIOUS
        <4>3. failures_ttl' \in 0..Window
          BY <2>3
        <4>4. QED
          BY <4>1, <4>2, <4>3
      <3>2. CASE n > 1
        <4>1. n - 1 \in 1..failures /\ failures > 0
          BY <3>2
        <4>2. recent[n - 1] <= Window - failures_ttl
          BY <4>1
        <4>3. recent'[n] = recent[n - 1] /\ failures_ttl' = failures_ttl
          BY <2>1, <2>2, <2>3, <3>2, <4>1
        <4>4. QED
          BY <4>2, <4>3
      <3>3. QED
        BY <3>1, <3>2
    <2>5. QED
      BY <2>2, <2>3, <2>4
  <1>4. CASE Tick
    <2>1. \A n \in 1..Threshold : recent'[n] <= recent[n] + 1
      BY <1>4 DEF Tick, Older, Lesser
    <2>2. CASE failures_ttl = 1
      BY <1>2, <1>4, <2>2 DEF Tick
    <2>3. CASE failures_ttl > 1
      <3>1. failures' = failures /\ failures_ttl' = failures_ttl - 1
        BY <1>4, <2>3 DEF Tick, Younger
      <3>2. ASSUME NEW n \in 1..failures PROVE recent'[n] <= Window - failures_ttl'
        <4>1. recent[n] <= Window - failures_ttl /\ n \in 1..Threshold
          OBVIOUS
        <4>2. recent[n] \in Nat /\ recent'[n] \in Nat
          BY <1>4, <4>1 DEF Tick, Older, Lesser
        <4>3. QED
          BY <2>1, <3>1, <4>1, <4>2
      <3>3. QED
        BY <2>3, <3>1, <3>2
    <2>4. CASE failures_ttl = 0
      BY <1>2, <1>4, <2>4 DEF Tick
    <2>5. QED
      BY <2>2, <2>3, <2>4
  <1>5. QED
    BY <1>1, <1>2, <1>3, <1>4 DEF Next, vars, redis, Ask, CanExecute, RecordSuccess, CallFails,
          RecordFailure, ReopenOnFailure, TripOnThreshold, Trip, Abandon, Reset

\* The breaker never counts a failure that is older than the window or that a
\* success has wiped out, for any threshold and window and any number of callers:
\* it trips from CLOSED only on Threshold failures in a row within the window.
THEOREM BreakerCountedFailuresAreRecent == Spec => []CountedFailuresAreRecent
  <1>1. Init => CounterKey
    BY DEF Init, CounterKey
  <1>2. TypeOK /\ CounterKey /\ [Next]_vars => CounterKey'
    BY CounterKeyStep
  <1>3. TypeOK /\ CounterKey => CountedFailuresAreRecent
    <2> SUFFICES ASSUME TypeOK, CounterKey, NEW n \in 1..failures
                 PROVE  recent[n] < Window
      BY DEF CountedFailuresAreRecent
    <2>1. failures > 0 /\ failures_ttl > 0 /\ recent[n] <= Window - failures_ttl
      BY DEF TypeOK, CounterKey
    <2>2. n \in 1..Threshold /\ recent[n] \in Nat /\ failures_ttl \in Nat
      BY DEF TypeOK
    <2>3. QED
      BY <2>1, <2>2
  <1>4. QED
    BY <1>1, <1>2, <1>3, BreakerTypeOK, PTL DEF Spec
=============================================================================
