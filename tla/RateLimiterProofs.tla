------------------------- MODULE RateLimiterProofs -------------------------
(***************************************************************************)
(* The token bucket keeps its rate for every capacity, cost, key lifetime  *)
(* and script delay.  The argument is a potential: what was granted in the *)
(* window plus what the bucket could still hand out to the oldest admitted *)
(* timestamp never exceeds what the window has earned.                     *)
(***************************************************************************)
EXTENDS RateLimiter, TLAPS

\* The most the bucket can hand out without further time passing.
Potential ==
    IF Exists THEN Lesser(Capacity + MaxLag, tokens + last_ago) ELSE Capacity + MaxLag

Earned == granted + Potential <= Capacity + MaxLag + elapsed + regress

\* The keys are never older than the timestamp they hold.
KeyAges == Exists => key_age < KeyTTL /\ key_age <= last_ago

IInv == TypeOK /\ KeyAges /\ Earned /\ WaitIsExact

USE LimiterAssumption DEF NoPromise, Exists

\* The empty Redis database satisfies the invariant.
LEMMA InitIInv == Init => IInv
  BY DEF Init, IInv, TypeOK, KeyAges, Earned, Potential, WaitIsExact, Level, AgeCap

\* What the bucket holds is an integer, before and after a step.
LEMMA LevelsAreIntegers ==
  /\ TypeOK => Potential \in Int /\ Level \in Int
  /\ TypeOK' => Potential' \in Int /\ Level' \in Int
  BY DEF TypeOK, Potential, Level, Lesser, AgeCap

\* TOKEN_BUCKET_LUA keeps the invariant, in both branches and for any age of
\* the timestamp it is called with.
LEMMA AcquireIInv ==
  ASSUME IInv, NEW c \in Caller, Acquire(c)
  PROVE  IInv'
  <1> USE DEF IInv, TypeOK
  <1>1. lag[c] \in 0..MaxLag /\ tokens \in 0..Capacity /\ last_ago \in 0..AgeCap
    OBVIOUS
  <1>2. SinceLast(c) \in Nat /\ SinceLast(c) <= last_ago
    BY <1>1 DEF SinceLast, AgeCap
  <1>3. Refilled(c) \in 0..Capacity
    BY <1>1, <1>2 DEF Refilled, Lesser
  <1>4. MovedBack(c) \in Nat
    BY <1>1 DEF MovedBack, AgeCap
  <1>5. Refilled(c) + lag[c] <= Potential + MovedBack(c)
    BY <1>1 DEF Refilled, SinceLast, MovedBack, Potential, Lesser, AgeCap
  <1>6. ASSUME NEW left \in 0..Capacity, WriteBack(c, left)
        PROVE  /\ keys' = "present" /\ tokens' = left /\ last_ago' = lag[c]
               /\ Potential' <= left + lag[c]
               /\ KeyAges'
               /\ regress' = regress + MovedBack(c)
    BY <1>1, <1>6 DEF WriteBack, Potential, Lesser, KeyAges, AgeCap
  <1>7. CASE Grant(c)
    <2>1. Refilled(c) - Cost \in 0..Capacity
      BY <1>3, <1>7 DEF Grant
    <2>2. /\ tokens' = Refilled(c) - Cost
          /\ Potential' <= Refilled(c) - Cost + lag[c]
          /\ KeyAges' /\ regress' = regress + MovedBack(c)
      BY <2>1, <1>6, <1>7 DEF Grant
    <2>3. TypeOK'
      BY <2>1, <1>1, <1>4, <1>7 DEF Grant, WriteBack, AgeCap
    <2>4. Earned'
      <3>1. Potential \in Int /\ Potential' \in Int
        BY <2>3, LevelsAreIntegers
      <3>2. granted' = granted + Cost /\ elapsed' = elapsed
        BY <1>7 DEF Grant
      <3>3. QED
        BY <3>1, <3>2, <2>2, <1>1, <1>3, <1>4, <1>5 DEF Earned
    <2>5. WaitIsExact'
      BY <1>7 DEF Grant, WaitIsExact
    <2>6. QED
      BY <2>2, <2>3, <2>4, <2>5
  <1>8. CASE Refuse(c)
    <2>1. /\ keys' = "present" /\ tokens' = Refilled(c) /\ last_ago' = lag[c]
          /\ Potential' <= Refilled(c) + lag[c]
          /\ KeyAges' /\ regress' = regress + MovedBack(c)
      BY <1>3, <1>6, <1>8 DEF Refuse
    <2>2. Cost - Refilled(c) \in 0..Cost
      BY <1>3, <1>8 DEF Refuse
    <2>3. TypeOK'
      BY <2>2, <1>1, <1>3, <1>4, <1>8 DEF Refuse, WriteBack, AgeCap
    <2>4. Earned'
      <3>1. Potential \in Int /\ Potential' \in Int
        BY <2>3, LevelsAreIntegers
      <3>2. granted' = granted /\ elapsed' = elapsed
        BY <1>8 DEF Refuse
      <3>3. QED
        BY <3>1, <3>2, <2>1, <1>1, <1>3, <1>4, <1>5 DEF Earned
    <2>5. Level <= Level' /\ Level' >= Refilled(c)
      BY <2>1, <1>1, <1>8 DEF Refuse, Level, Refilled, SinceLast, Lesser, AgeCap
    <2>6. Level \in Int /\ Level' \in Int
      BY <2>3, LevelsAreIntegers
    <2>7. WaitIsExact'
      <3> SUFFICES ASSUME NEW d \in Caller, promise'[d] # NoPromise
                   PROVE  Level' + promise'[d] >= Cost
        BY DEF WaitIsExact
      <3>1. CASE d = c
        BY <3>1, <2>5, <2>6, <1>3, <1>8 DEF Refuse
      <3>2. CASE d # c
        BY <3>2, <2>5, <2>6, <1>8 DEF Refuse, WaitIsExact
      <3>3. QED
        BY <3>1, <3>2
    <2>8. QED
      BY <2>1, <2>3, <2>4, <2>7
  <1>9. QED
    BY <1>7, <1>8 DEF Acquire

\* The clock keeps the invariant: a tick earns what it lets the bucket gain,
\* and keys expire only when the bucket would have been full.
LEMMA TickIInv ==
  ASSUME IInv, Tick
  PROVE  IInv'
  <1> USE DEF IInv, TypeOK, Tick, Lesser, AgeCap
  <1>1. TypeOK'
    BY DEF KeyAges
  <1>2. KeyAges'
    BY DEF KeyAges
  <1>3. Earned'
    BY DEF Earned, Potential, KeyAges
  <1>4. Level' >= Lesser(Capacity, Level + 1) /\ Level \in Nat /\ Level' \in Nat
    BY DEF Level, KeyAges
  <1>5. WaitIsExact'
    <2> SUFFICES ASSUME NEW d \in Caller, promise'[d] # NoPromise
                 PROVE  Level' + promise'[d] >= Cost
      BY DEF WaitIsExact
    <2>1. promise[d] # NoPromise /\ Level + promise[d] >= Cost
      BY DEF WaitIsExact
    <2>2. promise[d] \in -1..Cost /\ promise'[d] \in -1..Cost /\ promise'[d] >= promise[d] - 1
      OBVIOUS
    <2>3. promise'[d] >= 0 /\ (promise[d] = 0 => promise'[d] = 0)
      BY <2>1, <2>2
    <2>4. QED
      BY <1>4, <2>1, <2>2, <2>3
  <1>6. QED
    BY <1>1, <1>2, <1>3, <1>5

\* Reading the time, resetting the limiter and starting a window keep it.
LEMMA OtherIInv ==
  ASSUME IInv, (\E c \in Caller : ReadTime(c)) \/ Reset \/ StartWindow \/ UNCHANGED vars
  PROVE  IInv'
  <1> USE DEF IInv, TypeOK, KeyAges, Earned, Potential, WaitIsExact, Level, Lesser,
              AgeCap, bucket
  <1>1. CASE \E c \in Caller : ReadTime(c)
    BY <1>1 DEF ReadTime
  <1>2. CASE Reset
    BY <1>2 DEF Reset
  <1>3. CASE StartWindow
    BY <1>3 DEF StartWindow
  <1>4. CASE UNCHANGED vars
    BY <1>4 DEF vars
  <1>5. QED
    BY <1>1, <1>2, <1>3, <1>4

\* The inductive invariant of the token bucket.
THEOREM LimiterInvariant == Spec => []IInv
  <1>1. IInv /\ [Next]_vars => IInv'
    BY AcquireIInv, TickIInv, OtherIInv DEF Next
  <1>2. QED
    BY <1>1, InitIInv, PTL DEF Spec

\* Every variable of the limiter keeps its type.
THEOREM LimiterTypeOK == Spec => []TypeOK
  BY LimiterInvariant, PTL DEF IInv

\* Over any window the limiter grants no more than its burst and its rate
\* allow, plus what timestamps applied out of order make it refill twice.
THEOREM LimiterRateBound == Spec => []RateBound
  <1>1. IInv => RateBound
    BY DEF IInv, TypeOK, Earned, Potential, RateBound, Lesser, AgeCap
  <1>2. QED
    BY <1>1, LimiterInvariant, PTL

\* A refused caller that waits as long as it was told finds a token.
THEOREM LimiterWaitIsExact == Spec => []WaitIsExact
  BY LimiterInvariant, PTL DEF IInv
=============================================================================
