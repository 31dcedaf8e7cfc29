--------------------------- MODULE CircuitBreaker ---------------------------
(***************************************************************************)
(* The Redis circuit breaker of analysis/circuit_breaker.py and the        *)
(* protocol its callers in worker/tasks.py follow: ask can_execute, call   *)
(* the external service, report the outcome.                               *)
(*                                                                         *)
(* The three Lua scripts run atomically in Redis, but the timestamp `now`  *)
(* is read by the worker before the script is sent, so a script may run    *)
(* with a timestamp that is up to MaxLag ticks old, and scripts may run in *)
(* another order than their timestamps were read in.                       *)
(*                                                                         *)
(* Time is kept as ages and remaining lifetimes, which makes the state     *)
(* space finite without bounding the length of a behaviour.  An age        *)
(* saturates at a value past which the code cannot tell ages apart.        *)
(***************************************************************************)
EXTENDS Integers

CONSTANTS Caller,       \* tasks that use the breaker (Celery worker slots)
          Threshold,    \* failure_threshold
          Window,       \* failure_window, in ticks
          Recovery,     \* recovery_timeout, in ticks
          ProbeTTL,     \* EX 60 on the probe key, in ticks
          MaxLag        \* longest delay between time.time() and the script

ASSUME BreakerAssumption ==
    /\ Threshold \in Nat \ {0}
    /\ Window \in Nat \ {0}
    /\ Recovery \in Nat \ {0}
    /\ ProbeTTL \in Nat \ {0}
    /\ MaxLag \in Nat

VARIABLES
    \* Redis keys circuit:{name}:*
    state,         \* "NONE" while the key does not exist
    opened_ago,    \* age of opened_at; AgeCap while the key does not exist
    failures,      \* 0 while the key does not exist
    failures_ttl,  \* remaining life of the failures key
    probe_ttl,     \* remaining life of the probe key, 0 when it is absent
    \* the callers
    pc,            \* where each caller is in the ask / call / report protocol
    lag,           \* age of the timestamp a caller holds
    \* history, read by the properties only
    era,           \* was the caller's call admitted in the present state?
    age,           \* ticks since the call was admitted
    trip_ago,      \* ticks since a script last set opened_at
    recent         \* recent[n]: age of the n-th latest failure counted since the
                   \* last success or trip, Window when there is none so young

redis == <<state, opened_ago, failures, failures_ttl, probe_ttl>>
vars  == <<redis, pc, lag, era, age, trip_ago, recent>>

\* An opened_at older than this passes the recovery test whatever the lag.
AgeCap == Recovery + MaxLag

Lesser(a, b) == IF a <= b THEN a ELSE b

NoFailures == [n \in 1..Threshold |-> Window]

TypeOK ==
    /\ state \in {"NONE", "CLOSED", "OPEN", "HALF_OPEN"}
    /\ opened_ago \in 0..AgeCap
    /\ failures \in 0..Threshold
    /\ failures_ttl \in 0..Window
    /\ probe_ttl \in 0..ProbeTTL
    /\ pc \in [Caller -> {"idle", "ask", "call", "fail"}]
    /\ lag \in [Caller -> 0..MaxLag]
    /\ era \in [Caller -> {"none", "current", "late"}]
    /\ age \in [Caller -> 0..ProbeTTL]
    /\ trip_ago \in 0..AgeCap
    /\ recent \in [1..Threshold -> 0..Window]

Init ==
    /\ state = "NONE"
    /\ opened_ago = AgeCap
    /\ failures = 0
    /\ failures_ttl = 0
    /\ probe_ttl = 0
    /\ pc = [c \in Caller |-> "idle"]
    /\ lag = [c \in Caller |-> 0]
    /\ era = [c \in Caller |-> "none"]
    /\ age = [c \in Caller |-> 0]
    /\ trip_ago = AgeCap
    /\ recent = NoFailures

-----------------------------------------------------------------------------
\* A call that outlives the state it was admitted in is late.
Outlived(c) == IF era[c] = "current" THEN "late" ELSE era[c]

\* Caller c is done with its call (reported, refused or lost).
Leave(c) ==
    /\ pc' = [pc EXCEPT ![c] = "idle"]
    /\ lag' = [lag EXCEPT ![c] = 0]
    /\ age' = [age EXCEPT ![c] = 0]

\* time.time() before the can_execute script.
Ask(c) ==
    /\ pc[c] = "idle"
    /\ pc' = [pc EXCEPT ![c] = "ask"]
    /\ UNCHANGED <<redis, lag, era, age, trip_ago, recent>>

Admit(c) ==
    /\ pc' = [pc EXCEPT ![c] = "call"]
    /\ lag' = [lag EXCEPT ![c] = 0]
    /\ UNCHANGED age

\* The script returns {1, 'CLOSED'}.  A missing key reads as Lua false, which
\* is not nil, so the script falls through and does not create the key.
AdmitClosed(c) ==
    /\ state \in {"NONE", "CLOSED"}
    /\ Admit(c)
    /\ era' = [era EXCEPT ![c] = "current"]
    /\ UNCHANGED <<state, probe_ttl>>

RecoveryElapsed(c) == opened_ago - lag[c] >= Recovery

\* Mutant: the script forgets to set state to HALF_OPEN.
AdmitRecoveredStaysOpen(c) ==
    /\ state = "OPEN"
    /\ RecoveryElapsed(c)
    /\ probe_ttl' = ProbeTTL
    /\ Admit(c)
    /\ era' = [era EXCEPT ![c] = "current"]
    /\ UNCHANGED state

\* OPEN and the recovery timeout has passed: c gets the probe slot.
AdmitRecovered(c) ==
    /\ state = "OPEN"
    /\ RecoveryElapsed(c)
    /\ state' = "HALF_OPEN"
    /\ probe_ttl' = ProbeTTL
    /\ Admit(c)
    /\ era' = [d \in Caller |-> IF d = c THEN "current" ELSE Outlived(d)]

\* Mutant: SET probe without NX.
AdmitProbeAlways(c) ==
    /\ state = "HALF_OPEN"
    /\ probe_ttl' = ProbeTTL
    /\ Admit(c)
    /\ era' = [era EXCEPT ![c] = "current"]
    /\ UNCHANGED state

\* Mutant: only the caller that ends OPEN is ever a probe.
AdmitProbeNever(c) == state = "CLOSED" /\ AdmitClosed(c)

\* HALF_OPEN: SET probe NX EX 60 succeeds only when no probe key lives.
AdmitProbe(c) ==
    /\ state = "HALF_OPEN"
    /\ probe_ttl = 0
    /\ probe_ttl' = ProbeTTL
    /\ Admit(c)
    /\ era' = [era EXCEPT ![c] = "current"]
    /\ UNCHANGED state

Refuse(c) ==
    /\ \/ state = "OPEN" /\ ~RecoveryElapsed(c)
       \/ state = "HALF_OPEN" /\ probe_ttl > 0
    /\ Leave(c)
    /\ UNCHANGED <<state, probe_ttl, era>>

CanExecute(c) ==
    /\ pc[c] = "ask"
    /\ AdmitClosed(c) \/ AdmitRecovered(c) \/ AdmitProbe(c) \/ Refuse(c)
    /\ UNCHANGED <<opened_ago, failures, failures_ttl, trip_ago, recent>>

\* The call succeeded and CIRCUIT_RECORD_SUCCESS_LUA runs.
CloseOnSuccess ==
    /\ state = "HALF_OPEN"
    /\ state' = "CLOSED"
    /\ opened_ago' = AgeCap
    /\ probe_ttl' = 0

ForgetFailures ==
    /\ state # "HALF_OPEN"
    /\ UNCHANGED <<state, opened_ago, probe_ttl>>

RecordSuccess(c) ==
    /\ pc[c] = "call"
    /\ CloseOnSuccess \/ ForgetFailures
    /\ failures' = 0
    /\ failures_ttl' = 0
    /\ Leave(c)
    /\ era' = [d \in Caller |-> IF d = c THEN "none"
                                ELSE IF state' # state THEN Outlived(d) ELSE era[d]]
    /\ recent' = NoFailures
    /\ UNCHANGED trip_ago

\* The call failed: time.time() before CIRCUIT_RECORD_FAILURE_LUA.
CallFails(c) ==
    /\ pc[c] = "call"
    /\ pc' = [pc EXCEPT ![c] = "fail"]
    /\ UNCHANGED <<redis, lag, era, age, trip_ago, recent>>

\* Mutant: opened_at is not refreshed.
TripKeepsOpenedAt(c) ==
    /\ state' = "OPEN"
    /\ failures' = 0
    /\ failures_ttl' = 0
    /\ probe_ttl' = 0
    /\ trip_ago' = 0
    /\ recent' = NoFailures
    /\ UNCHANGED opened_ago

\* set state OPEN, opened_at now; del failures, probe.
Trip(c) ==
    /\ state' = "OPEN"
    /\ opened_ago' = lag[c]
    /\ failures' = 0
    /\ failures_ttl' = 0
    /\ probe_ttl' = 0
    /\ trip_ago' = 0
    /\ recent' = NoFailures

ReopenOnFailure(c) ==
    /\ state = "HALF_OPEN"
    /\ Trip(c)

TripOnThreshold(c) ==
    /\ state # "HALF_OPEN"
    /\ failures + 1 >= Threshold
    /\ Trip(c)

\* History: the failure of this moment is the latest now.
OneMoreFailure == [n \in 1..Threshold |-> IF n = 1 THEN 0 ELSE recent[n - 1]]

\* Mutant: every failure restarts the life of the counter.
CountFailureRefreshed ==
    /\ state # "HALF_OPEN"
    /\ failures + 1 < Threshold
    /\ failures' = failures + 1
    /\ failures_ttl' = Window
    /\ recent' = OneMoreFailure
    /\ UNCHANGED <<state, opened_ago, probe_ttl, trip_ago>>

\* incr failures; the first failure starts the window.
CountFailure ==
    /\ state # "HALF_OPEN"
    /\ failures + 1 < Threshold
    /\ failures' = failures + 1
    /\ failures_ttl' = IF failures = 0 THEN Window ELSE failures_ttl
    /\ recent' = OneMoreFailure
    /\ UNCHANGED <<state, opened_ago, probe_ttl, trip_ago>>

RecordFailure(c) ==
    /\ pc[c] = "fail"
    /\ ReopenOnFailure(c) \/ TripOnThreshold(c) \/ CountFailure
    /\ Leave(c)
    /\ era' = [d \in Caller |-> IF d = c THEN "none"
                                ELSE IF state' # state THEN Outlived(d) ELSE era[d]]

\* A worker dies during its call, or the caller is scan_reanalysis_needed,
\* which asks for admission and reports no outcome.
Abandon(c) ==
    /\ pc[c] \in {"call", "fail"}
    /\ Leave(c)
    /\ era' = [era EXCEPT ![c] = "none"]
    /\ UNCHANGED <<redis, trip_ago, recent>>

\* CircuitBreaker.reset: all four keys are deleted.
Reset ==
    /\ state # "NONE" \/ failures > 0
    /\ state' = "NONE"
    /\ opened_ago' = AgeCap
    /\ failures' = 0
    /\ failures_ttl' = 0
    /\ probe_ttl' = 0
    /\ era' = [d \in Caller |-> Outlived(d)]
    /\ recent' = NoFailures
    /\ UNCHANGED <<pc, lag, age, trip_ago>>

-----------------------------------------------------------------------------
\* One tick of the clock: Redis expires keys, timestamps grow old.  A script
\* whose timestamp is MaxLag old runs before the clock moves on.
Older(n, cap) == Lesser(n + 1, cap)
Younger(n) == IF n = 0 THEN 0 ELSE n - 1
WaitingForScript(c) == pc[c] \in {"ask", "fail"}

Tick ==
    /\ \A c \in Caller : WaitingForScript(c) => lag[c] < MaxLag
    /\ opened_ago' = Older(opened_ago, AgeCap)
    /\ trip_ago' = Older(trip_ago, AgeCap)
    /\ failures_ttl' = Younger(failures_ttl)
    /\ failures' = IF failures_ttl = 1 THEN 0 ELSE failures
    /\ probe_ttl' = Younger(probe_ttl)
    /\ lag' = [c \in Caller |-> IF WaitingForScript(c) THEN lag[c] + 1 ELSE lag[c]]
    /\ age' = [c \in Caller |-> IF pc[c] \in {"call", "fail"}
                              THEN Older(age[c], ProbeTTL) ELSE age[c]]
    /\ recent' = [n \in 1..Threshold |-> Older(recent[n], Window)]
    /\ UNCHANGED <<state, pc, era>>

Next ==
    \/ \E c \in Caller :
         \/ Ask(c) \/ CanExecute(c) \/ RecordSuccess(c)
         \/ CallFails(c) \/ RecordFailure(c) \/ Abandon(c)
    \/ Reset
    \/ Tick

Spec == Init /\ [][Next]_vars

\* Workers keep taking tasks, scripts return, and an HTTP call ends (its
\* client has a timeout) in a report or a lost worker; the clock advances.
Report(c) == RecordSuccess(c) \/ CallFails(c) \/ Abandon(c)

Fairness ==
    /\ WF_vars(Tick)
    /\ \A c \in Caller : /\ WF_vars(Ask(c))
                         /\ WF_vars(CanExecute(c))
                         /\ WF_vars(Report(c))
                         /\ WF_vars(RecordFailure(c))

FairSpec == Spec /\ Fairness

-----------------------------------------------------------------------------
(* Properties.                                                             *)

InFlight(c) == pc[c] \in {"call", "fail"}

\* "Half-open probe: Allows 1 test request": while the breaker is HALF_OPEN,
\* two calls admitted as its probe are never in flight together unless the
\* earlier one has outlived the 60 s life of the probe key.
OneProbe ==
    state = "HALF_OPEN" =>
      \A c, d \in Caller :
         (/\ c # d
          /\ era[c] = "current" /\ era[d] = "current"
          /\ age[c] < ProbeTTL) => age[d] = ProbeTTL

\* The recovery timeout is honoured up to the delay of one script call: the
\* breaker turns HALF_OPEN no earlier than Recovery - MaxLag ticks after the
\* script that opened it ran, although late failures keep moving opened_at
\* and the scripts carry timestamps of other moments.
CoolDown ==
    [][state = "OPEN" /\ state' = "HALF_OPEN" => trip_ago >= Recovery - MaxLag]_vars

\* The failures counter never counts a failure that is older than the window
\* or that a success has wiped out, so a trip from CLOSED is always backed
\* by Threshold consecutive failures of the last Window ticks.
CountedFailuresAreRecent == \A n \in 1..failures : recent[n] < Window

\* An OPEN breaker does not stay OPEN for ever while tasks keep asking, even
\* though late failures of calls admitted earlier postpone the probe.
OpenRecovers == state = "OPEN" ~> state # "OPEN"

\* A probe whose worker died (or whose caller reports nothing) does not block
\* the breaker in HALF_OPEN: another caller is admitted as the probe, or the
\* state is settled by a late report.
Probing == \E c \in Caller : era[c] = "current" /\ InFlight(c)
ProbeReissued ==
    (state = "HALF_OPEN" /\ ~Probing) ~> (state # "HALF_OPEN" \/ Probing)
=============================================================================
