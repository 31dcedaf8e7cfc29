---------------------------- MODULE RateLimiter ----------------------------
(***************************************************************************)
(* The Redis token bucket of analysis/rate_limiter.py that all             *)
(* analyze_llm_task workers share, for a positive rpm (with rpm <= 0       *)
(* acquire returns before it touches Redis).                               *)
(*                                                                         *)
(* The unit of time is the tick in which the bucket gains one unit of      *)
(* tokens, so refill_rate is 1, and one request costs Cost units.  As in   *)
(* CircuitBreaker the script is atomic but carries the timestamp that the  *)
(* worker read up to MaxLag ticks earlier, and times are kept as ages.     *)
(***************************************************************************)
EXTENDS Integers

CONSTANTS Caller,      \* workers that acquire tokens
          Capacity,    \* burst * Cost
          Cost,        \* one token, in units
          KeyTTL,      \* EX 3600 on both keys, in ticks
          MaxLag,      \* longest delay between time.time() and the script
          MaxWindow,   \* bound: length of an observed window
          MaxGrant,    \* bound: units granted in an observed window
          MaxRegress   \* bound: accumulated regression of last_ts

ASSUME LimiterAssumption ==
    /\ Cost \in Nat \ {0}
    /\ Capacity \in Nat /\ Capacity >= Cost
    /\ KeyTTL \in Nat /\ KeyTTL >= Capacity + MaxLag
    /\ MaxLag \in Nat
    /\ MaxWindow \in Nat /\ MaxGrant \in Nat /\ MaxRegress \in Nat

VARIABLES
    keys,      \* rate_limit:gemini:tokens and :ts, "present" or "absent"
    tokens,    \* value of the tokens key
    last_ago,  \* age of the ts key's value
    key_age,   \* ticks since the keys were last written
    reading,   \* callers that have read the time and await the script
    lag,       \* age of a waiting caller's timestamp
    promise,   \* remaining wait a refused caller was told, NoPromise if none
    \* history over a window that starts at an arbitrary moment
    elapsed,   \* ticks since the window started
    granted,   \* units granted in it
    regress    \* by how much scripts have moved last_ts back in it

bucket == <<keys, tokens, last_ago, key_age>>
vars   == <<bucket, reading, lag, promise, elapsed, granted, regress>>

NoPromise == -1
Exists == keys = "present"
AgeCap == KeyTTL + MaxLag
Lesser(a, b) == IF a <= b THEN a ELSE b

TypeOK ==
    /\ keys \in {"absent", "present"}
    /\ tokens \in 0..Capacity
    /\ last_ago \in 0..AgeCap
    /\ key_age \in 0..KeyTTL
    /\ reading \in SUBSET Caller
    /\ lag \in [Caller -> 0..MaxLag]
    /\ promise \in [Caller -> NoPromise..Cost]
    /\ elapsed \in Nat /\ granted \in Nat /\ regress \in Nat

Init ==
    /\ keys = "absent"
    /\ tokens = Capacity
    /\ last_ago = 0
    /\ key_age = 0
    /\ reading = {}
    /\ lag = [c \in Caller |-> 0]
    /\ promise = [c \in Caller |-> NoPromise]
    /\ elapsed = 0 /\ granted = 0 /\ regress = 0

-----------------------------------------------------------------------------
\* acquire: now = time.time().
ReadTime(c) ==
    /\ c \notin reading
    /\ reading' = reading \cup {c}
    /\ lag' = [lag EXCEPT ![c] = 0]
    /\ UNCHANGED <<bucket, promise, elapsed, granted, regress>>

\* elapsed = max(0, now - last_ts), from the ages of the two timestamps.
SinceLast(c) == IF last_ago > lag[c] THEN last_ago - lag[c] ELSE 0

\* The tokens in the bucket after the refill the script starts with.
Refilled(c) == IF Exists THEN Lesser(Capacity, tokens + SinceLast(c)) ELSE Capacity

\* How far the script moves last_ts back in time.
MovedBack(c) == IF Exists /\ lag[c] > last_ago THEN lag[c] - last_ago ELSE 0

\* Both branches of the script write both keys; last_ts becomes now even when
\* now is older than the stored value.
WriteBack(c, left) ==
    /\ keys' = "present"
    /\ tokens' = left
    /\ last_ago' = lag[c]
    /\ key_age' = 0
    /\ reading' = reading \ {c}
    /\ lag' = [lag EXCEPT ![c] = 0]
    /\ regress' = regress + MovedBack(c)

\* Mutant: the granted token is not taken out.
GrantForFree(c) ==
    /\ Refilled(c) >= Cost
    /\ WriteBack(c, Refilled(c))
    /\ granted' = granted + Cost
    /\ promise' = [d \in Caller |-> NoPromise]
    /\ UNCHANGED elapsed

Grant(c) ==
    /\ Refilled(c) >= Cost
    /\ WriteBack(c, Refilled(c) - Cost)
    /\ granted' = granted + Cost
    /\ promise' = [d \in Caller |-> NoPromise]
    /\ UNCHANGED elapsed

\* Mutant: the wait is rounded down.
RefuseRoundedDown(c) ==
    /\ Refilled(c) < Cost
    /\ WriteBack(c, Refilled(c))
    /\ promise' = [promise EXCEPT ![c] = Cost - Refilled(c) - 1]
    /\ UNCHANGED <<elapsed, granted>>

\* wait_time = missing / refill_rate.
Refuse(c) ==
    /\ Refilled(c) < Cost
    /\ WriteBack(c, Refilled(c))
    /\ promise' = [promise EXCEPT ![c] = Cost - Refilled(c)]
    /\ UNCHANGED <<elapsed, granted>>

\* TOKEN_BUCKET_LUA.  (The bounds only end the observed window.)
Acquire(c) ==
    /\ c \in reading
    /\ granted + Cost <= MaxGrant /\ regress + MaxLag <= MaxRegress
    /\ Grant(c) \/ Refuse(c)

\* TokenBucketRateLimiter.reset; a window does not extend across it.
Reset ==
    /\ Exists
    /\ keys' = "absent"
    /\ tokens' = Capacity
    /\ last_ago' = 0
    /\ key_age' = 0
    /\ granted' = 0 /\ elapsed' = 0 /\ regress' = 0
    /\ UNCHANGED <<reading, lag, promise>>

\* A tick of the clock; Redis expires both keys together.
Tick ==
    /\ \A c \in reading : lag[c] < MaxLag
    /\ elapsed < MaxWindow
    /\ elapsed' = elapsed + 1
    /\ lag' = [c \in Caller |-> IF c \in reading THEN lag[c] + 1 ELSE lag[c]]
    /\ promise' = [c \in Caller |-> IF promise[c] > 0 THEN promise[c] - 1 ELSE promise[c]]
    /\ IF Exists /\ key_age < KeyTTL - 1
       THEN /\ key_age' = key_age + 1
            /\ last_ago' = Lesser(last_ago + 1, AgeCap)
            /\ UNCHANGED <<keys, tokens>>
       ELSE /\ keys' = "absent"
            /\ tokens' = Capacity
            /\ last_ago' = 0
            /\ key_age' = 0
    /\ UNCHANGED <<reading, granted, regress>>

\* An observer starts measuring at any moment.
StartWindow ==
    /\ elapsed' = 0 /\ granted' = 0 /\ regress' = 0
    /\ UNCHANGED <<bucket, reading, lag, promise>>

Next ==
    \/ \E c \in Caller : ReadTime(c) \/ Acquire(c)
    \/ Reset
    \/ Tick
    \/ StartWindow

Spec == Init /\ [][Next]_vars

-----------------------------------------------------------------------------
\* What the bucket holds for a request whose timestamp is read now.
Level == IF Exists THEN Lesser(Capacity, tokens + last_ago) ELSE Capacity

\* In every window, from any moment on, the limiter admits at most the burst
\* plus what the rate refills in the window and in the delay of one script
\* call - plus exactly what scripts that ran with timestamps older than
\* last_ts made it refill twice.  With timestamps applied in order regress is
\* 0 and this is the documented 324 requests per minute above a burst of 10.
RateBound == granted <= Capacity + elapsed + MaxLag + regress

\* "returns the exact seconds to wait until 1 token is granted": a refused
\* caller that waits as told finds a token, unless another request was
\* granted in between - whatever refused requests, late scripts and key
\* expiries do to the bucket meanwhile.
WaitIsExact ==
    \A c \in Caller : promise[c] # NoPromise => Level + promise[c] >= Cost
=============================================================================
