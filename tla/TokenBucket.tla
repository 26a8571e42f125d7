----------------------------- MODULE TokenBucket -----------------------------
(***************************************************************************)
(* The token bucket: TokenBucketLimiter.Check and token_bucket.lua on one  *)
(* key.  Tokens are counted in the share of a token that one unit of time  *)
(* refills at a limit of 1, so a token is Minute of them and a refill is   *)
(* elapsed * limit.                                                        *)
(***************************************************************************)
EXTENDS CallClock, Integers

CONSTANTS
  Limit,       \* the limits policies and overrides give this key
  Burst,       \* the bursts policies give it
  MaxLimit, MaxBurst,
  Minute,      \* 60 000 ms
  Ttl,         \* ttl_secs
  MaxRestarts  \* bound: restarts of Redis

ASSUME BucketAssumption ==
  /\ MaxLimit \in Nat /\ MaxBurst \in Nat
  /\ Limit \subseteq 1 .. MaxLimit /\ Burst \subseteq 0 .. MaxBurst
  /\ Minute \in Nat \ {0} /\ Ttl \in Nat /\ MaxRestarts \in Nat

\* An idle bucket has refilled by the time Redis forgets it.
ASSUME TtlAssumption == /\ Skew <= Ttl
                        /\ MaxBurst * Minute <= MaxLimit * (Ttl - Skew)

VARIABLES
  present,  \* whether the key exists
  tokens,   \* its "tokens"
  last,     \* its "last_refill_ms"
  touched,  \* when EXPIRE last ran
  hint,     \* retry_after_ms of the last run, with its time and its limit
  granted,  \* history: calls allowed since `first'
  first,    \* history: `last' when an observer began to count
  lives     \* history: restarts of Redis

bucketVars == <<present, tokens, last, touched, hint, granted, first, lives>>
vars == <<clock, callVars, bucketVars>>

NoHint == [at |-> 0, wait |-> 0, limit |-> 0]

Init == /\ CallInit
        /\ present = FALSE /\ tokens = 0 /\ last = 0 /\ touched = 0
        /\ hint = NoHint /\ granted = 0 /\ first = 0 /\ lives = 0

Least(a, b) == IF a <= b THEN a ELSE b

\* elapsed_ms, not below zero
Elapsed(t) == IF present /\ t > last THEN t - last ELSE 0

\* Mutant: the refill is not capped at the burst.
TokensUncapped(limit, burst, t) == (IF present THEN tokens ELSE burst * Minute)
                                   + Elapsed(t) * limit

\* The tokens after the refill; an absent key starts full.
Tokens(limit, burst, t) == Least(burst * Minute,
                                 (IF present THEN tokens ELSE burst * Minute)
                                 + Elapsed(t) * limit)

\* Mutant: last_refill_ms follows the stamps back.
RefillBackwards(t) == t

\* last_refill_ms never moves backward.
Refilled(t) == IF present /\ t < last THEN last ELSE t

\* Mutant: the wait is rounded down.
RetryFloor(left, limit) == (Minute - left) \div limit

\* math.ceil: the wait until a token is there
RetryAfter(left, limit) == (Minute - left + limit - 1) \div limit

\* Check: take the time.
Check(c) == ReadClock(c) /\ UNCHANGED bucketVars

\* What every run of the script with stamp t leaves.
Run(t, left) == /\ present' = TRUE /\ tokens' = left
                /\ last' = Refilled(t) /\ touched' = clock
                /\ first' = IF present \/ granted > 0 THEN first ELSE t
                /\ UNCHANGED lives

\* The script takes a token for c.
Allow(c) == /\ phase[c] = "sent"
            /\ \E limit \in Limit, burst \in Burst :
                 /\ Tokens(limit, burst, stamp[c]) >= Minute
                 /\ Run(stamp[c], Tokens(limit, burst, stamp[c]) - Minute)
            /\ hint' = NoHint /\ granted' = granted + 1
            /\ Answer(c, "allowed")

\* The script denies c and tells when a token will be there.
Deny(c) == /\ phase[c] = "sent"
           /\ \E limit \in Limit, burst \in Burst :
                LET left == Tokens(limit, burst, stamp[c])
                IN /\ left < Minute
                   /\ Run(stamp[c], left)
                   /\ hint' = [at |-> stamp[c], wait |-> RetryAfter(left, limit),
                               limit |-> limit]
           /\ UNCHANGED granted
           /\ Answer(c, "denied")

\* The script ran but its reply is lost: the Redis client runs it again with the
\* same arguments.
ReplyLost(c) == /\ phase[c] = "sent"
                /\ \E limit \in Limit, burst \in Burst :
                     LET left == Tokens(limit, burst, stamp[c])
                     IN Run(stamp[c], IF left >= Minute THEN left - Minute ELSE left)
                /\ hint' = NoHint
                /\ UNCHANGED <<clock, callVars, granted>>

\* Check returns err.
Fail(c) == phase[c] = "sent" /\ Answer(c, "error") /\ UNCHANGED bucketVars

\* The key's TTL passes.
Expire == /\ present /\ clock >= touched + Ttl
          /\ present' = FALSE
          /\ UNCHANGED <<clock, callVars, tokens, last, touched, hint, granted, first,
                         lives>>

\* Redis restarts empty; the count begins anew.
RedisRestart == /\ lives < MaxRestarts
                /\ lives' = lives + 1 /\ present' = FALSE /\ granted' = 0
                /\ UNCHANGED <<clock, callVars, tokens, last, touched, hint, first>>

\* An observer begins to count, at any moment of the bucket's life.
Observe == /\ present /\ granted > 0
           /\ granted' = 0 /\ first' = last
           /\ UNCHANGED <<clock, callVars, present, tokens, last, touched, hint, lives>>

Next == \/ \E c \in Call : Check(c) \/ Allow(c) \/ Deny(c) \/ ReplyLost(c) \/ Fail(c)
        \/ Expire \/ RedisRestart \/ Observe
        \/ Tick /\ UNCHANGED bucketVars

Spec == Init /\ [][Next]_vars

-----------------------------------------------------------------------------
\* Every variable keeps its type.
TypeOK == /\ CallTypeOK
          /\ present \in BOOLEAN /\ tokens \in Nat /\ last \in Nat /\ touched \in Nat
          /\ hint \in [at : Nat, wait : Nat, limit : Nat]
          /\ granted \in Nat /\ first \in Nat /\ lives \in Nat

\* Whatever the order of the scripts, the steps of the clock, the changes of
\* policy and the times Redis forgot the key: from any moment on, the calls
\* allowed are no more than the burst and what the limit refills by the clock.
RateBound == granted * Minute <= MaxBurst * Minute + MaxLimit * (last - first)

\* A denied caller that backs off for retry_after_ms (README.md:535) and the skew
\* finds a token, if nobody else called meanwhile.
HintSuffices ==
  hint.wait > 0 => \A burst \in Burst :
    Tokens(hint.limit, burst, hint.at + hint.wait + Skew) >= Minute

-----------------------------------------------------------------------------
(* The inductive invariant. *)

\* The bound, with what the bucket still holds.
Budget == present => /\ granted * Minute + tokens
                          <= MaxBurst * Minute + MaxLimit * (last - first)
                     /\ tokens <= MaxBurst * Minute

\* The bucket's time is not ahead of the clock by more than a step, and a bucket
\* that was forgotten while an observer counted is a Ttl old.
LastNotAhead == /\ first <= last /\ touched <= clock
                /\ present => last <= touched + MaxStep
                /\ ~present /\ granted > 0 => last + Ttl <= clock + MaxStep

\* What the hint promised, in the units of the bucket.
Promise == hint.wait > 0 => /\ hint.limit \in Limit
                            /\ present => /\ tokens + hint.wait * hint.limit >= Minute
                                          /\ last <= hint.at + Skew

IInv == /\ TypeOK /\ CallsOnTime /\ Budget /\ LastNotAhead /\ Promise /\ RateBound
=============================================================================
