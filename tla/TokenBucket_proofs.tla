------------------------- MODULE TokenBucket_proofs -------------------------
(***************************************************************************)
(* Proofs about TokenBucket, for every set of calls, limits, bursts and    *)
(* skew, whenever an idle bucket refills before Redis forgets it.          *)
(***************************************************************************)
EXTENDS TokenBucket, TLAPS

Constants == /\ MaxStep \in Nat /\ MaxDelay \in Nat /\ MaxLimit \in Nat
             /\ MaxBurst \in Nat /\ Minute \in Nat \ {0} /\ Ttl \in Nat
             /\ Skew \in Nat /\ Skew = MaxStep + MaxDelay /\ Skew <= Ttl
             /\ MaxBurst * Minute \in Nat

\* A product of naturals is a natural.
LEMMA ProductNat == \A a, b \in Nat : a * b \in Nat
  OBVIOUS

\* Multiplication is monotone.
LEMMA ProductMonotone == \A a, b, c \in Nat : a <= b => a * c <= b * c /\ c * a <= c * b
  OBVIOUS

\* Multiplication distributes over a difference.
LEMMA ProductSplit ==
  \A a, b, c, d \in Nat : d * (c - a) = d * (b - a) + d * (c - b)
  OBVIOUS

\* The assumptions on the constants, in one fact.
LEMMA ConstantsFact == Constants
  BY TimeAssumption, BucketAssumption, TtlAssumption, ProductNat DEF Constants, Skew

\* A call under way has a stamp near the clock.
LEMMA StampNear ==
  ASSUME TypeOK, CallsOnTime, NEW c \in Call, phase[c] = "sent"
  PROVE  /\ stamp[c] \in Nat /\ clock \in Nat
         /\ stamp[c] <= clock + MaxStep /\ clock <= stamp[c] + MaxDelay
  BY ConstantsFact DEF Constants, TypeOK, CallTypeOK, CallsOnTime

\* A bucket after its refill: no more than the burst, and no more above what the
\* bound still grants than the limit refills by the new stamp.
LEMMA RefillBounded ==
  ASSUME IInv, NEW c \in Call, phase[c] = "sent",
         NEW limit \in Limit, NEW burst \in Burst, NEW left,
         left = Tokens(limit, burst, stamp[c]),
         NEW start, start = IF present \/ granted > 0 THEN first ELSE stamp[c]
  PROVE  /\ left \in Nat /\ left <= MaxBurst * Minute
         /\ start \in Nat /\ start <= Refilled(stamp[c])
         /\ Refilled(stamp[c]) \in Nat /\ Refilled(stamp[c]) <= clock + MaxStep
         /\ granted * Minute + left
              <= MaxBurst * Minute + MaxLimit * (Refilled(stamp[c]) - start)
<1> DEFINE t == stamp[c]
<1> DEFINE M == MaxBurst * Minute
<1> USE ConstantsFact DEF Constants
<1>0. /\ t \in Nat /\ clock \in Nat /\ t <= clock + MaxStep /\ clock <= t + MaxDelay
  BY StampNear DEF IInv
<1>1. /\ tokens \in Nat /\ last \in Nat /\ first \in Nat /\ granted \in Nat
      /\ present \in BOOLEAN /\ first <= last /\ touched <= clock /\ touched \in Nat
      /\ present => last <= touched + MaxStep
      /\ ~present /\ granted > 0 => last + Ttl <= clock + MaxStep
  BY DEF IInv, TypeOK, LastNotAhead
<1>2. limit \in Nat /\ burst \in Nat /\ limit <= MaxLimit /\ burst <= MaxBurst
  BY BucketAssumption
<1>3. burst * Minute \in Nat /\ burst * Minute <= M /\ M \in Nat
  BY <1>2, ProductNat, ProductMonotone
<1>4. granted * Minute \in Nat
  BY <1>1, ProductNat
<1> HIDE DEF M
<1>5. CASE present
  <2> DEFINE e == Elapsed(t)
  <2>1. start = first
    BY <1>5, Zenon
  <2>2. e = (IF t > last THEN t - last ELSE 0) /\ Refilled(t) = IF t < last THEN last ELSE t
    BY <1>5, Zenon DEF Elapsed, Refilled
  <2>3. e \in Nat /\ Refilled(t) = last + e /\ last + e <= clock + MaxStep
    <3>1. last <= touched + MaxStep
      BY <1>1, <1>5, Zenon
    <3>2. /\ t \in Nat /\ last \in Nat /\ touched \in Nat
          /\ last <= clock + MaxStep
      BY <1>0, <1>1, <3>1
    <3> HIDE DEF t, e
    <3>3. QED
      BY <1>0, <2>2, <3>2
  <2> DEFINE r == e * limit
  <2>4. r \in Nat /\ r <= MaxLimit * e
    BY <1>2, <2>3, ProductNat, ProductMonotone
  <2>5. left = Least(burst * Minute, tokens + r)
    BY <1>5, Zenon DEF Tokens
  <2> HIDE DEF e, r
  <2>6. left \in Nat /\ left <= M /\ left <= tokens + r
    BY <1>1, <1>3, <2>4, <2>5 DEF Least
  <2> DEFINE p == MaxLimit * (last - first)
  <2> DEFINE d == MaxLimit * e
  <2> DEFINE g == granted * Minute
  <2>7. g + tokens <= M + p /\ g \in Nat
    BY <1>4, <1>5 DEF IInv, Budget, M
  <2>8. MaxLimit * ((last + e) - first) = p + d
    BY <1>1, <2>3, ProductSplit
  <2>9. p \in Nat /\ d \in Nat /\ r <= d
    BY <1>1, <2>3, <2>4, ProductNat
  <2> HIDE DEF p, d, g
  <2>10. g + left <= M + (p + d)
    BY <1>1, <1>3, <2>4, <2>6, <2>7, <2>9
  <2>11. granted * Minute + left <= M + MaxLimit * (Refilled(t) - first)
    BY <2>3, <2>8, <2>10 DEF g
  <2>12. QED
    BY <1>1, <2>1, <2>3, <2>6, <2>11 DEF M
<1>6. CASE ~present
  <2>1. Elapsed(t) = 0 /\ Refilled(t) = t
    BY <1>0, <1>6 DEF Elapsed, Refilled
  <2>2. left = Least(burst * Minute, burst * Minute + 0 * limit)
    BY <1>6, <2>1 DEF Tokens
  <2>3. left \in Nat /\ left <= M
    BY <1>2, <1>3, <2>2 DEF Least
  <2>4. CASE granted > 0
    <3>1. start = first /\ last + Ttl <= clock + MaxStep
      BY <1>1, <1>6, <2>4
    <3>2. Ttl - Skew \in Nat /\ t - last \in Nat /\ Ttl - Skew <= t - last
      BY <1>0, <1>1, <3>1
    <3>3. M <= MaxLimit * (Ttl - Skew)
      BY TtlAssumption DEF M
    <3>4. MaxLimit * (Ttl - Skew) <= MaxLimit * (t - last)
      BY <3>2, ProductMonotone
    <3>5. granted * Minute <= M + MaxLimit * (last - first)
      BY DEF IInv, RateBound, M
    <3>6. MaxLimit * (t - first) = MaxLimit * (last - first) + MaxLimit * (t - last)
      BY <1>0, <1>1, ProductSplit
    <3>7. /\ MaxLimit * (t - last) \in Nat /\ MaxLimit * (last - first) \in Nat
          /\ MaxLimit * (Ttl - Skew) \in Nat
      BY <1>1, <3>2, ProductNat
    <3>8. granted * Minute + left <= M + MaxLimit * (t - first)
      BY <1>4, <2>3, <3>3, <3>4, <3>5, <3>6, <3>7 DEF M
    <3>9. QED
      BY <1>0, <1>1, <2>1, <2>3, <3>1, <3>2, <3>8 DEF M
  <2>5. CASE granted = 0
    <3>1. start = t /\ granted * Minute = 0 /\ MaxLimit * (t - t) = 0
      BY <1>0, <1>1, <1>6, <2>5
    <3>2. QED
      BY <1>0, <2>1, <2>3, <3>1 DEF M
  <2>6. QED
    BY <1>1, <2>4, <2>5
<1>7. QED
  BY <1>1, <1>5, <1>6

\* A run of the script that takes `spent' from the refilled bucket and grants
\* calls worth at most that keeps the bound and the times.
LEMMA RunKeeps ==
  ASSUME IInv, NEW c \in Call, phase[c] = "sent",
         NEW limit \in Limit, NEW burst \in Burst, NEW spent \in Nat,
         spent <= Tokens(limit, burst, stamp[c]),
         Run(stamp[c], Tokens(limit, burst, stamp[c]) - spent),
         clock' = clock, granted' \in Nat,
         granted' * Minute <= granted * Minute + spent
  PROVE  /\ present' = TRUE /\ tokens' \in Nat /\ last' \in Nat /\ first' \in Nat
         /\ touched' \in Nat /\ lives' \in Nat
         /\ Budget' /\ LastNotAhead' /\ RateBound'
<1> USE ConstantsFact DEF Constants
<1> DEFINE left == Tokens(limit, burst, stamp[c])
<1> DEFINE start == IF present \/ granted > 0 THEN first ELSE stamp[c]
<1> DEFINE M == MaxBurst * Minute
<1> DEFINE g == granted * Minute
<1> DEFINE h == granted' * Minute
<1> DEFINE p == MaxLimit * (last' - first')
<1>0. clock \in Nat /\ granted \in Nat /\ lives \in Nat
  BY DEF IInv, TypeOK, CallTypeOK
<1>1. /\ present' = TRUE /\ tokens' = left - spent /\ last' = Refilled(stamp[c])
      /\ touched' = clock /\ first' = start /\ lives' = lives
  BY Zenon DEF Run
<1>2. /\ left \in Nat /\ left <= M /\ start \in Nat /\ start <= Refilled(stamp[c])
      /\ Refilled(stamp[c]) \in Nat /\ Refilled(stamp[c]) <= clock + MaxStep
      /\ g + left <= M + MaxLimit * (Refilled(stamp[c]) - start)
  BY RefillBounded, Zenon
<1>3. g \in Nat /\ h \in Nat /\ h <= g + spent /\ M \in Nat /\ spent <= left
  BY <1>0, ProductNat
<1>4. last' - first' \in Nat
  BY <1>1, <1>2
<1>5. p \in Nat /\ g + left <= M + p
  BY <1>1, <1>2, <1>4, ProductNat, Zenon
<1> HIDE DEF left, start, M, g, h, p
<1>6. h + tokens' <= M + p /\ h <= M + p /\ tokens' <= M /\ tokens' \in Nat
  BY <1>1, <1>2, <1>3, <1>5
<1>7. Budget' /\ RateBound'
  BY <1>1, <1>6 DEF Budget, RateBound, M, h, p
<1>8. LastNotAhead'
  BY <1>0, <1>1, <1>2 DEF LastNotAhead
<1>9. QED
  BY <1>0, <1>1, <1>2, <1>6, <1>7, <1>8

\* One more call granted is worth a token.
LEMMA GrantedOne == \A g, m \in Nat : (g + 1) * m = g * m + m
  OBVIOUS

\* The calls' part of the invariant survives an answer.
LEMMA AnswerKeeps ==
  ASSUME CallTypeOK, CallsOnTime, NEW c \in Call, NEW v \in {"allowed", "denied", "error"},
         Answer(c, v)
  PROVE  CallTypeOK' /\ CallsOnTime'
<1>1. CallTypeOK'
  BY DEF CallTypeOK, Answer, Phase
<1>2. CallsOnTime'
  BY DEF CallTypeOK, CallsOnTime, Answer, Phase
<1>3. QED
  BY <1>1, <1>2

\* What a run finds is a number of token shares.
LEMMA TokensNat ==
  ASSUME IInv, NEW c \in Call, phase[c] = "sent", NEW limit \in Limit, NEW burst \in Burst
  PROVE  Tokens(limit, burst, stamp[c]) \in Nat
<1> DEFINE start == IF present \/ granted > 0 THEN first ELSE stamp[c]
<1>1. QED
  BY RefillBounded, Zenon

\* A run that takes a token, or whose reply is lost, keeps every part.
LEMMA InvTake ==
  ASSUME IInv, NEW c \in Call, Allow(c) \/ ReplyLost(c)
  PROVE  IInv'
<1> USE ConstantsFact DEF Constants
<1>1. phase[c] = "sent" /\ hint' = NoHint /\ clock' = clock
  BY Zenon DEF Allow, ReplyLost, Answer, callVars
<1>2. granted \in Nat /\ granted * Minute \in Nat
  BY ProductNat DEF IInv, TypeOK
<1>3. PICK limit \in Limit, burst \in Burst, spent \in {0, Minute} :
        /\ spent <= Tokens(limit, burst, stamp[c])
        /\ Run(stamp[c], Tokens(limit, burst, stamp[c]) - spent)
        /\ granted' = granted \/ (spent = Minute /\ granted' = granted + 1)
  <2>1. CASE Allow(c)
    BY <2>1 DEF Allow
  <2>2. CASE ReplyLost(c)
    <3>1. PICK limit \in Limit, burst \in Burst :
            LET left == Tokens(limit, burst, stamp[c])
            IN Run(stamp[c], IF left >= Minute THEN left - Minute ELSE left)
      BY <2>2, Zenon DEF ReplyLost
    <3>2. granted' = granted
      BY <2>2 DEF ReplyLost
    <3> DEFINE left == Tokens(limit, burst, stamp[c])
    <3>3. left \in Nat
      BY <1>1, TokensNat
    <3>4. Run(stamp[c], IF left >= Minute THEN left - Minute ELSE left)
      BY <3>1, Zenon
    <3> DEFINE spent == IF left >= Minute THEN Minute ELSE 0
    <3> HIDE DEF left
    <3>5. /\ spent \in {0, Minute} /\ spent <= left
          /\ left - spent = IF left >= Minute THEN left - Minute ELSE left
      BY <3>3
    <3> HIDE DEF spent
    <3>6. Run(stamp[c], left - spent)
      BY <3>4, <3>5, Zenon
    <3>7. /\ spent <= Tokens(limit, burst, stamp[c])
          /\ Run(stamp[c], Tokens(limit, burst, stamp[c]) - spent)
      BY <3>5, <3>6, Zenon DEF left
    <3>8. spent \in {0, Minute}
      BY <3>5
    <3> WITNESS limit \in Limit, burst \in Burst, spent \in {0, Minute}
    <3>9. QED
      BY <3>2, <3>7, Zenon
  <2>3. QED
    BY <2>1, <2>2
<1>4. granted' \in Nat /\ granted' * Minute <= granted * Minute + spent
  <2>1. spent \in Nat
    OBVIOUS
  <2>2. QED
    BY <1>3, <1>2, <2>1, GrantedOne
<1>5. spent <= Tokens(limit, burst, stamp[c])
  BY <1>3
<1>6. /\ present' = TRUE /\ tokens' \in Nat /\ last' \in Nat /\ first' \in Nat
      /\ touched' \in Nat /\ lives' \in Nat
      /\ Budget' /\ LastNotAhead' /\ RateBound'
  <2>1. spent \in Nat
    OBVIOUS
  <2>2. QED
    BY <1>3, <1>1, <1>4, <1>5, <2>1, RunKeeps, Zenon
<1>7. CallTypeOK' /\ CallsOnTime'
  <2>1. CASE Allow(c)
    BY <2>1, AnswerKeeps, Zenon DEF IInv, TypeOK, Allow
  <2>2. CASE ReplyLost(c)
    BY <2>2 DEF IInv, TypeOK, CallTypeOK, CallsOnTime, ReplyLost, callVars
  <2>3. QED
    BY <2>1, <2>2
<1>8. TypeOK'
  BY <1>1, <1>4, <1>6, <1>7 DEF TypeOK, NoHint
<1>9. Promise'
  BY <1>1 DEF Promise, NoHint
<1>10. QED
  BY <1>6, <1>7, <1>8, <1>9 DEF IInv

\* Rounding up: the wait refills what is missing.
LEMMA WaitSuffices ==
  \A left, limit \in Nat : left < Minute /\ limit > 0 =>
    /\ RetryAfter(left, limit) \in Nat
    /\ left + RetryAfter(left, limit) * limit >= Minute
<1> SUFFICES ASSUME NEW left \in Nat, NEW limit \in Nat, left < Minute, limit > 0
             PROVE  /\ RetryAfter(left, limit) \in Nat
                    /\ left + RetryAfter(left, limit) * limit >= Minute
  OBVIOUS
<1> DEFINE a == Minute - left + limit - 1
<1> DEFINE q == a \div limit
<1>1. a \in Nat
  BY ConstantsFact DEF Constants
<1> HIDE DEF a
<1>2. q \in Nat /\ limit * q + limit > a
  BY <1>1
<1> HIDE DEF q
<1>3. limit * q = q * limit /\ q * limit \in Nat
  BY <1>2, ProductNat
<1>4. left + q * limit >= Minute
  BY <1>2, <1>3, ConstantsFact DEF a, Constants
<1>5. RetryAfter(left, limit) = q
  BY Zenon DEF RetryAfter, q, a
<1>6. QED
  BY <1>2, <1>4, <1>5

\* A denial keeps every part.
LEMMA InvDeny == ASSUME IInv, NEW c \in Call, Deny(c) PROVE IInv'
<1> USE ConstantsFact DEF Constants
<1>1. PICK limit \in Limit, burst \in Burst :
        /\ Tokens(limit, burst, stamp[c]) < Minute
        /\ Run(stamp[c], Tokens(limit, burst, stamp[c]))
        /\ hint' = [at |-> stamp[c],
                    wait |-> RetryAfter(Tokens(limit, burst, stamp[c]), limit),
                    limit |-> limit]
  BY Zenon DEF Deny
<1> DEFINE left == Tokens(limit, burst, stamp[c])
<1>2. phase[c] = "sent" /\ clock' = clock /\ granted' = granted
  BY Zenon DEF Deny, Answer
<1>3. left \in Nat
  <2> DEFINE start == IF present \/ granted > 0 THEN first ELSE stamp[c]
  <2>1. QED
    BY <1>2, RefillBounded, Zenon
<1>4. granted \in Nat /\ granted * Minute \in Nat
  BY ProductNat DEF IInv, TypeOK
<1>5. limit \in Nat /\ limit > 0
  BY BucketAssumption
<1>6. /\ present' = TRUE /\ tokens' \in Nat /\ last' \in Nat /\ first' \in Nat
      /\ touched' \in Nat /\ lives' \in Nat
      /\ Budget' /\ LastNotAhead' /\ RateBound'
  <2>1. left - 0 = left /\ 0 <= left
    BY <1>3
  <2>2. granted' \in Nat /\ granted' * Minute <= granted * Minute + 0
    BY <1>2, <1>4
  <2>3. Run(stamp[c], left - 0)
    BY <1>1, <2>1
  <2>4. QED
    BY <1>2, <2>1, <2>2, <2>3, RunKeeps
<1>7. CallTypeOK' /\ CallsOnTime'
  BY AnswerKeeps, Zenon DEF IInv, TypeOK, Deny
<1>8. stamp[c] \in Nat /\ clock \in Nat /\ clock <= stamp[c] + MaxDelay
  BY <1>2, StampNear DEF IInv
<1>9. /\ RetryAfter(left, limit) \in Nat
      /\ left + RetryAfter(left, limit) * limit >= Minute
  BY <1>1, <1>3, <1>5, WaitSuffices
<1>10. TypeOK'
  BY <1>1, <1>2, <1>4, <1>5, <1>6, <1>7, <1>8, <1>9 DEF TypeOK
<1>11. Promise'
  <2>1. tokens' = left /\ last' = Refilled(stamp[c])
    BY <1>1 DEF Run
  <2>2. last \in Nat /\ present => last <= clock + MaxStep
    BY <1>8 DEF IInv, TypeOK, LastNotAhead
  <2>3. last' <= stamp[c] + Skew
    BY <1>8, <2>1, <2>2 DEF Refilled, IInv, TypeOK
  <2>4. /\ hint'.wait = RetryAfter(left, limit) /\ hint'.limit = limit
        /\ hint'.at = stamp[c]
    BY <1>1
  <2> HIDE DEF left
  <2>5. tokens' + hint'.wait * hint'.limit >= Minute
    BY <1>9, <2>1, <2>4
  <2>6. QED
    BY <2>3, <2>4, <2>5 DEF Promise
<1>12. QED
  BY <1>6, <1>7, <1>10, <1>11 DEF IInv

\* The steps that do not run the script.
LEMMA InvOther ==
  ASSUME IInv,
         \/ \E c \in Call : Check(c) \/ Fail(c)
         \/ Expire \/ RedisRestart \/ Observe
         \/ Tick /\ UNCHANGED bucketVars
         \/ UNCHANGED vars
  PROVE  IInv'
<1> USE ConstantsFact
    DEF Constants, TypeOK, CallTypeOK, Phase, bucketVars, callVars, vars
<1> DEFINE M == MaxBurst * Minute
<1>0. /\ tokens \in Nat /\ last \in Nat /\ first \in Nat /\ granted \in Nat
      /\ first <= last /\ touched <= clock /\ clock \in Nat /\ touched \in Nat
      /\ M \in Nat /\ granted * Minute \in Nat /\ MaxLimit * (last - first) \in Nat
  BY ProductNat DEF IInv, LastNotAhead
<1>1. CASE \E c \in Call : Check(c) \/ Fail(c)
  <2> PICK c \in Call : Check(c) \/ Fail(c)
    BY <1>1
  <2>1. TypeOK' /\ CallsOnTime'
    <3>1. CASE Check(c)
      BY <3>1 DEF IInv, Check, ReadClock, CallsOnTime
    <3>2. CASE Fail(c)
      BY <3>2 DEF IInv, Fail, Answer, CallsOnTime
    <3>3. QED
      BY <3>1, <3>2
  <2>2. UNCHANGED bucketVars /\ clock' = clock
    BY DEF Check, ReadClock, Fail, Answer
  <2>3. Budget' /\ LastNotAhead' /\ Promise' /\ RateBound'
    BY <2>2 DEF IInv, Budget, LastNotAhead, Promise, RateBound
  <2>4. QED
    BY <2>1, <2>3 DEF IInv
<1>2. CASE Expire
  <2> USE <1>2 DEF Expire
  <2>1. TypeOK' /\ CallsOnTime'
    BY DEF IInv, CallsOnTime
  <2>2. last <= touched + MaxStep
    BY DEF IInv, LastNotAhead
  <2>3. LastNotAhead'
    BY <1>0, <2>2 DEF LastNotAhead
  <2>4. Budget' /\ Promise' /\ RateBound'
    BY DEF IInv, Budget, Promise, RateBound
  <2>5. QED
    BY <2>1, <2>3, <2>4 DEF IInv
<1>3. CASE RedisRestart
  <2> USE <1>3 DEF RedisRestart
  <2>1. TypeOK' /\ CallsOnTime'
    <3>0. lives' \in Nat /\ granted' \in Nat /\ MaxRestarts \in Nat
      BY BucketAssumption DEF IInv
    <3>1. TypeOK'
      BY <3>0 DEF IInv
    <3>2. CallsOnTime'
      BY DEF IInv, CallsOnTime
    <3>3. QED
      BY <3>1, <3>2
  <2>2. Budget' /\ Promise' /\ LastNotAhead'
    BY <1>0 DEF IInv, Budget, Promise, LastNotAhead
  <2>3. RateBound'
    <3>1. 0 * Minute = 0
      OBVIOUS
    <3>2. QED
      BY <1>0, <3>1 DEF RateBound
  <2>4. QED
    BY <2>1, <2>2, <2>3 DEF IInv
<1>4. CASE Observe
  <2> USE <1>4 DEF Observe
  <2>1. TypeOK' /\ CallsOnTime'
    <3>1. TypeOK'
      BY DEF IInv
    <3>2. CallsOnTime'
      BY DEF IInv, CallsOnTime
    <3>3. QED
      BY <3>1, <3>2
  <2>2. 0 * Minute = 0 /\ MaxLimit * (last - last) = 0
    BY <1>0
  <2>3. Budget' /\ RateBound'
    BY <1>0, <2>2 DEF IInv, Budget, RateBound
  <2>4. Promise' /\ LastNotAhead'
    BY <1>0 DEF IInv, Promise, LastNotAhead
  <2>5. QED
    BY <2>1, <2>3, <2>4 DEF IInv
<1>5. CASE Tick /\ UNCHANGED bucketVars
  <2> USE <1>5 DEF Tick
  <2>1. TypeOK' /\ CallsOnTime'
    <3>1. TypeOK'
      BY DEF IInv
    <3>2. CallsOnTime'
      BY DEF IInv, CallsOnTime
    <3>3. QED
      BY <3>1, <3>2
  <2>2. LastNotAhead'
    BY <1>0 DEF IInv, LastNotAhead
  <2>3. Budget' /\ Promise' /\ RateBound'
    BY DEF IInv, Budget, Promise, RateBound
  <2>4. QED
    BY <2>1, <2>2, <2>3 DEF IInv
<1>6. CASE UNCHANGED vars
  BY <1>6 DEF IInv, CallsOnTime, Budget, LastNotAhead, Promise, RateBound
<1>7. QED
  BY <1>1, <1>2, <1>3, <1>4, <1>5, <1>6

\* The invariant holds at the start.
LEMMA InvInit == Init => IInv
<1> SUFFICES ASSUME Init PROVE IInv
  OBVIOUS
<1> USE ConstantsFact DEF Constants, Init, CallInit, NoHint
<1>1. TypeOK /\ CallsOnTime
  BY DEF TypeOK, CallTypeOK, Phase, CallsOnTime
<1>2. Budget /\ LastNotAhead /\ Promise
  BY DEF Budget, LastNotAhead, Promise
<1>3. RateBound
  <2>1. 0 * Minute = 0 /\ MaxLimit * (0 - 0) = 0
    OBVIOUS
  <2>2. QED
    BY <2>1 DEF RateBound
<1>4. QED
  BY <1>1, <1>2, <1>3 DEF IInv

\* In every reachable state the inductive invariant holds.
THEOREM Invariance == Spec => []IInv
<1>1. IInv /\ [Next]_vars => IInv'
  BY InvTake, InvDeny, InvOther DEF Next
<1>2. QED
  BY InvInit, <1>1, PTL DEF Spec

\* From any moment on, the calls the bucket allows are no more than the burst and
\* what the limit refills, in whatever order the scripts run and however the
\* clock steps (token_bucket.lua:22-27, 46-51).
THEOREM RateIsBounded == Spec => []RateBound
<1>1. IInv => RateBound
  BY DEF IInv
<1>2. QED
  BY <1>1, Invariance, PTL

\* The wait a denied caller is told suffices, unless a policy has no burst
\* (token_bucket.lua:40).
THEOREM HintIsHonest == ASSUME 0 \notin Burst PROVE Spec => []HintSuffices
<1>1. IInv => HintSuffices
  <2> SUFFICES ASSUME IInv, hint.wait > 0, NEW burst \in Burst
               PROVE  Tokens(hint.limit, burst, hint.at + hint.wait + Skew) >= Minute
    BY DEF HintSuffices
  <2> USE ConstantsFact DEF Constants
  <2> DEFINE t == hint.at + hint.wait + Skew
  <2> DEFINE limit == hint.limit
  <2>1. /\ limit \in Nat /\ hint.wait \in Nat /\ hint.at \in Nat /\ t \in Nat
        /\ tokens \in Nat /\ last \in Nat /\ present \in BOOLEAN
    BY DEF IInv, TypeOK
  <2>2. burst \in Nat /\ burst >= 1
    BY BucketAssumption
  <2>3. burst * Minute \in Nat /\ burst * Minute >= Minute
    <3>1. 1 * Minute <= burst * Minute
      BY <2>2, ProductMonotone
    <3>2. QED
      BY <2>2, <3>1, ProductNat
  <2>4. CASE present
    <3>1. last <= hint.at + Skew /\ tokens + hint.wait * limit >= Minute
      BY <2>4 DEF IInv, Promise
    <3>2. Elapsed(t) \in Nat /\ hint.wait <= Elapsed(t)
      BY <2>1, <2>4, <3>1 DEF Elapsed
    <3>3. /\ hint.wait * limit <= Elapsed(t) * limit
          /\ hint.wait * limit \in Nat /\ Elapsed(t) * limit \in Nat
      BY <2>1, <3>2, ProductMonotone, ProductNat
    <3> DEFINE r == Elapsed(t) * limit
    <3>4. Tokens(limit, burst, t) = Least(burst * Minute, tokens + r)
      BY <2>4, Zenon DEF Tokens
    <3> HIDE DEF r, t, limit
    <3>5. tokens + r >= Minute
      BY <2>1, <3>1, <3>3 DEF r
    <3>6. Tokens(limit, burst, t) >= Minute
      BY <2>3, <3>4, <3>5 DEF Least
    <3>7. QED
      BY <3>6 DEF limit, t
  <2>5. CASE ~present
    <3>1. Tokens(limit, burst, t) = Least(burst * Minute, burst * Minute + 0 * limit)
      BY <2>5, Zenon DEF Tokens, Elapsed
    <3>2. Tokens(limit, burst, t) = burst * Minute
      BY <2>1, <2>3, <3>1 DEF Least
    <3>3. QED
      BY <2>3, <3>2
  <2>6. QED
    BY <2>1, <2>4, <2>5
<1>2. QED
  BY <1>1, Invariance, PTL
=============================================================================
