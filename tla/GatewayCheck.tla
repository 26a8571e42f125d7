---------------------------- MODULE GatewayCheck ----------------------------
(***************************************************************************)
(* POST /check of one gateway from the first guard to the answer, for one  *)
(* user of each tier: the policy as the store has it at that moment, the   *)
(* local limiter on a key that both algorithms share, the count of the     *)
(* window, the usage gauge, and the congestion counter of the tier.        *)
(*                                                                         *)
(* Whether a limiter that works has a token left is open here (TokenBucket *)
(* and SlidingWindow say when), and so is how far the count of the window  *)
(* has come (GCounterSync).  The limit of an override only reaches the     *)
(* limiter, so it is part of the first choice.                             *)
(***************************************************************************)
EXTENDS PolicyStore, FiniteSets

CONSTANTS
  Handler,      \* the goroutines that serve a request
  TierOf,       \* TierOf[h]: the tier of the user whose request h serves
  TtlWindows    \* windows an unused rl:local key lives on (120 s of 60 s)

ASSUME TierAssumption == TierOf \in [Handler -> Tier]
ASSUME TtlAssumption == TtlWindows \in Nat

VARIABLES
  pc,       \* pc[h]: progress of the handler
  pol,      \* pol[h]: pol, as Get returned it
  win,      \* win[h]: the window of globalKey, once it is fixed
  local,    \* local[t]: what rl:local:{region}:{t}:{user} is in Redis
  ttl,      \* ttl[t]: ends of windows it sees before it may expire
  gauge,    \* gauge[t]: the window whose count rl_counter_value shows
  fresh     \* history: fresh[t]: a request of this window set the gauge, and
            \* none of the window before was left

handlerVars == <<pc, pol, win>>
redisVars == <<local, ttl>>
gaugeVars == <<gauge, fresh>>
\* The tiers whose user sends requests.
Served == {TierOf[h] : h \in Handler}

vars == <<storeVars, handlerVars, redisVars, gaugeVars>>

\* The current window and the one before; older ones no request touches.
Window == {"now", "past"}

NoPolicy == [limit |-> 0, global |-> 0, algorithm |-> "none", id |-> 0]

Pc == {"idle", "policy", "limiter", "count", "read", "gauge", "heat"}

\* The Redis type each script works on.
TypeOfKey(algorithm) == IF algorithm = "token_bucket" THEN "hash" ELSE "zset"

Init == /\ StoreInit
        /\ pc = [h \in Handler |-> "idle"]
        /\ pol = [h \in Handler |-> NoPolicy]
        /\ win = [h \in Handler |-> "now"]
        /\ local = [t \in Served |-> "none"] /\ ttl = [t \in Served |-> 0]
        /\ gauge = [t \in Served |-> "none"] /\ fresh = [t \in Served |-> FALSE]

\* The handler is past everything that depends on what it read.
Leave(h, l) == /\ pc' = [pc EXCEPT ![h] = l]
               /\ pol' = [pol EXCEPT ![h] = NoPolicy]
               /\ win' = [win EXCEPT ![h] = "now"]

\* c.JSON: the answer, with whatever verdict; the goroutine serves the next.
Answer(h) == Leave(h, "idle")

Goto(h, l) == pc' = [pc EXCEPT ![h] = l]

-----------------------------------------------------------------------------
(* The handler.                                                            *)

\* A request of this region that binds; any other is answered at once and
\* touches nothing.
Arrive(h) == /\ pc[h] = "idle"
             /\ Goto(h, "policy")
             /\ UNCHANGED <<storeVars, pol, win, redisVars, gaugeVars>>

\* PolicyStore.Get: waits while a refresh holds the lock.
GetPolicy(h) == /\ pc[h] = "policy" /\ ~Locked
                /\ pol' = [pol EXCEPT ![h] = cache[TierOf[h]]]
                /\ Goto(h, "limiter")
                /\ UNCHANGED <<storeVars, win, redisVars, gaugeVars>>

\* Mutant: an EXPIRE that also follows a script that failed.
TouchAlways(t, kind) == ttl' = [ttl EXCEPT ![t] = TtlWindows]

\* The script wrote the key and renewed its TTL; on a key of the other type
\* its first command fails and nothing is done.
Touch(t, kind) == ttl' = IF local[t] \in {"none", kind}
                         THEN [ttl EXCEPT ![t] = TtlWindows] ELSE ttl

\* lim.Check with the algorithm of the policy.
Limit(h) ==
  LET t == TierOf[h]
      kind == TypeOfKey(pol[h].algorithm)
  IN /\ pc[h] = "limiter"
     /\ Touch(t, kind)
     /\ \/ /\ local[t] \in {"none", kind}
           /\ local' = [local EXCEPT ![t] = kind]
           /\ \/ Goto(h, "count") /\ UNCHANGED <<pol, win>>   \* allowed
              \/ Answer(h)                                         \* denied
        \/ /\ local[t] \notin {"none", kind}
           /\ Answer(h)                                            \* error
           /\ UNCHANGED local
     /\ UNCHANGED <<storeVars, gaugeVars>>

\* lim.Check fails for another reason.
LimitFails(h) == /\ pc[h] = "limiter"
                 /\ Answer(h)
                 /\ UNCHANGED <<storeVars, redisVars, gaugeVars>>

\* The window and HINCRBY (and EXPIRE, PUBLISH).
Count(h) == /\ pc[h] = "count"
            /\ win' = [win EXCEPT ![h] = "now"]
            /\ Goto(h, "read")
            /\ UNCHANGED <<storeVars, pol, redisVars, gaugeVars>>

\* HINCRBY or HGETALL fails: the request stays allowed, unchecked.
Unchecked(h) == /\ pc[h] \in {"count", "read"}
                /\ Leave(h, "heat")
                /\ UNCHANGED <<storeVars, redisVars, gaugeVars>>

\* HGETALL and the sum of its values.
ReadSum(h) == /\ pc[h] = "read"
              /\ Goto(h, "gauge")
              /\ UNCHANGED <<storeVars, pol, win, redisVars, gaugeVars>>

\* A request that is counted but has not set the gauge yet.
Pending(h) == pc[h] \in {"read", "gauge"}

\* A request of the window before that may still write the gauge of tier t.
PastPending(t) == \E g \in Handler : TierOf[g] = t /\ win[g] = "past" /\ Pending(g)

\* Mutant: below half the limit the series is left alone.
UsageKept(h, high) == IF high THEN win[h] ELSE gauge[TierOf[h]]

\* The series: set when the sum is at least half the limit, deleted below.
Usage(h, high) == IF high THEN win[h] ELSE "none"

\* The global cap, which is never below half the limit, and the gauge.
SetGauge(h) ==
  LET t == TierOf[h]
  IN /\ pc[h] = "gauge"
     /\ \E high \in BOOLEAN :
          /\ gauge' = [gauge EXCEPT ![t] = Usage(h, high)]
          /\ Leave(h, "heat") \/ (high /\ Answer(h))
     /\ fresh' = [fresh EXCEPT ![t] = @ \/ (win[h] = "now" /\ ~PastPending(t))]
     /\ UNCHANGED <<storeVars, redisVars>>

\* INCR of the tier's counter, which nothing reads but the delay that follows:
\* the handler stays before this step for as long as it sleeps.
Heat(h) == /\ pc[h] = "heat"
           /\ Answer(h)
           /\ UNCHANGED <<storeVars, redisVars, gaugeVars>>

Serve(h) == \/ GetPolicy(h) \/ Limit(h) \/ LimitFails(h) \/ Count(h) \/ Unchecked(h)
            \/ ReadSum(h) \/ SetGauge(h) \/ Heat(h)

-----------------------------------------------------------------------------
(* Around it.                                                              *)

Store == /\ \/ StoreNext
            \/ \E t \in Tier : \E v \in Values[t] : WritePolicy(t, v)
         /\ UNCHANGED <<handlerVars, redisVars, gaugeVars>>

\* The TTL of a key is over some time after the last window it outlives.
Expire(t) == /\ local[t] # "none" /\ ttl[t] = 0
             /\ local' = [local EXCEPT ![t] = "none"]
             /\ UNCHANGED <<storeVars, handlerVars, ttl, gaugeVars>>

\* The window ends.  No key outlives its TTL, and no request two windows.
WindowEnds ==
  /\ \A t \in Served : local[t] # "none" => ttl[t] > 0
  /\ \A h \in Handler : Pending(h) => win[h] = "now"
  /\ ttl' = [t \in Served |-> IF local[t] = "none" THEN 0 ELSE ttl[t] - 1]
  /\ win' = [h \in Handler |-> IF Pending(h) THEN "past" ELSE "now"]
  /\ gauge' = [t \in Served |-> IF gauge[t] = "none" THEN "none" ELSE "past"]
  /\ fresh' = [t \in Served |-> FALSE]
  /\ UNCHANGED <<storeVars, pc, pol, local>>

\* Redis restarts empty.
RedisRestart == /\ stored' = [t \in Tier |-> Absent]
                /\ local' = [t \in Served |-> "none"] /\ ttl' = [t \in Served |-> 0]
                /\ held' = IF Locked THEN [t \in Tier |-> held[t] \cup {Absent}] ELSE held
                /\ UNCHANGED <<cache, version, refresh, late, handlerVars, gaugeVars>>

\* The gateway restarts: requests, cache and gauges are gone.
GatewayRestart == /\ StoreRestart
                  /\ pc' = [h \in Handler |-> "idle"]
                  /\ pol' = [h \in Handler |-> NoPolicy]
                  /\ win' = [h \in Handler |-> "now"]
                  /\ gauge' = [t \in Served |-> "none"] /\ fresh' = [t \in Served |-> FALSE]
                  /\ UNCHANGED redisVars

Next == \/ \E h \in Handler : Arrive(h) \/ Serve(h)
        \/ \E t \in Served : Expire(t)
        \/ Store \/ WindowEnds \/ RedisRestart \/ GatewayRestart

StoreOnly(A) == A /\ UNCHANGED <<handlerVars, redisVars, gaugeVars>>

Spec == Init /\ [][Next]_vars

\* What the store does whatever Redis answers: the ticker fires, and once the
\* deadline has ended the context every GET fails.
StoreGoesOn == /\ RefreshBegins \/ Deadline \/ (late /\ RefreshFails)
               /\ UNCHANGED <<handlerVars, redisVars, gaugeVars>>

\* Time passes: no key outlives its TTL, and windows end.
TimePasses == WindowEnds \/ \E t \in Served : Expire(t)

\* The store and the clock go on, a reader that waited for the lock gets it before
\* the next writer (sync.RWMutex), and a handler that can go on does.
Fairness == /\ WF_vars(StoreGoesOn) /\ WF_vars(TimePasses)
            /\ \A h \in Handler : SF_vars(GetPolicy(h)) /\ WF_vars(Serve(h))

FairSpec == Spec /\ Fairness

-----------------------------------------------------------------------------
(* Properties.                                                             *)

\* Every variable keeps its shape.
TypeOK == /\ StoreTypeOK
          /\ pc \in [Handler -> Pc]
          /\ pol \in [Handler -> Policy]
          /\ win \in [Handler -> Window]
          /\ local \in [Served -> {"none", "hash", "zset"}]
          /\ ttl \in [Served -> 0..TtlWindows]
          /\ gauge \in [Served -> Window \cup {"none"}]
          /\ fresh \in [Served -> BOOLEAN]

\* What the comment at handler.go:188-195 is about: the agent must not see a user
\* as noisy for a window that is over.  Once a request of the present window has
\* set the gauge, with none of the window before left to set it again, the gauge
\* is about the present window or gone.  (A user who sends nothing more keeps
\* the last value.)
GaugeFresh == \A t \in Served : fresh[t] => gauge[t] # "past"

\* A policy that stays in Redis is followed in the end, once Redis answers in
\* time again and the gateway stays up, although earlier refreshes failed.
PolicyArrives(t, c) ==
  /\ <>[](stored[t] = c)
  /\ <>[][~GatewayRestart /\ ~(RefreshFails /\ Valid(stored[TierOrder[refresh]]))]_vars
  => <>[](cache[t] = Live(c))

\* A request gets its answer although refreshes take the lock again and again
\* and Redis may never answer them.
RequestAnswered(h) == pc[h] = "policy" ~> pc[h] = "idle"

\* After a change of algorithm the key of the other one answers every request
\* of the user with an error.  That ends although the user goes on sending.
SwitchHeals ==
  \A t \in Served : <>[](cache[t].algorithm = "token_bucket") => <>[](local[t] # "zset")
=============================================================================
