------------------------ MODULE GatewayCheck_proofs ------------------------
(***************************************************************************)
(* For any handlers, tiers and policies, and however refreshes, requests   *)
(* and failures interleave: the two gauges an observer of the gateway      *)
(* goes by tell the truth.                                                 *)
(***************************************************************************)
EXTENDS GatewayCheck, TLAPS

\* GaugeFresh holds on only because no request of the window before is left
\* that could set the gauge back.
NoneLeft == \A t \in Served : fresh[t] => gauge[t] # "past" /\ ~PastPending(t)

\* The policy of t is hardcoded, or was in Redis during the refresh under way.
Recent(t) == \/ cache[t] = Static(t)
             \/ \E c \in held[t] : Valid(c) /\ cache[t] = Live(c)

\* So it is for the tiers this refresh has read; the others it will read from
\* what is there.
ReadRecent == Locked => /\ \A t \in Tier : stored[t] \in held[t]
                        /\ \A i \in 1..Len(TierOrder) : i < refresh => Recent(TierOrder[i])

IInv == TypeOK /\ VersionTellsPolicy /\ ReadRecent /\ NoneLeft

\* The assumptions, as far as the proofs use them.
LEMMA Facts == /\ Len(TierOrder) \in Nat /\ 1 \in 0..Len(TierOrder)
               /\ \A i \in 1..Len(TierOrder) : TierOrder[i] \in Tier
               /\ \A t \in Tier : Static(t) \in Policy /\ Static(t).id = 0
               /\ \A t \in Tier : \A v \in Values[t] : v \in {Absent, Garbled} \cup Contract
               /\ TtlWindows \in Nat
               /\ \A h \in Handler : TierOf[h] \in Tier /\ TierOf[h] \in Served
               /\ Served \subseteq Tier
<1>1. /\ Len(TierOrder) \in Nat /\ Len(TierOrder) > 0
      /\ \A i \in 1..Len(TierOrder) : TierOrder[i] \in Tier
  BY OrderAssumption DEF OrderAssumption, Tier
<1>2. ASSUME NEW t \in Tier PROVE Static(t) \in Policy /\ Static(t).id = 0
  <2>1. StaticLimit[t] \in Nat
    BY StaticAssumption DEF StaticAssumption
  <2>2. QED
    BY <2>1 DEF Static, Policy, Algorithms
<1>3. \A t \in Tier : \A v \in Values[t] : v \in {Absent, Garbled} \cup Contract
  BY ValuesAssumption DEF ValuesAssumption
<1>4. \A h \in Handler : TierOf[h] \in Tier /\ TierOf[h] \in Served
  BY TierAssumption DEF TierAssumption, Served
<1>5. Served \subseteq Tier
  BY <1>4 DEF Served
<1>6. QED
  BY <1>1, <1>2, <1>3, <1>4, <1>5, TtlAssumption DEF TtlAssumption

\* A contract that is valid becomes a policy with its number.
LEMMA LiveIsPolicy ==
  ASSUME NEW c \in {Absent, Garbled} \cup Contract, Valid(c)
  PROVE  Live(c) \in Policy /\ Live(c).id = c.id /\ c.id \in Nat
<1>1. c \in Contract
  BY DEF Valid, Absent, Garbled
<1>2. c.limit \in Int /\ c.limit > 0 /\ c.algorithm \in Algorithms /\ c.id \in Nat
  BY <1>1 DEF Valid, Contract
<1>3. c.limit \in Nat /\ c.limit * 3 \in Nat
  BY <1>2
<1>4. QED
  BY <1>2, <1>3 DEF Live, Policy

-----------------------------------------------------------------------------
(* The store.                                                              *)

\* What a refresh does to the cache, the gauge and its own progress.
StoreInv == StoreTypeOK /\ VersionTellsPolicy

\* At first every tier is hardcoded and its version is 0.
LEMMA StoreInitInv == StoreInit => StoreInv
<1> SUFFICES ASSUME StoreInit PROVE StoreInv
  OBVIOUS
<1>1. stored \in [Tier -> {Absent, Garbled} \cup Contract]
  BY Facts DEF StoreInit
<1>2. refresh \in 0..Len(TierOrder)
  BY Facts DEF StoreInit
<1>3. QED
  BY <1>1, <1>2, Facts DEF StoreInit, StoreInv, StoreTypeOK, VersionTellsPolicy

\* On to the next tier, or out of the refresh.
LEMMA AdvanceType ==
  ASSUME StoreTypeOK, Locked, Advance
  PROVE  /\ TierOrder[refresh] \in Tier
         /\ refresh' \in 0..Len(TierOrder) /\ late' \in BOOLEAN
         /\ held' \in [Tier -> SUBSET ({Absent, Garbled} \cup Contract)]
<1>1. refresh \in 1..Len(TierOrder)
  BY Facts DEF StoreTypeOK, Locked
<1>2. After(refresh) \in 0..Len(TierOrder)
  BY <1>1, Facts DEF After
<1>3. late' \in BOOLEAN
  BY DEF Advance, StoreTypeOK
<1>4. held' \in [Tier -> SUBSET ({Absent, Garbled} \cup Contract)]
  BY DEF Advance, Nothing, StoreTypeOK
<1>5. QED
  BY <1>1, <1>2, <1>3, <1>4, Facts DEF Advance

\* One tier read: the gauge and the cache are set together.
LEMMA ReadInv ==
  ASSUME StoreInv, RefreshReads \/ RefreshFails
  PROVE  StoreInv'
<1> DEFINE t == TierOrder[refresh]
           c == stored[t]
<1>1. Locked /\ Advance /\ stored' = stored
  BY DEF RefreshReads, RefreshFails, SetStatic
<1>2. /\ t \in Tier /\ refresh' \in 0..Len(TierOrder) /\ late' \in BOOLEAN
      /\ held' \in [Tier -> SUBSET ({Absent, Garbled} \cup Contract)]
  BY <1>1, AdvanceType DEF StoreInv
<1>3. \E p \in Policy : cache' = [cache EXCEPT ![t] = p] /\ version' = [version EXCEPT ![t] = p.id]
  <2>1. CASE RefreshReads /\ Valid(c)
    <3>1. c \in {Absent, Garbled} \cup Contract
      BY <1>2 DEF StoreInv, StoreTypeOK
    <3>2. Live(c) \in Policy /\ Live(c).id = c.id
      BY <2>1, <3>1, LiveIsPolicy
    <3>3. cache' = [cache EXCEPT ![t] = Live(c)] /\ version' = [version EXCEPT ![t] = c.id]
      BY <2>1 DEF RefreshReads
    <3>4. QED
      BY <3>2, <3>3
  <2>2. CASE SetStatic(t)
    BY <1>2, <2>2, Facts DEF SetStatic
  <2>3. QED
    BY <2>1, <2>2 DEF RefreshReads, RefreshFails
<1>4. PICK p \in Policy : /\ cache' = [cache EXCEPT ![t] = p]
                          /\ version' = [version EXCEPT ![t] = p.id]
  BY <1>3
<1>5. p.id \in Nat
  BY DEF Policy
<1> HIDE DEF t
<1>6. cache' \in [Tier -> Policy] /\ version' \in [Tier -> Nat]
  BY <1>2, <1>4, <1>5 DEF StoreInv, StoreTypeOK
<1>7. \A s \in Tier : version'[s] = cache'[s].id
  BY <1>2, <1>4 DEF StoreInv, StoreTypeOK, VersionTellsPolicy
<1>8. QED
  BY <1>1, <1>2, <1>6, <1>7 DEF StoreInv, StoreTypeOK, VersionTellsPolicy

\* The store keeps its invariant,
LEMMA StoreKeeps == StoreInv /\ Store => StoreInv'
<1> SUFFICES ASSUME StoreInv, Store PROVE StoreInv'
  OBVIOUS
<1>1. CASE RefreshBegins
  <2>1. /\ refresh' \in 0..Len(TierOrder) /\ late' \in BOOLEAN
        /\ held' \in [Tier -> SUBSET ({Absent, Garbled} \cup Contract)]
    BY <1>1, Facts DEF RefreshBegins, StartRefresh, StoreInv, StoreTypeOK
  <2>2. QED
    BY <1>1, <2>1 DEF RefreshBegins, StoreInv, StoreTypeOK, VersionTellsPolicy
<1>2. CASE RefreshReads \/ RefreshFails
  BY <1>2, ReadInv
<1>3. CASE Deadline
  BY <1>3 DEF Deadline, StoreInv, StoreTypeOK, VersionTellsPolicy
<1>4. CASE \E t \in Tier : \E v \in Values[t] : WritePolicy(t, v)
  BY <1>4, Facts DEF WritePolicy, StoreInv, StoreTypeOK, VersionTellsPolicy
<1>5. QED
  BY <1>1, <1>2, <1>3, <1>4 DEF Store, StoreNext

\* also through restarts.
LEMMA RestartKeeps == StoreInv /\ (StoreRestart \/ RedisRestart) => StoreInv'
<1> SUFFICES ASSUME StoreInv, StoreRestart \/ RedisRestart PROVE StoreInv'
  OBVIOUS
<1>1. CASE StoreRestart
  <2>1. /\ refresh' \in 0..Len(TierOrder) /\ late' \in BOOLEAN
        /\ held' \in [Tier -> SUBSET ({Absent, Garbled} \cup Contract)]
    BY <1>1, Facts DEF StoreRestart, StartRefresh, StoreInv, StoreTypeOK
  <2>2. QED
    BY <1>1, <2>1, Facts DEF StoreRestart, StoreInv, StoreTypeOK, VersionTellsPolicy
<1>2. CASE RedisRestart
  BY <1>2 DEF RedisRestart, StoreInv, StoreTypeOK, VersionTellsPolicy
<1>3. QED
  BY <1>1, <1>2

\* The tier a refresh reads gets its hardcoded policy, or the valid one there.
LEMMA ReadSets ==
  ASSUME RefreshReads \/ RefreshFails
  PROVE  LET t == TierOrder[refresh]
         IN /\ Locked /\ Advance /\ stored' = stored
            /\ \/ cache' = [cache EXCEPT ![t] = Static(t)]
               \/ Valid(stored[t]) /\ cache' = [cache EXCEPT ![t] = Live(stored[t])]
BY DEF RefreshReads, RefreshFails, SetStatic

\* After its read that tier is recent too.
LEMMA OneMoreRecent ==
  ASSUME StoreTypeOK, ReadRecent, RefreshReads \/ RefreshFails
  PROVE  \A i \in 1..Len(TierOrder) : i <= refresh =>
           LET t == TierOrder[i]
           IN \/ cache'[t] = Static(t)
              \/ \E c \in held[t] : Valid(c) /\ cache'[t] = Live(c)
<1> SUFFICES ASSUME NEW i \in 1..Len(TierOrder), i <= refresh
             PROVE  LET t == TierOrder[i]
                    IN \/ cache'[t] = Static(t)
                       \/ \E c \in held[t] : Valid(c) /\ cache'[t] = Live(c)
  OBVIOUS
<1> DEFINE t == TierOrder[i]
           u == TierOrder[refresh]
<1>1. /\ Locked /\ t \in Tier /\ u \in Tier /\ stored[u] \in held[u]
      /\ i < refresh => Recent(t)
  BY ReadSets, AdvanceType, Facts DEF ReadRecent
<1>2. \/ cache' = [cache EXCEPT ![u] = Static(u)]
      \/ Valid(stored[u]) /\ cache' = [cache EXCEPT ![u] = Live(stored[u])]
  BY ReadSets
<1>3. CASE t = u
  BY <1>1, <1>2, <1>3 DEF StoreTypeOK
<1>4. CASE t # u
  <2>1. i < refresh
    BY <1>1, <1>4 DEF StoreTypeOK
  <2>2. cache'[t] = cache[t]
    BY <1>1, <1>2, <1>4 DEF StoreTypeOK
  <2>3. QED
    BY <1>1, <2>1, <2>2 DEF Recent
<1>5. QED
  BY <1>3, <1>4

\* The store keeps the tiers that were read recent,
LEMMA StoreKeepsRecent ==
  ASSUME StoreTypeOK, ReadRecent, Store
  PROVE  ReadRecent'
<1>1. CASE RefreshBegins
  BY <1>1, Facts DEF RefreshBegins, StartRefresh, StoreTypeOK, ReadRecent
<1>2. CASE RefreshReads \/ RefreshFails
  <2> SUFFICES ASSUME Locked' PROVE ReadRecent'
    BY DEF ReadRecent
  <2>1. Locked /\ Advance /\ stored' = stored
    BY <1>2, ReadSets
  <2>2. refresh \in 1..Len(TierOrder) /\ refresh' = refresh + 1 /\ held' = held
    BY <2>1, Facts DEF Advance, After, Locked, StoreTypeOK
  <2>3. ASSUME NEW i \in 1..Len(TierOrder), i < refresh' PROVE Recent(TierOrder[i])'
    <3>1. i <= refresh
      BY <2>2, <2>3
    <3>2. QED
      BY <1>2, <2>2, <3>1, OneMoreRecent DEF Recent
  <2>4. QED
    BY <2>1, <2>2, <2>3 DEF ReadRecent
<1>3. CASE Deadline
  BY <1>3 DEF Deadline, ReadRecent, Recent, Locked
<1>4. CASE \E t \in Tier : \E v \in Values[t] : WritePolicy(t, v)
  <2>1. PICK t \in Tier : \E v \in Values[t] : WritePolicy(t, v)
    BY <1>4
  <2>2. PICK v \in Values[t] : WritePolicy(t, v)
    BY <2>1
  <2> SUFFICES ASSUME Locked' PROVE ReadRecent'
    BY DEF ReadRecent
  <2>3. /\ Locked /\ refresh' = refresh /\ cache' = cache
        /\ stored' = [stored EXCEPT ![t] = v]
        /\ held' = [held EXCEPT ![t] = @ \cup {v}]
    BY <2>2 DEF WritePolicy, Locked
  <2>4. \A s \in Tier : stored'[s] \in held'[s] /\ held[s] \subseteq held'[s]
    BY <2>3 DEF StoreTypeOK, ReadRecent
  <2>5. QED
    BY <2>3, <2>4, Facts DEF ReadRecent, Recent
<1>5. QED
  BY <1>1, <1>2, <1>3, <1>4 DEF Store, StoreNext

\* and so do the restarts.
LEMMA RestartKeepsRecent ==
  ASSUME StoreTypeOK, ReadRecent, StoreRestart \/ RedisRestart
  PROVE  ReadRecent'
<1>1. CASE StoreRestart
  BY <1>1, Facts DEF StoreRestart, StartRefresh, StoreTypeOK, ReadRecent
<1>2. CASE RedisRestart
  <2> SUFFICES ASSUME Locked' PROVE ReadRecent'
    BY DEF ReadRecent
  <2>1. /\ Locked /\ refresh' = refresh /\ cache' = cache
        /\ stored' = [t \in Tier |-> Absent]
        /\ held' = [t \in Tier |-> held[t] \cup {Absent}]
    BY <1>2 DEF RedisRestart, Locked
  <2>2. \A s \in Tier : stored'[s] \in held'[s] /\ held[s] \subseteq held'[s]
    BY <2>1 DEF StoreTypeOK, ReadRecent
  <2>3. QED
    BY <2>1, <2>2, Facts DEF ReadRecent, Recent
<1>3. QED
  BY <1>1, <1>2

-----------------------------------------------------------------------------
(* The handlers.                                                           *)

HandlerType == /\ pc \in [Handler -> Pc]
               /\ pol \in [Handler -> Policy]
               /\ win \in [Handler -> Window]
               /\ local \in [Served -> {"none", "hash", "zset"}]
               /\ ttl \in [Served -> 0..TtlWindows]
               /\ gauge \in [Served -> Window \cup {"none"}]
               /\ fresh \in [Served -> BOOLEAN]

\* A handler that leaves keeps the types.
LEMMA LeaveType ==
  ASSUME HandlerType, NEW h \in Handler, NEW l \in Pc, Leave(h, l)
  PROVE  /\ pc' \in [Handler -> Pc] /\ pol' \in [Handler -> Policy]
         /\ win' \in [Handler -> Window]
<1>1. NoPolicy \in Policy
  BY DEF NoPolicy, Policy
<1>2. "now" \in Window
  BY DEF Window
<1>3. QED
  BY <1>1, <1>2 DEF Leave, HandlerType

\* Every step of a handler keeps the types,
LEMMA ServeType ==
  ASSUME HandlerType, StoreTypeOK, NEW h \in Handler, Arrive(h) \/ Serve(h)
  PROVE  HandlerType'
<1>0. /\ \A l \in {"idle", "policy", "limiter", "count", "read", "gauge", "heat"} : l \in Pc
      /\ TierOf[h] \in Tier /\ TierOf[h] \in Served
  BY Facts DEF Pc
<1>1. CASE Arrive(h)
  BY <1>0, <1>1 DEF Arrive, Goto, redisVars, gaugeVars, HandlerType
<1>2. CASE GetPolicy(h)
  BY <1>0, <1>2 DEF GetPolicy, Goto, redisVars, gaugeVars, HandlerType, StoreTypeOK
<1>3. CASE Limit(h)
  <2> DEFINE t == TierOf[h]
             kind == TypeOfKey(pol[h].algorithm)
  <2>1. kind \in {"none", "hash", "zset"}
    BY DEF TypeOfKey
  <2>2. Touch(t, kind) /\ (local' = [local EXCEPT ![t] = kind] \/ local' = local)
        /\ UNCHANGED gaugeVars
    BY <1>3 DEF Limit
  <2>3. (Goto(h, "count") /\ UNCHANGED <<pol, win>>) \/ Leave(h, "idle")
    BY <1>3 DEF Limit, Answer
  <2>4. ttl' \in [Served -> 0..TtlWindows]
    BY <2>2, Facts DEF Touch, HandlerType
  <2>5. local' \in [Served -> {"none", "hash", "zset"}]
    BY <2>1, <2>2 DEF HandlerType
  <2>6. pc' \in [Handler -> Pc] /\ pol' \in [Handler -> Policy] /\ win' \in [Handler -> Window]
    <3>1. CASE Leave(h, "idle")
      BY <1>0, <3>1, LeaveType
    <3>2. CASE Goto(h, "count") /\ UNCHANGED <<pol, win>>
      BY <1>0, <3>2 DEF Goto, HandlerType
    <3>3. QED
      BY <2>3, <3>1, <3>2
  <2>7. QED
    BY <2>2, <2>4, <2>5, <2>6 DEF HandlerType, gaugeVars
<1>4. CASE LimitFails(h) \/ Heat(h)
  <2>1. Leave(h, "idle") /\ UNCHANGED <<redisVars, gaugeVars>>
    BY <1>4 DEF LimitFails, Heat, Answer
  <2>2. QED
    BY <1>0, <2>1, LeaveType DEF HandlerType, redisVars, gaugeVars
<1>5. CASE Unchecked(h)
  <2>1. Leave(h, "heat") /\ UNCHANGED <<redisVars, gaugeVars>>
    BY <1>5 DEF Unchecked
  <2>2. QED
    BY <1>0, <2>1, LeaveType DEF HandlerType, redisVars, gaugeVars
<1>6. CASE Count(h)
  BY <1>0, <1>6 DEF Count, Goto, redisVars, gaugeVars, HandlerType, Window
<1>7. CASE ReadSum(h)
  BY <1>0, <1>7 DEF ReadSum, Goto, redisVars, gaugeVars, HandlerType
<1>8. CASE SetGauge(h)
  <2>1. /\ \E high \in BOOLEAN : gauge' = [gauge EXCEPT ![TierOf[h]] = Usage(h, high)]
        /\ fresh' = [fresh EXCEPT ![TierOf[h]] = @ \/ (win[h] = "now" /\ ~PastPending(TierOf[h]))]
        /\ UNCHANGED redisVars
    BY <1>8 DEF SetGauge
  <2>2. Leave(h, "heat") \/ Leave(h, "idle")
    BY <1>8 DEF SetGauge, Answer
  <2>3. pc' \in [Handler -> Pc] /\ pol' \in [Handler -> Policy] /\ win' \in [Handler -> Window]
    BY <1>0, <2>2, LeaveType
  <2>4. gauge' \in [Served -> Window \cup {"none"}]
    BY <1>0, <2>1 DEF Usage, HandlerType
  <2>5. fresh' \in [Served -> BOOLEAN]
    BY <1>0, <2>1 DEF HandlerType
  <2>6. QED
    BY <2>1, <2>3, <2>4, <2>5 DEF HandlerType, redisVars
<1>9. QED
  BY <1>1, <1>2, <1>3, <1>4, <1>5, <1>6, <1>7, <1>8 DEF Serve

\* and so does what happens around it.
LEMMA AroundType ==
  ASSUME HandlerType,
         Store \/ (\E t \in Served : Expire(t)) \/ WindowEnds \/ RedisRestart
           \/ GatewayRestart \/ UNCHANGED vars
  PROVE  HandlerType'
<1>1. CASE Store \/ UNCHANGED vars
  BY <1>1 DEF Store, vars, handlerVars, redisVars, gaugeVars, HandlerType
<1>2. CASE \E t \in Served : Expire(t)
  BY <1>2 DEF Expire, handlerVars, gaugeVars, HandlerType
<1>3. CASE WindowEnds
  <2>1. ttl' \in [Served -> 0..TtlWindows]
    BY <1>3, Facts DEF WindowEnds, HandlerType
  <2>2. win' \in [Handler -> Window] /\ gauge' \in [Served -> Window \cup {"none"}]
    BY <1>3 DEF WindowEnds, HandlerType, Window
  <2>3. QED
    BY <1>3, <2>1, <2>2 DEF WindowEnds, HandlerType
<1>4. CASE RedisRestart
  BY <1>4, Facts DEF RedisRestart, handlerVars, gaugeVars, HandlerType
<1>5. CASE GatewayRestart
  <2>1. NoPolicy \in Policy /\ "idle" \in Pc /\ "now" \in Window
    BY DEF NoPolicy, Policy, Pc, Window
  <2>2. QED
    BY <1>5, <2>1 DEF GatewayRestart, redisVars, HandlerType
<1>6. QED
  BY <1>1, <1>2, <1>3, <1>4, <1>5

\* The steps that do not set the gauge leave no request of the window before
\* that was not there.
LEMMA NoneLeftKept ==
  ASSUME HandlerType, NoneLeft, gauge' = gauge, fresh' = fresh,
         \A h \in Handler : Pending(h)' /\ win'[h] = "past" => Pending(h) /\ win[h] = "past"
  PROVE  NoneLeft'
BY DEF NoneLeft, PastPending

\* A request of the present window may only set the gauge to the present.
LEMMA ServeNoneLeft ==
  ASSUME HandlerType, NoneLeft, NEW h \in Handler, Arrive(h) \/ Serve(h)
  PROVE  NoneLeft'
<1>1. CASE \/ Arrive(h) \/ GetPolicy(h) \/ Limit(h) \/ LimitFails(h)
           \/ Count(h) \/ Unchecked(h) \/ ReadSum(h) \/ Heat(h)
  <2>1. gauge' = gauge /\ fresh' = fresh
    BY <1>1 DEF Arrive, GetPolicy, Limit, LimitFails, Count, Unchecked, ReadSum, Heat, gaugeVars
  <2>2. \A g \in Handler : Pending(g)' /\ win'[g] = "past" => Pending(g) /\ win[g] = "past"
    <3>1. CASE Arrive(h) \/ GetPolicy(h) \/ ReadSum(h)
      BY <3>1 DEF Arrive, GetPolicy, ReadSum, Goto, Pending, HandlerType
    <3>2. CASE Limit(h)
      BY <3>2 DEF Limit, Goto, Answer, Leave, Pending, HandlerType
    <3>3. CASE LimitFails(h) \/ Unchecked(h) \/ Heat(h)
      BY <3>3 DEF LimitFails, Unchecked, Heat, Answer, Leave, Pending, HandlerType
    <3>4. CASE Count(h)
      BY <3>4 DEF Count, Goto, Pending, HandlerType
    <3>5. QED
      BY <1>1, <3>1, <3>2, <3>3, <3>4
  <2>3. QED
    BY <2>1, <2>2, NoneLeftKept
<1>2. CASE SetGauge(h)
  <2> DEFINE t == TierOf[h]
  <2>0. t \in Served
    BY Facts
  <2>1. \A g \in Handler : Pending(g)' /\ win'[g] = "past" => g # h /\ Pending(g) /\ win[g] = "past"
    BY <1>2 DEF SetGauge, Answer, Leave, Pending, HandlerType
  <2>2. \A s \in Served : PastPending(s)' => PastPending(s)
    BY <2>1 DEF PastPending
  <2>3. \A s \in Served \ {t} : fresh'[s] = fresh[s] /\ gauge'[s] = gauge[s]
    BY <1>2 DEF SetGauge, HandlerType
  <2>4. fresh'[t] => gauge'[t] # "past" /\ ~PastPending(t)
    <3> SUFFICES ASSUME fresh'[t] PROVE gauge'[t] # "past" /\ ~PastPending(t)
      OBVIOUS
    <3>1. fresh[t] \/ (win[h] = "now" /\ ~PastPending(t))
      BY <1>2, <2>0 DEF SetGauge, HandlerType
    <3>2. ~PastPending(t)
      BY <2>0, <3>1 DEF NoneLeft
    <3>3. pc[h] = "gauge"
      BY <1>2 DEF SetGauge
    <3>4. win[h] # "past"
      BY <3>2, <3>3 DEF PastPending, Pending
    <3>5. gauge'[t] \in {win[h], "none"}
      BY <1>2, <2>0 DEF SetGauge, Usage, HandlerType
    <3>6. QED
      BY <3>2, <3>4, <3>5
  <2>5. QED
    BY <2>2, <2>3, <2>4 DEF NoneLeft
<1>3. QED
  BY <1>1, <1>2 DEF Serve

\* The end of a window makes every gauge stale and none fresh.
LEMMA AroundNoneLeft ==
  ASSUME HandlerType, NoneLeft,
         Store \/ (\E t \in Served : Expire(t)) \/ WindowEnds \/ RedisRestart
           \/ GatewayRestart \/ UNCHANGED vars
  PROVE  NoneLeft'
<1>1. CASE WindowEnds \/ GatewayRestart
  <2>1. fresh' = [t \in Served |-> FALSE]
    BY <1>1 DEF WindowEnds, GatewayRestart
  <2>2. QED
    BY <2>1 DEF NoneLeft
<1>2. CASE Store \/ (\E t \in Served : Expire(t)) \/ RedisRestart \/ UNCHANGED vars
  <2>1. UNCHANGED <<pc, win, gauge, fresh>>
    BY <1>2 DEF Store, Expire, RedisRestart, vars, handlerVars, gaugeVars
  <2>2. \A h \in Handler : Pending(h)' /\ win'[h] = "past" => Pending(h) /\ win[h] = "past"
    BY <2>1 DEF Pending
  <2>3. QED
    BY <2>1, <2>2, NoneLeftKept
<1>3. QED
  BY <1>1, <1>2

-----------------------------------------------------------------------------
\* The types of the store and of the handler make up all of them.
LEMMA TypeSplit == TypeOK <=> StoreTypeOK /\ HandlerType
BY DEF TypeOK, HandlerType

\* IInv is an inductive invariant.
THEOREM Invariance == Spec => []IInv
<1>1. Init => IInv
  <2> SUFFICES ASSUME Init PROVE IInv
    OBVIOUS
  <2>1. StoreInv
    BY StoreInitInv DEF Init
  <2>2. HandlerType
    <3>1. NoPolicy \in Policy /\ "idle" \in Pc /\ "now" \in Window
      BY DEF NoPolicy, Policy, Pc, Window
    <3>2. QED
      BY <3>1, Facts DEF Init, HandlerType
  <2>3. NoneLeft
    BY DEF Init, NoneLeft
  <2>4. ReadRecent
    BY Facts DEF Init, StoreInit, ReadRecent
  <2>5. QED
    BY <2>1, <2>2, <2>3, <2>4, TypeSplit DEF IInv, StoreInv
<1>2. IInv /\ [Next]_vars => IInv'
  <2> SUFFICES ASSUME IInv, [Next]_vars PROVE IInv'
    OBVIOUS
  <2>0. StoreInv /\ StoreTypeOK /\ HandlerType /\ NoneLeft /\ ReadRecent
    BY TypeSplit DEF IInv, StoreInv
  <2>1. CASE \E h \in Handler : Arrive(h) \/ Serve(h)
    <3>1. PICK h \in Handler : Arrive(h) \/ Serve(h)
      BY <2>1
    <3>2. UNCHANGED storeVars
      BY <3>1 DEF Arrive, Serve, GetPolicy, Limit, LimitFails, Count, Unchecked, ReadSum,
                  SetGauge, Heat
    <3>3. StoreInv' /\ ReadRecent'
      BY <2>0, <3>2 DEF StoreInv, StoreTypeOK, VersionTellsPolicy, ReadRecent, Recent, Locked,
                        storeVars
    <3>4. HandlerType' /\ NoneLeft'
      BY <2>0, <3>1, ServeType, ServeNoneLeft
    <3>5. QED
      BY <3>3, <3>4 DEF IInv, StoreInv, TypeOK, HandlerType
  <2>2. CASE Store \/ (\E t \in Served : Expire(t)) \/ WindowEnds \/ RedisRestart
               \/ GatewayRestart \/ UNCHANGED vars
    <3>1. HandlerType' /\ NoneLeft'
      BY <2>0, <2>2, AroundType, AroundNoneLeft
    <3>2. StoreInv' /\ ReadRecent'
      <4>1. CASE Store
        BY <2>0, <4>1, StoreKeeps, StoreKeepsRecent
      <4>2. CASE RedisRestart \/ GatewayRestart
        BY <2>0, <4>2, RestartKeeps, RestartKeepsRecent DEF GatewayRestart
      <4>3. CASE (\E t \in Served : Expire(t)) \/ WindowEnds \/ UNCHANGED vars
        <5>1. UNCHANGED storeVars
          BY <4>3 DEF Expire, WindowEnds, vars
        <5>2. QED
          BY <2>0, <5>1 DEF StoreInv, StoreTypeOK, VersionTellsPolicy, ReadRecent, Recent,
                            Locked, storeVars
      <4>4. QED
        BY <2>2, <4>1, <4>2, <4>3
    <3>3. QED
      BY <3>1, <3>2 DEF IInv, StoreInv, TypeOK, HandlerType
  <2>3. QED
    BY <2>1, <2>2 DEF Next
<1>3. QED
  BY <1>1, <1>2, PTL DEF Spec

\* Every variable of the request and the policy store keeps its type.
THEOREM TypeCorrect == Spec => []TypeOK
<1>1. IInv => TypeOK
  BY DEF IInv
<1>2. QED
  BY <1>1, Invariance, PTL

\* rl_policy_version tells which policy the requests of a tier run on, through
\* refreshes that fail for some tiers, deadlines and restarts.
THEOREM VersionIsTrue == Spec => []VersionTellsPolicy
<1>1. IInv => VersionTellsPolicy
  BY DEF IInv
<1>2. QED
  BY <1>1, Invariance, PTL

\* Giving the lock back, a refresh has left no tier with a policy older than itself.
LEMMA ReleaseRecent ==
  ASSUME IInv, [Next]_vars, Locked, ~Locked'
  PROVE  \A t \in Tier : \/ cache'[t] = Static(t)
                        \/ \E c \in held[t] : Valid(c) /\ cache'[t] = Live(c)
<1>1. StoreTypeOK /\ ReadRecent
  BY DEF IInv, TypeOK
<1>2. refresh # 0 /\ refresh' = 0
  BY DEF Locked
<1>3. RefreshReads \/ RefreshFails
  <2>1. CASE Store
    BY <1>2, <2>1 DEF Store, StoreNext, RefreshBegins, Deadline, WritePolicy
  <2>2. CASE GatewayRestart
    BY <1>2, <2>2 DEF GatewayRestart, StoreRestart, StartRefresh
  <2>3. CASE RedisRestart
    BY <1>2, <2>3 DEF RedisRestart
  <2>4. CASE \E h \in Handler : Arrive(h) \/ Serve(h)
    BY <1>2, <2>4 DEF Arrive, Serve, GetPolicy, Limit, LimitFails, Count, Unchecked, ReadSum,
                      SetGauge, Heat, storeVars
  <2>5. CASE (\E t \in Served : Expire(t)) \/ WindowEnds \/ UNCHANGED vars
    BY <1>2, <2>5 DEF Expire, WindowEnds, vars, storeVars
  <2>6. QED
    BY <2>1, <2>2, <2>3, <2>4, <2>5 DEF Next
<1>4. refresh = Len(TierOrder)
  BY <1>1, <1>2, <1>3, ReadSets, Facts DEF Advance, After, StoreTypeOK
<1>5. \A t \in Tier : \E i \in 1..Len(TierOrder) : t = TierOrder[i]
  BY DEF Tier
<1>6. \A i \in 1..Len(TierOrder) : i <= refresh
  BY <1>4, Facts
<1>7. QED
  BY <1>1, <1>3, <1>5, <1>6, OneMoreRecent

\* After a refresh no tier follows a policy that was not in Redis while it ran,
\* whichever of its GETs failed, whatever was written between them, and however
\* many tiers there are.
THEOREM PoliciesAreRecent == Spec => NoOldPolicy
<1>1. IInv /\ [Next]_vars =>
        [Locked /\ ~Locked' =>
           \A t \in Tier : \/ cache'[t] = Static(t)
                           \/ \E c \in held[t] : Valid(c) /\ cache'[t] = Live(c)]_storeVars
  BY ReleaseRecent
<1>2. QED
  BY <1>1, Invariance, PTL DEF Spec, NoOldPolicy


\* Once a request of the present window has set the usage gauge, and none of the
\* window before is left, no request sets it back to a window that is over.
THEOREM GaugeIsFresh == Spec => []GaugeFresh
<1>1. IInv => GaugeFresh
  BY DEF IInv, NoneLeft, GaugeFresh
<1>2. QED
  BY <1>1, Invariance, PTL
=============================================================================
