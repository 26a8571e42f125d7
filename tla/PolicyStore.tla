----------------------------- MODULE PolicyStore -----------------------------
(***************************************************************************)
(* The policies of one gateway: what its region's Redis holds, the cache   *)
(* the requests read, and the refresh that copies one into the other under *)
(* the write lock, with one deadline for all tiers.                        *)
(***************************************************************************)
EXTENDS Integers, Sequences

CONSTANTS
  TierOrder,     \* s.tiers, in the order refresh reads them
  StaticLimit,   \* StaticLimit[t]: the limit of the hardcoded policy of t
  Values         \* Values[t]: what policy:{region}:{t} may hold

Tier == {TierOrder[i] : i \in 1..Len(TierOrder)}

Algorithms == {"token_bucket", "sliding_window"}

\* A key that does not exist, and one that does not parse.
Absent == [form |-> "absent"]
Garbled == [form |-> "garbled"]

\* The fields of contract4 that decide anything; home and of: its region and
\* tier are those of the key; id: the sequence number in policy_id (nobody
\* writes the number 0), 0 for an empty one.
Contract == [form : {"contract"}, limit : Int, burst : Int, algorithm : STRING,
             home : BOOLEAN, of : BOOLEAN, id : Nat]

Policy == [limit : Nat, global : Nat, algorithm : Algorithms \cup {"none"}, id : Nat]

ASSUME OrderAssumption == TierOrder \in Seq(STRING) /\ TierOrder # <<>>
ASSUME StaticAssumption == StaticLimit \in [Tier -> Nat \ {0}]
ASSUME ValuesAssumption ==
  \A t \in Tier : Values[t] \subseteq {Absent, Garbled} \cup Contract

VARIABLES
  stored,    \* stored[t]: the value of the key in Redis
  cache,     \* cache[t]: the policy Get returns
  version,   \* version[t]: the gauge rl_policy_version
  refresh,   \* progress of refresh: the tier it reads next, 0 outside
  late,      \* its second has passed
  held       \* history: held[t]: the values the key had so far in this refresh

storeVars == <<stored, cache, version, refresh, late, held>>

\* The hardcoded policy: its global limit is the limit of one region, and the
\* id starts with pol_static (0 here).
Static(t) == [limit |-> StaticLimit[t], global |-> StaticLimit[t],
              algorithm |-> "token_bucket", id |-> 0]

\* What the gateway makes of a contract.
Live(c) == [limit |-> c.limit, global |-> c.limit * 3,
            algorithm |-> c.algorithm, id |-> c.id]

\* validate
Valid(c) == /\ c.form = "contract"
            /\ c.limit > 0 /\ c.burst >= 0
            /\ c.algorithm \in Algorithms
            /\ c.home /\ c.of
            /\ c.id # 0

StoreInit == /\ stored \in [Tier -> UNION {Values[t] : t \in Tier}]
             /\ \A t \in Tier : stored[t] \in Values[t]
             /\ cache = [t \in Tier |-> Static(t)]
             /\ version = [t \in Tier |-> 0]
             /\ refresh = 1 /\ late = FALSE
             /\ held = [t \in Tier |-> {stored[t]}]

\* The lock is held for writing from the first GET to the last.
Locked == refresh # 0

After(i) == IF i = Len(TierOrder) THEN 0 ELSE i + 1

\* No refresh is under way, so its history is empty.
Nothing == [t \in Tier |-> {}]

\* On to the next tier, or the lock is given back.
Advance == /\ refresh' = After(refresh)
           /\ late' = (late /\ refresh # Len(TierOrder))
           /\ held' = IF refresh = Len(TierOrder) THEN Nothing ELSE held

\* Mutant: the first tier that fails ends the refresh.
SetStaticAndReturn(t) == /\ cache' = [cache EXCEPT ![t] = Static(t)]
                         /\ version' = [version EXCEPT ![t] = 0]
                         /\ refresh' = 0 /\ late' = FALSE /\ held' = Nothing

\* Mutant: the gauge keeps the number of the policy that is gone.
SetStaticOnly(t) == /\ cache' = [cache EXCEPT ![t] = Static(t)]
                    /\ Advance
                    /\ UNCHANGED version

\* Mutant: a tier that cannot be read keeps what it had.
KeepOld(t) == /\ Advance
              /\ UNCHANGED <<cache, version>>

\* setStatic, and on to the next tier.
SetStatic(t) == /\ cache' = [cache EXCEPT ![t] = Static(t)]
                /\ version' = [version EXCEPT ![t] = 0]
                /\ Advance

\* The deadline of the context starts, the lock is taken.
StartRefresh == /\ refresh' = 1 /\ late' = FALSE
                /\ held' = [t \in Tier |-> {stored[t]}]

\* The ticker fires.
RefreshBegins == /\ refresh = 0 /\ StartRefresh
                 /\ UNCHANGED <<stored, cache, version>>

\* A GET answers in time; what is no valid policy counts for nothing.
RefreshReads ==
  /\ Locked /\ ~late
  /\ LET t == TierOrder[refresh]
         c == stored[t]
     IN IF Valid(c)
        THEN /\ cache' = [cache EXCEPT ![t] = Live(c)]
             /\ version' = [version EXCEPT ![t] = c.id]
             /\ Advance
        ELSE SetStatic(t)
  /\ UNCHANGED stored

\* A GET fails: refused, broken off, or begun after the deadline.
RefreshFails == /\ Locked
                /\ SetStatic(TierOrder[refresh])
                /\ UNCHANGED stored

\* Mutant: the context has no timeout.
DeadlineNever == FALSE /\ UNCHANGED storeVars

\* The second is over: the GET under way and all later ones fail.
Deadline == /\ Locked /\ ~late
            /\ late' = TRUE
            /\ UNCHANGED <<stored, cache, version, refresh, held>>

\* The agent, the seed script, the demo, the TTL or a flush change a key.
WritePolicy(t, v) == /\ stored' = [stored EXCEPT ![t] = v]
                     /\ held' = IF Locked THEN [held EXCEPT ![t] = @ \cup {v}] ELSE held
                     /\ UNCHANGED <<cache, version, refresh, late>>

\* The gateway process starts anew: NewStore and the first refresh.
StoreRestart == /\ cache' = [t \in Tier |-> Static(t)]
                /\ version' = [t \in Tier |-> 0]
                /\ StartRefresh
                /\ UNCHANGED stored

StoreNext == RefreshBegins \/ RefreshReads \/ RefreshFails \/ Deadline

-----------------------------------------------------------------------------
StoreTypeOK == /\ stored \in [Tier -> {Absent, Garbled} \cup Contract]
               /\ cache \in [Tier -> Policy]
               /\ version \in [Tier -> Nat]
               /\ refresh \in 0..Len(TierOrder) /\ late \in BOOLEAN
               /\ held \in [Tier -> SUBSET ({Absent, Garbled} \cup Contract)]

\* The dashboard reads from rl_policy_version whether a tier runs on its
\* hardcoded policy (0) or which one it follows: it agrees with the cache,
\* through failed refreshes and restarts.
VersionTellsPolicy == \A t \in Tier : version[t] = cache[t].id

\* "On any failure: falls back to the static default for that tier" (store.go:112):
\* what requests are given once a refresh gives the lock back is hardcoded or was in
\* Redis while it ran.  No tier keeps an older policy, whichever GETs failed and
\* whatever was written between them.
NoOldPolicy ==
  [][Locked /\ ~Locked' =>
       \A t \in Tier : \/ cache'[t] = Static(t)
                       \/ \E c \in held[t] : Valid(c) /\ cache'[t] = Live(c)]_storeVars

\* A policy that is gone from Redis is not followed for ever, whatever goes
\* wrong with the refreshes.
PolicyLapses(t, c) == <>[](stored[t] # c) => <>[](cache[t] # Live(c))
=============================================================================
