----------------------------- MODULE TierPolicy -----------------------------
(***************************************************************************)
(* The agent and the tier policies of one region.  Every tick reads        *)
(* policy:{region}:{tier}, decides by Rules 1, 2 and 4 and the Safety Net  *)
(* of Decider.decide, and writes the decisions one after the other.  The   *)
(* tiers are free, which Rule 1 cuts, and premium, which it compensates;   *)
(* internal is as premium without compensation.  A unit of time is a tick. *)
(***************************************************************************)
EXTENDS Integers, Sequences

CONSTANTS
  Baseline,    \* DEMO_BASELINE
  Fallback,    \* STATIC_FALLBACK
  Floor,       \* STATIC_FLOOR of free
  Hysteresis,  \* _HYSTERESIS_S
  Memory,      \* the 300 s an attack is remembered
  Patience,    \* spike ticks after which Rule 1 does without gauge data
  PolicyTtl,   \* _POLICY_TTL
  SeedTtl,     \* the TTL of seeded policies
  MaxBoost,    \* bound: limits of premium
  MaxFaults    \* bound: commands to Redis that fail

Tier == {"free", "premium"}

ASSUME PolicyAssumption ==
  /\ Baseline \in [Tier -> Nat] /\ Fallback \in [Tier -> Nat]
  /\ \A t \in Tier : 0 < Fallback[t] /\ Fallback[t] < Baseline[t]
  /\ Floor \in 1 .. Fallback["free"]
  /\ Hysteresis \in Nat \ {0} /\ Memory \in Nat \ {0} /\ Patience \in Nat
  /\ PolicyTtl \in Nat \ {0} /\ SeedTtl \in Nat \ {0}
  /\ MaxBoost \in Nat /\ MaxFaults \in Nat

VARIABLES
  limit,  \* limit[t]: limit_per_minute of policy:{region}:{t}, 0 if there is no key
  ttl,    \* ttl[t]: time until the key expires, 0 if there is none
  pc,     \* the agent: "due" a tick, "writing", "sleeping" after it, "skipped" it, "dead"
  todo,   \* the decisions still to be written
  since,  \* since[t]: time since _policy_ts[t], Hysteresis if that or more
  calm,   \* time since _last_noisy_ts of free, Memory if that or more
  watch,  \* _spike_watch of free, Patience if that or more
  faults  \* history: commands that failed

store == <<limit, ttl>>
memory == <<since, calm, watch>>
vars == <<store, pc, todo, memory, faults>>

Least(a, b) == IF a <= b THEN a ELSE b
Most(a, b) == IF a >= b THEN a ELSE b

\* A new Decider.  A tier never attacked counts as attacked when the host's
\* monotonic clock began.
NewDecider == /\ since' = [t \in Tier |-> Hysteresis]
              /\ calm' \in 1 .. Memory
              /\ watch' = 0

Init == /\ limit = Baseline /\ ttl = [t \in Tier |-> SeedTtl]
        /\ pc = "due" /\ todo = <<>>
        /\ since = [t \in Tier |-> Hysteresis] /\ calm \in 1 .. Memory /\ watch = 0
        /\ faults = 0

-----------------------------------------------------------------------------
(* decide().  What it observes is                                          *)
(*   noisy    the tiers where two users hold most of the traffic,          *)
(*   spike    whether free's forecast is high or its traffic anomalous,    *)
(*   users    whether the gauge has data on users of free,                 *)
(*   slow     the tiers with a low forecast that reject requests,          *)
(*   strained whether premium rejects a tenth of its requests,             *)
(*   unread   the tiers whose policy could not be read.                    *)

Observation ==
  {o \in [noisy : SUBSET Tier, spike : BOOLEAN, users : BOOLEAN, slow : SUBSET Tier,
          strained : BOOLEAN, unread : SUBSET Tier] :
     "free" \in o.noisy => o.users}

\* cur_limit_rpm: a missing key and a failed read look alike.
Cur(o, t) == IF limit[t] = 0 \/ t \in o.unread THEN Fallback[t] ELSE limit[t]

\* recent_noisy_neighbor
RecentlyNoisy(o) == "free" \in o.noisy \/ calm < Memory

\* The new _spike_watch.
Watched(o) == IF o.spike /\ ~RecentlyNoisy(o) THEN Least(watch + 1, Patience) ELSE 0

\* Mutant: Rule 1 is not undone.
UndoNever(o, t) == FALSE

\* The Safety Net: a limit cut by mistake is restored,
Undo(o, t) == t \in o.noisy /\ Cur(o, t) < Baseline[t]

\* and so is premium when it was compensated for that.
UndoBoost(o) == "free" \in o.noisy /\ Cur(o, "premium") > Baseline["premium"]

\* Rule 4
GateOpen(t) == since[t] >= Hysteresis

\* Rule 1
Spike(o) == /\ ~Undo(o, "free") /\ GateOpen("free")
            /\ ~RecentlyNoisy(o) /\ o.spike /\ ~o.strained
            /\ o.users \/ Watched(o) >= Patience

Boost(o) == Spike(o) /\ GateOpen("premium")

\* Mutant: Rule 2 takes no notice of what the tick decided before.
RestoreToo(o, t) == /\ GateOpen(t) /\ Cur(o, t) < Baseline[t]
                    /\ t \in o.slow \/ Cur(o, t) <= Fallback[t]

\* Mutant: a missing key is no reason to restore.
RestoreSlow(o, t) == /\ GateOpen(t) /\ ~Undo(o, t)
                     /\ Cur(o, t) < Baseline[t] /\ t \in o.slow

\* Rule 2, where nothing was decided for the tier in this tick
Restore(o, t) == /\ GateOpen(t) /\ ~Undo(o, t)
                 /\ IF t = "free" THEN ~Spike(o) ELSE ~UndoBoost(o) /\ ~Boost(o)
                 /\ Cur(o, t) < Baseline[t]
                 /\ t \in o.slow \/ Cur(o, t) <= Fallback[t]

\* Mutant: the floor is forgotten.
CutsDeep(n) == {(n * 7) \div 10}

\* max(STATIC_FLOOR["free"], int(n * 0.70)), where the product may come out a bit
\* below a whole number.
Cuts(n) == {Most(Floor, (n * 7) \div 10)}
           \cup {Most(Floor, m - 1) : m \in {k \in {(n * 7) \div 10} : k * 10 = n * 7}}

\* int(n * 1.10)
Boosted(n) == (n * 11) \div 10

\* The step of Rule 2.
Step(n, t) == IF n <= Fallback[t] THEN Baseline[t] ELSE Least(Baseline[t], (n * 12) \div 10)

\* A list of one decision, or none.
Decision(taken, t, n) == IF taken THEN <<[tier |-> t, limit |-> n]>> ELSE <<>>

\* The decisions in the order in which the tiers and rules are gone through.
Decisions(o, cut) ==
  Decision(Undo(o, "free"), "free", Baseline["free"])
    \o Decision(UndoBoost(o), "premium", Baseline["premium"])
    \o Decision(Spike(o), "free", cut)
    \o Decision(Boost(o), "premium", Boosted(Cur(o, "premium")))
    \o Decision(Restore(o, "free"), "free", Step(Cur(o, "free"), "free"))
    \o Decision(Undo(o, "premium"), "premium", Baseline["premium"])
    \o Decision(Restore(o, "premium"), "premium", Step(Cur(o, "premium"), "premium"))

-----------------------------------------------------------------------------
\* One tick: read the policies and decide.
Tick(o) == /\ pc = "due"
           /\ \E cut \in Cuts(Cur(o, "free")) : todo' = Decisions(o, cut)
           /\ \A i \in DOMAIN todo' : todo'[i].limit <= MaxBoost
           /\ since' = [t \in Tier |-> IF \E i \in DOMAIN todo' : todo'[i].tier = t
                                       THEN 0 ELSE since[t]]
           /\ calm' = IF "free" \in o.noisy THEN 0 ELSE calm
           /\ watch' = Watched(o)
           /\ pc' = IF todo' = <<>> THEN "sleeping" ELSE "writing"
           /\ faults' = IF o.unread = {} THEN faults ELSE faults + 1
           /\ faults' <= MaxFaults
           /\ UNCHANGED store

\* The metrics cannot be fetched: the tick is skipped.
TickFails == /\ pc = "due"
             /\ pc' = "skipped"
             /\ UNCHANGED <<store, todo, memory, faults>>

\* The next decision is dealt with; after the last the agent sleeps.
NextDecision == /\ todo' = Tail(todo)
                /\ pc' = IF Tail(todo) = <<>> THEN "sleeping" ELSE "writing"
                /\ UNCHANGED memory

\* Mutant: SET without EX.
StoreForEver(d) == /\ limit' = [limit EXCEPT ![d.tier] = d.limit]
                   /\ ttl' = [ttl EXCEPT ![d.tier] = 0]

\* SET policy:{region}:{tier} ... EX ttl
Set(d) == /\ limit' = [limit EXCEPT ![d.tier] = d.limit]
          /\ ttl' = [ttl EXCEPT ![d.tier] = PolicyTtl]

Write == /\ pc = "writing"
         /\ Set(Head(todo))
         /\ NextDecision
         /\ UNCHANGED faults

\* The SET fails, or only its answer is lost; it is logged and not repeated.
WriteFails == /\ pc = "writing" /\ faults < MaxFaults
              /\ faults' = faults + 1
              /\ Set(Head(todo)) \/ UNCHANGED store
              /\ NextDecision

\* The agent is stopped or dies, and is started anew.
AgentDies == /\ pc # "dead"
             /\ pc' = "dead" /\ todo' = <<>>
             /\ UNCHANGED <<store, memory, faults>>

AgentStarts == /\ pc = "dead"
               /\ pc' = "due"
               /\ NewDecider
               /\ UNCHANGED <<store, todo, faults>>

\* seed_policies.py writes a policy, with --demo or without.
Seed(t) == /\ limit' \in {[limit EXCEPT ![t] = n] : n \in {Baseline[t], Fallback[t]}}
           /\ ttl' = [ttl EXCEPT ![t] = SeedTtl]
           /\ UNCHANGED <<pc, todo, memory, faults>>

\* Redis restarts empty.
RedisRestart == /\ limit' = [t \in Tier |-> 0] /\ ttl' = [t \in Tier |-> 0]
                /\ UNCHANGED <<pc, todo, memory, faults>>

\* A unit of time passes while the agent sleeps or is dead; keys expire.
Elapse == /\ pc \in {"sleeping", "skipped", "dead"}
          /\ ttl' = [t \in Tier |-> Most(0, ttl[t] - 1)]
          /\ limit' = [t \in Tier |-> IF ttl[t] = 1 THEN 0 ELSE limit[t]]
          /\ since' = [t \in Tier |-> Least(since[t] + 1, Hysteresis)]
          /\ calm' = Least(calm + 1, Memory)
          /\ pc' = IF pc = "dead" THEN "dead" ELSE "due"
          /\ UNCHANGED <<todo, watch, faults>>

Next == \/ \E o \in Observation : Tick(o)
        \/ TickFails \/ Write \/ WriteFails \/ AgentDies \/ AgentStarts
        \/ \E t \in Tier : Seed(t)
        \/ RedisRestart \/ Elapse

Spec == Init /\ [][Next]_vars

\* The loop goes on, time passes, and now and then a tick that is due has metrics.
FairSpec == /\ Spec
            /\ WF_pc(pc = "due" /\ pc' \in {"writing", "sleeping", "skipped"})
            /\ SF_pc(pc = "due" /\ pc' \in {"writing", "sleeping"})
            /\ WF_vars(Write \/ WriteFails) /\ WF_vars(Elapse)

-----------------------------------------------------------------------------
\* A limit of tier t the agent may set.
Sane(t, n) == IF t = "free" THEN n \in Floor .. Baseline["free"]
                            ELSE n >= Fallback["premium"]

\* Every variable keeps its type; there are decisions to write exactly when the
\* agent is writing.
TypeOK == /\ limit \in [Tier -> Nat] /\ ttl \in [Tier -> Nat]
          /\ pc \in {"due", "writing", "sleeping", "skipped", "dead"}
          /\ todo \in Seq([tier : Tier, limit : Nat])
          /\ pc = "writing" <=> todo # <<>>
          /\ since \in [Tier -> 0 .. Hysteresis] /\ calm \in 0 .. Memory
          /\ watch \in 0 .. Patience /\ faults \in 0 .. MaxFaults

\* However spikes, expired keys, failed reads and restarts follow each other, no
\* tier is cut below its floor ("Floor prevents Rule 1 from collapsing a tier to
\* zero", config.py:22) and free is never given more than its baseline.
InBand == /\ \A t \in Tier : limit[t] # 0 => Sane(t, limit[t])
          /\ \A i \in DOMAIN todo : Sane(todo[i].tier, todo[i].limit)

\* The rules of one tick do not work against each other: a tier is decided twice
\* only where the Safety Net restores what compensation has just decided
\* (decider.py:209, 249 and 273 go on to the next tier).
DecidedOnce ==
  \A i, j \in DOMAIN todo :
    i < j /\ todo[i].tier = todo[j].tier => todo[j].limit = Baseline[todo[j].tier]

\* A tick that saw an attack on free and could read and write leaves neither
\* free throttled nor premium compensated ("instantly restore the capacity",
\* decider.py:172).
SafetyNet ==
  pc = "sleeping" /\ calm = 0 /\ faults = 0 =>
    /\ limit["free"] \in {0, Fallback["free"], Baseline["free"]}
    /\ limit["premium"] <= Baseline["premium"]

\* When the spikes end, both tiers are back at the baseline again and again,
\* though writes failed, keys expired and Redis restarted.
Recovers ==
  <>[](watch = 0 /\ pc # "dead") => \A t \in Tier : []<>(limit[t] = Baseline[t])

\* "policies expire if agent crashes" (decider.py:43): what remains is nothing or
\* what was seeded.
Lapses ==
  <>[](pc = "dead") =>
    <>[](\A t \in Tier : limit[t] \in {0, Fallback[t], Baseline[t]})

\* decider.py:252-256, README.md:227: a policy whose key is missing is restored
\* to the baseline at once, where Rule 4 lets the tier be changed.
MissingRestored ==
  [][\A t \in Tier : pc = "due" /\ pc' = "writing" /\ limit[t] = 0 /\ GateOpen(t)
       => \A i \in DOMAIN todo' : todo'[i].tier = t => todo'[i].limit = Baseline[t]]_vars
=============================================================================
