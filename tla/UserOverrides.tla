--------------------------- MODULE UserOverrides ----------------------------
(***************************************************************************)
(* The agent and the users it throttles, in one tier.  The gateways keep   *)
(* a gauge of how much a user has sent, which Prometheus copies every      *)
(* second; every tick the agent reads it from all regions, finds the       *)
(* noisy neighbours (Rule 3 of Decider.decide) and writes an override for  *)
(* each; the dashboard scrubs the overrides when a scenario starts or      *)
(* stops.  A unit of time is a tick.                                       *)
(***************************************************************************)
EXTENDS Integers, Sequences, Functions

CONSTANTS
  Regions,      \* REGIONS, in the order in which decide() goes through them
  Home,         \* Home[u]: the regions user u sends requests to
  Sums,         \* the sums of a user's slots a gateway may read
  Limits,       \* the limits a tier policy may have
  MinRpm,       \* _NOISY_USER_MIN_RPM
  Hysteresis,   \* _HYSTERESIS_S
  OverrideTtl,  \* _OVERRIDE_TTL
  MaxFaults     \* bound: writes to Redis that fail

User == DOMAIN Home
Region == Range(Regions)

ASSUME OverridesAssumption ==
  /\ Regions \in Seq(STRING)
  /\ \A i, j \in DOMAIN Regions : Regions[i] = Regions[j] => i = j
  /\ Home \in [User -> SUBSET Region]
  /\ Sums \subseteq Nat /\ Limits \subseteq Nat /\ MinRpm \in Nat \ {0}
  /\ Hysteresis \in Nat \ {0} /\ OverrideTtl \in Nat \ {0} /\ MaxFaults \in Nat

VARIABLES
  gauge,   \* gauge[r][u]: rl_counter_value of u at the gateway of r, 0 if there is no series
  ttl,     \* ttl[r][u]: time until override:{u} expires in the Redis of r, 0 if there is no key
  since,   \* since[u]: time since _override_ts[u], Hysteresis if that or more
  pc,      \* the agent: "due" a tick, "writing", "sleeping" after it, "skipped" it, "dead"
  todo,    \* the overrides still to be written
  faults,  \* history: writes that failed
  large,   \* history: ticks in a row that saw u noisy and at large
  unseen,  \* history: time since a tick saw u noisy, OverrideTtl if that or more
  loud     \* history: users whose requests were ever counted up to MinRpm

agentVars == <<since, pc, todo>>
historyVars == <<faults, large, unseen, loud>>
vars == <<gauge, ttl, agentVars, historyVars>>

NoGauge == [u \in User |-> 0]

Init == /\ gauge = [r \in Region |-> NoGauge]
        /\ ttl = [r \in Region |-> [u \in User |-> 0]]
        /\ since = [u \in User |-> Hysteresis]
        /\ pc = "due" /\ todo = {}
        /\ faults = 0 /\ large = [u \in User |-> 0] /\ loud = {}
        /\ unseen = [u \in User |-> OverrideTtl]

-----------------------------------------------------------------------------
(* The gateways.                                                           *)

\* The series is set from half the limit on, and deleted below.
Series(r, u, sum, limit) == IF sum * 2 >= limit THEN sum ELSE 0

\* A request of u passes the limiter in r, and the sum of the window is read.
\* How the sum comes about is GCounterSync's; here it is any.
Request(r, u, sum) ==
  /\ r \in Home[u] /\ sum > 0
  /\ \E limit \in Limits :
       gauge' = [gauge EXCEPT ![r][u] = Series(r, u, sum, limit)]
  /\ loud' = IF sum >= MinRpm THEN loud \cup {u} ELSE loud
  /\ UNCHANGED <<ttl, agentVars, faults, large, unseen>>

\* The gateway restarts and has no series.
GatewayRestart(r) == /\ gauge' = [gauge EXCEPT ![r] = NoGauge]
                     /\ UNCHANGED <<ttl, agentVars, historyVars>>

-----------------------------------------------------------------------------
(* The agent.                                                              *)

\* share_of_tier > 0.30, of all users in the gauge of the region.
Heavy(r, u) == gauge[r][u] * 10 > SumFunction(gauge[r]) * 3

\* Mutant: a share alone makes a noisy neighbour.
NoisyShare(r, u) == Heavy(r, u)

\* A share, and 60 a minute of one's own.
Noisy(r, u) == Heavy(r, u) /\ gauge[r][u] >= MinRpm

\* The regions that may have traffic at all (observed_rpm >= 30): any, for the
\* rate also counts requests that are denied and those of users without a series.
Traffic == SUBSET Region

\* Mutant: whoever has a series is a noisy neighbour.
SeenAny(busy, u) == {r \in busy : gauge[r][u] > 0}

\* Where u is noisy, of the regions with traffic.
Seen(busy, u) == {r \in busy : Noisy(r, u)}

\* The loop comes to q before it comes to r.
Before(q, r) == \E i, j \in DOMAIN Regions : i < j /\ Regions[i] = q /\ Regions[j] = r

Cool(u) == since[u] >= Hysteresis

\* Mutant: every sight of a noisy user stamps his cooldown.
StampSeen(busy) == {u \in User : Seen(busy, u) # {}}

\* The users Rule 3 decides on, whose cooldown begins.
Decided(busy) == {u \in User : Cool(u) /\ Seen(busy, u) # {}}

\* Mutant: an override there is is renewed with those to be made.
OverridesKept(busy) ==
  {d \in Region \X User :
     Cool(d[2]) /\ (d[1] \in Seen(busy, d[2]) \/ ttl[d[1]][d[2]] # 0)}

\* One override each, for the first region where the user is noisy: his cooldown
\* then holds for the others.
Overrides(busy) ==
  {d \in Region \X User :
     /\ Cool(d[2]) /\ d[1] \in Seen(busy, d[2])
     /\ \A q \in Seen(busy, d[2]) : ~Before(q, d[1])}

Throttled(u) == \E r \in Region : ttl[r][u] # 0

Tick(busy) ==
  /\ pc = "due"
  /\ todo' = Overrides(busy)
  /\ since' = [u \in User |-> IF u \in Decided(busy) THEN 0 ELSE since[u]]
  /\ large' = [u \in User |-> IF Seen(busy, u) # {} /\ ~Throttled(u) THEN large[u] + 1 ELSE 0]
  /\ unseen' = [u \in User |-> IF Seen(busy, u) # {} THEN 0 ELSE unseen[u]]
  /\ pc' = IF todo' = {} THEN "sleeping" ELSE "writing"
  /\ UNCHANGED <<gauge, ttl, faults, loud>>

\* A query fails: nothing is decided.
TickFails == /\ pc = "due"
             /\ pc' = "skipped"
             /\ UNCHANGED <<gauge, ttl, since, todo, historyVars>>

\* The decisions are written one by one; no two are of one user.
Done(d) == /\ todo' = todo \ {d}
           /\ pc' = IF todo = {d} THEN "sleeping" ELSE "writing"
           /\ UNCHANGED <<gauge, since, unseen, loud>>

\* SET override:{user_id} ... EX ttl
SetOverride(r, u) == ttl' = [ttl EXCEPT ![r][u] = OverrideTtl]

Write(d) == /\ d \in todo
            /\ SetOverride(d[1], d[2])
            /\ large' = [large EXCEPT ![d[2]] = 0]
            /\ Done(d)
            /\ UNCHANGED faults

\* The SET fails, or only its reply is lost: the cooldown runs all the same.
WriteFails(d) == /\ d \in todo /\ faults < MaxFaults
                 /\ faults' = faults + 1
                 /\ SetOverride(d[1], d[2]) \/ UNCHANGED ttl
                 /\ Done(d)
                 /\ UNCHANGED large

\* The agent is stopped or dies; a new one remembers no cooldown.
AgentDies == /\ pc # "dead"
             /\ pc' = "dead" /\ todo' = {}
             /\ large' = [u \in User |-> 0]
             /\ UNCHANGED <<gauge, ttl, since, faults, unseen, loud>>

AgentStarts == /\ pc = "dead"
               /\ pc' = "due"
               /\ since' = [u \in User |-> Hysteresis]
               /\ UNCHANGED <<gauge, ttl, todo, historyVars>>

-----------------------------------------------------------------------------
(* The keys.                                                               *)

\* _clear_overrides in one region, or its Redis restarts empty: the agent is not
\* told.
Scrub(r) == /\ ttl' = [ttl EXCEPT ![r] = [u \in User |-> 0]]
            /\ UNCHANGED <<gauge, agentVars, historyVars>>

\* A unit of time passes while the agent sleeps or is dead; keys expire.
Elapse == /\ pc \in {"sleeping", "skipped", "dead"}
          /\ pc' = IF pc = "dead" THEN "dead" ELSE "due"
          /\ ttl' = [r \in Region |-> [u \in User |-> IF ttl[r][u] = 0 THEN 0 ELSE ttl[r][u] - 1]]
          /\ since' = [u \in User |-> IF Cool(u) THEN Hysteresis ELSE since[u] + 1]
          /\ unseen' = [u \in User |-> IF unseen[u] = OverrideTtl THEN OverrideTtl
                                       ELSE unseen[u] + 1]
          /\ UNCHANGED <<gauge, todo, faults, large, loud>>

Next == \/ \E r \in Region, u \in User, sum \in Sums : Request(r, u, sum)
        \/ \E r \in Region : GatewayRestart(r) \/ Scrub(r)
        \/ \E busy \in Traffic : Tick(busy)
        \/ \E d \in Region \X User : Write(d) \/ WriteFails(d)
        \/ TickFails \/ AgentDies \/ AgentStarts \/ Elapse

Spec == Init /\ [][Next]_vars

\* The agent's loop goes on, now and then the metrics can be fetched, and time
\* passes, however often the agent is restarted.
FairSpec == /\ Spec
            /\ WF_pc(pc = "due" /\ pc' \in {"writing", "sleeping", "skipped"})
            /\ SF_pc(pc = "due" /\ pc' \in {"writing", "sleeping"})
            /\ WF_vars(\E d \in Region \X User : Write(d) \/ WriteFails(d))
            /\ SF_vars(Elapse)

-----------------------------------------------------------------------------
TypeOK == /\ gauge \in [Region -> [User -> Nat]]
          /\ ttl \in [Region -> [User -> 0 .. OverrideTtl]]
          /\ since \in [User -> 0 .. Hysteresis]
          /\ pc \in {"due", "writing", "sleeping", "skipped", "dead"}
          /\ todo \in SUBSET (Region \X User)
          /\ pc = "writing" <=> todo # {}
          /\ faults \in 0 .. MaxFaults
          /\ large \in [User -> Nat] /\ loud \in SUBSET User
          /\ unseen \in [User -> 0 .. OverrideTtl]

\* A noisy neighbour is not at large for long: however the keys are scrubbed or
\* expire while the agent still counts the cooldown, at most the ticks of one
\* cooldown in a row see him noisy and nowhere throttled, and as many again for
\* each write that failed.
NotAtLarge == \A u \in User : large[u] <= (faults + 1) * Hysteresis

\* "Legitimate users in the same tier are unaffected" (README.md:235): whoever
\* never came up to 60 requests a minute is never throttled, alone in the gauge
\* as he may be.
QuietNeverThrottled == \A u \in User \ loud : ~Throttled(u) /\ \A d \in todo : d[2] # u

\* Nobody is throttled a TTL after the last tick that saw him noisy, however long
\* the agent has been dead or has failed since.
ReleasedInTime == \A u \in User : Throttled(u) => unseen[u] < OverrideTtl

\* Once the series of a user show him noisy nowhere any more, his overrides lapse.
ReleasedWithSeries ==
  \A u \in User : <>[](\A r \in Region : ~Noisy(r, u)) => <>[]~Throttled(u)

\* "The series ends instead of going stale" (handler.go:188): a user who sends
\* nothing any more is left alone in the end.
ReleasedWhenQuiet ==
  \A u \in User :
    <>[][~\E r \in Region, sum \in Sums : Request(r, u, sum)]_vars => <>[]~Throttled(u)
=============================================================================
