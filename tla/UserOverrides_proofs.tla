----------------------- MODULE UserOverrides_proofs -----------------------
(***************************************************************************)
(* For any users, regions, limits and times, and however the agent, the    *)
(* gateways and Redis fail: a quiet user is never throttled, and a noisy   *)
(* one is not at large for longer than a cooldown and one more for each    *)
(* write that failed.                                                      *)
(***************************************************************************)
EXTENDS UserOverrides, WellFoundedInduction, TLAPS

\* Of whoever was never loud, the gauge shows less than MinRpm, and nothing is
\* written or decided.
Spared == \A u \in User \ loud : /\ \A r \in Region : gauge[r][u] < MinRpm /\ ttl[r][u] = 0
                                 /\ \A d \in todo : d[2] # u

\* The cooldown of u in ticks that may have seen him, once it is over one less.
Waited(u) == IF Cool(u) THEN Hysteresis - 1 ELSE since[u]

Owed(u) == \E d \in todo : d[2] = u

\* How long u can be at large: the ticks of one cooldown for each write that
\* failed, those of the present cooldown, and all of it while his override is
\* still to be written.
Bounded(u) ==
  /\ pc = "due" => since[u] > 0 /\ large[u] <= faults * Hysteresis + since[u] - 1
  /\ pc \in {"sleeping", "skipped", "writing"} /\ ~Owed(u) =>
       large[u] <= faults * Hysteresis + Waited(u)
  /\ Owed(u) => large[u] <= faults * Hysteresis + Hysteresis
  /\ pc = "dead" => large[u] = 0

\* What is left of an override is no more than what is left of a TTL since its user
\* was last seen noisy; one that is still to be written is of a user just seen.
Lapsing == /\ \A r \in Region, u \in User :
                ttl[r][u] # 0 => ttl[r][u] + unseen[u] <= OverrideTtl
           /\ \A d \in todo : unseen[d[2]] = 0

IInv == TypeOK /\ Spared /\ (\A u \in User : Bounded(u)) /\ Lapsing

\* The assumption, as far as the proofs use it.
LEMMA Facts == /\ Hysteresis \in Nat /\ Hysteresis > 0
               /\ OverrideTtl \in Nat /\ OverrideTtl > 0
               /\ MinRpm \in Nat /\ MinRpm > 0 /\ MaxFaults \in Nat
               /\ Sums \subseteq Nat
  BY OverridesAssumption DEF OverridesAssumption

\* Of the regions where u is noisy, one comes first.
LEMMA FirstSeen ==
  ASSUME NEW S \in SUBSET Region, S # {}
  PROVE  \E r \in S : \A q \in S : ~Before(q, r)
<1> DEFINE I == {i \in DOMAIN Regions : Regions[i] \in S}
<1>1. Regions \in Seq(STRING) /\ \A i, j \in DOMAIN Regions : Regions[i] = Regions[j] => i = j
  BY OverridesAssumption DEF OverridesAssumption
<1>2. DOMAIN Regions \subseteq Nat
  BY <1>1
<1>3. I \subseteq Nat /\ I # {}
  BY <1>2 DEF Region, Range
<1> HIDE DEF I
<1>4. \E i \in I : \A j \in I : ~(<<j, i>> \in OpToRel(<, Nat))
  BY <1>3, NatLessThanWellFounded, WFMin
<1>5. PICK i \in I : \A j \in I : ~(<<j, i>> \in OpToRel(<, Nat))
  BY <1>4
<1>6. \A j \in I : ~(j < i)
  BY <1>3, <1>5 DEF OpToRel
<1>7. \A q \in S : ~Before(q, Regions[i])
  BY <1>1, <1>2, <1>6 DEF I, Before
<1> QED
  BY <1>7 DEF I

\* What a tick decides it hands to the writer: who is decided on is owed an
\* override, and who is owed one was seen.
LEMMA DecidedIsOwed ==
  ASSUME NEW busy \in Traffic, NEW u \in User
  PROVE  /\ u \in Decided(busy) => \E d \in Overrides(busy) : d[2] = u
         /\ (\E d \in Overrides(busy) : d[2] = u) => u \in Decided(busy)
<1>1. Seen(busy, u) \in SUBSET Region
  BY DEF Seen, Traffic
<1>2. ASSUME u \in Decided(busy)
      PROVE  \E d \in Overrides(busy) : d[2] = u
  <2>1. Cool(u) /\ Seen(busy, u) # {}
    BY <1>2 DEF Decided
  <2>2. PICK r \in Seen(busy, u) : \A q \in Seen(busy, u) : ~Before(q, r)
    BY <1>1, <2>1, FirstSeen
  <2>3. <<r, u>> \in Overrides(busy)
    BY <1>1, <2>1, <2>2 DEF Overrides
  <2> QED
    BY <2>3
<1>3. ASSUME NEW d \in Overrides(busy), d[2] = u
      PROVE  u \in Decided(busy)
  BY <1>3 DEF Overrides, Decided
<1> QED
  BY <1>2, <1>3

-----------------------------------------------------------------------------
(* Types.                                                                  *)

\* The invariant holds at the start.
LEMMA InitHolds == Init => IInv
<1> SUFFICES ASSUME Init
             PROVE  IInv
  OBVIOUS
<1>1. TypeOK
  BY Facts DEF Init, TypeOK, NoGauge
<1>2. Spared
  BY Facts DEF Init, Spared, NoGauge
<1>3. ASSUME NEW u \in User
      PROVE  Bounded(u)
  BY Facts DEF Init, Bounded, Owed, Waited, Cool
<1>4. Lapsing
  BY DEF Init, Lapsing
<1> QED
  BY <1>1, <1>2, <1>3, <1>4 DEF IInv

\* Every step keeps the types.
LEMMA TypeStep ==
  ASSUME TypeOK, [Next]_vars
  PROVE  TypeOK'
<1> USE Facts
<1>1. ASSUME NEW r \in Region, NEW u \in User, NEW sum \in Sums, Request(r, u, sum)
      PROVE  TypeOK'
  <2>1. \A limit : Series(r, u, sum, limit) \in Nat
    BY DEF Series
  <2> QED
    BY <1>1, <2>1 DEF TypeOK, Request, agentVars, historyVars
<1>2. ASSUME NEW r \in Region, GatewayRestart(r)
      PROVE  TypeOK'
  BY <1>2 DEF TypeOK, GatewayRestart, NoGauge, agentVars, historyVars
<1>3. ASSUME NEW r \in Region, Scrub(r)
      PROVE  TypeOK'
  BY <1>3 DEF TypeOK, Scrub, agentVars, historyVars
<1>4. ASSUME NEW busy \in Traffic, Tick(busy)
      PROVE  TypeOK'
  <2>1. todo' \in SUBSET (Region \X User)
    BY <1>4 DEF Tick, Overrides
  <2>2. /\ since' \in [User -> 0 .. Hysteresis] /\ large' \in [User -> Nat]
        /\ unseen' \in [User -> 0 .. OverrideTtl]
    BY <1>4 DEF Tick, TypeOK
  <2> QED
    BY <1>4, <2>1, <2>2 DEF TypeOK, Tick
<1>5. ASSUME NEW d \in Region \X User, Write(d) \/ WriteFails(d)
      PROVE  TypeOK'
  <2>1. /\ todo' \in SUBSET (Region \X User) /\ (pc' = "writing" <=> todo' # {})
        /\ pc' \in {"writing", "sleeping"}
    BY <1>5 DEF TypeOK, Write, WriteFails, Done
  <2>2. ttl' \in [Region -> [User -> 0 .. OverrideTtl]]
    BY <1>5 DEF TypeOK, Write, WriteFails, SetOverride
  <2>3. large' \in [User -> Nat] /\ faults' \in 0 .. MaxFaults
    <3>1. large \in [User -> Nat] /\ faults \in 0 .. MaxFaults
      BY DEF TypeOK
    <3>2. /\ large' = large \/ large' = [large EXCEPT ![d[2]] = 0]
          /\ faults' = faults \/ (faults < MaxFaults /\ faults' = faults + 1)
      BY <1>5 DEF Write, WriteFails
    <3> QED
      BY ONLY <3>1, <3>2, Facts
  <2> QED
    BY <1>5, <2>1, <2>2, <2>3 DEF TypeOK, Write, WriteFails, Done
<1>6. CASE TickFails
  BY <1>6 DEF TypeOK, TickFails, historyVars
<1>7. CASE AgentDies
  BY <1>7 DEF TypeOK, AgentDies, historyVars
<1>8. CASE AgentStarts
  BY <1>8 DEF TypeOK, AgentStarts, historyVars
<1>9. CASE Elapse
  <2>1. ttl' \in [Region -> [User -> 0 .. OverrideTtl]]
    <3>1. ASSUME NEW r \in Region, NEW u \in User
          PROVE  (IF ttl[r][u] = 0 THEN 0 ELSE ttl[r][u] - 1) \in 0 .. OverrideTtl
      <4>1. ttl \in [Region -> [User -> 0 .. OverrideTtl]]
        BY DEF TypeOK
      <4>2. ttl[r][u] \in 0 .. OverrideTtl
        BY ONLY <4>1, r \in Region, u \in User, Zenon
      <4> QED
        BY ONLY <4>2, Facts
    <3>2. ASSUME NEW r \in Region
          PROVE  [u \in User |-> IF ttl[r][u] = 0 THEN 0 ELSE ttl[r][u] - 1]
                   \in [User -> 0 .. OverrideTtl]
      BY <3>1
    <3>3. ttl' = [r \in Region |-> [u \in User |-> IF ttl[r][u] = 0 THEN 0 ELSE ttl[r][u] - 1]]
      BY <1>9 DEF Elapse
    <3> QED
      BY <3>2, <3>3, Zenon
  <2>2. since' \in [User -> 0 .. Hysteresis]
    BY <1>9 DEF TypeOK, Elapse, Cool
  <2>3. unseen' \in [User -> 0 .. OverrideTtl]
    <3>1. /\ unseen \in [User -> 0 .. OverrideTtl]
          /\ unseen' = [u \in User |-> IF unseen[u] = OverrideTtl THEN OverrideTtl
                                        ELSE unseen[u] + 1]
      BY <1>9 DEF TypeOK, Elapse
    <3> QED
      BY ONLY <3>1, Facts
  <2> QED
    BY <1>9, <2>1, <2>2, <2>3 DEF TypeOK, Elapse
<1>10. CASE UNCHANGED vars
  BY <1>10 DEF TypeOK, vars, agentVars, historyVars
<1> QED
  BY <1>1, <1>2, <1>3, <1>4, <1>5, <1>6, <1>7, <1>8, <1>9, <1>10 DEF Next

-----------------------------------------------------------------------------
(* Quiet users.                                                            *)

\* A tick decides on nobody who was never loud.
LEMMA QuietNotDecided ==
  ASSUME TypeOK, Spared, NEW busy \in Traffic, NEW d \in Overrides(busy)
  PROVE  d[2] \notin User \ loud
<1>1. d[1] \in Region /\ d[2] \in User /\ Noisy(d[1], d[2])
  BY DEF Overrides, Seen
<1>2. gauge[d[1]][d[2]] >= MinRpm /\ gauge[d[1]][d[2]] \in Nat
  BY <1>1 DEF Noisy, TypeOK
<1> QED
  BY <1>1, <1>2, Facts DEF Spared

\* Every step spares the quiet.
LEMMA SparedStep ==
  ASSUME TypeOK, Spared, [Next]_vars
  PROVE  Spared'
<1> USE Facts
<1>1. ASSUME NEW r \in Region, NEW u \in User, NEW sum \in Sums, Request(r, u, sum)
      PROVE  Spared'
  <2>1. PICK limit \in Limits : gauge' = [gauge EXCEPT ![r][u] = Series(r, u, sum, limit)]
    BY <1>1 DEF Request
  <2>2. Series(r, u, sum, limit) \in {0, sum}
    BY DEF Series
  <2>3. UNCHANGED <<ttl, todo>> /\ loud' = IF sum >= MinRpm THEN loud \cup {u} ELSE loud
    BY <1>1 DEF Request, agentVars, historyVars
  <2>4. ASSUME NEW v \in User \ loud', NEW q \in Region
        PROVE  gauge'[q][v] < MinRpm
    <3>1. v \in User \ loud /\ gauge[q][v] < MinRpm
      BY <2>3, <2>4 DEF Spared
    <3>2. CASE q = r /\ v = u
      <4>1. ~(sum >= MinRpm) /\ sum \in Nat
        BY <2>3, <2>4, <3>2
      <4>2. gauge'[q][v] \in {0, sum}
        BY <2>1, <2>2, <3>2 DEF TypeOK
      <4> QED
        BY <4>1, <4>2
    <3>3. CASE ~(q = r /\ v = u)
      BY <2>1, <3>1, <3>3 DEF TypeOK
    <3> QED
      BY <3>2, <3>3
  <2> QED
    BY <2>3, <2>4 DEF Spared
<1>2. ASSUME NEW r \in Region, GatewayRestart(r)
      PROVE  Spared'
  BY <1>2 DEF TypeOK, Spared, GatewayRestart, NoGauge, agentVars, historyVars
<1>3. ASSUME NEW r \in Region, Scrub(r)
      PROVE  Spared'
  BY <1>3 DEF TypeOK, Spared, Scrub, agentVars, historyVars
<1>4. ASSUME NEW busy \in Traffic, Tick(busy)
      PROVE  Spared'
  BY <1>4, QuietNotDecided DEF Spared, Tick
<1>5. ASSUME NEW d \in Region \X User, Write(d) \/ WriteFails(d)
      PROVE  Spared'
  <2>1. d \in todo /\ todo' \subseteq todo /\ UNCHANGED <<gauge, loud>>
    BY <1>5 DEF Write, WriteFails, Done
  <2>2. ttl' = ttl \/ ttl' = [ttl EXCEPT ![d[1]][d[2]] = OverrideTtl]
    BY <1>5 DEF Write, WriteFails, SetOverride
  <2>3. ASSUME NEW v \in User \ loud, NEW q \in Region
        PROVE  ttl'[q][v] = 0
    <3>1. ttl[q][v] = 0 /\ v # d[2]
      BY <2>1 DEF Spared
    <3>2. ttl \in [Region -> [User -> 0 .. OverrideTtl]]
      BY DEF TypeOK
    <3> QED
      BY ONLY <2>2, <3>1, <3>2, d \in Region \X User, q \in Region, v \in User
  <2> QED
    BY <2>1, <2>3 DEF Spared
<1>6. CASE TickFails
  BY <1>6 DEF Spared, TickFails, historyVars
<1>7. CASE AgentDies
  BY <1>7 DEF Spared, AgentDies, historyVars
<1>8. CASE AgentStarts
  BY <1>8 DEF Spared, AgentStarts, historyVars
<1>9. CASE Elapse
  BY <1>9 DEF Spared, Elapse
<1>10. CASE UNCHANGED vars
  BY <1>10 DEF Spared, vars, agentVars, historyVars
<1> QED
  BY <1>1, <1>2, <1>3, <1>4, <1>5, <1>6, <1>7, <1>8, <1>9, <1>10 DEF Next

-----------------------------------------------------------------------------
(* Noisy users.                                                            *)

\* One more write that failed is worth one more cooldown.
LEMMA OneMoreFault ==
  ASSUME NEW f \in Nat
  PROVE  /\ (f + 1) * Hysteresis = f * Hysteresis + Hysteresis
         /\ f * Hysteresis \in Nat
<1>1. Hysteresis \in Nat
  BY Facts
<1> QED
  BY <1>1

\* What the types say of one user.
LEMMA TypesOf ==
  ASSUME TypeOK, NEW u \in User
  PROVE  /\ since[u] \in Nat /\ since[u] <= Hysteresis /\ large[u] \in Nat /\ faults \in Nat
         /\ Owed(u) => pc = "writing"
         /\ Waited(u) \in Nat /\ Waited(u) < Hysteresis
  BY Facts DEF TypeOK, Owed, Waited, Cool

\* Steps that only touch the gauge, keys or who was loud keep the bound.
LEMMA BoundedFrame ==
  ASSUME UNCHANGED <<agentVars, faults, large>>, NEW u \in User, Bounded(u)
  PROVE  Bounded(u)'
  BY DEF agentVars, historyVars, Bounded, Owed, Waited, Cool

\* A tick counts one more, or begins a cooldown with an override to be written.
LEMMA BoundedTick ==
  ASSUME TypeOK, NEW busy \in Traffic, Tick(busy), NEW u \in User, Bounded(u)
  PROVE  Bounded(u)'
<1>1. faults * Hysteresis \in Nat
  BY TypesOf, OneMoreFault
<1> DEFINE Fault == faults * Hysteresis
<1>2. since[u] \in Nat /\ since[u] <= Hysteresis /\ large[u] \in Nat
  BY TypesOf
<1>3. since[u] > 0 /\ large[u] <= Fault + since[u] - 1
  BY DEF Tick, Bounded
<1>4. /\ large'[u] = IF Seen(busy, u) # {} /\ ~Throttled(u) THEN large[u] + 1 ELSE 0
      /\ since'[u] = IF u \in Decided(busy) THEN 0 ELSE since[u]
      /\ faults' = faults /\ pc' \in {"sleeping", "writing"}
      /\ todo' = Overrides(busy)
  BY DEF Tick
<1>5. Owed(u)' <=> u \in Decided(busy)
  BY <1>4, DecidedIsOwed DEF Owed
<1>6. u \in Decided(busy) <=> Cool(u) /\ Seen(busy, u) # {}
  BY DEF Decided
<1> HIDE DEF Fault
<1>7. Fault \in Nat /\ Fault = faults' * Hysteresis
  BY <1>1, <1>4 DEF Fault
<1>8. large'[u] <= Fault + Hysteresis
  BY <1>2, <1>3, <1>4, <1>7, Facts
<1>9. u \notin Decided(busy) => large'[u] <= Fault + Waited(u)'
  <2>1. CASE Cool(u) /\ u \notin Decided(busy)
    <3>1. large'[u] = 0 /\ Waited(u)' = Hysteresis - 1
      BY <1>4, <1>6, <2>1 DEF Waited, Cool
    <3> QED
      BY <1>7, <3>1, Facts
  <2>2. CASE ~Cool(u) /\ u \notin Decided(busy)
    <3>1. Waited(u)' = since[u]
      BY <1>4, <2>2 DEF Waited, Cool
    <3> QED
      BY <1>2, <1>3, <1>4, <1>7, <3>1
  <2> QED
    BY <2>1, <2>2
<1> QED
  BY <1>4, <1>5, <1>7, <1>8, <1>9 DEF Bounded

\* A write ends what the user was owed; one that fails is worth a cooldown.
LEMMA BoundedWrite ==
  ASSUME TypeOK, NEW d \in Region \X User, Write(d) \/ WriteFails(d),
         NEW u \in User, Bounded(u)
  PROVE  Bounded(u)'
<1> DEFINE Fault == faults * Hysteresis
<1>1. Fault \in Nat /\ (faults + 1) * Hysteresis = Fault + Hysteresis
  BY TypesOf, OneMoreFault
<1>2. /\ large[u] \in Nat /\ Waited(u) \in Nat /\ Waited(u) < Hysteresis
      /\ d \in todo /\ pc = "writing" /\ todo' = todo \ {d} /\ since' = since
      /\ pc' \in {"sleeping", "writing"}
  BY TypesOf DEF Write, WriteFails, Done, TypeOK
<1>3. Waited(u)' = Waited(u) /\ (Owed(u)' => Owed(u)) /\ (Owed(u) => Owed(u)' \/ d[2] = u)
  BY <1>2 DEF Waited, Cool, Owed
<1>4. CASE Write(d)
  <2>1. faults' = faults /\ large'[u] \in {large[u], 0} /\ (d[2] = u => large'[u] = 0)
    BY <1>4 DEF Write, TypeOK
  <2> HIDE DEF Fault
  <2>2. Fault' = Fault
    BY <2>1 DEF Fault
  <2>3. /\ Owed(u)' => large'[u] <= Fault + Hysteresis
        /\ ~Owed(u)' => large'[u] <= Fault + Waited(u)
    <3>1. /\ Owed(u) => large[u] <= Fault + Hysteresis
          /\ ~Owed(u) => large[u] <= Fault + Waited(u)
      BY <1>2 DEF Bounded, Fault
    <3> QED
      BY <1>1, <1>2, <1>3, <2>1, <3>1, Facts
  <2> QED
    BY <1>2, <1>3, <2>2, <2>3 DEF Bounded, Fault
<1>5. CASE WriteFails(d)
  <2>1. faults' = faults + 1 /\ large' = large
    BY <1>5 DEF WriteFails
  <2>2. faults' * Hysteresis = Fault + Hysteresis
    BY <1>1, <2>1
  <2>3. large[u] <= Fault + Hysteresis
    BY <1>1, <1>2, Facts DEF Bounded
  <2> HIDE DEF Fault
  <2>4. /\ large[u] <= faults' * Hysteresis + Hysteresis
        /\ large[u] <= faults' * Hysteresis + Waited(u)
    BY <1>1, <1>2, <2>2, <2>3, Facts
  <2> QED
    BY <1>2, <1>3, <2>1, <2>4 DEF Bounded
<1> QED
  BY <1>4, <1>5

\* While time passes the cooldown goes on.
LEMMA BoundedElapse ==
  ASSUME TypeOK, Elapse, NEW u \in User, Bounded(u)
  PROVE  Bounded(u)'
<1>1. /\ since[u] \in Nat /\ since[u] <= Hysteresis /\ large[u] \in Nat
      /\ faults * Hysteresis \in Nat /\ ~Owed(u)
  BY TypesOf, OneMoreFault DEF Elapse
<1>2. /\ UNCHANGED <<todo, faults, large>>
      /\ since'[u] = IF Cool(u) THEN Hysteresis ELSE since[u] + 1
      /\ (pc \in {"sleeping", "skipped"} /\ pc' = "due") \/ (pc = "dead" /\ pc' = "dead")
  BY DEF Elapse
<1>3. ~Owed(u)'
  BY <1>1, <1>2 DEF Owed
<1>4. since'[u] > 0 /\ Waited(u) = since'[u] - 1
  BY <1>1, <1>2, Facts DEF Waited, Cool
<1> QED
  BY <1>1, <1>2, <1>3, <1>4 DEF Bounded

\* Every step keeps the bound.
LEMMA BoundedStep ==
  ASSUME TypeOK, [Next]_vars, NEW u \in User, Bounded(u)
  PROVE  Bounded(u)'
<1>1. ASSUME NEW r \in Region, NEW v \in User, NEW sum \in Sums, Request(r, v, sum)
      PROVE  Bounded(u)'
  BY <1>1, BoundedFrame DEF Request, historyVars
<1>2. ASSUME NEW r \in Region, GatewayRestart(r) \/ Scrub(r)
      PROVE  Bounded(u)'
  BY <1>2, BoundedFrame DEF GatewayRestart, Scrub, historyVars
<1>3. ASSUME NEW busy \in Traffic, Tick(busy)
      PROVE  Bounded(u)'
  BY <1>3, BoundedTick
<1>4. ASSUME NEW d \in Region \X User, Write(d) \/ WriteFails(d)
      PROVE  Bounded(u)'
  BY <1>4, BoundedWrite
<1>5. CASE TickFails
  <2>1. pc = "due" /\ pc' = "skipped" /\ UNCHANGED <<since, todo, faults, large>>
    BY <1>5 DEF TickFails, historyVars
  <2>2. large[u] <= faults * Hysteresis + since[u] - 1 /\ ~Owed(u)
    BY <2>1, TypesOf DEF Bounded
  <2>3. large[u] <= faults * Hysteresis + Waited(u)
    BY <2>2, TypesOf, OneMoreFault, Facts DEF Waited, Cool
  <2>4. Waited(u)' = Waited(u) /\ ~Owed(u)'
    BY <2>1, <2>2 DEF Waited, Cool, Owed
  <2> QED
    BY <2>1, <2>3, <2>4 DEF Bounded
<1>6. CASE AgentDies
  <2>1. pc' = "dead" /\ todo' = {} /\ large'[u] = 0
    BY <1>6 DEF AgentDies
  <2> QED
    BY <2>1 DEF Bounded, Owed
<1>7. CASE AgentStarts
  <2>1. /\ pc = "dead" /\ pc' = "due" /\ UNCHANGED <<todo, faults, large>>
        /\ since'[u] = Hysteresis /\ todo = {}
    BY <1>7 DEF AgentStarts, TypeOK, historyVars
  <2>2. large[u] = 0 /\ ~Owed(u)'
    BY <2>1 DEF Bounded, Owed
  <2>3. large'[u] <= faults' * Hysteresis + since'[u] - 1
    BY <2>1, <2>2, TypesOf, OneMoreFault, Facts
  <2> QED
    BY <2>1, <2>2, <2>3, Facts DEF Bounded
<1>8. CASE Elapse
  BY <1>8, BoundedElapse
<1>9. CASE UNCHANGED vars
  BY <1>9, BoundedFrame DEF vars, historyVars
<1> QED
  BY <1>1, <1>2, <1>3, <1>4, <1>5, <1>6, <1>7, <1>8, <1>9 DEF Next

-----------------------------------------------------------------------------
(* How long an override lasts.                                             *)

\* Every step keeps what is left of an override within a TTL of the last sight.
LEMMA LapsingStep ==
  ASSUME TypeOK, Lapsing, [Next]_vars
  PROVE  Lapsing'
<1> USE Facts
<1>0. /\ \A r \in Region, u \in User : ttl[r][u] \in Nat /\ unseen[u] \in Nat
      /\ \A u \in User : unseen[u] <= OverrideTtl
      /\ ttl \in [Region -> [User -> 0 .. OverrideTtl]] /\ todo \subseteq Region \X User
  <2>1. ASSUME NEW r \in Region, NEW u \in User
        PROVE  ttl[r][u] \in 0 .. OverrideTtl
    <3>1. ttl \in [Region -> [User -> 0 .. OverrideTtl]]
      BY DEF TypeOK
    <3> QED
      BY ONLY <3>1, r \in Region, u \in User, Zenon
  <2>2. ASSUME NEW u \in User
        PROVE  unseen[u] \in 0 .. OverrideTtl
    BY DEF TypeOK
  <2> QED
    BY <2>1, <2>2 DEF TypeOK
<1>1. ASSUME UNCHANGED <<ttl, unseen>>, todo' = todo \/ todo' = {}
      PROVE  Lapsing'
  BY <1>1 DEF Lapsing
<1>2. ASSUME NEW r \in Region, NEW u \in User, NEW sum \in Sums, Request(r, u, sum)
      PROVE  Lapsing'
  BY <1>1, <1>2 DEF Request, agentVars
<1>3. ASSUME NEW r \in Region, GatewayRestart(r)
      PROVE  Lapsing'
  BY <1>1, <1>3 DEF GatewayRestart, agentVars, historyVars
<1>4. ASSUME NEW r \in Region, Scrub(r)
      PROVE  Lapsing'
  <2>1. /\ ttl' = [ttl EXCEPT ![r] = [u \in User |-> 0]] /\ UNCHANGED <<unseen, todo>>
    BY <1>4 DEF Scrub, agentVars, historyVars
  <2>2. \A q \in Region, u \in User : ttl'[q][u] \in {0, ttl[q][u]}
    BY <1>0, <2>1
  <2> QED
    BY <2>1, <2>2 DEF Lapsing
<1>5. ASSUME NEW busy \in Traffic, Tick(busy)
      PROVE  Lapsing'
  <2>1. /\ ttl' = ttl /\ todo' = Overrides(busy)
        /\ unseen' = [u \in User |-> IF Seen(busy, u) # {} THEN 0 ELSE unseen[u]]
    BY <1>5 DEF Tick
  <2>2. \A d \in todo' : d[2] \in User /\ unseen'[d[2]] = 0
    BY <2>1 DEF Overrides
  <2>3. \A u \in User : unseen'[u] \in {0, unseen[u]}
    BY <2>1
  <2>4. ASSUME NEW r \in Region, NEW u \in User, ttl[r][u] # 0
        PROVE  ttl[r][u] + unseen'[u] <= OverrideTtl
    <3>1. ttl[r][u] + unseen[u] <= OverrideTtl /\ ttl[r][u] \in Nat /\ unseen[u] \in Nat
      BY <1>0, <2>4 DEF Lapsing
    <3> QED
      BY <2>3, <3>1
  <2> QED
    BY <2>1, <2>2, <2>4 DEF Lapsing
<1>6. ASSUME NEW d \in Region \X User, Write(d) \/ WriteFails(d)
      PROVE  Lapsing'
  <2>1. d \in todo /\ todo' \subseteq todo /\ unseen' = unseen /\ unseen[d[2]] = 0
    BY <1>6 DEF Write, WriteFails, Done, Lapsing
  <2>2. ttl' = ttl \/ ttl' = [ttl EXCEPT ![d[1]][d[2]] = OverrideTtl]
    BY <1>6 DEF Write, WriteFails, SetOverride
  <2>3. \A r \in Region, u \in User :
          \/ ttl'[r][u] = ttl[r][u]
          \/ u = d[2] /\ ttl'[r][u] = OverrideTtl
    BY <1>0, <2>2
  <2> QED
    BY <2>1, <2>3 DEF Lapsing
<1>7. CASE TickFails \/ AgentDies \/ AgentStarts
  BY <1>1, <1>7 DEF TickFails, AgentDies, AgentStarts, historyVars
<1>8. CASE Elapse
  <2>1. \A r \in Region, u \in User :
          /\ ttl'[r][u] = IF ttl[r][u] = 0 THEN 0 ELSE ttl[r][u] - 1
          /\ unseen'[u] = IF unseen[u] = OverrideTtl THEN OverrideTtl ELSE unseen[u] + 1
    BY <1>8 DEF Elapse
  <2>2. todo = {} /\ todo' = {}
    BY <1>8 DEF Elapse, TypeOK
  <2>3. ASSUME NEW r \in Region, NEW u \in User, ttl'[r][u] # 0
        PROVE  ttl'[r][u] + unseen'[u] <= OverrideTtl
    <3>1. ttl[r][u] # 0 /\ ttl'[r][u] = ttl[r][u] - 1
      BY <2>1, <2>3
    <3>2. ttl[r][u] + unseen[u] <= OverrideTtl /\ ttl[r][u] \in Nat /\ unseen[u] \in Nat
      BY <1>0, <3>1 DEF Lapsing
    <3>3. unseen'[u] = unseen[u] + 1
      BY <2>1, <3>1, <3>2
    <3> QED
      BY <3>1, <3>2, <3>3
  <2> QED
    BY <2>2, <2>3 DEF Lapsing
<1>9. CASE UNCHANGED vars
  BY <1>1, <1>9 DEF vars, agentVars, historyVars
<1> QED
  BY <1>2, <1>3, <1>4, <1>5, <1>6, <1>7, <1>8, <1>9 DEF Next

-----------------------------------------------------------------------------
(* The theorems.                                                           *)

\* The invariant holds in every state.
THEOREM Invariance == Spec => []IInv
<1>1. Init => IInv
  BY InitHolds
<1>2. IInv /\ [Next]_vars => IInv'
  <2> SUFFICES ASSUME IInv, [Next]_vars
               PROVE  IInv'
    OBVIOUS
  <2>1. TypeOK' /\ Spared' /\ Lapsing'
    BY TypeStep, SparedStep, LapsingStep DEF IInv
  <2>2. \A u \in User : Bounded(u)'
    BY BoundedStep DEF IInv
  <2> QED
    BY <2>1, <2>2 DEF IInv
<1> QED
  BY <1>1, <1>2, PTL DEF Spec

\* Every variable keeps its type.
THEOREM TypeCorrect == Spec => []TypeOK
<1>1. IInv => TypeOK
  BY DEF IInv
<1> QED
  BY <1>1, Invariance, PTL

\* Whoever never came up to 60 requests a minute is never throttled, nor about to
\* be.
THEOREM QuietAreSpared == Spec => []QuietNeverThrottled
<1>1. IInv => QuietNeverThrottled
  BY DEF IInv, Spared, QuietNeverThrottled, Throttled
<1> QED
  BY <1>1, Invariance, PTL

\* A noisy neighbour is at large for one cooldown at most, and one more for each
\* write that failed.
THEOREM NoisyAreCaught == Spec => []NotAtLarge
<1>1. ASSUME IInv, NEW u \in User
      PROVE  large[u] <= (faults + 1) * Hysteresis
  <2> DEFINE Fault == faults * Hysteresis
  <2>1. TypeOK /\ Bounded(u)
    BY <1>1 DEF IInv
  <2>2. Fault \in Nat /\ (faults + 1) * Hysteresis = Fault + Hysteresis
    BY <2>1, TypesOf, OneMoreFault
  <2>3. /\ large[u] \in Nat /\ since[u] \in Nat /\ since[u] <= Hysteresis
        /\ Waited(u) \in Nat /\ Waited(u) < Hysteresis
        /\ pc \in {"due", "writing", "sleeping", "skipped", "dead"}
    BY <2>1, TypesOf DEF TypeOK
  <2>4. \/ large[u] <= Fault + since[u] - 1 \/ large[u] <= Fault + Waited(u)
        \/ large[u] <= Fault + Hysteresis \/ large[u] = 0
    BY <2>1, <2>3 DEF Bounded
  <2> HIDE DEF Fault
  <2> QED
    BY <2>2, <2>3, <2>4, Facts
<1>2. IInv => NotAtLarge
  BY <1>1 DEF NotAtLarge
<1> QED
  BY <1>2, Invariance, PTL

\* Nobody is throttled a TTL after the last tick that saw him noisy, be the agent
\* alive or dead (decider.py:144-169, policy_writer.py:94-97).
THEOREM OverridesLapse == Spec => []ReleasedInTime
<1>1. ASSUME IInv, NEW u \in User, Throttled(u)
      PROVE  unseen[u] < OverrideTtl
  <2>1. PICK r \in Region : ttl[r][u] # 0
    BY <1>1 DEF Throttled
  <2>2. ttl[r][u] + unseen[u] <= OverrideTtl
    BY <1>1, <2>1 DEF IInv, Lapsing
  <2>3. ttl[r][u] \in 0 .. OverrideTtl /\ unseen[u] \in 0 .. OverrideTtl
    <3>1. ttl \in [Region -> [User -> 0 .. OverrideTtl]] /\ unseen \in [User -> 0 .. OverrideTtl]
      BY <1>1 DEF IInv, TypeOK
    <3> QED
      BY ONLY <3>1, r \in Region, u \in User, Zenon
  <2> QED
    BY <2>1, <2>2, <2>3, Facts
<1>2. IInv => ReleasedInTime
  BY <1>1 DEF ReleasedInTime
<1> QED
  BY <1>2, Invariance, PTL
=============================================================================
