------------------------- MODULE TierPolicy_proofs -------------------------
(***************************************************************************)
(* For every baseline, fallback and floor and any sequence of spikes,      *)
(* failures and restarts: the limits the agent writes stay in their band,  *)
(* the rules of one tick do not work against each other, and an attack     *)
(* takes back what was decided by mistake.                                 *)
(***************************************************************************)
EXTENDS TierPolicy, TLAPS

SaneDecision == {d \in [tier : Tier, limit : Nat] : Sane(d.tier, d.limit)}

\* InBand as an invariant of the decisions as a sequence: it is kept when lists of
\* decisions are put together and taken apart.
IInv == /\ TypeOK
        /\ \A t \in Tier : limit[t] # 0 => Sane(t, limit[t])
        /\ todo \in Seq(SaneDecision)

Numbers == /\ Floor \in Nat /\ 0 < Floor /\ Floor <= Fallback["free"]
           /\ \A t \in Tier : /\ Baseline[t] \in Nat /\ Fallback[t] \in Nat
                              /\ Fallback[t] < Baseline[t]

\* What the assumption says of the limits.
LEMMA NumbersHold == Numbers
  BY PolicyAssumption DEF PolicyAssumption, Numbers, Tier

\* What the decider takes for the current limit is sane.
LEMMA CurSane ==
  ASSUME IInv, NEW o, NEW t \in Tier
  PROVE  Cur(o, t) \in Nat /\ Sane(t, Cur(o, t))
<1>1. Fallback[t] \in Nat /\ Sane(t, Fallback[t])
  BY NumbersHold DEF Sane, Numbers, Tier
<1>2. limit[t] \in Nat /\ (limit[t] # 0 => Sane(t, limit[t]))
  BY DEF IInv, TypeOK
<1>3. Cur(o, t) = Fallback[t] \/ (limit[t] # 0 /\ Cur(o, t) = limit[t])
  BY DEF Cur
<1> QED
  BY <1>1, <1>2, <1>3

\* A cut stays above the floor and below the baseline.
LEMMA CutsSane ==
  ASSUME NEW n \in Nat, Sane("free", n), NEW cut \in Cuts(n)
  PROVE  cut \in Nat /\ Sane("free", cut)
  BY NumbersHold DEF Cuts, Most, Sane, Numbers, Tier

\* Compensation never lowers premium.
LEMMA BoostedSane ==
  ASSUME NEW n \in Nat, Sane("premium", n)
  PROVE  Boosted(n) \in Nat /\ Sane("premium", Boosted(n))
  BY NumbersHold DEF Boosted, Sane, Numbers, Tier

\* A step of Rule 2 never lowers a limit and never passes the baseline.
LEMMA StepSane ==
  ASSUME NEW t \in Tier, NEW n \in Nat, Sane(t, n)
  PROVE  Step(n, t) \in Nat /\ Sane(t, Step(n, t))
  BY NumbersHold DEF Step, Least, Sane, Numbers, Tier

\* The baseline is sane.
LEMMA BaselineSane ==
  ASSUME NEW t \in Tier
  PROVE  Baseline[t] \in Nat /\ Sane(t, Baseline[t])
  BY NumbersHold DEF Sane, Numbers, Tier

\* A list of at most one sane decision.
LEMMA OneDecision ==
  ASSUME NEW taken, NEW t \in Tier, NEW n \in Nat, Sane(t, n)
  PROVE  Decision(taken, t, n) \in Seq(SaneDecision)
<1>1. [tier |-> t, limit |-> n] \in SaneDecision
  BY DEF SaneDecision
<1> QED
  BY <1>1 DEF Decision

\* Everything decided in one tick is sane.
LEMMA DecisionsSane ==
  ASSUME IInv, NEW o, NEW cut \in Cuts(Cur(o, "free"))
  PROVE  Decisions(o, cut) \in Seq(SaneDecision)
<1>0. "free" \in Tier /\ "premium" \in Tier
  BY DEF Tier
<1>1. \A t \in Tier : Cur(o, t) \in Nat /\ Sane(t, Cur(o, t))
  BY CurSane
<1>2. \A x : Decision(x, "free", Baseline["free"]) \in Seq(SaneDecision)
  BY <1>0, BaselineSane, OneDecision
<1>3. \A x : Decision(x, "premium", Baseline["premium"]) \in Seq(SaneDecision)
  BY <1>0, BaselineSane, OneDecision
<1>4. \A x : Decision(x, "free", cut) \in Seq(SaneDecision)
  BY <1>0, <1>1, CutsSane, OneDecision
<1>5. \A x : Decision(x, "premium", Boosted(Cur(o, "premium"))) \in Seq(SaneDecision)
  BY <1>0, <1>1, BoostedSane, OneDecision
<1>6. \A x : \A t \in Tier : Decision(x, t, Step(Cur(o, t), t)) \in Seq(SaneDecision)
  BY <1>1, StepSane, OneDecision
<1> DEFINE S == Seq(SaneDecision)
<1>7. \A a, b \in S : a \o b \in S
  OBVIOUS
<1> HIDE DEF S
<1> QED
  BY <1>0, <1>2, <1>3, <1>4, <1>5, <1>6, <1>7 DEF Decisions, S

-----------------------------------------------------------------------------
\* The seeded policies are sane.
LEMMA InitIInv == Init => IInv
<1> SUFFICES ASSUME Init PROVE IInv
  OBVIOUS
<1>1. TypeOK
  BY NumbersHold, PolicyAssumption DEF Init, TypeOK, PolicyAssumption
<1>2. \A t \in Tier : limit[t] # 0 => Sane(t, limit[t])
  BY BaselineSane DEF Init
<1>3. todo \in Seq(SaneDecision)
  BY DEF Init
<1> QED
  BY <1>1, <1>2, <1>3 DEF IInv

\* Sane decisions are decisions.
LEMMA SaneAreDecisions == Seq(SaneDecision) \subseteq Seq([tier : Tier, limit : Nat])
<1> DEFINE D == [tier : Tier, limit : Nat]
<1>1. SaneDecision \subseteq D
  BY DEF SaneDecision
<1> HIDE DEF D
<1>2. Seq(SaneDecision) \subseteq Seq(D)
  BY <1>1
<1> QED
  BY <1>2 DEF D

\* A tick decides sanely.
LEMMA TickIInv ==
  ASSUME IInv, NEW o \in Observation, Tick(o)
  PROVE  IInv'
<1>1. todo' \in Seq(SaneDecision)
  <2>1. PICK cut \in Cuts(Cur(o, "free")) : todo' = Decisions(o, cut)
    BY DEF Tick
  <2> QED
    BY <2>1, DecisionsSane
<1>2. todo' \in Seq([tier : Tier, limit : Nat])
  BY <1>1, SaneAreDecisions
<1>3. pc' = (IF todo' = <<>> THEN "sleeping" ELSE "writing")
  BY DEF Tick
<1>4. since' \in [Tier -> 0 .. Hysteresis]
  BY PolicyAssumption DEF Tick, IInv, TypeOK, PolicyAssumption
<1>5. calm' \in 0 .. Memory /\ watch' \in 0 .. Patience
  BY PolicyAssumption DEF Tick, IInv, TypeOK, PolicyAssumption, Watched, Least
<1>6. faults' \in 0 .. MaxFaults
  BY PolicyAssumption DEF Tick, IInv, TypeOK, PolicyAssumption
<1>7. UNCHANGED <<limit, ttl>>
  BY DEF Tick, store
<1> QED
  BY <1>1, <1>2, <1>3, <1>4, <1>5, <1>6, <1>7 DEF IInv, TypeOK

\* What is left of sane decisions is sane.
LEMMA NextDecisionIInv ==
  ASSUME IInv, pc = "writing", NextDecision
  PROVE  /\ todo' \in Seq(SaneDecision) /\ todo' \in Seq([tier : Tier, limit : Nat])
         /\ pc' \in {"sleeping", "writing"} /\ (pc' = "writing" <=> todo' # <<>>)
         /\ Head(todo) \in SaneDecision
         /\ UNCHANGED memory
<1>1. todo \in Seq(SaneDecision) /\ todo # <<>>
  BY DEF IInv, TypeOK
<1>2. Tail(todo) \in Seq(SaneDecision) /\ Head(todo) \in SaneDecision
  BY <1>1
<1>3. Tail(todo) \in Seq([tier : Tier, limit : Nat])
  BY <1>2, SaneAreDecisions
<1> QED
  BY <1>2, <1>3 DEF NextDecision

\* Storing a sane decision keeps what is stored sane.
LEMMA SetSane ==
  ASSUME IInv, NEW d \in SaneDecision, Set(d)
  PROVE  /\ limit' \in [Tier -> Nat] /\ ttl' \in [Tier -> Nat]
         /\ \A t \in Tier : limit'[t] # 0 => Sane(t, limit'[t])
<1>1. d.tier \in Tier /\ d.limit \in Nat /\ Sane(d.tier, d.limit)
  BY DEF SaneDecision
<1>2. limit' \in [Tier -> Nat] /\ ttl' \in [Tier -> Nat]
  BY <1>1, PolicyAssumption DEF Set, IInv, TypeOK, PolicyAssumption
<1>3. \A t \in Tier : limit'[t] # 0 => Sane(t, limit'[t])
  BY <1>1 DEF Set, IInv, TypeOK
<1> QED
  BY <1>2, <1>3

\* The band is an invariant of every step.
LEMMA NextIInv == IInv /\ [Next]_vars => IInv'
<1> SUFFICES ASSUME IInv, [Next]_vars PROVE IInv'
  OBVIOUS
<1> USE DEF IInv
<1>1. ASSUME NEW o \in Observation, Tick(o) PROVE IInv'
  BY <1>1, TickIInv
<1>2. CASE TickFails
  BY <1>2 DEF TickFails, TypeOK, store, memory
<1>3. CASE Write
  <2>1. UNCHANGED <<memory, faults>>
    BY <1>3 DEF Write, NextDecision
  <2> QED
    BY <1>3, <2>1, NextDecisionIInv, SetSane DEF Write, TypeOK, memory
<1>4. CASE WriteFails
  <2>1. faults' \in 0 .. MaxFaults
    BY <1>4, PolicyAssumption DEF WriteFails, TypeOK, PolicyAssumption
  <2>2. /\ limit' \in [Tier -> Nat] /\ ttl' \in [Tier -> Nat]
        /\ \A t \in Tier : limit'[t] # 0 => Sane(t, limit'[t])
    <3>1. CASE Set(Head(todo))
      BY <1>4, <3>1, NextDecisionIInv, SetSane DEF WriteFails
    <3>2. CASE UNCHANGED store
      BY <3>2 DEF store, TypeOK
    <3> QED
      BY <1>4, <3>1, <3>2 DEF WriteFails
  <2>3. UNCHANGED memory
    BY <1>4 DEF WriteFails, NextDecision
  <2> QED
    BY <1>4, <2>1, <2>2, <2>3, NextDecisionIInv DEF WriteFails, TypeOK, memory
<1>5. CASE AgentDies
  BY <1>5 DEF AgentDies, TypeOK, store, memory
<1>6. CASE AgentStarts
  BY <1>6, PolicyAssumption DEF AgentStarts, NewDecider, TypeOK, store, PolicyAssumption
<1>7. ASSUME NEW t \in Tier, Seed(t) PROVE IInv'
  <2>1. PICK n \in {Baseline[t], Fallback[t]} : limit' = [limit EXCEPT ![t] = n]
    BY <1>7 DEF Seed
  <2>2. n \in Nat /\ Sane(t, n)
    BY NumbersHold DEF Numbers, Sane, Tier
  <2>3. limit' \in [Tier -> Nat] /\ \A u \in Tier : limit'[u] # 0 => Sane(u, limit'[u])
    BY <2>1, <2>2 DEF TypeOK
  <2>4. ttl' \in [Tier -> Nat]
    BY <1>7, PolicyAssumption DEF Seed, TypeOK, PolicyAssumption
  <2> QED
    BY <1>7, <2>3, <2>4 DEF Seed, TypeOK, memory
<1>8. CASE RedisRestart
  BY <1>8 DEF RedisRestart, TypeOK, memory
<1>9. CASE Elapse
  <2>1. limit' \in [Tier -> Nat] /\ \A t \in Tier : limit'[t] # 0 => Sane(t, limit'[t])
    BY <1>9 DEF Elapse, TypeOK
  <2>2. ttl' \in [Tier -> Nat]
    BY <1>9 DEF Elapse, TypeOK, Most
  <2>3. \A n, m \in Nat : Least(n + 1, m) \in 0 .. m
    BY DEF Least
  <2>4. since' \in [Tier -> 0 .. Hysteresis]
    BY <1>9, <2>3, PolicyAssumption DEF Elapse, TypeOK, PolicyAssumption
  <2>5. calm' \in 0 .. Memory
    BY <1>9, <2>3, PolicyAssumption DEF Elapse, TypeOK, PolicyAssumption
  <2> QED
    BY <1>9, <2>1, <2>2, <2>4, <2>5 DEF Elapse, TypeOK
<1>10. CASE UNCHANGED vars
  BY <1>10 DEF vars, store, memory, TypeOK
<1> QED
  BY <1>1, <1>2, <1>3, <1>4, <1>5, <1>6, <1>7, <1>8, <1>9, <1>10 DEF Next

\* The inductive invariant holds.
LEMMA Invariant == Spec => []IInv
  BY InitIInv, NextIInv, PTL DEF Spec

\* Every variable keeps its type.
THEOREM TypeCorrect == Spec => []TypeOK
<1>1. IInv => TypeOK
  BY DEF IInv
<1> QED
  BY <1>1, Invariant, PTL

\* Whatever the baselines, fallbacks and floor: no tier is cut below its floor and
\* free is never given more than its baseline (decider.py:227, 265).
THEOREM LimitsInBand == Spec => []InBand
<1>1. IInv => InBand
  <2> SUFFICES ASSUME IInv PROVE InBand
    OBVIOUS
  <2>1. \A i \in DOMAIN todo : todo[i] \in SaneDecision
    BY DEF IInv
  <2> QED
    BY <2>1 DEF IInv, InBand, SaneDecision
<1> QED
  BY <1>1, Invariant, PTL

-----------------------------------------------------------------------------
(* The lists of decisions.                                                 *)

AnyDecision == [tier : Tier, limit : Nat]

\* Something is decided for t.
Has(s, t) == \E i \in DOMAIN s : s[i].tier = t

\* Who comes later only restores.
Once(s) == \A i, j \in DOMAIN s :
             i < j /\ s[i].tier = s[j].tier => s[j].limit = Baseline[s[j].tier]

\* A list of at most one decision decides for its tier only.
LEMMA HasDecision ==
  ASSUME NEW taken \in BOOLEAN, NEW t, NEW n, NEW u
  PROVE  Has(Decision(taken, t, n), u) <=> taken /\ t = u
<1>1. CASE taken
  <2> DEFINE d == [tier |-> t, limit |-> n]
  <2>1. d.tier = t
    OBVIOUS
  <2>2. Decision(taken, t, n) = <<d>>
    BY <1>1 DEF Decision
  <2> HIDE DEF d
  <2>3. DOMAIN <<d>> = {1} /\ <<d>>[1] = d
    OBVIOUS
  <2>4. QED
    BY <1>1, <2>1, <2>2, <2>3 DEF Has
<1>2. CASE ~taken
  <2>1. Decision(taken, t, n) = <<>>
    BY <1>2 DEF Decision
  <2>2. QED
    BY <1>2, <2>1 DEF Has
<1>3. QED
  BY <1>1, <1>2

\* Two lists decide for the tiers of either.
LEMMA HasJoined ==
  ASSUME NEW a \in Seq(AnyDecision), NEW b \in Seq(AnyDecision), NEW t
  PROVE  Has(a \o b, t) <=> Has(a, t) \/ Has(b, t)
<1>0. /\ DOMAIN a = 1 .. Len(a) /\ DOMAIN b = 1 .. Len(b)
      /\ DOMAIN (a \o b) = 1 .. (Len(a) + Len(b))
      /\ Len(a) \in Nat /\ Len(b) \in Nat
      /\ \A i \in 1 .. Len(a) : (a \o b)[i] = a[i]
      /\ \A i \in 1 .. Len(b) : (a \o b)[i + Len(a)] = b[i]
  OBVIOUS
<1> DEFINE c == a \o b
<1> HIDE DEF c
<1>1. ASSUME Has(a, t) PROVE Has(c, t)
  <2>1. PICK i \in 1 .. Len(a) : a[i].tier = t
    BY <1>0, <1>1 DEF Has
  <2>2. i \in DOMAIN c /\ c[i] = a[i]
    BY <1>0, <2>1 DEF c
  <2>3. QED
    BY <2>1, <2>2 DEF Has
<1>2. ASSUME Has(b, t) PROVE Has(c, t)
  <2>1. PICK i \in 1 .. Len(b) : b[i].tier = t
    BY <1>0, <1>2 DEF Has
  <2>2. i + Len(a) \in DOMAIN c /\ c[i + Len(a)] = b[i]
    BY <1>0, <2>1 DEF c
  <2>3. QED
    BY <2>1, <2>2 DEF Has
<1>3. ASSUME Has(c, t) PROVE Has(a, t) \/ Has(b, t)
  <2>1. PICK i \in 1 .. (Len(a) + Len(b)) : c[i].tier = t
    BY <1>0, <1>3 DEF Has, c
  <2>2. CASE i <= Len(a)
    <3>1. i \in DOMAIN a /\ c[i] = a[i]
      BY <1>0, <2>1, <2>2 DEF c
    <3>2. QED
      BY <2>1, <3>1 DEF Has
  <2>3. CASE i > Len(a)
    <3>1. i - Len(a) \in 1 .. Len(b) /\ (i - Len(a)) + Len(a) = i
      BY <1>0, <2>1, <2>3
    <3>2. c[i] = b[i - Len(a)]
      BY <1>0, <3>1 DEF c
    <3>3. QED
      BY <1>0, <2>1, <3>1, <3>2 DEF Has
  <2>4. QED
    BY <1>0, <2>1, <2>2, <2>3
<1>4. QED
  BY <1>1, <1>2, <1>3 DEF c

\* One more decision is decided once if it restores, or is the first of its tier.
LEMMA OnceJoined ==
  ASSUME NEW a \in Seq(AnyDecision), Once(a),
         NEW taken \in BOOLEAN, NEW t \in Tier, NEW n \in Nat,
         taken /\ n # Baseline[t] => ~Has(a, t)
  PROVE  Once(a \o Decision(taken, t, n)) /\ a \o Decision(taken, t, n) \in Seq(AnyDecision)
<1>1. CASE taken
  <2> DEFINE d == [tier |-> t, limit |-> n]
             c == a \o <<d>>
  <2>0. d \in AnyDecision /\ d.tier = t /\ d.limit = n
    BY DEF AnyDecision
  <2>1. Decision(taken, t, n) = <<d>>
    BY <1>1 DEF Decision
  <2> HIDE DEF d
  <2>2. /\ c \in Seq(AnyDecision) /\ Len(a) \in Nat /\ DOMAIN a = 1 .. Len(a)
        /\ DOMAIN c = 1 .. (Len(a) + 1)
        /\ \A i \in 1 .. Len(a) : c[i] = a[i]
        /\ c[Len(a) + 1] = d
    BY <2>0
  <2> HIDE DEF c
  <2>3. Once(c)
    <3> SUFFICES ASSUME NEW i \in DOMAIN c, NEW j \in DOMAIN c, i < j, c[i].tier = c[j].tier
                 PROVE  c[j].limit = Baseline[c[j].tier]
      BY DEF Once
    <3>1. i \in 1 .. Len(a) /\ c[i] = a[i]
      BY <2>2
    <3>2. CASE j <= Len(a)
      <4>1. j \in DOMAIN a /\ i \in DOMAIN a /\ c[j] = a[j]
        BY <2>2, <3>1, <3>2
      <4>2. QED
        BY <3>1, <4>1 DEF Once
    <3>3. CASE j = Len(a) + 1
      <4>1. c[j] = d
        BY <2>2, <3>3
      <4>2. Has(a, t)
        BY <2>0, <2>2, <3>1, <4>1 DEF Has
      <4>3. QED
        BY <1>1, <2>0, <4>1, <4>2
    <3>4. QED
      BY <2>2, <3>2, <3>3
  <2>4. QED
    BY <2>1, <2>2, <2>3 DEF c
<1>2. CASE ~taken
  <2>1. a \o Decision(taken, t, n) = a
    BY <1>2 DEF Decision
  <2>2. QED
    BY <2>1
<1>3. QED
  BY <1>1, <1>2

\* A list of at most one decision.
LEMMA DecisionTyped ==
  ASSUME NEW taken, NEW t \in Tier, NEW n \in Nat
  PROVE  Decision(taken, t, n) \in Seq(AnyDecision)
<1>1. [tier |-> t, limit |-> n] \in AnyDecision
  BY DEF AnyDecision
<1>2. QED
  BY <1>1 DEF Decision

\* What a tick decides, one list after the other, and which of them exclude each
\* other.
LEMMA DecisionsOnce ==
  ASSUME IInv, NEW o \in Observation, NEW cut \in Cuts(Cur(o, "free"))
  PROVE  Once(Decisions(o, cut))
<1> DEFINE cur == Cur(o, "premium")
           D1 == Decision(Undo(o, "free"), "free", Baseline["free"])
           D2 == Decision(UndoBoost(o), "premium", Baseline["premium"])
           D3 == Decision(Spike(o), "free", cut)
           D4 == Decision(Boost(o), "premium", Boosted(cur))
           D5 == Decision(Restore(o, "free"), "free", Step(Cur(o, "free"), "free"))
           D6 == Decision(Undo(o, "premium"), "premium", Baseline["premium"])
           D7 == Decision(Restore(o, "premium"), "premium", Step(cur, "premium"))
           C2 == D1 \o D2
           C3 == C2 \o D3
           C4 == C3 \o D4
           C5 == C4 \o D5
           C6 == C5 \o D6
           C7 == C6 \o D7
<1>1. "free" \in Tier /\ "premium" \in Tier /\ "free" # "premium"
  BY DEF Tier
<1>2. /\ Undo(o, "free") \in BOOLEAN /\ UndoBoost(o) \in BOOLEAN /\ Spike(o) \in BOOLEAN
      /\ Boost(o) \in BOOLEAN /\ Restore(o, "free") \in BOOLEAN
      /\ Undo(o, "premium") \in BOOLEAN /\ Restore(o, "premium") \in BOOLEAN
  BY DEF Undo, UndoBoost, Spike, Boost, Restore
<1>3. /\ Spike(o) => ~Undo(o, "free") /\ ~UndoBoost(o)
      /\ Boost(o) => Spike(o)
      /\ Restore(o, "free") => ~Undo(o, "free") /\ ~Spike(o)
      /\ Restore(o, "premium") => ~UndoBoost(o) /\ ~Boost(o) /\ ~Undo(o, "premium")
  BY DEF Spike, UndoBoost, RecentlyNoisy, Boost, Restore
<1>4. /\ Baseline["free"] \in Nat /\ Baseline["premium"] \in Nat /\ cut \in Nat
      /\ Boosted(cur) \in Nat /\ Step(Cur(o, "free"), "free") \in Nat
      /\ Step(cur, "premium") \in Nat
  BY <1>1, CurSane, CutsSane, BoostedSane, StepSane, BaselineSane
<1>5. /\ D1 \in Seq(AnyDecision) /\ D2 \in Seq(AnyDecision) /\ D3 \in Seq(AnyDecision)
      /\ D4 \in Seq(AnyDecision) /\ D5 \in Seq(AnyDecision) /\ D6 \in Seq(AnyDecision)
      /\ D7 \in Seq(AnyDecision)
  BY <1>1, <1>4, DecisionTyped
<1>6. \A t : /\ Has(D1, t) <=> Undo(o, "free") /\ t = "free"
             /\ Has(D2, t) <=> UndoBoost(o) /\ t = "premium"
             /\ Has(D3, t) <=> Spike(o) /\ t = "free"
             /\ Has(D4, t) <=> Boost(o) /\ t = "premium"
             /\ Has(D5, t) <=> Restore(o, "free") /\ t = "free"
             /\ Has(D6, t) <=> Undo(o, "premium") /\ t = "premium"
  BY <1>2, HasDecision
<1>7. Once(D1)
  <2>1. Once(<<>>) /\ ~Has(<<>>, "free") /\ <<>> \in Seq(AnyDecision)
    BY DEF Once, Has
  <2>2. Once(<<>> \o D1)
    BY <1>1, <1>2, <1>4, <2>1, OnceJoined
  <2>3. <<>> \o D1 = D1
    BY <1>5
  <2>4. QED
    BY <2>2, <2>3
<1> HIDE DEF cur, D1
<1>8. Once(C2) /\ C2 \in Seq(AnyDecision)
  BY <1>1, <1>2, <1>4, <1>5, <1>7, OnceJoined
<1>9. \A t : Has(C2, t) <=> Has(D1, t) \/ Has(D2, t)
  BY <1>5, HasJoined
<1> HIDE DEF C2
<1>10. ~Spike(o) \/ ~Has(C2, "free")
  BY <1>1, <1>3, <1>6, <1>9
<1>11. Once(C3) /\ C3 \in Seq(AnyDecision)
  BY <1>1, <1>2, <1>4, <1>8, <1>10, OnceJoined
<1>12. \A t : Has(C3, t) <=> Has(C2, t) \/ Has(D3, t)
  BY <1>5, <1>8, HasJoined
<1> HIDE DEF C3
<1>13. ~Boost(o) \/ ~Has(C3, "premium")
  BY <1>1, <1>3, <1>6, <1>9, <1>12
<1>14. Once(C4) /\ C4 \in Seq(AnyDecision)
  BY <1>1, <1>2, <1>4, <1>11, <1>13, OnceJoined
<1>15. \A t : Has(C4, t) <=> Has(C3, t) \/ Has(D4, t)
  BY <1>5, <1>11, HasJoined
<1> HIDE DEF C4
<1>16. ~Restore(o, "free") \/ ~Has(C4, "free")
  BY <1>1, <1>3, <1>6, <1>9, <1>12, <1>15
<1>17. Once(C5) /\ C5 \in Seq(AnyDecision)
  BY <1>1, <1>2, <1>4, <1>14, <1>16, OnceJoined
<1>18. \A t : Has(C5, t) <=> Has(C4, t) \/ Has(D5, t)
  BY <1>5, <1>14, HasJoined
<1> HIDE DEF C5
<1>19. Once(C6) /\ C6 \in Seq(AnyDecision)
  BY <1>1, <1>2, <1>4, <1>17, OnceJoined
<1>20. \A t : Has(C6, t) <=> Has(C5, t) \/ Has(D6, t)
  BY <1>5, <1>17, HasJoined
<1> HIDE DEF C6
<1>21. ~Restore(o, "premium") \/ ~Has(C6, "premium")
  BY <1>1, <1>3, <1>6, <1>9, <1>12, <1>15, <1>18, <1>20
<1>22. Once(C7)
  BY <1>1, <1>2, <1>4, <1>19, <1>21, OnceJoined
<1>23. QED
  BY <1>22 DEF Decisions, C7, C6, C5, C4, C3, C2, D1, cur

\* It stays so while the list is worked off.
LEMMA OnceNext ==
  ASSUME IInv, Once(todo), [Next]_vars
  PROVE  Once(todo')
<1>1. ASSUME NEW o \in Observation, Tick(o) PROVE Once(todo')
  BY <1>1, DecisionsOnce DEF Tick
<1>2. CASE Write \/ WriteFails
  <2>1. todo \in Seq(AnyDecision) /\ todo # <<>> /\ todo' = Tail(todo)
    BY <1>2 DEF Write, WriteFails, NextDecision, IInv, TypeOK, AnyDecision
  <2>2. /\ DOMAIN todo' \subseteq Nat
        /\ \A i \in DOMAIN todo' : i + 1 \in DOMAIN todo /\ todo'[i] = todo[i + 1]
    BY <2>1
  <2>3. QED
    BY <2>2 DEF Once
<1>3. CASE AgentDies
  BY <1>3 DEF AgentDies, Once
<1>4. CASE \/ TickFails \/ AgentStarts \/ RedisRestart \/ Elapse \/ UNCHANGED vars
           \/ \E t \in Tier : Seed(t)
  BY <1>4 DEF TickFails, AgentStarts, RedisRestart, Elapse, vars, Seed, Once
<1>5. QED
  BY <1>1, <1>2, <1>3, <1>4 DEF Next

\* The rules of one tick do not work against each other: what is decided for a tier
\* after another decision is its baseline.
THEOREM RulesAgree == Spec => []DecidedOnce
<1>1. Init => Once(todo)
  BY DEF Init, Once
<1>2. IInv /\ Once(todo) /\ [Next]_vars => Once(todo)'
  BY OnceNext
<1>3. Once(todo) => DecidedOnce
  BY DEF Once, DecidedOnce
<1>4. QED
  BY <1>1, <1>2, <1>3, Invariant, PTL DEF Spec

-----------------------------------------------------------------------------
(* The Safety Net.                                                         *)

\* A decision that throttles nobody by mistake and compensates nobody.
CalmDecision ==
  {d \in AnyDecision : /\ d.tier = "free" => d.limit = Baseline["free"]
                       /\ d.limit <= Baseline[d.tier]}

\* What is true of a tier's limit, or will be when the decisions are written.
Settling == /\ limit["free"] \in {0, Fallback["free"], Baseline["free"]} \/ Has(todo, "free")
            /\ limit["premium"] <= Baseline["premium"] \/ Has(todo, "premium")

\* A tick that saw an attack has just happened, and the decisions in hand, with what
\* is stored, take back what was decided by mistake.
NetInv == /\ calm = 0 => pc \notin {"due", "skipped"}
          /\ calm = 0 /\ faults = 0 /\ pc \in {"writing", "sleeping"} =>
               todo \in Seq(CalmDecision) /\ Settling

\* A list of at most one decision that calms.
LEMMA OneCalm ==
  ASSUME NEW taken, NEW t \in Tier, NEW n \in Nat,
         taken => n <= Baseline[t] /\ (t = "free" => n = Baseline["free"])
  PROVE  Decision(taken, t, n) \in Seq(CalmDecision)
<1>1. CASE taken
  <2>1. [tier |-> t, limit |-> n] \in CalmDecision
    BY <1>1 DEF CalmDecision, AnyDecision
  <2>2. QED
    BY <1>1, <2>1 DEF Decision
<1>2. CASE ~taken
  BY <1>2 DEF Decision
<1>3. QED
  BY <1>1, <1>2

\* Joining lists keeps them calm and loses no tier.
LEMMA CalmJoined ==
  ASSUME NEW a \in Seq(CalmDecision), NEW b \in Seq(CalmDecision)
  PROVE  a \o b \in Seq(CalmDecision) /\ \A t : Has(a, t) \/ Has(b, t) => Has(a \o b, t)
<1>1. CalmDecision \subseteq AnyDecision
  BY DEF CalmDecision
<1>2. a \in Seq(AnyDecision) /\ b \in Seq(AnyDecision)
  <2>1. \A X, Y : X \subseteq Y => \A s \in Seq(X) : s \in Seq(Y)
    OBVIOUS
  <2> HIDE DEF CalmDecision
  <2>2. QED
    BY <1>1, <2>1
<1>3. QED
  BY <1>2, HasJoined

\* In a tick that sees an attack and reads both policies, Rule 1 is silent and the
\* Safety Net speaks where it must.
LEMMA AttackDecides ==
  ASSUME IInv, NEW o \in Observation, "free" \in o.noisy, o.unread = {},
         NEW cut \in Cuts(Cur(o, "free"))
  PROVE  /\ Decisions(o, cut) \in Seq(CalmDecision)
         /\ \/ limit["free"] \in {0, Fallback["free"], Baseline["free"]}
            \/ Has(Decisions(o, cut), "free")
         /\ limit["premium"] <= Baseline["premium"] \/ Has(Decisions(o, cut), "premium")
<1> DEFINE cur == Cur(o, "premium")
           D1 == Decision(Undo(o, "free"), "free", Baseline["free"])
           D2 == Decision(UndoBoost(o), "premium", Baseline["premium"])
           D3 == Decision(Spike(o), "free", cut)
           D4 == Decision(Boost(o), "premium", Boosted(cur))
           D5 == Decision(Restore(o, "free"), "free", Step(Cur(o, "free"), "free"))
           D6 == Decision(Undo(o, "premium"), "premium", Baseline["premium"])
           D7 == Decision(Restore(o, "premium"), "premium", Step(cur, "premium"))
           C2 == D1 \o D2
           C3 == C2 \o D3
           C4 == C3 \o D4
           C5 == C4 \o D5
           C6 == C5 \o D6
           C7 == C6 \o D7
<1>1. "free" \in Tier /\ "premium" \in Tier
  BY DEF Tier
<1>2. /\ Undo(o, "free") \in BOOLEAN /\ UndoBoost(o) \in BOOLEAN
  BY DEF Undo, UndoBoost
<1>3. ~Spike(o) /\ ~Boost(o)
  BY DEF Spike, RecentlyNoisy, Boost
<1>4. ~Restore(o, "free")
  BY DEF Restore, Undo
<1>5. /\ Baseline["free"] \in Nat /\ Baseline["premium"] \in Nat /\ cut \in Nat
      /\ Boosted(cur) \in Nat /\ Step(Cur(o, "free"), "free") \in Nat
      /\ Step(cur, "premium") \in Nat /\ cur \in Nat
      /\ Cur(o, "free") \in Nat /\ Sane("free", Cur(o, "free"))
  BY <1>1, CurSane, CutsSane, BoostedSane, StepSane, BaselineSane
<1>6. Step(cur, "premium") <= Baseline["premium"]
  BY <1>5 DEF Step, Least
<1>7. /\ D1 \in Seq(CalmDecision) /\ D2 \in Seq(CalmDecision) /\ D3 \in Seq(CalmDecision)
      /\ D4 \in Seq(CalmDecision) /\ D5 \in Seq(CalmDecision) /\ D6 \in Seq(CalmDecision)
      /\ D7 \in Seq(CalmDecision)
  <2>1. D1 \in Seq(CalmDecision) /\ D2 \in Seq(CalmDecision) /\ D6 \in Seq(CalmDecision)
    <3>1. \A t \in Tier : /\ Baseline[t] \in Nat /\ Baseline[t] <= Baseline[t]
                          /\ t = "free" => Baseline[t] = Baseline["free"]
      BY <1>1, <1>5 DEF Tier
    <3>2. \A taken : \A t \in Tier : Decision(taken, t, Baseline[t]) \in Seq(CalmDecision)
      BY <3>1, OneCalm
    <3>3. QED
      BY <1>1, <3>2
  <2>2. D3 \in Seq(CalmDecision) /\ D4 \in Seq(CalmDecision) /\ D5 \in Seq(CalmDecision)
    BY <1>3, <1>4 DEF Decision
  <2>3. D7 \in Seq(CalmDecision)
    BY <1>1, <1>5, <1>6, OneCalm
  <2>4. QED
    BY <2>1, <2>2, <2>3
<1>8. limit["free"] \in {0, Fallback["free"], Baseline["free"]} \/ Undo(o, "free")
  BY <1>1, <1>5, NumbersHold DEF Undo, Cur, Sane, Numbers
<1>9. limit["premium"] <= Baseline["premium"] \/ UndoBoost(o)
  <2>1. limit["premium"] \in Nat
    BY <1>1 DEF IInv, TypeOK
  <2>2. SUFFICES ASSUME limit["premium"] > Baseline["premium"] PROVE UndoBoost(o)
    BY <1>5, <2>1
  <2>3. Cur(o, "premium") = limit["premium"]
    BY <1>5, <2>1, <2>2 DEF Cur
  <2>4. QED
    BY <2>2, <2>3 DEF UndoBoost
<1>10. /\ Undo(o, "free") => Has(D1, "free")
       /\ UndoBoost(o) => Has(D2, "premium")
  BY <1>2, HasDecision
<1> HIDE DEF cur, D1, D2, D3, D4, D5, D6, D7
<1>11. C2 \in Seq(CalmDecision) /\ \A t : Has(D1, t) \/ Has(D2, t) => Has(C2, t)
  BY <1>7, CalmJoined
<1> HIDE DEF C2
<1>12. C3 \in Seq(CalmDecision) /\ \A t : Has(C2, t) => Has(C3, t)
  BY <1>7, <1>11, CalmJoined
<1> HIDE DEF C3
<1>13. C4 \in Seq(CalmDecision) /\ \A t : Has(C3, t) => Has(C4, t)
  BY <1>7, <1>12, CalmJoined
<1> HIDE DEF C4
<1>14. C5 \in Seq(CalmDecision) /\ \A t : Has(C4, t) => Has(C5, t)
  BY <1>7, <1>13, CalmJoined
<1> HIDE DEF C5
<1>15. C6 \in Seq(CalmDecision) /\ \A t : Has(C5, t) => Has(C6, t)
  BY <1>7, <1>14, CalmJoined
<1> HIDE DEF C6
<1>16. C7 \in Seq(CalmDecision) /\ \A t : Has(C6, t) => Has(C7, t)
  BY <1>7, <1>15, CalmJoined
<1> HIDE DEF C7
<1>17. Decisions(o, cut) = C7
  BY DEF Decisions, C7, C6, C5, C4, C3, C2, D1, D2, D3, D4, D5, D6, D7, cur
<1>18. \A t : Has(D1, t) \/ Has(D2, t) => Has(C7, t)
  BY <1>11, <1>12, <1>13, <1>14, <1>15, <1>16
<1>19. QED
  BY <1>8, <1>9, <1>10, <1>16, <1>17, <1>18

\* Writing the first decision settles its tier.
LEMMA WriteSettles ==
  ASSUME IInv, NetInv, Write, calm = 0, faults = 0
  PROVE  todo' \in Seq(CalmDecision) /\ Settling'
<1> DEFINE d == Head(todo)
<1>1. pc = "writing" /\ todo \in Seq(CalmDecision) /\ Settling
  BY DEF Write, NetInv
<1>2. todo # <<>> /\ todo' = Tail(todo)
  BY <1>1 DEF Write, NextDecision, IInv, TypeOK
<1>3. todo' \in Seq(CalmDecision) /\ d \in CalmDecision
  BY <1>1, <1>2
<1>4. /\ DOMAIN todo = 1 .. Len(todo) /\ Len(todo) \in Nat /\ d = todo[1]
      /\ \A i \in DOMAIN todo : i # 1 => i - 1 \in DOMAIN todo' /\ todo'[i - 1] = todo[i]
  BY <1>1, <1>2
<1>5. \A t : Has(todo, t) => d.tier = t \/ Has(todo', t)
  <2> SUFFICES ASSUME NEW t, Has(todo, t) PROVE d.tier = t \/ Has(todo', t)
    OBVIOUS
  <2>1. PICK i \in DOMAIN todo : todo[i].tier = t
    BY DEF Has
  <2>2. CASE i = 1
    BY <1>4, <2>1, <2>2
  <2>3. CASE i # 1
    <3>1. i - 1 \in DOMAIN todo' /\ todo'[i - 1].tier = t
      BY <1>4, <2>1, <2>3
    <3>2. QED
      BY <3>1 DEF Has
  <2>4. QED
    BY <2>2, <2>3
<1>6. limit' = [limit EXCEPT ![d.tier] = d.limit] /\ limit \in [Tier -> Nat]
  BY DEF Write, Set, IInv, TypeOK
<1>7. /\ d.tier \in Tier /\ d.limit \in Nat /\ d.limit <= Baseline[d.tier]
      /\ d.tier = "free" => d.limit = Baseline["free"]
  BY <1>3 DEF CalmDecision, AnyDecision
<1> HIDE DEF d
<1>8. \/ limit'["free"] \in {0, Fallback["free"], Baseline["free"]}
      \/ Has(todo', "free")
  BY <1>1, <1>5, <1>6, <1>7 DEF Settling, Tier
<1>9. limit'["premium"] <= Baseline["premium"] \/ Has(todo', "premium")
  BY <1>1, <1>5, <1>6, <1>7 DEF Settling, Tier
<1>10. QED
  BY <1>3, <1>8, <1>9 DEF Settling, Has

\* The tick of an attack starts it, and what seeds and restarts do does not disturb
\* it.
LEMMA NetNext ==
  ASSUME IInv, NetInv, [Next]_vars
  PROVE  NetInv'
<1>1. ASSUME NEW o \in Observation, Tick(o) PROVE NetInv'
  <2>1. pc = "due" /\ calm # 0 /\ pc' \in {"writing", "sleeping"} /\ UNCHANGED store
    BY <1>1 DEF Tick, NetInv
  <2>2. SUFFICES ASSUME calm' = 0, faults' = 0
                 PROVE  todo' \in Seq(CalmDecision) /\ Settling'
    BY <2>1 DEF NetInv
  <2>3. "free" \in o.noisy
    BY <1>1, <2>1, <2>2 DEF Tick
  <2>4. o.unread = {}
    BY <1>1, <2>2, PolicyAssumption DEF Tick, IInv, TypeOK, PolicyAssumption
  <2>5. PICK cut \in Cuts(Cur(o, "free")) : todo' = Decisions(o, cut)
    BY <1>1 DEF Tick
  <2>6. limit' = limit
    BY <2>1 DEF store
  <2>7. QED
    BY <2>3, <2>4, <2>5, <2>6, AttackDecides DEF Settling, Has
<1>2. CASE TickFails
  BY <1>2 DEF TickFails, NetInv, memory
<1>3. CASE Write
  <2>1. /\ UNCHANGED <<calm, faults>> /\ pc = "writing" /\ pc' \in {"writing", "sleeping"}
    BY <1>3 DEF Write, NextDecision, memory
  <2>2. QED
    BY <1>3, <2>1, WriteSettles DEF NetInv
<1>4. CASE WriteFails
  <2>1. faults' # 0 /\ pc' \in {"writing", "sleeping"}
    BY <1>4 DEF WriteFails, NextDecision, IInv, TypeOK
  <2>2. QED
    BY <2>1 DEF NetInv
<1>5. CASE AgentDies
  BY <1>5 DEF AgentDies, NetInv
<1>6. CASE AgentStarts
  <2>1. calm' # 0
    BY <1>6, PolicyAssumption DEF AgentStarts, NewDecider, PolicyAssumption
  <2>2. QED
    BY <2>1 DEF NetInv
<1>7. ASSUME NEW t \in Tier, Seed(t) PROVE NetInv'
  <2>1. PICK n \in {Baseline[t], Fallback[t]} : limit' = [limit EXCEPT ![t] = n]
    BY <1>7 DEF Seed
  <2>2. UNCHANGED <<pc, todo, calm, faults>>
    BY <1>7 DEF Seed, memory
  <2>3. Settling => Settling'
    <3>1. /\ limit'["free"] \in {limit["free"], Baseline["free"], Fallback["free"]}
          /\ limit'["premium"] \in {limit["premium"], Baseline["premium"], Fallback["premium"]}
      BY <2>1 DEF IInv, TypeOK, Tier
    <3>2. /\ Baseline["premium"] \in Nat /\ Fallback["premium"] \in Nat
          /\ Fallback["premium"] < Baseline["premium"]
      BY NumbersHold DEF Numbers, Tier
    <3>3. \A u : Has(todo, u)' <=> Has(todo, u)
      BY <2>2 DEF Has
    <3>4. QED
      BY <3>1, <3>2, <3>3 DEF Settling
  <2>4. QED
    BY <2>2, <2>3 DEF NetInv
<1>8. CASE RedisRestart
  <2>1. limit'["free"] = 0 /\ limit'["premium"] = 0
    BY <1>8 DEF RedisRestart, Tier
  <2>2. UNCHANGED <<pc, todo, calm, faults>>
    BY <1>8 DEF RedisRestart, memory
  <2>3. Settling'
    BY <2>1, NumbersHold DEF Settling, Numbers, Tier
  <2>4. QED
    BY <2>2, <2>3 DEF NetInv
<1>9. CASE Elapse
  <2>1. calm' # 0
    BY <1>9, PolicyAssumption DEF Elapse, Least, IInv, TypeOK, PolicyAssumption
  <2>2. QED
    BY <2>1 DEF NetInv
<1>10. CASE UNCHANGED vars
  BY <1>10 DEF vars, store, memory, NetInv, Settling, Has
<1>11. QED
  BY <1>1, <1>2, <1>3, <1>4, <1>5, <1>6, <1>7, <1>8, <1>9, <1>10 DEF Next

\* However seeds, restarts and expiries fall between the writes: once a tick that saw
\* an attack on free has written what it decided, nothing of a cut or a compensation
\* is left.
THEOREM MistakesUndone == Spec => []SafetyNet
<1>1. Init => NetInv
  BY PolicyAssumption DEF Init, NetInv, PolicyAssumption
<1>2. IInv /\ NetInv /\ [Next]_vars => NetInv'
  BY NetNext
<1>3. IInv /\ NetInv => SafetyNet
  <2> SUFFICES ASSUME IInv, NetInv, pc = "sleeping", calm = 0, faults = 0
               PROVE  /\ limit["free"] \in {0, Fallback["free"], Baseline["free"]}
                      /\ limit["premium"] <= Baseline["premium"]
    BY DEF SafetyNet
  <2>1. todo = <<>> /\ Settling
    BY DEF NetInv, IInv, TypeOK
  <2>2. QED
    BY <2>1 DEF Settling, Has
<1>4. QED
  BY <1>1, <1>2, <1>3, Invariant, PTL DEF Spec
=============================================================================
