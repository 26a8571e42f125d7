------------------------ MODULE SlidingWindow_proofs ------------------------
(***************************************************************************)
(* Proofs about SlidingWindow, for every set of calls, every window, limit *)
(* and skew, and any number of restarts of Redis.                          *)
(***************************************************************************)
EXTENDS SlidingWindow, FunctionTheorems, FiniteSetTheorems,
        WellFoundedInduction, TLAPS

Constants == MaxStep \in Nat /\ MaxDelay \in Nat /\ MaxClock \in Nat
             /\ MaxLimit \in Nat \ {0} /\ Window \in Nat /\ Ttl \in Nat
             /\ MaxRestarts \in Nat /\ Skew \in Nat /\ Skew < Window /\ Window <= Ttl

\* The assumptions on the constants, in one fact.
LEMMA ConstantsFact == Constants
  BY TimeAssumption, WindowAssumption DEF Constants, Skew

\* A non-empty set of entries has an oldest one, and RetryAfter is the time
\* until it leaves the window.
LEMMA OldestExists ==
  ASSUME NEW E \in SUBSET Entry, E # {}, NEW t \in Nat
  PROVE  \E e \in E : RetryAfter(E, t) = (e.at + Window) - t
<1> DEFINE Times == {e.at : e \in E}
<1> DEFINE Oldest(e) == \A d \in E : e.at <= d.at
<1>1. Times \subseteq Nat /\ Times # {}
  BY DEF Entry
<1> HIDE DEF Times
<1>2. PICK x \in Times : \A y \in Times : ~ (<<y, x>> \in OpToRel(<, Nat))
  BY <1>1, NatLessThanWellFounded, WFMin, Zenon
<1>3. \A y \in Times : x <= y
  <2>1. \A y \in Times : <<y, x>> \in Nat \X Nat
    BY <1>1
  <2>2. \A y \in Times : ~ (y < x)
    BY <1>2, <2>1, Zenon DEF OpToRel
  <2>3. QED
    BY <1>1, <2>2
<1>4. \E e \in E : Oldest(e)
  BY <1>3 DEF Times
<1>5. (CHOOSE e \in E : Oldest(e)) \in E
  BY <1>4, Zenon
<1>6. RetryAfter(E, t) = ((CHOOSE e \in E : Oldest(e)).at + Window) - t
  BY Zenon DEF RetryAfter
<1> HIDE DEF Oldest
<1>7. QED
  BY <1>5, <1>6, Zenon

-----------------------------------------------------------------------------
\* Reading the clock and asking the counter keeps every part.
LEMMA InvCheck == ASSUME IInv, NEW c \in Call, Check(c) PROVE IInv'
<1> USE ConstantsFact
    DEF Constants, IInv, Check, ReadClock, TypeOK, CallTypeOK, Phase
<1> PICK t \in clock .. clock + MaxStep : stamp' = [stamp EXCEPT ![c] = t]
  OBVIOUS
<1>1. TypeOK' /\ IsFiniteSet(log)'
  OBVIOUS
<1>2. CallsOnTime'
  BY DEF CallsOnTime
<1>3. NoncesFresh'
  BY DEF NoncesFresh
<1>4. AdmittedOnce'
  BY DEF AdmittedOnce, Admission
<1>5. Remembered'
  BY DEF Remembered, AdmittedOnce, Admission
<1>6. LogNotAhead' /\ HintBounded'
  BY DEF LogNotAhead, HintBounded
<1>7. WindowBound'
  BY Zenon DEF WindowBound, AdmittedSince
<1>8. QED
  BY <1>1, <1>2, <1>3, <1>4, <1>5, <1>6, <1>7

\* The entry of an admission in the current life that can still count for a call
\* is one of those the script counts, and distinct admissions have distinct
\* entries: the script's count bounds the admissions near its stamp.
LEMMA CountCovers ==
  ASSUME IInv, NEW c \in Call, phase[c] = "sent",
         NEW T \in SUBSET admitted,
         \A b \in T : b.life = life /\ stamp[c] < b.at + (Window - Skew)
  PROVE  /\ IsFiniteSet(T)
         /\ Cardinality(T) <= Cardinality(Live(log, stamp[c]))
<1> DEFINE L == Live(log, stamp[c])
<1> DEFINE f == [b \in T |-> [at |-> b.at, nonce |-> nonce[b.call]]]
<1> USE ConstantsFact DEF Constants
<1>0. /\ sent[c] \in Nat /\ stamp[c] \in Nat /\ clock \in Nat
      /\ stamp[c] >= clock - MaxDelay /\ stamp[c] <= clock + MaxStep
  BY DEF IInv, TypeOK, CallTypeOK, CallsOnTime
<1>1. \A b \in T : /\ b \in Admission /\ b.at \in Nat /\ b.call \in Call
                   /\ phase[b.call] = "allowed"
  BY DEF IInv, TypeOK, AdmittedOnce, Admission
<1>2. ASSUME NEW b \in T
      PROVE  [at |-> b.at, nonce |-> nonce[b.call]] \in L
  <2>1. b.at + Window > clock + MaxStep
    BY <1>0, <1>1 DEF Skew
  <2>2. [at |-> b.at, nonce |-> nonce[b.call]] \in log
    BY <1>0, <1>1, <2>1 DEF IInv, Remembered
  <2>3. b.at + Window > stamp[c]
    BY <1>0, <1>1, <2>1
  <2>4. QED
    BY <2>2, <2>3 DEF Live
<1>3. ASSUME NEW a \in T, NEW b \in T, f[a] = f[b]
      PROVE  a = b
  <2>1. nonce[a.call] = nonce[b.call]
    BY <1>3
  <2>2. a.call = b.call
    BY <1>1, <2>1 DEF IInv, NoncesFresh
  <2>3. QED
    BY <2>2 DEF IInv, AdmittedOnce
<1>4. f \in [T -> L]
  BY <1>2
<1>5. IsFiniteSet(L)
  <2>1. L \in SUBSET log
    BY DEF Live
  <2>2. QED
    BY <2>1, FS_Subset DEF IInv
<1> HIDE DEF f, L
<1>6. f \in Injection(T, L)
  BY <1>3, <1>4, Fun_IsInj
<1>7. QED
  BY <1>5, <1>6, FS_Injection DEF L

\* Recording an allowed call keeps the bound.
LEMMA BoundAllow == ASSUME IInv, NEW c \in Call, Allow(c) PROVE WindowBound'
<1> DEFINE new == [at |-> stamp[c], call |-> c, life |-> life]
<1> DEFINE Near(A, x) == {b \in A : /\ b.life = x.life
                                    /\ x.at <= b.at
                                    /\ b.at < x.at + (Window - Skew)}
<1> USE ConstantsFact DEF Constants
<1>0. /\ phase[c] = "sent" /\ admitted' = admitted \cup {new}
      /\ stamp[c] \in Nat /\ admitted \subseteq Admission /\ new \in Admission
  BY DEF IInv, TypeOK, CallTypeOK, Allow, Admission
<1>1. \A a \in admitted : Cardinality(Near(admitted, a)) <= MaxLimit
  BY Zenon DEF IInv, WindowBound, AdmittedSince
<1>2. SUFFICES ASSUME NEW a \in admitted \cup {new}
               PROVE  Cardinality(Near(admitted \cup {new}, a)) <= MaxLimit
  BY <1>0, <1>2, Zenon DEF WindowBound, AdmittedSince
<1>3. a.at \in Nat /\ a \in Admission
  BY <1>0 DEF Admission
<1>4. CASE new \notin Near(admitted \cup {new}, a)
  <2>1. a # new
    BY <1>3, <1>4, <1>0
  <2>2. Near(admitted \cup {new}, a) = Near(admitted, a)
    BY <1>4
  <2>3. QED
    BY <1>1, <2>1, <2>2
<1>5. CASE new \in Near(admitted \cup {new}, a)
  <2> DEFINE T == Near(admitted, a)
  <2>1. a.life = life /\ a.at <= stamp[c] /\ stamp[c] < a.at + (Window - Skew)
    BY <1>5
  <2>2. \A b \in T : b.life = life /\ stamp[c] < b.at + (Window - Skew)
    BY <1>0, <1>3, <2>1 DEF Admission
  <2>3. T \in SUBSET admitted
    OBVIOUS
  <2>4. Near(admitted \cup {new}, a) = T \cup {new}
    BY <1>5
  <2> HIDE DEF T
  <2>5. IsFiniteSet(T) /\ Cardinality(T) <= Cardinality(Live(log, stamp[c]))
    BY <1>0, <2>2, <2>3, CountCovers
  <2>6. IsFiniteSet(Live(log, stamp[c]))
    <3>1. Live(log, stamp[c]) \in SUBSET log
      BY DEF Live
    <3>2. QED
      BY <3>1, FS_Subset DEF IInv
  <2>7. Cardinality(Live(log, stamp[c])) + 1 <= MaxLimit
    BY <2>6, FS_CardinalityType DEF Allow
  <2> HIDE DEF new, Near
  <2>8. Cardinality(T) \in Nat /\ Cardinality(Live(log, stamp[c])) \in Nat
    BY <2>5, <2>6, FS_CardinalityType, Zenon
  <2>9. Cardinality(T \cup {new}) =
          IF new \in T THEN Cardinality(T) ELSE Cardinality(T) + 1
    BY <2>5, FS_AddElement, Zenon
  <2>10. QED
    BY <2>4, <2>5, <2>7, <2>8, <2>9
<1>6. QED
  BY <1>4, <1>5

\* The script that allows a call keeps every part.
LEMMA InvAllow == ASSUME IInv, NEW c \in Call, Allow(c) PROVE IInv'
<1> USE ConstantsFact DEF Constants
<1>0. /\ phase[c] = "sent" /\ stamp[c] \in Nat /\ clock \in Nat
      /\ clock' = clock /\ life' = life /\ nonce' = nonce /\ life \in Nat
      /\ phase' = [phase EXCEPT ![c] = "allowed"]
      /\ stamp[c] <= clock + MaxStep /\ touched <= clock /\ touched \in Nat
      /\ log \subseteq Entry /\ admitted \subseteq Admission
  BY DEF IInv, TypeOK, CallTypeOK, CallsOnTime, LogNotAhead, Allow, Answer
<1>1. TypeOK'
  <2>1. Live(log, stamp[c]) \subseteq Entry
    BY <1>0 DEF Live
  <2>2. Member(c) \in Entry
    BY <1>0 DEF Member, Entry, IInv, TypeOK
  <2>3. [at |-> stamp[c], call |-> c, life |-> life] \in Admission
    BY <1>0 DEF Admission
  <2>4. QED
    BY <1>0, <2>1, <2>2, <2>3 DEF IInv, TypeOK, CallTypeOK, Phase, Allow, Answer
<1>2. IsFiniteSet(log)'
  <2>1. Live(log, stamp[c]) \in SUBSET log
    BY DEF Live
  <2>2. IsFiniteSet(Live(log, stamp[c]))
    BY <2>1, FS_Subset DEF IInv
  <2>3. QED
    BY <2>2, FS_AddElement DEF Allow
<1>3. CallsOnTime'
  BY DEF IInv, TypeOK, CallTypeOK, CallsOnTime, Allow, Answer
<1>4. NoncesFresh'
  BY DEF IInv, TypeOK, CallTypeOK, NoncesFresh, Allow, Answer
<1>5. AdmittedOnce'
  BY <1>0 DEF IInv, AdmittedOnce, Allow, Admission, TypeOK, CallTypeOK
<1>6. Remembered'
  <2> SUFFICES ASSUME NEW a \in admitted', a.life = life
               PROVE  \/ [at |-> a.at, nonce |-> nonce[a.call]] \in log'
                      \/ a.at + Window <= clock + MaxStep
    BY <1>0 DEF Remembered
  <2>1. log' = Live(log, stamp[c]) \cup {Member(c)}
    BY DEF Allow
  <2>2. CASE a \in admitted
    <3>1. CASE [at |-> a.at, nonce |-> nonce[a.call]] \in Live(log, stamp[c])
      BY <2>1, <3>1
    <3>2. CASE a.at + Window <= clock + MaxStep
      BY <3>2
    <3>3. a.at \in Nat
      BY <1>0, <2>2 DEF Admission
    <3>4. QED
      BY <1>0, <2>2, <3>1, <3>2, <3>3 DEF IInv, Remembered, Live
  <2>3. CASE a = [at |-> stamp[c], call |-> c, life |-> life]
    BY <2>1, <2>3 DEF Member
  <2>4. QED
    BY <2>2, <2>3 DEF Allow
<1>7. LogNotAhead'
  <2>1. log' = Live(log, stamp[c]) \cup {Member(c)} /\ touched' = clock
    BY DEF Allow
  <2>2. \A e \in log : e.at \in Nat /\ e.at <= touched + MaxStep
    BY <1>0 DEF IInv, LogNotAhead, Entry
  <2>3. QED
    BY <1>0, <2>1, <2>2 DEF LogNotAhead, Live, Member
<1>8. WindowBound'
  BY BoundAllow
<1>9. HintBounded'
  BY <1>0 DEF IInv, HintBounded, Allow, TypeOK, CallTypeOK
<1>10. QED
  BY <1>1, <1>2, <1>3, <1>4, <1>5, <1>6, <1>7, <1>8, <1>9 DEF IInv

\* The script that denies a call keeps every part.
LEMMA InvDeny == ASSUME IInv, NEW c \in Call, Deny(c) PROVE IInv'
<1> USE ConstantsFact DEF Constants
<1>0. /\ phase[c] = "sent" /\ stamp[c] \in Nat /\ clock \in Nat
      /\ clock' = clock /\ life' = life /\ nonce' = nonce /\ life \in Nat
      /\ admitted' = admitted /\ log' = Live(log, stamp[c]) /\ touched' = clock
      /\ phase' = [phase EXCEPT ![c] = "denied"]
      /\ stamp[c] <= clock + MaxStep /\ clock <= stamp[c] + MaxDelay
      /\ touched <= clock /\ touched \in Nat
      /\ log \subseteq Entry /\ admitted \subseteq Admission
  BY DEF IInv, TypeOK, CallTypeOK, CallsOnTime, LogNotAhead, Deny, Answer
<1>1. log' \in SUBSET log /\ IsFiniteSet(log)'
  <2>1. log' \in SUBSET log
    BY <1>0 DEF Live
  <2>2. QED
    BY <2>1, FS_Subset DEF IInv
<1>2. Live(log, stamp[c]) # {}
  <2>1. Live(log, stamp[c]) = {} => Cardinality(Live(log, stamp[c])) = 0
    BY FS_EmptySet
  <2>2. QED
    BY <2>1 DEF Deny
<1>3. hint' \in 1 .. Window + Skew
  <2>1. PICK e \in log' : RetryAfter(log', stamp[c]) = (e.at + Window) - stamp[c]
    BY <1>0, <1>1, <1>2, OldestExists
  <2>2. e \in log /\ e.at \in Nat /\ e.at + Window > stamp[c]
    BY <1>0, <2>1 DEF Live, Entry
  <2>3. e.at <= clock + MaxStep
    BY <1>0, <2>2 DEF IInv, LogNotAhead
  <2>4. hint' = (e.at + Window) - stamp[c]
    BY <2>1 DEF Deny
  <2>5. QED
    BY <1>0, <2>2, <2>3, <2>4 DEF Skew
<1>4. TypeOK'
  BY <1>0, <1>1, <1>3 DEF IInv, TypeOK, CallTypeOK, Phase, Deny, Answer
<1>5. CallsOnTime'
  BY DEF IInv, TypeOK, CallTypeOK, CallsOnTime, Deny, Answer
<1>6. NoncesFresh'
  BY DEF IInv, TypeOK, CallTypeOK, NoncesFresh, Deny, Answer
<1>7. AdmittedOnce'
  BY <1>0 DEF IInv, AdmittedOnce, Admission, TypeOK, CallTypeOK
<1>8. Remembered'
  <2>1. ASSUME NEW a \in admitted, a.life = life,
               [at |-> a.at, nonce |-> nonce[a.call]] \in log
        PROVE  \/ [at |-> a.at, nonce |-> nonce[a.call]] \in log'
               \/ a.at + Window <= clock + MaxStep
    <3>1. a.at \in Nat
      BY <1>0 DEF Admission
    <3>2. QED
      BY <1>0, <2>1, <3>1 DEF Live
  <2>2. QED
    BY <1>0, <2>1 DEF IInv, Remembered
<1>9. LogNotAhead'
  <2>1. \A e \in log : e.at \in Nat /\ e.at <= touched + MaxStep
    BY <1>0 DEF IInv, LogNotAhead, Entry
  <2>2. QED
    BY <1>0, <1>1, <2>1 DEF LogNotAhead
<1>10. WindowBound'
  BY <1>0, Zenon DEF IInv, WindowBound, AdmittedSince
<1>11. HintBounded'
  BY <1>3 DEF HintBounded
<1>12. QED
  BY <1>1, <1>4, <1>5, <1>6, <1>7, <1>8, <1>9, <1>10, <1>11 DEF IInv

\* A run whose reply is lost keeps every part.
LEMMA InvReplyLost == ASSUME IInv, NEW c \in Call, ReplyLost(c) PROVE IInv'
<1> USE ConstantsFact DEF Constants
<1>0. /\ phase[c] = "sent" /\ stamp[c] \in Nat /\ clock \in Nat
      /\ clock' = clock /\ life' = life /\ nonce' = nonce /\ life \in Nat
      /\ admitted' = admitted /\ phase' = phase /\ stamp' = stamp /\ sent' = sent
      /\ hint' = hint /\ seq' = seq /\ touched' = clock
      /\ Live(log, stamp[c]) \subseteq log'
      /\ log' \subseteq Live(log, stamp[c]) \cup {Member(c)}
      /\ stamp[c] <= clock + MaxStep /\ touched <= clock /\ touched \in Nat
      /\ log \subseteq Entry /\ admitted \subseteq Admission
  BY DEF IInv, TypeOK, CallTypeOK, CallsOnTime, LogNotAhead, ReplyLost, callVars
<1>1. Live(log, stamp[c]) \in SUBSET log
  BY DEF Live
<1>2. TypeOK'
  <2>1. Member(c) \in Entry
    BY <1>0 DEF Member, Entry, IInv, TypeOK
  <2>2. QED
    BY <1>0, <1>1, <2>1 DEF IInv, TypeOK, CallTypeOK
<1>3. IsFiniteSet(log)'
  <2>1. IsFiniteSet(Live(log, stamp[c]))
    BY <1>1, FS_Subset DEF IInv
  <2>2. IsFiniteSet(Live(log, stamp[c]) \cup {Member(c)})
    BY <2>1, FS_AddElement
  <2>3. QED
    BY <1>0, <2>2, FS_Subset
<1>4. CallsOnTime' /\ NoncesFresh' /\ AdmittedOnce' /\ HintBounded'
  BY <1>0 DEF IInv, CallsOnTime, NoncesFresh, AdmittedOnce, HintBounded
<1>5. Remembered'
  <2>1. ASSUME NEW a \in admitted, a.life = life,
               [at |-> a.at, nonce |-> nonce[a.call]] \in log
        PROVE  \/ [at |-> a.at, nonce |-> nonce[a.call]] \in log'
               \/ a.at + Window <= clock + MaxStep
    <3>1. a.at \in Nat
      BY <1>0 DEF Admission
    <3>2. QED
      BY <1>0, <2>1, <3>1 DEF Live
  <2>2. QED
    BY <1>0, <2>1 DEF IInv, Remembered
<1>6. LogNotAhead'
  <2>1. \A e \in log : e.at \in Nat /\ e.at <= touched + MaxStep
    BY <1>0 DEF IInv, LogNotAhead, Entry
  <2>2. QED
    BY <1>0, <1>1, <2>1 DEF LogNotAhead, Member
<1>7. WindowBound'
  BY <1>0, Zenon DEF IInv, WindowBound, AdmittedSince
<1>8. QED
  BY <1>2, <1>3, <1>4, <1>5, <1>6, <1>7 DEF IInv

\* The steps that leave the log alone or empty it.
LEMMA InvOther ==
  ASSUME IInv,
         \/ \E c \in Call : Fail(c)
         \/ Expire \/ RedisRestart
         \/ Tick /\ UNCHANGED windowVars
         \/ UNCHANGED vars
  PROVE  IInv'
<1> USE ConstantsFact
    DEF Constants, TypeOK, CallTypeOK, Phase, windowVars, callVars, vars
<1>0. /\ admitted' = admitted /\ nonce' = nonce /\ hint' = hint /\ seq' = seq
      /\ touched' = touched
  BY DEF Fail, Expire, RedisRestart
<1>1. WindowBound'
  BY <1>0, Zenon DEF IInv, WindowBound, AdmittedSince
<1>2. IsFiniteSet({})
  BY FS_EmptySet
<1>3. \A a \in admitted : a \in Admission /\ a.at \in Nat
  BY DEF IInv, Admission
<1>4. CASE \E c \in Call : Fail(c)
  <2> PICK c \in Call : Fail(c)
    BY <1>4
  <2> USE DEF Fail, Answer
  <2>1. TypeOK' /\ IsFiniteSet(log)' /\ LogNotAhead' /\ Remembered'
    BY DEF IInv, LogNotAhead, Remembered
  <2>2. CallsOnTime' /\ NoncesFresh'
    BY DEF IInv, CallsOnTime, NoncesFresh
  <2>3. AdmittedOnce' /\ HintBounded'
    BY <1>3 DEF IInv, AdmittedOnce, HintBounded, Admission
  <2>4. QED
    BY <1>1, <2>1, <2>2, <2>3 DEF IInv
<1>5. CASE Expire
  <2> USE <1>5 DEF Expire
  <2>1. TypeOK' /\ IsFiniteSet(log)' /\ LogNotAhead'
    BY <1>2 DEF IInv, LogNotAhead
  <2>2. CallsOnTime' /\ NoncesFresh' /\ AdmittedOnce' /\ HintBounded'
    BY DEF IInv, CallsOnTime, NoncesFresh, AdmittedOnce, HintBounded
  <2>3. ASSUME NEW a \in admitted, a.life = life
        PROVE  a.at + Window <= clock + MaxStep
    <3>1. CASE [at |-> a.at, nonce |-> nonce[a.call]] \in log
      <4>1. a.at <= touched + MaxStep
        BY <3>1 DEF IInv, LogNotAhead
      <4>2. QED
        BY <1>3, <4>1 DEF IInv
    <3>2. QED
      BY <2>3, <3>1 DEF IInv, Remembered
  <2>4. Remembered'
    BY <2>3 DEF Remembered
  <2>5. QED
    BY <1>1, <2>1, <2>2, <2>4 DEF IInv
<1>6. CASE RedisRestart
  <2> USE <1>6 DEF RedisRestart
  <2>1. TypeOK' /\ IsFiniteSet(log)' /\ LogNotAhead'
    BY <1>2 DEF IInv, LogNotAhead
  <2>2. CallsOnTime' /\ NoncesFresh' /\ HintBounded'
    BY DEF IInv, CallsOnTime, NoncesFresh, HintBounded
  <2>3. \A a \in admitted : a.life \in Nat /\ a.life <= life
    BY DEF IInv, AdmittedOnce, Admission
  <2>4. AdmittedOnce'
    BY <2>3 DEF IInv, AdmittedOnce
  <2>5. Remembered'
    BY <2>3 DEF IInv, Remembered
  <2>6. QED
    BY <1>1, <2>1, <2>2, <2>4, <2>5 DEF IInv
<1>7. CASE Tick /\ UNCHANGED windowVars
  <2> USE <1>7 DEF Tick
  <2>1. TypeOK' /\ IsFiniteSet(log)' /\ LogNotAhead'
    BY DEF IInv, LogNotAhead
  <2>2. CallsOnTime' /\ NoncesFresh' /\ AdmittedOnce' /\ HintBounded'
    BY DEF IInv, CallsOnTime, NoncesFresh, AdmittedOnce, HintBounded
  <2>3. Remembered'
    BY <1>3 DEF IInv, Remembered
  <2>4. QED
    BY <1>1, <2>1, <2>2, <2>3 DEF IInv
<1>8. CASE UNCHANGED vars
  <2> USE <1>8
  <2>1. TypeOK' /\ IsFiniteSet(log)' /\ LogNotAhead' /\ Remembered'
    BY DEF IInv, LogNotAhead, Remembered
  <2>2. CallsOnTime' /\ NoncesFresh' /\ AdmittedOnce' /\ HintBounded'
    BY DEF IInv, CallsOnTime, NoncesFresh, AdmittedOnce, HintBounded
  <2>3. QED
    BY <1>1, <2>1, <2>2 DEF IInv
<1>9. QED
  BY <1>4, <1>5, <1>6, <1>7, <1>8

\* The invariant holds at the start.
LEMMA InvInit == Init => IInv
<1> SUFFICES ASSUME Init PROVE IInv
  OBVIOUS
<1> USE DEF Init, CallInit
<1>1. TypeOK /\ CallsOnTime
  BY DEF TypeOK, CallTypeOK, Phase, CallsOnTime
<1>2. IsFiniteSet(log) /\ NoncesFresh /\ AdmittedOnce /\ Remembered
  BY FS_EmptySet DEF NoncesFresh, AdmittedOnce, Remembered
<1>3. LogNotAhead /\ WindowBound /\ HintBounded
  BY DEF LogNotAhead, WindowBound, HintBounded
<1>4. QED
  BY <1>1, <1>2, <1>3 DEF IInv

\* In every reachable state the inductive invariant holds.
THEOREM Invariance == Spec => []IInv
<1>1. IInv /\ [Next]_vars => IInv'
  BY InvCheck, InvAllow, InvDeny, InvReplyLost, InvOther DEF Next
<1>2. QED
  BY InvInit, <1>1, PTL DEF Spec

\* The log admits at most the limit per window less the skew, in whatever order
\* the scripts of concurrent calls run (sliding_window.lua:5).
THEOREM WindowIsBounded == Spec => []WindowBound
<1>1. IInv => WindowBound
  BY DEF IInv
<1>2. QED
  BY <1>1, Invariance, PTL

\* The wait a denied caller is told is positive and at most the window and the
\* skew (sliding_window.lua:34).
THEOREM HintIsBounded == Spec => []HintBounded
<1>1. IInv => HintBounded
  BY DEF IInv
<1>2. QED
  BY <1>1, Invariance, PTL

\* A user nobody heard of for a window and a clock step starts afresh.
THEOREM IdleForgotten == Spec => []IdleUserForgotten
<1>1. IInv => IdleUserForgotten
  <2> SUFFICES ASSUME IInv, clock >= touched + Window + MaxStep,
                      NEW e \in Live(log, clock)
               PROVE  FALSE
    BY DEF IdleUserForgotten
  <2>1. e \in log /\ e.at + Window > clock
    BY DEF Live
  <2>2. e.at \in Nat /\ clock \in Nat /\ touched \in Nat /\ e.at <= touched + MaxStep
    BY <2>1 DEF IInv, TypeOK, CallTypeOK, LogNotAhead, Entry
  <2>3. QED
    BY <2>1, <2>2, ConstantsFact DEF Constants
<1>2. QED
  BY <1>1, Invariance, PTL
=============================================================================
