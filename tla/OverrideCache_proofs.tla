------------------------ MODULE OverrideCache_proofs ------------------------
(***************************************************************************)
(* Proofs about OverrideCache, for every set of calls and overrides, every *)
(* TTL and every bound on the duration of a fetch.                         *)
(***************************************************************************)
EXTENDS OverrideCache, TLAPS

\* A returned result has the type of an entry.
LEMMA ResultType ==
  ASSUME NEW e \in CacheEntry
  PROVE  /\ Result(e) \in CacheEntry
         /\ Result(e).limit = e.limit /\ Result(e).version = e.version
         /\ Result(e).failed = e.failed /\ Result(e).expires = 0
  BY DEF Result, CacheEntry

\* The fields of an entry.
LEMMA EntryFields ==
  ASSUME NEW e \in CacheEntry
  PROVE  /\ e.limit \in Limit /\ e.expires \in Nat
         /\ e.version \in Nat /\ e.failed \in BOOLEAN
  BY DEF CacheEntry

\* The numbers in a state of the right type.
LEMMA Numbers ==
  ASSUME TypeOK
  PROVE  /\ clock \in Nat /\ Current \in Nat /\ Current # 0
         /\ Current = Len(past) + 1 /\ Len(past) \in Nat
         /\ entry.expires \in Nat /\ entry.version \in Nat
         /\ \A c \in Caller : /\ mine[c].version \in Nat /\ res[c].version \in Nat
                              /\ mine[c].expires \in Nat
<1>1. clock \in Nat /\ Len(past) \in Nat
  BY DEF TypeOK, KeyTypeOK
<1>2. Current \in Nat /\ Current # 0
  BY <1>1 DEF Current
<1>3. \A c \in Caller : mine[c] \in CacheEntry /\ res[c] \in CacheEntry
  BY DEF TypeOK
<1>4. QED
  BY <1>1, <1>2, <1>3, EntryFields DEF TypeOK, Current

\* A version that is no more lasted until some time.
LEMMA UntilNat ==
  ASSUME TypeOK, NEW n \in Nat, n # 0, n <= Current, n # Current
  PROVE  n \in 1 .. Len(past) /\ past[n] \in Version /\ past[n].until \in Nat
<1>1. Len(past) \in Nat /\ past \in Seq(Version)
  BY DEF TypeOK, KeyTypeOK
<1>2. n \in 1 .. Len(past)
  BY <1>1 DEF Current
<1>3. past[n] \in Version
  BY <1>1, <1>2
<1>4. QED
  BY <1>2, <1>3 DEF Version

\* No step of a call touches the key.
LEMMA StepKey ==
  ASSUME NEW c \in Caller, Step(c)
  PROVE  clock' = clock /\ key' = key /\ past' = past /\ Current' = Current
<1>1. clock' = clock /\ key' = key /\ past' = past
  BY DEF Step, FastHit, SlowHit, Hit, FastMiss, Join, Lead, Get, Fetch, FetchFails,
         Publish, Close, Wake, keyVars
<1>2. QED
  BY <1>1 DEF Current

\* Every step keeps the type.
LEMMA TypeNext == ASSUME IInv, [Next]_vars PROVE TypeOK'
<1> USE CacheAssumption, ResultType
    DEF IInv, TypeOK, Pc, vars, keyVars, callVars, flightVars
<1>0. entry.version \in Nat /\ Current \in Nat /\ clock \in Nat /\ key \in Limit
  BY Numbers DEF KeyTypeOK
<1>1. ASSUME NEW c \in Caller, Step(c)
      PROVE  TypeOK'
  <2>0. KeyTypeOK'
    BY <1>1, StepKey DEF KeyTypeOK
  <2>1. CASE FastHit(c) \/ SlowHit(c)
    BY <1>0, <2>0, <2>1 DEF FastHit, SlowHit, Hit, Return
  <2>2. CASE FastMiss(c) \/ Join(c) \/ Lead(c)
    BY <1>0, <2>0, <2>2 DEF FastMiss, Join, Lead
  <2>3. CASE Get(c)
    BY <1>0, <2>0, <2>3 DEF Get, CacheEntry, ZeroEntry
  <2>4. CASE Fetch(c)
    BY <1>0, <2>0, <2>4 DEF Fetch, CacheEntry
  <2>5. CASE FetchFails(c)
    BY <1>0, <2>0, <2>5 DEF FetchFails, Failure, CacheEntry, ZeroEntry, Limit
  <2>6. CASE Publish(c)
    BY <1>0, <2>0, <2>6 DEF Publish, PublishResult
  <2>7. CASE Close(c)
    BY <1>0, <2>0, <2>7, Numbers DEF Close, Return
  <2>8. CASE Wake(c)
    BY <1>0, <2>0, <2>8, Numbers DEF Wake, Return, Leaders
  <2>9. QED
    BY <1>1, <2>1, <2>2, <2>3, <2>4, <2>5, <2>6, <2>7, <2>8 DEF Step
<1>2. CASE Write
  BY <1>2 DEF Write, Change, Version, KeyTypeOK
<1>3. CASE Tick
  BY <1>3 DEF Tick, KeyTypeOK
<1>4. CASE UNCHANGED vars
  BY <1>4 DEF KeyTypeOK
<1>5. QED
  BY <1>1, <1>2, <1>3, <1>4 DEF Next

\* A step of a call lets nothing expire later.
LEMMA ExpireStep == ASSUME IInv, NEW c \in Caller, Step(c) PROVE ExpireSoon'
<1> USE CacheAssumption DEF IInv, TypeOK, keyVars, callVars, flightVars
<1>0. /\ clock \in Nat /\ Ttl \in Nat /\ clock' = clock
      /\ \A d \in Caller : mine[d] \in CacheEntry /\ mine[d].expires \in Nat
  BY Numbers, StepKey
<1>1. CASE FastHit(c) \/ SlowHit(c) \/ Close(c) \/ Wake(c)
  <2>1. PICK e : mine' = [mine EXCEPT ![c] = Result(e)] /\ e \in CacheEntry
    BY <1>1 DEF FastHit, SlowHit, Hit, Close, Wake, Return, Leaders
  <2>2. Result(e).expires = 0
    BY <2>1, ResultType
  <2>3. entry' = entry
    BY <1>1 DEF FastHit, SlowHit, Hit, Close, Wake
  <2>4. QED
    BY <1>0, <2>1, <2>2, <2>3 DEF ExpireSoon
<1>2. CASE FastMiss(c) \/ Join(c) \/ Lead(c)
  BY <1>0, <1>2 DEF FastMiss, Join, Lead, ExpireSoon
<1>3. CASE Get(c)
  BY <1>0, <1>3 DEF Get, ZeroEntry, ExpireSoon
<1>4. CASE Fetch(c)
  BY <1>0, <1>4 DEF Fetch, ExpireSoon, CacheEntry
<1>5. CASE FetchFails(c)
  BY <1>0, <1>5 DEF FetchFails, Failure, ZeroEntry, ExpireSoon
<1>6. CASE Publish(c)
  BY <1>0, <1>6 DEF Publish, PublishResult, ExpireSoon
<1>7. QED
  BY <1>1, <1>2, <1>3, <1>4, <1>5, <1>6 DEF Step

\* A step of a call keeps every part but the type.
LEMMA InvStep ==
  ASSUME IInv, NEW c \in Caller, Step(c), TypeOK', ExpireSoon'
  PROVE  IInv'
<1> USE CacheAssumption, ResultType
    DEF IInv, TypeOK, Pc, keyVars, callVars, flightVars
<1>0. /\ clock' = clock /\ key' = key /\ past' = past /\ Current' = Current
      /\ clock \in Nat /\ Current \in Nat /\ Current # 0
      /\ entry.expires \in Nat /\ entry.version \in Nat
      /\ \A d \in Caller : mine[d].version \in Nat /\ res[d].version \in Nat
  BY StepKey, Numbers
<1> USE <1>0
<1>1. CASE FastHit(c) \/ SlowHit(c)
  <2> USE <1>1 DEF FastHit, SlowHit, Hit, Return
  <2>1. SingleFlight'
    BY DEF SingleFlight, Flying
  <2>2. TimesPast'
    <3>1. seen <= seen' /\ seen' \in Nat
      OBVIOUS
    <3>2. \A d \in Caller : start'[d] <= clock /\ floor'[d] <= seen'
      <4>1. /\ start' = [start EXCEPT ![c] = 0] /\ floor' = [floor EXCEPT ![c] = 0]
            /\ start \in [Caller -> Nat] /\ floor \in [Caller -> Nat] /\ seen \in Nat
        OBVIOUS
      <4>2. QED
        BY ONLY <3>1, <4>1, <1>0, TimesPast DEF TimesPast
    <3>3. UNCHANGED <<flight, began>>
      OBVIOUS
    <3>4. QED
      BY ONLY <1>0, <3>2, <3>3, TimesPast DEF TimesPast
  <2>3. Leaders'
    BY DEF Leaders
  <2>4. EveryResultFaithful'
    <3>1. /\ mine' = [mine EXCEPT ![c] = Result(entry)] /\ res' = res /\ entry' = entry
          /\ mine \in [Caller -> CacheEntry] /\ entry \in CacheEntry
      OBVIOUS
    <3>2. seen' <= Current
      BY DEF EveryResultFaithful, Faithful
    <3>3. \A e : Faithful(e)' <=> Faithful(e')
      BY DEF Faithful, LimitOf
    <3>4. QED
      BY ONLY <1>0, <3>1, <3>2, ResultType, EveryResultFaithful
      DEF EveryResultFaithful, Faithful, LimitOf
  <2>5. ReadRecently' /\ CachedRecently'
    BY DEF ReadRecently, CachedRecently, Held
  <2>6. SharedRecently'
    BY DEF SharedRecently, Serves, Leaders, Held
  <2>7. NoneNewer'
    BY DEF NoneNewer, UpTo, EveryResultFaithful, Faithful, CachedRecently, Fresh
  <2>8. QED
    BY <2>1, <2>2, <2>3, <2>4, <2>5, <2>6, <2>7
<1>2. CASE FastMiss(c)
  <2> USE <1>2 DEF FastMiss
  <2>1. SingleFlight'
    BY DEF SingleFlight, Flying
  <2>2. TimesPast'
    BY DEF TimesPast
  <2>3. Leaders'
    BY DEF Leaders
  <2>4. EveryResultFaithful'
    BY DEF EveryResultFaithful, Faithful, LimitOf
  <2>5. ReadRecently' /\ CachedRecently'
    BY DEF ReadRecently, CachedRecently, Held
  <2>6. SharedRecently'
    BY DEF SharedRecently, Serves, Leaders, Held, TimesPast, SingleFlight, Flying, ReadRecently, NoneNewer, UpTo
  <2>7. NoneNewer'
    BY DEF NoneNewer, UpTo, EveryResultFaithful, Faithful
  <2>8. QED
    BY <2>1, <2>2, <2>3, <2>4, <2>5, <2>6, <2>7
<1>3. CASE Join(c)
  <2> USE <1>3 DEF Join, SlowMiss
  <2>1. SingleFlight'
    BY DEF SingleFlight, Flying
  <2>2. TimesPast'
    BY DEF TimesPast
  <2>3. Leaders'
    BY DEF Leaders
  <2>4. EveryResultFaithful'
    BY DEF EveryResultFaithful, Faithful, LimitOf
  <2>5. ReadRecently' /\ CachedRecently'
    BY DEF ReadRecently, CachedRecently, Held
  <2>6. SharedRecently'
    <3>1. start[c] <= began + MaxFetch /\ flight # None
      <4>1. start[c] <= clock /\ clock <= began + MaxFetch /\ start[c] \in Nat /\ flight # None
        BY DEF TimesPast
      <4>2. QED
        BY ONLY <4>1, <1>0, began \in Nat, MaxFetch \in Nat
    <3>2. /\ pc' = [pc EXCEPT ![c] = "waiting"] /\ leader' = [leader EXCEPT ![c] = flight]
          /\ UNCHANGED <<start, floor, mine, res, flight, began>>
      OBVIOUS
    <3>3. QED
      BY <3>1, <3>2 DEF SharedRecently, Serves, Held
  <2>7. NoneNewer'
    BY DEF NoneNewer, UpTo, EveryResultFaithful, Faithful
  <2>8. QED
    BY <2>1, <2>2, <2>3, <2>4, <2>5, <2>6, <2>7
<1>4. CASE Lead(c)
  <2> USE <1>4 DEF Lead, SlowMiss
  <2>1. SingleFlight'
    BY DEF SingleFlight, Flying
  <2>2. TimesPast'
    BY DEF TimesPast, SingleFlight, Flying
  <2>3. Leaders'
    BY DEF Leaders
  <2>4. EveryResultFaithful'
    BY DEF EveryResultFaithful, Faithful, LimitOf
  <2>5. ReadRecently' /\ CachedRecently'
    BY DEF ReadRecently, CachedRecently, Held, SingleFlight, Flying, TimesPast, EveryResultFaithful, Faithful
  <2>6. SharedRecently'
    BY DEF SharedRecently, Serves, Leaders, Held, TimesPast, SingleFlight, Flying, ReadRecently, NoneNewer, UpTo
  <2>7. NoneNewer'
    BY DEF NoneNewer, UpTo, EveryResultFaithful, Faithful
  <2>8. QED
    BY <2>1, <2>2, <2>3, <2>4, <2>5, <2>6, <2>7
<1>5. CASE Get(c)
  <2> USE <1>5 DEF Get, ZeroEntry
  <2>1. SingleFlight'
    BY DEF SingleFlight, Flying
  <2>2. TimesPast'
    BY DEF TimesPast
  <2>3. Leaders'
    BY DEF Leaders
  <2>4. EveryResultFaithful'
    BY DEF EveryResultFaithful, Faithful, LimitOf
  <2>5. ReadRecently' /\ CachedRecently'
    BY DEF ReadRecently, CachedRecently, Held
  <2>6. SharedRecently'
    BY DEF SharedRecently, Serves, Leaders, Held
  <2>7. NoneNewer'
    BY DEF NoneNewer, UpTo, EveryResultFaithful, Faithful
  <2>8. QED
    BY <2>1, <2>2, <2>3, <2>4, <2>5, <2>6, <2>7
<1>6. CASE Fetch(c)
  <2> USE <1>6 DEF Fetch
  <2>1. SingleFlight'
    BY DEF SingleFlight, Flying
  <2>2. TimesPast'
    BY DEF TimesPast
  <2>3. Leaders'
    BY DEF Leaders
  <2>4. EveryResultFaithful'
    BY DEF EveryResultFaithful, Faithful, LimitOf
  <2>5. ReadRecently' /\ CachedRecently'
    <3>1. began <= clock /\ clock <= began + MaxFetch
      BY DEF SingleFlight, Flying, TimesPast
    <3>2. mine[c].version # 0 /\ mine[c].version <= Current
          /\ Held(mine[c].version, began, 1)
      BY DEF ReadRecently, EveryResultFaithful, Faithful
    <3>3. Held(mine[c].version, clock + Ttl, Ttl + MaxFetch + 1)
      <4>1. CASE mine[c].version = Current
        BY <4>1 DEF Held
      <4>2. CASE mine[c].version # Current
        <5>1. past[mine[c].version].until \in Nat
          BY <3>2, <4>2, UntilNat
        <5>2. began < past[mine[c].version].until + 1
          BY <3>2, <4>2 DEF Held
        <5>3. clock + Ttl < past[mine[c].version].until + (Ttl + MaxFetch + 1)
          BY ONLY <5>1, <5>2, <3>1, <1>0, began \in Nat, CacheAssumption
                DEF CacheAssumption
        <5>4. QED
          BY ONLY <5>3 DEF Held
      <4>3. QED
        BY <4>1, <4>2
    <3>4. /\ mine'[c].version = mine[c].version /\ mine'[c].expires = clock + Ttl
          /\ \A d \in Caller \ {c} : mine'[d] = mine[d]
          /\ pc' = [pc EXCEPT ![c] = "fetched"] /\ UNCHANGED <<began, entry>>
      BY DEF CacheEntry
    <3>5. QED
      BY <3>2, <3>3, <3>4 DEF ReadRecently, CachedRecently, Held
  <2>6. SharedRecently'
    BY DEF SharedRecently, Serves, Leaders, Held
  <2>7. NoneNewer'
    BY DEF NoneNewer, UpTo, EveryResultFaithful, Faithful
  <2>8. QED
    BY <2>1, <2>2, <2>3, <2>4, <2>5, <2>6, <2>7
<1>7. CASE FetchFails(c)
  <2> USE <1>7 DEF FetchFails, Failure, ZeroEntry
  <2>1. SingleFlight'
    BY DEF SingleFlight, Flying
  <2>2. TimesPast'
    BY DEF TimesPast
  <2>3. Leaders'
    BY DEF Leaders
  <2>4. EveryResultFaithful'
    BY DEF EveryResultFaithful, Faithful, LimitOf
  <2>5. ReadRecently' /\ CachedRecently'
    BY DEF ReadRecently, CachedRecently, Held
  <2>6. SharedRecently'
    BY DEF SharedRecently, Serves, Leaders, Held
  <2>7. NoneNewer'
    BY DEF NoneNewer, UpTo, EveryResultFaithful, Faithful
  <2>8. QED
    BY <2>1, <2>2, <2>3, <2>4, <2>5, <2>6, <2>7
<1>8. CASE Publish(c)
  <2> USE <1>8 DEF Publish, PublishResult
  <2>1. SingleFlight'
    BY DEF SingleFlight, Flying
  <2>2. TimesPast'
    BY DEF TimesPast, SingleFlight, Flying
  <2>3. Leaders'
    BY DEF Leaders, SingleFlight, Flying
  <2>4. EveryResultFaithful'
    BY DEF EveryResultFaithful, Faithful, LimitOf
  <2>5. ReadRecently' /\ CachedRecently'
    BY DEF ReadRecently, CachedRecently, Held, SingleFlight, Flying, TimesPast, EveryResultFaithful, Faithful
  <2>6. SharedRecently'
    <3>1. /\ Flying = {c} /\ flight = c /\ leader[c] = c
      BY DEF SingleFlight, Flying, Leaders
    <3>2. ASSUME NEW d \in Caller, ~mine[c].failed, start[d] <= began + MaxFetch
          PROVE  Serves(mine[c], d)
      <4>1. /\ mine[c].version # 0 /\ mine[c].version <= Current
            /\ Held(mine[c].version, began, 1)
        BY <3>2 DEF ReadRecently, EveryResultFaithful, Faithful
      <4>2. floor[d] <= mine[c].version
        <5>1. floor[d] <= seen /\ seen <= mine[c].version
          BY <4>1 DEF TimesPast, NoneNewer, UpTo
        <5>2. floor[d] \in Nat /\ seen \in Nat /\ mine[c].version \in Nat
          OBVIOUS
        <5>3. QED
          BY ONLY <5>1, <5>2
      <4>3. Held(mine[c].version, start[d], MaxFetch + 1)
        <5>1. CASE mine[c].version = Current
          BY <5>1 DEF Held
        <5>2. CASE mine[c].version # Current
          <6>1. past[mine[c].version].until \in Nat
            BY <4>1, <5>2, UntilNat
          <6>2. began < past[mine[c].version].until + 1
            BY <4>1, <5>2 DEF Held
          <6>3. start[d] < past[mine[c].version].until + (MaxFetch + 1)
            BY ONLY <3>2, <6>1, <6>2, began \in Nat, start \in [Caller -> Nat], MaxFetch \in Nat
          <6>4. QED
            BY ONLY <6>3 DEF Held
        <5>3. QED
          BY <5>1, <5>2
      <4>4. QED
        BY <4>1, <4>2, <4>3 DEF Serves
    <3>3. \A d \in Caller : start[d] <= began + MaxFetch =>
            mine[c].failed \/ Serves(mine[c], d)
      BY <3>2
    <3>4. start[c] <= began + MaxFetch
      <4>1. start[c] <= began /\ start[c] \in Nat
        BY DEF SharedRecently
      <4>2. QED
        BY ONLY <4>1, began \in Nat, MaxFetch \in Nat
    <3>5. /\ res' = [res EXCEPT ![c] = Result(mine[c])] /\ flight' = None
          /\ pc' = [pc EXCEPT ![c] = "closing"] /\ mine[c] \in CacheEntry
          /\ UNCHANGED <<start, floor, mine, leader>>
      OBVIOUS
    <3>6. QED
      BY <3>1, <3>3, <3>4, <3>5 DEF SharedRecently, Serves, Leaders, Flying, Held
  <2>7. NoneNewer'
    BY DEF NoneNewer, UpTo, EveryResultFaithful, Faithful, SingleFlight, Flying
  <2>8. QED
    BY <2>1, <2>2, <2>3, <2>4, <2>5, <2>6, <2>7
<1>9. CASE Close(c)
  <2> USE <1>9 DEF Close, Closing, Return
  <2>1. SingleFlight'
    BY DEF SingleFlight, Flying
  <2>2. TimesPast'
    BY DEF TimesPast
  <2>3. Leaders'
    BY DEF Leaders
  <2>4. EveryResultFaithful'
    BY DEF EveryResultFaithful, Faithful, LimitOf
  <2>5. ReadRecently' /\ CachedRecently'
    BY DEF ReadRecently, CachedRecently, Held
  <2>6. SharedRecently'
    BY DEF SharedRecently, Serves, Leaders, Held
  <2>7. NoneNewer'
    BY DEF NoneNewer, UpTo, EveryResultFaithful, Faithful
  <2>8. QED
    BY <2>1, <2>2, <2>3, <2>4, <2>5, <2>6, <2>7
<1>10. CASE Wake(c)
  <2> USE <1>10 DEF Wake, Return
  <2>1. SingleFlight'
    BY DEF SingleFlight, Flying
  <2>2. TimesPast'
    BY DEF TimesPast
  <2>3. Leaders'
    BY DEF Leaders
  <2>4. EveryResultFaithful'
    BY DEF EveryResultFaithful, Faithful, LimitOf, Leaders
  <2>5. ReadRecently' /\ CachedRecently'
    BY DEF ReadRecently, CachedRecently, Held
  <2>6. SharedRecently'
    BY DEF SharedRecently, Serves, Leaders, Held
  <2>7. NoneNewer'
    BY DEF NoneNewer, UpTo, EveryResultFaithful, Faithful, Leaders
  <2>8. QED
    BY <2>1, <2>2, <2>3, <2>4, <2>5, <2>6, <2>7
<1>11. QED
  BY <1>1, <1>2, <1>3, <1>4, <1>5, <1>6, <1>7, <1>8, <1>9, <1>10 DEF Step

\* What a change of the key does to the versions.
LEMMA ChangeHistory ==
  ASSUME TypeOK, Change
  PROVE  /\ Current' = Current + 1 /\ Len(past') = Current
         /\ \A n \in 1 .. Len(past) : past'[n] = past[n]
         /\ past'[Current] = [limit |-> key, until |-> clock]
         /\ \A n \in Nat : n # 0 /\ n <= Current =>
              LimitOf(n) = IF n = Current' THEN key' ELSE past'[n].limit
<1>1. /\ past \in Seq(Version) /\ Len(past) \in Nat /\ Current = Len(past) + 1
      /\ [limit |-> key, until |-> clock] \in Version
      /\ past' = Append(past, [limit |-> key, until |-> clock])
  BY DEF TypeOK, KeyTypeOK, Current, Change, Version
<1>2. /\ Len(past') = Len(past) + 1
      /\ \A n \in 1 .. Len(past) : past'[n] = past[n]
      /\ past'[Len(past) + 1] = [limit |-> key, until |-> clock]
  BY ONLY <1>1
<1>3. Current' = Current + 1
  BY ONLY <1>1, <1>2 DEF Current
<1>4. ASSUME NEW n \in Nat, n # 0, n <= Current
      PROVE  LimitOf(n) = IF n = Current' THEN key' ELSE past'[n].limit
  <2>1. n # Current'
    BY <1>1, <1>3, <1>4
  <2>2. CASE n = Current
    BY <1>1, <1>2, <2>1, <2>2 DEF LimitOf
  <2>3. CASE n # Current
    <3>1. n \in 1 .. Len(past)
      BY <1>1, <1>4, <2>3
    <3>2. QED
      BY <1>2, <2>1, <2>3, <3>1 DEF LimitOf
  <2>4. QED
    BY <2>2, <2>3
<1>5. QED
  BY <1>1, <1>2, <1>3, <1>4

\* A version that was current less than d before t still was, after a change, if t
\* is less than d from now.
LEMMA HeldKept ==
  ASSUME TypeOK, Change, NEW n \in Nat, n # 0, n <= Current,
         NEW t \in Nat, NEW d \in Nat, t < clock + d, Held(n, t, d)
  PROVE  n = Current' \/ t < past'[n].until + d
<1>1. CASE n = Current
  BY <1>1, ChangeHistory
<1>2. CASE n # Current
  <2>1. n \in 1 .. Len(past) /\ t < past[n].until + d
    BY <1>2, UntilNat DEF Held
  <2>2. QED
    BY <2>1, ChangeHistory
<1>3. QED
  BY <1>1, <1>2

\* A change of the key keeps every part: what differs from it is as old as the
\* change.
LEMMA InvWrite == ASSUME IInv, Write, TypeOK' PROVE IInv'
<1> USE CacheAssumption DEF IInv
<1>1. TypeOK /\ Change /\ Current' = Current + 1 /\ Len(past') = Current
  BY ChangeHistory DEF Write
<1>2. /\ Current \in Nat /\ clock \in Nat /\ clock' = clock /\ seen \in Nat /\ began \in Nat
      /\ entry \in CacheEntry /\ entry.version \in Nat /\ entry.expires \in Nat
      /\ start \in [Caller -> Nat]
  BY <1>1, Numbers DEF Change, TypeOK
<1>3. UNCHANGED <<entry, pc, start, floor, seen, mine, leader, flight, began, res>>
  BY DEF Write, callVars, flightVars
<1>4. \A c \in Caller : /\ mine[c] \in CacheEntry /\ res[c] \in CacheEntry
                        /\ mine[c].version \in Nat /\ res[c].version \in Nat
                        /\ mine[c].expires \in Nat /\ start[c] \in Nat
  BY <1>1, Numbers DEF TypeOK
<1>5. SingleFlight' /\ ExpireSoon' /\ Leaders'
  BY <1>2, <1>3 DEF SingleFlight, Flying, ExpireSoon, Leaders
<1>6. TimesPast'
  <2>1. \A n \in 1 .. Len(past') : past'[n].until <= clock
    <3>1. \A n \in 1 .. Len(past) : past'[n] = past[n] /\ past[n].until <= clock
      BY <1>1, ChangeHistory DEF TimesPast
    <3>2. past'[Current].until = clock
      BY <1>1, ChangeHistory
    <3>3. \A n \in 1 .. Len(past') : n = Current \/ n \in 1 .. Len(past)
      BY <1>1, <1>2, Numbers
    <3>4. QED
      BY <1>2, <3>1, <3>2, <3>3
  <2>2. QED
    BY <1>2, <1>3, <2>1 DEF TimesPast
<1>7. \A e \in CacheEntry : Faithful(e) =>
        /\ e.version <= Current'
        /\ IF e.version = 0 THEN e.limit = None
           ELSE /\ e.limit = IF e.version = Current' THEN key' ELSE past'[e.version].limit
                /\ ~e.failed
  BY <1>1, <1>2, ChangeHistory, EntryFields DEF Faithful
<1>8. EveryResultFaithful'
  BY <1>1, <1>2, <1>3, <1>4, <1>7 DEF EveryResultFaithful, Faithful, LimitOf
<1>9. ASSUME NEW e \in CacheEntry, Faithful(e), e.version # 0, NEW t \in Nat, NEW d \in Nat,
             t < clock + d, Held(e.version, t, d)
      PROVE  e.version = Current' \/ t < past'[e.version].until + d
  <2>1. e.version \in Nat /\ e.version <= Current
    BY <1>9, EntryFields DEF Faithful
  <2>2. QED
    BY <1>1, <1>9, <2>1, HeldKept
<1>10. \A c \in Caller : /\ Faithful(mine[c]) /\ Faithful(res[c])
                         /\ mine[c].expires < clock + (Ttl + MaxFetch + 1)
                         /\ start[c] < clock + (MaxFetch + 1)
  <2>1. ASSUME NEW c \in Caller
        PROVE  /\ mine[c].expires < clock + (Ttl + MaxFetch + 1)
               /\ start[c] < clock + (MaxFetch + 1)
    <3>1. mine[c].expires <= clock + Ttl /\ start[c] <= clock
      BY DEF ExpireSoon, TimesPast
    <3>2. QED
      BY <1>2, <1>4, <3>1 DEF CacheAssumption
  <2>2. QED
    BY <2>1 DEF EveryResultFaithful
<1>11. 1 \in Nat /\ MaxFetch + 1 \in Nat /\ Ttl + MaxFetch + 1 \in Nat
  BY DEF CacheAssumption
<1>12. ReadRecently'
  <2>1. ASSUME NEW c \in Caller, pc[c] \in {"got", "fetched"}
        PROVE  began < clock + 1
    <3>1. flight = c /\ flight # None
      BY <2>1 DEF SingleFlight, Flying
    <3>2. QED
      BY <1>2, <3>1 DEF TimesPast
  <2>2. ASSUME NEW c \in Caller, pc[c] \in {"got", "fetched"}, mine[c].version # 0,
               Held(mine[c].version, began, 1)
        PROVE  Held(mine[c].version, began, 1)'
    BY <1>2, <1>3, <1>4, <1>9, <1>10, <1>11, <2>1, <2>2 DEF Held
  <2>3. ASSUME NEW c \in Caller, mine[c].version # 0,
               Held(mine[c].version, mine[c].expires, Ttl + MaxFetch + 1)
        PROVE  Held(mine[c].version, mine[c].expires, Ttl + MaxFetch + 1)'
    BY <1>3, <1>4, <1>9, <1>10, <1>11, <2>3 DEF Held
  <2>4. QED
    BY <1>2, <1>3, <2>2, <2>3 DEF ReadRecently
<1>13. CachedRecently'
  <2>1. CASE entry.failed \/ entry.version = 0
    BY <1>2, <1>3, <2>1 DEF CachedRecently, EveryResultFaithful, Faithful
  <2>2. CASE entry.version # 0
    <3>1. Held(entry.version, entry.expires, Ttl + MaxFetch + 1)
      BY <2>2 DEF CachedRecently
    <3>2. entry.expires < clock + (Ttl + MaxFetch + 1)
      BY <1>2 DEF ExpireSoon, CacheAssumption
    <3>3. Faithful(entry)
      BY DEF EveryResultFaithful
    <3>4. Held(entry.version, entry.expires, Ttl + MaxFetch + 1)'
      BY <1>2, <1>3, <1>9, <1>11, <2>2, <3>1, <3>2, <3>3 DEF Held
    <3>5. QED
      BY <1>3, <2>2, <3>4 DEF CachedRecently
  <2>3. QED
    BY <2>1, <2>2
<1>14. SharedRecently'
  <2>1. ASSUME NEW e \in CacheEntry, NEW c \in Caller, Faithful(e), Serves(e, c)
        PROVE  \/ e.failed
               \/ /\ e.version # 0 /\ floor[c] <= e.version
                  /\ e.version = Current' \/ start[c] < past'[e.version].until + (MaxFetch + 1)
    BY <1>4, <1>9, <1>10, <1>11, <2>1 DEF Serves, Held
  <2>2. \A c \in Caller : pc[c] = "waiting" => leader[c] \in Caller
    BY DEF Leaders
  <2>3. ASSUME NEW c \in Caller, pc[c] = "waiting", leader[c] # flight
        PROVE  Serves(res[leader[c]], c)'
    <3>1. /\ res[leader[c]] \in CacheEntry /\ Faithful(res[leader[c]])
          /\ Serves(res[leader[c]], c)
      BY <1>4, <1>10, <2>2, <2>3 DEF SharedRecently
    <3>2. QED
      BY <1>3, <2>1, <3>1 DEF Serves, Held
  <2>4. ASSUME NEW c \in Caller, pc[c] = "closing"
        PROVE  Serves(mine[c], c)'
    <3>1. mine[c] \in CacheEntry /\ Faithful(mine[c]) /\ Serves(mine[c], c)
      BY <1>4, <1>10, <2>4 DEF SharedRecently
    <3>2. QED
      BY <1>3, <2>1, <3>1 DEF Serves, Held
  <2>5. QED
    BY <1>3, <2>3, <2>4 DEF SharedRecently
<1>15. NoneNewer'
  BY <1>3 DEF NoneNewer, UpTo
<1>16. QED
  BY <1>5, <1>6, <1>8, <1>12, <1>13, <1>14, <1>15

\* The passing of time keeps every part.
LEMMA InvTick == ASSUME IInv, Tick, TypeOK' PROVE IInv'
<1> USE CacheAssumption
    DEF IInv, TypeOK, keyVars, callVars, flightVars, Tick
<1>0. /\ clock \in Nat /\ clock' = clock + 1 /\ key' = key /\ past' = past /\ Current' = Current
      /\ Current \in Nat /\ entry.expires \in Nat /\ Len(past) \in Nat
      /\ \A d \in Caller : mine[d].expires \in Nat
  BY Numbers DEF Current
<1>1. SingleFlight' /\ Leaders'
  BY DEF SingleFlight, Flying, Leaders
<1>2. TimesPast'
  <2>1. ASSUME NEW n \in 1 .. Len(past)
        PROVE  past[n].until <= clock + 1
    <3>1. past[n].until \in Nat
      BY <1>0, <2>1, Numbers, UntilNat
    <3>2. QED
      BY <1>0, <3>1 DEF TimesPast
  <2>2. \A c \in Caller : start[c] <= clock + 1 /\ floor[c] <= seen
    BY <1>0 DEF TimesPast
  <2>3. flight # None => began <= clock + 1 /\ clock + 1 <= began + MaxFetch
    BY <1>0 DEF TimesPast
  <2>4. QED
    BY <1>0, <2>1, <2>2, <2>3 DEF TimesPast
<1>3. ExpireSoon'
  BY <1>0 DEF ExpireSoon
<1>4. EveryResultFaithful'
  BY <1>0 DEF EveryResultFaithful, Faithful, LimitOf
<1>5. ReadRecently'
  BY <1>0 DEF ReadRecently, Held
<1>6. CachedRecently' /\ SharedRecently' /\ NoneNewer'
  BY <1>0 DEF CachedRecently, SharedRecently, Serves, Held, NoneNewer, UpTo
<1>7. QED
  BY <1>1, <1>2, <1>3, <1>4, <1>5, <1>6

\* Every step keeps the invariant.
LEMMA InvNext == IInv /\ [Next]_vars => IInv'
<1> SUFFICES ASSUME IInv, [Next]_vars PROVE IInv'
  OBVIOUS
<1>0. TypeOK'
  BY TypeNext
<1>1. CASE \E c \in Caller : Step(c)
  BY <1>0, <1>1, ExpireStep, InvStep
<1>2. CASE Write
  BY <1>0, <1>2, InvWrite
<1>3. CASE Tick
  BY <1>0, <1>3, InvTick
<1>4. CASE UNCHANGED vars
  BY <1>4 DEF IInv, TypeOK, KeyTypeOK, SingleFlight, Flying, TimesPast, ExpireSoon, Leaders,
              EveryResultFaithful, Faithful, LimitOf, Current, ReadRecently, Held,
              CachedRecently, SharedRecently, Serves, NoneNewer, UpTo,
              vars, keyVars, callVars, flightVars
<1>5. QED
  BY <1>1, <1>2, <1>3, <1>4 DEF Next

\* The invariant holds at the start.
LEMMA InvInit == Init => IInv
<1> SUFFICES ASSUME Init PROVE IInv
  OBVIOUS
<1> USE CacheAssumption DEF Init, KeyInit, ZeroEntry
<1>0. Len(past) = 0 /\ past = <<>> /\ Current = 1
  BY DEF Current
<1>1. TypeOK
  BY DEF TypeOK, KeyTypeOK, Limit, CacheEntry, Pc
<1>2. SingleFlight /\ TimesPast /\ ExpireSoon
  BY <1>0 DEF SingleFlight, Flying, TimesPast, ExpireSoon
<1>3. Leaders /\ ReadRecently /\ CachedRecently /\ SharedRecently
  BY DEF Leaders, ReadRecently, CachedRecently, SharedRecently
<1>4. EveryResultFaithful /\ NoneNewer
  BY <1>0 DEF EveryResultFaithful, Faithful, NoneNewer
<1>5. QED
  BY <1>1, <1>2, <1>3, <1>4 DEF IInv

\* In every reachable state the inductive invariant holds.
THEOREM Invariance == Spec => []IInv
<1>1. QED
  BY InvInit, InvNext, PTL DEF Spec

\* At most one lookup of a user is under way (cache.go:91-100).
THEOREM FlightIsSingle == Spec => []SingleFlight
<1>1. IInv => SingleFlight
  BY DEF IInv
<1>2. QED
  BY <1>1, Invariance, PTL

\* Only a call that found the cached result expired, and no lookup under way,
\* begins one (cache.go:84-100).
THEOREM GetsAreSpaced == Spec => OneGetPerTtl
<1>1. IInv /\ [Next]_vars => [flight = None /\ flight' # None => clock >= entry.expires]_vars
  <2> SUFFICES ASSUME IInv, Next, flight = None, flight' # None
               PROVE  clock >= entry.expires
    OBVIOUS
  <2>1. PICK c \in Caller : Lead(c)
    BY DEF Next, Step, FastHit, SlowHit, Hit, FastMiss, Join, Get, Fetch, FetchFails, Publish,
           PublishResult, Close, Wake, Write, Tick, keyVars, flightVars
  <2>2. ~(clock < entry.expires)
    BY <2>1 DEF Lead, SlowMiss, Fresh
  <2>3. clock \in Nat /\ entry.expires \in Nat
    BY Numbers DEF IInv
  <2>4. QED
    BY <2>2, <2>3
<1>2. QED
  BY <1>1, Invariance, PTL DEF Spec, OneGetPerTtl

-----------------------------------------------------------------------------
(* Refinement of StaleRegister.                                            *)

\* The register's phases and answers.
RegPhase == [c \in Caller |-> Phase(c)]
RegAnswer == [c \in Caller |-> AnswerOf(IF pc[c] = "done" THEN mine[c] ELSE ZeroEntry)]

\* Both modules speak of the same key.
LEMMA SameKey ==
  /\ Register!Current = Current /\ Register!keyVars = keyVars
  /\ \A n : Register!LimitOf(n) = LimitOf(n)
  /\ \A n, t, d : Register!Held(n, t, d) = Held(n, t, d)
BY DEF Register!Current, Current, Register!LimitOf, LimitOf, Register!Held, Held,
       Register!keyVars, keyVars

\* The cache starts as the register does.
LEMMA RegisterInit == Init => Register!Init
<1> SUFFICES ASSUME Init PROVE Register!Init
  OBVIOUS
<1>1. Register!KeyInit
  BY DEF Init, KeyInit, Register!KeyInit, Limit, Register!Limit
<1>2. RegPhase = [c \in Caller |-> "idle"]
  BY DEF Init, RegPhase, Phase
<1>3. RegAnswer = [c \in Caller |-> Register!NoAnswer]
  BY DEF Init, RegAnswer, AnswerOf, ZeroEntry, Register!NoAnswer
<1>4. QED
  BY <1>1, <1>2, <1>3 DEF Init, Register!Init, RegPhase, RegAnswer

\* A step within a phase changes neither phases nor answers.
LEMMA SamePhase ==
  ASSUME TypeOK, NEW c \in Caller, NEW s \in Pc,
         pc[c] \in {"waiting", "fetching", "got", "fetched", "closing"},
         s \in {"waiting", "fetching", "got", "fetched", "closing"},
         pc' = [pc EXCEPT ![c] = s],
         \A d \in Caller \ {c} : mine'[d] = mine[d]
  PROVE  RegPhase' = RegPhase /\ RegAnswer' = RegAnswer
<1>1. \A d \in Caller : d # c => pc'[d] = pc[d] /\ mine'[d] = mine[d]
  BY DEF TypeOK
<1>2. pc'[c] = s /\ pc[c] # "done" /\ s # "done"
  BY DEF TypeOK
<1>3. \A d \in Caller : Phase(d)' = Phase(d)
  BY <1>1, <1>2 DEF Phase
<1>4. \A d \in Caller : AnswerOf(IF pc'[d] = "done" THEN mine'[d] ELSE ZeroEntry)
                        = AnswerOf(IF pc[d] = "done" THEN mine[d] ELSE ZeroEntry)
  BY <1>1, <1>2
<1>5. RegPhase' = RegPhase
  BY <1>3 DEF RegPhase
<1>6. RegAnswer' = RegAnswer
  BY <1>4 DEF RegAnswer, AnswerOf
<1>7. QED
  BY <1>5, <1>6

\* A call that goes on to another phase has no answer yet.
LEMMA NextPhase ==
  ASSUME TypeOK, NEW c \in Caller, NEW s \in Pc, pc[c] # "done", s # "done",
         pc' = [pc EXCEPT ![c] = s], mine' = mine
  PROVE  /\ RegPhase' = [RegPhase EXCEPT ![c] = Phase(c)']
         /\ RegAnswer' = RegAnswer /\ RegPhase[c] = Phase(c)
<1>1. \A d \in Caller : d # c => pc'[d] = pc[d]
  BY DEF TypeOK
<1>2. pc'[c] = s
  BY DEF TypeOK
<1>3. \A d \in Caller : d # c => Phase(d)' = Phase(d)
  BY <1>1 DEF Phase
<1>4. RegPhase' = [RegPhase EXCEPT ![c] = Phase(c)']
  BY <1>3 DEF RegPhase
<1>5. \A d \in Caller : (pc'[d] = "done") <=> (pc[d] = "done")
  BY <1>1, <1>2
<1>6. RegAnswer' = RegAnswer
  BY <1>5 DEF RegAnswer, AnswerOf, ZeroEntry
<1>7. QED
  BY <1>4, <1>6 DEF RegPhase

\* A call that returns e gives the register's answer e.
LEMMA ReturnAnswers ==
  ASSUME TypeOK, NEW c \in Caller, NEW e \in CacheEntry, Return(c, e), pc[c] # "done",
         UNCHANGED <<clock, key, past>>
  PROVE  /\ Register!Return(c) /\ RegPhase[c] = Phase(c)
         /\ RegAnswer' = [RegAnswer EXCEPT ![c] = AnswerOf(e)]
<1>1. \A d \in Caller : d # c => pc'[d] = pc[d] /\ mine'[d] = mine[d]
  BY DEF TypeOK, Return
<1>2. pc'[c] = "done" /\ mine'[c] = Result(e)
  BY DEF TypeOK, Return
<1>3. \A d \in Caller : d # c => Phase(d)' = Phase(d)
  BY <1>1 DEF Phase
<1>4. Phase(c)' = "done"
  BY <1>2 DEF Phase
<1>5. RegPhase' = [RegPhase EXCEPT ![c] = "done"]
  BY <1>3, <1>4 DEF RegPhase
<1>6. AnswerOf(Result(e)) = AnswerOf(e)
  BY ResultType DEF AnswerOf
<1>7. \A d \in Caller : AnswerOf(IF pc'[d] = "done" THEN mine'[d] ELSE ZeroEntry)
                        = IF d = c THEN AnswerOf(e)
                          ELSE AnswerOf(IF pc[d] = "done" THEN mine[d] ELSE ZeroEntry)
  BY <1>1, <1>2, <1>6
<1>8. RegAnswer' = [d \in Caller |-> AnswerOf(IF pc'[d] = "done" THEN mine'[d] ELSE ZeroEntry)]
  BY DEF RegAnswer, AnswerOf, ZeroEntry
<1>9. RegAnswer' = [RegAnswer EXCEPT ![c] = AnswerOf(e)]
  BY <1>7, <1>8 DEF RegAnswer
<1>10. Register!Return(c)
  BY <1>5 DEF Register!Return, Return, RegPhase, Register!keyVars
<1>11. QED
  BY <1>9, <1>10 DEF RegPhase

\* The times and versions by which the register judges a call.
LEMMA SameCall ==
  ASSUME NEW c \in Caller
  PROVE  /\ Register!Called(c) = IF pc[c] = "idle" THEN clock ELSE start[c]
         /\ Register!Floor(c) = IF pc[c] = "idle" THEN seen ELSE floor[c]
<1>1. (Phase(c) = "idle") <=> (pc[c] = "idle")
  BY DEF Phase
<1>2. QED
  BY <1>1 DEF Register!Called, Register!Floor

\* A result that may serve c is an answer the register may give.
LEMMA AnswersAs ==
  ASSUME TypeOK, NEW c \in Caller, NEW e \in CacheEntry, NEW d \in Nat,
         Return(c, e), pc[c] # "done", UNCHANGED <<clock, key, past>>,
         Faithful(e), e.version # 0, Register!Floor(c) <= e.version,
         Held(e.version, Register!Called(c), d)
  PROVE  Register!Answer(c, d)
<1>1. e.version \in 1 .. Register!Current
  BY EntryFields, Numbers, SameKey DEF Faithful
<1>2. AnswerOf(e) = [limit |-> Register!LimitOf(e.version), version |-> e.version,
                     failed |-> FALSE]
  <2>1. e.failed = FALSE
    <3>1. e.failed \in BOOLEAN /\ ~e.failed
      BY EntryFields DEF Faithful
    <3>2. QED
      BY <3>1, Zenon
  <2>2. e.limit = Register!LimitOf(e.version)
    BY SameKey DEF Faithful
  <2>3. QED
    BY <2>1, <2>2, Zenon DEF AnswerOf
<1>3. Register!Held(e.version, Register!Called(c), d)
  BY SameKey
<1>4. /\ Register!Return(c) /\ RegAnswer' = [RegAnswer EXCEPT ![c] = AnswerOf(e)]
      /\ seen' = IF e.version > seen THEN e.version ELSE seen
  BY ReturnAnswers DEF Return
<1>5. QED
  BY <1>1, <1>2, <1>3, <1>4 DEF Register!Answer, RegAnswer

\* A failed result is a failure of the register.
LEMMA FailsAs ==
  ASSUME TypeOK, NEW c \in Caller, NEW e \in CacheEntry, Return(c, e),
         Phase(c) = "asking", pc[c] # "done", UNCHANGED <<clock, key, past>>,
         Faithful(e), e.failed
  PROVE  Register!Fail(c)
<1>1. e.version = 0 /\ e.limit = None
  BY EntryFields DEF Faithful
<1>2. AnswerOf(e) = Register!Failure
  <2>1. e.failed = TRUE
    <3>1. e.failed \in BOOLEAN /\ e.failed
      BY EntryFields
    <3>2. QED
      BY <3>1, Zenon
  <2>2. QED
    BY <1>1, <2>1, Zenon DEF AnswerOf, Register!Failure
<1>3. /\ Register!Return(c) /\ RegAnswer' = [RegAnswer EXCEPT ![c] = AnswerOf(e)]
      /\ RegPhase[c] = "asking"
  BY ReturnAnswers
<1>4. seen' = seen
  BY <1>1, Numbers DEF Return, TypeOK
<1>5. QED
  BY <1>2, <1>3, <1>4 DEF Register!Fail, RegAnswer, RegPhase

\* Every step of a call is a step of the register, or none of its business.
LEMMA RegisterStep ==
  ASSUME IInv, NEW c \in Caller, Step(c)
  PROVE  [Register!Next]_(Register!vars)
<1>0. TypeOK /\ UNCHANGED <<clock, key, past>>
  BY StepKey DEF IInv
<1>1. CASE FastHit(c) \/ SlowHit(c)
  <2>1. /\ Return(c, entry) /\ entry \in CacheEntry /\ Faithful(entry)
        /\ pc[c] \in {"idle", "missed"} /\ clock < entry.expires
    BY <1>0, <1>1 DEF FastHit, SlowHit, Hit, Fresh, TypeOK, IInv, EveryResultFaithful
  <2>2. /\ entry.version # 0 /\ seen <= entry.version
        /\ Held(entry.version, entry.expires, Ttl + MaxFetch + 1)
    BY <1>0, <2>1, Numbers DEF IInv, CachedRecently, NoneNewer, UpTo
  <2>3. Register!Floor(c) <= entry.version /\ Register!Called(c) <= clock
    BY <1>0, <2>1, <2>2, SameCall, Numbers DEF IInv, TimesPast, TypeOK
  <2>4. Held(entry.version, Register!Called(c), Ttl + MaxFetch)
    <3>1. CASE entry.version = Current
      BY <3>1 DEF Held
    <3>2. CASE entry.version # Current
      <4>1. /\ past[entry.version].until \in Nat
            /\ entry.expires < past[entry.version].until + (Ttl + MaxFetch + 1)
        BY <1>0, <2>1, <2>2, <3>2, UntilNat, EntryFields DEF Held, Faithful
      <4>2. Register!Called(c) \in Nat /\ clock \in Nat /\ entry.expires \in Nat
        BY <1>0, SameCall, Numbers DEF TypeOK
      <4>3. Register!Called(c) < past[entry.version].until + (Ttl + MaxFetch)
        BY <2>1, <2>3, <4>1, <4>2, CacheAssumption DEF CacheAssumption
      <4>4. QED
        BY <4>3 DEF Held
    <3>3. QED
      BY <3>1, <3>2
  <2>5. Register!Answer(c, Ttl + MaxFetch)
    BY <1>0, <2>1, <2>2, <2>3, <2>4, AnswersAs, CacheAssumption DEF CacheAssumption
  <2>6. Phase(c) \in {"idle", "called"}
    BY <2>1 DEF Phase
  <2>7. Register!FromCache(c)
    BY <2>5, <2>6 DEF Register!FromCache
  <2>8. QED
    BY <2>7 DEF Register!Next
<1>2. CASE FastMiss(c)
  <2>1. Phase(c) = "idle" /\ Phase(c)' = "called"
    BY <1>0, <1>2 DEF FastMiss, Phase, TypeOK
  <2>2. /\ RegPhase' = [RegPhase EXCEPT ![c] = "called"] /\ RegAnswer' = RegAnswer
        /\ RegPhase[c] = "idle"
    BY <1>0, <1>2, <2>1, NextPhase DEF FastMiss, Pc
  <2>3. Register!Call(c)
    BY <1>0, <1>2, <2>2 DEF FastMiss, Register!Call, RegPhase, RegAnswer, Register!keyVars
  <2>4. QED
    BY <2>3 DEF Register!Next
<1>3. CASE Join(c) \/ Lead(c)
  <2>1. Phase(c) = "called" /\ Phase(c)' = "asking"
    BY <1>0, <1>3 DEF Join, Lead, SlowMiss, Phase, TypeOK
  <2>2. /\ RegPhase' = [RegPhase EXCEPT ![c] = "asking"] /\ RegAnswer' = RegAnswer
        /\ RegPhase[c] = "called"
    <3>1. CASE Join(c)
      BY <1>0, <2>1, <3>1, NextPhase DEF Join, SlowMiss, Pc
    <3>2. CASE Lead(c)
      BY <1>0, <2>1, <3>2, NextPhase DEF Lead, SlowMiss, Pc
    <3>3. QED
      BY <1>3, <3>1, <3>2
  <2>3. Register!Ask(c)
    BY <1>0, <1>3, <2>2 DEF Join, Lead, Register!Ask, RegPhase, RegAnswer, Register!keyVars
  <2>4. QED
    BY <2>3 DEF Register!Next
<1>4. CASE Get(c) \/ Fetch(c) \/ FetchFails(c) \/ Publish(c)
  <2>1. /\ UNCHANGED <<start, floor, seen>>
        /\ \A d \in Caller \ {c} : mine'[d] = mine[d]
    BY <1>0, <1>4 DEF Get, Fetch, FetchFails, Publish, PublishResult, TypeOK
  <2>2. /\ pc[c] \in {"fetching", "got", "fetched"}
        /\ \E s \in {"got", "fetched", "closing"} : pc' = [pc EXCEPT ![c] = s]
    BY <1>4 DEF Get, Fetch, FetchFails, Publish
  <2>3. RegPhase' = RegPhase /\ RegAnswer' = RegAnswer
    BY <1>0, <2>1, <2>2, SamePhase DEF Pc
  <2>4. QED
    BY <1>0, <2>1, <2>3 DEF Register!vars, Register!callVars, Register!keyVars,
                            RegPhase, RegAnswer
<1>5. CASE Close(c) \/ Wake(c)
  <2>1. PICK e \in CacheEntry : /\ Return(c, e) /\ Faithful(e) /\ Serves(e, c)
                                /\ pc[c] \in {"closing", "waiting"}
    <3>1. CASE Close(c)
      BY <1>0, <3>1 DEF Close, Closing, TypeOK, IInv, EveryResultFaithful, SharedRecently
    <3>2. CASE Wake(c)
      <4>1. leader[c] \in Caller /\ leader[c] # flight /\ pc[c] = "waiting"
        BY <1>0, <3>2, CacheAssumption
        DEF CacheAssumption, Wake, IInv, Leaders, SingleFlight, Flying
      <4>2. /\ res[leader[c]] \in CacheEntry /\ Faithful(res[leader[c]])
            /\ Serves(res[leader[c]], c)
        BY <1>0, <4>1 DEF IInv, TypeOK, EveryResultFaithful, SharedRecently
      <4>3. QED
        BY <3>2, <4>1, <4>2 DEF Wake
    <3>3. QED
      BY <1>5, <3>1, <3>2
  <2>2. Phase(c) = "asking" /\ pc[c] # "done"
    BY <2>1 DEF Phase
  <2>3. CASE e.failed
    <3>1. Register!Fail(c)
      BY <1>0, <2>1, <2>2, <2>3, FailsAs
    <3>2. QED
      BY <3>1 DEF Register!Next
  <2>4. CASE ~e.failed
    <3>1. /\ e.version # 0 /\ Register!Floor(c) <= e.version
          /\ Held(e.version, Register!Called(c), MaxFetch + 1)
      BY <2>1, <2>4, SameCall DEF Serves
    <3>2. Register!Answer(c, MaxFetch + 1)
      BY <1>0, <2>1, <2>2, <3>1, AnswersAs, CacheAssumption DEF CacheAssumption
    <3>3. Register!FromLookup(c)
      BY <2>2, <3>2 DEF Register!FromLookup
    <3>4. QED
      BY <3>3 DEF Register!Next
  <2>5. QED
    BY <2>3, <2>4
<1>6. QED
  BY <1>1, <1>2, <1>3, <1>4, <1>5 DEF Step

\* Phases and answers are functions of pc and mine.
LEMMA SameCalls ==
  ASSUME pc' = pc, mine' = mine
  PROVE  RegPhase' = RegPhase /\ RegAnswer' = RegAnswer
BY DEF RegPhase, RegAnswer, Phase, AnswerOf, ZeroEntry

\* Lookup answers as a register of bounded staleness (cache.go:4, 33, 66-114, 128).
THEOREM CacheIsStaleRegister == Spec => ImplementsRegister
<1>1. IInv /\ [Next]_vars => [Register!Next]_(Register!vars)
  <2> SUFFICES ASSUME IInv, [Next]_vars PROVE [Register!Next]_(Register!vars)
    OBVIOUS
  <2>1. CASE \E c \in Caller : Step(c)
    BY <2>1, RegisterStep
  <2>2. CASE Write
    <3>1. RegPhase' = RegPhase /\ RegAnswer' = RegAnswer
      BY <2>2, SameCalls DEF Write, callVars
    <3>2. Register!Write
      BY <2>2, <3>1 DEF Write, Change, Limit, callVars, Register!Write, Register!Change,
                        Register!Limit, Register!callVars, RegPhase, RegAnswer
    <3>3. QED
      BY <3>2 DEF Register!Next
  <2>3. CASE Tick
    <3>1. RegPhase' = RegPhase /\ RegAnswer' = RegAnswer
      BY <2>3, SameCalls DEF Tick, callVars
    <3>2. Register!Tick
      BY <2>3, <3>1 DEF Tick, keyVars, callVars, Register!Tick, Register!keyVars,
                        Register!callVars, RegPhase, RegAnswer
    <3>3. QED
      BY <3>2 DEF Register!Next
  <2>4. CASE UNCHANGED vars
    <3>1. RegPhase' = RegPhase /\ RegAnswer' = RegAnswer
      BY <2>4, SameCalls DEF vars, callVars
    <3>2. QED
      BY <2>4, <3>1 DEF vars, keyVars, callVars, Register!vars, Register!keyVars,
                        Register!callVars, RegPhase, RegAnswer
  <2>5. QED
    BY <2>1, <2>2, <2>3, <2>4 DEF Next
<1>2. QED
  BY <1>1, RegisterInit, Invariance, PTL DEF Spec, ImplementsRegister, Register!Spec
=============================================================================
