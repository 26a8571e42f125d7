------------------------ MODULE GCounterSync_proofs ------------------------
(***************************************************************************)
(* Proofs about GCounterSync, for every set of requests, every assignment  *)
(* of them to the regions, every set of limits and all bounds.             *)
(***************************************************************************)
EXTENDS GCounterSync, FunctionTheorems, FiniteSetTheorems, TLAPS

\* The variables keep their shape through every step.
LEMMA TypeInit == Init => TypeOK
  BY DEF Init, TypeOK, Region, Hash, EmptyHash, Pc, ReconRecord

\* A gateway step keeps the type.
LEMMA TypeGateway ==
  ASSUME TypeOK, NEW q \in Req, Gateway(q)
  PROVE  TypeOK'
<1> USE HomeAssumption, LimitAssumption
    DEF TypeOK, Hash, Pc, clockVars, syncVars
<1>0. Home[q] \in Region
  OBVIOUS
<1>1. CASE Start(q)
  BY <1>1 DEF Start
<1>2. CASE Count(q)
  BY <1>0, <1>2 DEF Count, Increment
<1>3. CASE CountReplyLost(q)
  BY <1>0, <1>3 DEF CountReplyLost, Increment, reqVars
<1>4. CASE SkipCheck(q)
  BY <1>4 DEF SkipCheck
<1>5. CASE Publish(q)
  <2>1. Copies(Home[q], val[q]) \subseteq Msg
    BY <1>0 DEF Copies, Msg
  <2>2. QED
    BY <1>5, <2>1 DEF Publish
<1>6. CASE Decide(q)
  BY <1>0, <1>6 DEF Decide
<1>7. QED
  BY <1>1, <1>2, <1>3, <1>4, <1>5, <1>6 DEF Gateway

\* A step of a sync service keeps the type.
LEMMA TypeSync ==
  ASSUME TypeOK,
         \/ \E m \in wire \cup applying : Message(m)
         \/ \E f, r \in Region : AddPartition(f, r) \/ Heal(f, r)
         \/ \E r \in Region : Reconcile(r) \/ SyncRestart(r)
  PROVE  TypeOK'
<1> USE PeersAssumption DEF TypeOK, Hash, ReconRecord, clockVars, syncVars, reqVars
<1>1. CASE \E m \in wire \cup applying : Message(m)
  <2> PICK m \in wire \cup applying : Message(m)
    BY <1>1
  <2>0. m \in Msg /\ m.src \in Region /\ m.dst \in Region /\ m.val \in Nat
    BY DEF Msg
  <2>1. CASE Receive(m)
    BY <2>0, <2>1 DEF Receive
  <2>2. CASE Apply(m)
    <3>1. slot[m.dst][m.src] \in Nat
      BY <2>0
    <3>2. MergeSlot(slot[m.dst][m.src], m.val) \in Nat
      BY <2>0, <3>1 DEF MergeSlot
    <3>3. slot' \in [Region -> [Region -> Nat]]
      BY <2>0, <2>2, <3>2 DEF Apply
    <3>4. QED
      BY <2>2, <3>3 DEF Apply
  <2>3. CASE ApplyFails(m)
    BY <2>3 DEF ApplyFails
  <2>4. CASE Lose(m)
    BY <2>4 DEF Lose
  <2>5. QED
    BY <2>1, <2>2, <2>3, <2>4 DEF Message
<1>2. CASE \E f, r \in Region : AddPartition(f, r) \/ Heal(f, r)
  <2> PICK f \in Region, r \in Region : AddPartition(f, r) \/ Heal(f, r)
    BY <1>2
  <2>1. CASE AddPartition(f, r)
    <3>1. cut[r] \cup {f} \in SUBSET Region
      OBVIOUS
    <3>2. QED
      BY <2>1, <3>1 DEF AddPartition
  <2>2. CASE Heal(f, r)
    <3>1. cut[r] \ {f} \in SUBSET Region
      OBVIOUS
    <3>2. QED
      BY <2>2, <3>1 DEF Heal
  <2>3. QED
    BY <2>1, <2>2
<1>3. CASE \E r \in Region : Reconcile(r) \/ SyncRestart(r)
  <2> PICK r \in Region : Reconcile(r) \/ SyncRestart(r)
    BY <1>3
  <2>1. CASE ReconcileScan(r)
    BY <2>1 DEF ReconcileScan
  <2>2. CASE ReconcileRead(r)
    BY <2>2 DEF ReconcileRead
  <2>3. CASE ReconcilePublish(r)
    <3>1. Copies(r, recon[r].val) \subseteq Msg
      BY DEF Copies, Msg
    <3>2. QED
      BY <2>3, <3>1 DEF ReconcilePublish
  <2>4. CASE SyncRestart(r)
    BY <2>4 DEF SyncRestart
  <2>5. QED
    BY <2>1, <2>2, <2>3, <2>4 DEF Reconcile
<1>4. QED
  BY <1>1, <1>2, <1>3

\* Every step keeps the type.
LEMMA TypeNext == TypeOK /\ [Next]_vars => TypeOK'
<1> SUFFICES ASSUME TypeOK, [Next]_vars PROVE TypeOK'
  OBVIOUS
<1>1. CASE \E q \in Req : Gateway(q)
  BY <1>1, TypeGateway
<1>2. CASE \E m \in wire \cup applying : Message(m)
  BY <1>2, TypeSync
<1>3. CASE \E f, r \in Region : AddPartition(f, r) \/ Heal(f, r)
  BY <1>3, TypeSync
<1>4. CASE \E r \in Region : Reconcile(r) \/ SyncRestart(r)
  BY <1>4, TypeSync
<1>5. CASE \E r \in Region : Store(r)
  <2> PICK r \in Region : RedisRestart(r) \/ Expire(r)
    BY <1>5 DEF Store
  <2>1. EmptyHash \in Hash
    BY DEF EmptyHash, Hash
  <2>2. slot' \in [Region -> Hash]
    BY <2>1 DEF TypeOK, RedisRestart, Expire
  <2>3. restarts' \in Hash
    BY DEF TypeOK, Hash, RedisRestart, Expire, clockVars
  <2>4. QED
    BY <2>2, <2>3 DEF TypeOK, RedisRestart, Expire, clockVars, syncVars, reqVars
<1>6. CASE CloseWindow
  BY <1>6 DEF TypeOK, CloseWindow, syncVars, reqVars
<1>7. CASE UNCHANGED vars
  BY <1>7 DEF TypeOK, vars
<1>8. QED
  BY <1>1, <1>2, <1>3, <1>4, <1>5, <1>6, <1>7 DEF Next

\* In every reachable state the variables have the shape TypeOK gives them.
THEOREM TypeCorrect == Spec => []TypeOK
<1>1. QED
  BY TypeInit, TypeNext, PTL DEF Spec

-----------------------------------------------------------------------------
(* Sums over the three regions.                                            *)

\* A sum of counters is at least each of them.
LEMMA TotalCovers ==
  ASSUME NEW h \in Hash, NEW r \in Region
  PROVE  h[r] <= Total(h) /\ Total(h) \in Nat
<1>1. h["us"] \in Nat /\ h["eu"] \in Nat /\ h["asia"] \in Nat
  BY DEF Hash, Region
<1>2. QED
  BY <1>1 DEF Region, Total

\* A hash that is nowhere larger has no larger sum.
LEMMA TotalMonotone ==
  ASSUME NEW g \in Hash, NEW h \in Hash, \A r \in Region : g[r] <= h[r]
  PROVE  Total(g) <= Total(h)
<1>1. /\ g["us"] \in Nat /\ g["eu"] \in Nat /\ g["asia"] \in Nat
      /\ h["us"] \in Nat /\ h["eu"] \in Nat /\ h["asia"] \in Nat
  BY DEF Hash, Region
<1>2. g["us"] <= h["us"] /\ g["eu"] <= h["eu"] /\ g["asia"] <= h["asia"]
  BY DEF Region
<1>3. QED
  BY <1>1, <1>2 DEF Total

\* The merge stores one of its two values, and never the smaller.
LEMMA MergeIsMaximum ==
  ASSUME NEW c \in Nat, NEW i \in Nat
  PROVE  /\ MergeSlot(c, i) \in {c, i}
         /\ MergeSlot(c, i) >= c /\ MergeSlot(c, i) >= i
  BY DEF MergeSlot

-----------------------------------------------------------------------------
(* No replica runs ahead of the owner of a slot.                           *)

\* The true count of a region never goes down.
LEMMA ChargedGrows ==
  ASSUME TypeOK, [Next]_vars
  PROVE  \A r \in Region : charged[r] <= charged'[r]
<1>0. \A r \in Region : charged[r] \in Nat
  BY DEF TypeOK, Hash
<1>1. CASE UNCHANGED charged
  BY <1>0, <1>1
<1>2. CASE \E h \in Region : Increment(h)
  <2> PICK h \in Region : Increment(h)
    BY <1>2
  <2>1. charged' = [charged EXCEPT ![h] = @ + 1]
    BY DEF Increment
  <2>2. QED
    BY <1>0, <2>1 DEF TypeOK, Hash
<1>3. CASE \E q \in Req : Gateway(q)
  <2> PICK q \in Req : Gateway(q)
    BY <1>3
  <2>0. Home[q] \in Region
    BY HomeAssumption
  <2>1. UNCHANGED charged \/ Increment(Home[q])
    BY DEF Gateway, Start, Count, CountReplyLost, SkipCheck, Publish, Decide
  <2>2. QED
    BY <1>1, <1>2, <2>0, <2>1
<1>4. CASE \E m \in wire \cup applying : Message(m)
  BY <1>1, <1>4 DEF Message, Receive, Apply, ApplyFails, Lose
<1>5. CASE \E f, r \in Region : AddPartition(f, r) \/ Heal(f, r)
  BY <1>1, <1>5 DEF AddPartition, Heal
<1>6. CASE \E r \in Region : Reconcile(r) \/ SyncRestart(r) \/ Store(r)
  BY <1>1, <1>6 DEF Reconcile, ReconcileScan, ReconcileRead, ReconcilePublish,
                    SyncRestart, Store, RedisRestart, Expire
<1>7. CASE CloseWindow
  BY <1>1, <1>7 DEF CloseWindow
<1>8. CASE UNCHANGED vars
  BY <1>1, <1>8 DEF vars
<1>9. QED
  BY <1>3, <1>4, <1>5, <1>6, <1>7, <1>8 DEF Next

\* The values of replicas, messages, reconciliations and requests, together.
Ahead == NeverAhead /\ CarriedNeverAhead

\* At first nothing is counted.
LEMMA AheadInit == Init => Ahead
  BY HomeAssumption
  DEF Init, Ahead, NeverAhead, CarriedNeverAhead, EmptyHash

\* A gateway step sends and stores only values its region counted.
LEMMA AheadGateway ==
  ASSUME TypeOK, Ahead, NEW q \in Req, Gateway(q)
  PROVE  Ahead'
<1> DEFINE h == Home[q]
<1> USE HomeAssumption DEF TypeOK, Hash, Ahead, NeverAhead, CarriedNeverAhead,
                           clockVars, syncVars, reqVars
<1>0. h \in Region /\ \A p \in Req : Home[p] \in Region
  OBVIOUS
<1>1. CASE Start(q)
  BY <1>1 DEF Start
<1>2. CASE Count(q)
  <2>1. /\ charged' = [charged EXCEPT ![h] = @ + 1]
        /\ slot' = [slot EXCEPT ![h][h] = @ + 1]
        /\ val' = [val EXCEPT ![q] = slot[h][h] + 1]
        /\ UNCHANGED <<wire, applying, recon>>
    BY <1>2 DEF Count, Increment
  <2>2. NeverAhead'
    BY <1>0, <2>1
  <2>3. \A m \in wire \cup applying : m.val <= charged'[m.src]
    <3> TAKE m \in wire \cup applying
    <3>1. m.src \in Region /\ m.val \in Nat /\ m.val <= charged[m.src]
      BY DEF Msg
    <3>2. QED
      BY <1>0, <2>1, <3>1
  <2>4. \A r \in Region : recon[r].val <= charged'[r]
    BY <1>0, <2>1 DEF ReconRecord
  <2>5. \A p \in Req : val'[p] <= charged'[Home[p]]
    BY <1>0, <2>1
  <2>6. QED
    BY <2>1, <2>2, <2>3, <2>4, <2>5
<1>3. CASE CountReplyLost(q)
  <2>1. /\ charged' = [charged EXCEPT ![h] = @ + 1]
        /\ slot' = [slot EXCEPT ![h][h] = @ + 1]
        /\ UNCHANGED <<wire, applying, recon, val>>
    BY <1>3 DEF CountReplyLost, Increment
  <2>2. NeverAhead'
    BY <1>0, <2>1
  <2>3. \A m \in wire \cup applying : m.val <= charged'[m.src]
    <3> TAKE m \in wire \cup applying
    <3>1. m.src \in Region /\ m.val \in Nat /\ m.val <= charged[m.src]
      BY DEF Msg
    <3>2. QED
      BY <1>0, <2>1, <3>1
  <2>4. \A r \in Region : recon[r].val <= charged'[r]
    BY <1>0, <2>1 DEF ReconRecord
  <2>5. \A p \in Req : val'[p] <= charged'[Home[p]]
    BY <1>0, <2>1
  <2>6. QED
    BY <2>1, <2>2, <2>3, <2>4, <2>5
<1>4. CASE SkipCheck(q)
  BY <1>4 DEF SkipCheck
<1>5. CASE Publish(q)
  <2>1. \A m \in Copies(h, val[q]) : m.val <= charged[m.src]
    BY DEF Copies
  <2>2. QED
    BY <1>5, <2>1 DEF Publish
<1>6. CASE Decide(q)
  BY <1>6 DEF Decide
<1>7. QED
  BY <1>1, <1>2, <1>3, <1>4, <1>5, <1>6 DEF Gateway

\* A message is merged, dropped or sent on with the value it carries.
LEMMA AheadSync ==
  ASSUME TypeOK, Ahead,
         \/ \E m \in wire \cup applying : Message(m)
         \/ \E f, r \in Region : AddPartition(f, r) \/ Heal(f, r)
         \/ \E r \in Region : Reconcile(r) \/ SyncRestart(r) \/ Store(r)
         \/ CloseWindow
  PROVE  Ahead'
<1> USE DEF TypeOK, Hash, Ahead, NeverAhead, CarriedNeverAhead,
            clockVars, syncVars, reqVars
<1>1. CASE \E m \in wire \cup applying : Message(m)
  <2> PICK m \in wire \cup applying : Message(m)
    BY <1>1
  <2>0. m.src \in Region /\ m.dst \in Region /\ m.val \in Nat
    BY DEF Msg
  <2>1. CASE Apply(m)
    <3>1. MergeSlot(slot[m.dst][m.src], m.val) <= charged[m.src]
      BY <2>0, MergeIsMaximum
    <3>2. NeverAhead'
      BY <2>0, <2>1, <3>1 DEF Apply
    <3>3. QED
      BY <2>1, <3>2 DEF Apply
  <2>2. CASE Receive(m) \/ ApplyFails(m) \/ Lose(m)
    BY <2>2 DEF Receive, ApplyFails, Lose
  <2>3. QED
    BY <2>1, <2>2 DEF Message
<1>2. CASE \E f, r \in Region : AddPartition(f, r) \/ Heal(f, r)
  BY <1>2 DEF AddPartition, Heal
<1>3. CASE \E r \in Region : Reconcile(r)
  <2> PICK r \in Region : Reconcile(r)
    BY <1>3
  <2>1. CASE ReconcileScan(r)
    <3>1. \A n \in Region : recon'[n].val = recon[n].val
      BY <2>1 DEF ReconcileScan, ReconRecord
    <3>2. QED
      BY <2>1, <3>1 DEF ReconcileScan
  <2>2. CASE ReconcileRead(r)
    <3>1. \A n \in Region : recon'[n].val <= charged[n]
      BY <2>2 DEF ReconcileRead, ReconRecord
    <3>2. QED
      BY <2>2, <3>1 DEF ReconcileRead
  <2>3. CASE ReconcilePublish(r)
    <3>1. \A m \in Copies(r, recon[r].val) : m.val <= charged[m.src]
      BY DEF Copies
    <3>2. \A n \in Region : recon'[n].val <= charged[n]
      BY <2>3 DEF ReconcilePublish, ReconRecord
    <3>3. QED
      BY <2>3, <3>1, <3>2 DEF ReconcilePublish
  <2>4. QED
    BY <2>1, <2>2, <2>3 DEF Reconcile
<1>4. CASE \E r \in Region : SyncRestart(r)
  <2> PICK r \in Region : SyncRestart(r)
    BY <1>4
  <2>1. \A n \in Region : recon'[n].val <= charged[n]
    BY DEF SyncRestart, ReconRecord
  <2>2. QED
    BY <2>1 DEF SyncRestart
<1>5. CASE \E r \in Region : Store(r)
  <2> PICK r \in Region : RedisRestart(r) \/ Expire(r)
    BY <1>5 DEF Store
  <2>1. slot' = [slot EXCEPT ![r] = EmptyHash] /\ UNCHANGED charged
    BY DEF RedisRestart, Expire
  <2>2. NeverAhead'
    BY <2>1 DEF EmptyHash
  <2>3. QED
    BY <2>1, <2>2 DEF RedisRestart, Expire
<1>6. CASE CloseWindow
  BY <1>6 DEF CloseWindow
<1>7. QED
  BY <1>1, <1>2, <1>3, <1>4, <1>5, <1>6

\* No step brings a value ahead of its owner.
LEMMA AheadNext == TypeOK /\ Ahead /\ [Next]_vars => Ahead'
<1> SUFFICES ASSUME TypeOK, Ahead, [Next]_vars PROVE Ahead'
  OBVIOUS
<1>1. CASE \E q \in Req : Gateway(q)
  BY <1>1, AheadGateway
<1>2. CASE UNCHANGED vars
  BY <1>2 DEF Ahead, NeverAhead, CarriedNeverAhead, vars
<1>3. CASE ~(\E q \in Req : Gateway(q)) /\ Next
  BY <1>3, AheadSync DEF Next
<1>4. QED
  BY <1>1, <1>2, <1>3

\* However late, often or out of order messages arrive, and whatever restarts,
\* no region credits another one with more than it counted.
THEOREM ReplicaNeverAhead == Spec => []NeverAhead
<1>1. Init => Ahead
  BY AheadInit
<1>2. TypeOK /\ Ahead /\ [Next]_vars => Ahead'
  BY AheadNext
<1>3. Ahead => NeverAhead
  BY DEF Ahead
<1>4. QED
  BY <1>1, <1>2, <1>3, TypeCorrect, PTL DEF Spec

-----------------------------------------------------------------------------
(* The own slot as a ticket dispenser.                                     *)

\* What a step outside the gateways can do to the own slot of a region: leave
\* it or raise it, unless the Redis restarts or no request is left to see it.
OwnSlotKept(r) ==
  /\ restarts[r] <= restarts'[r]
  /\ Live(r)' => Live(r)
  /\ Live(r)' /\ restarts'[r] = restarts[r] => slot[r][r] <= slot'[r][r]

\* Only the gateways hand out tickets.
LEMMA OutsideGateway ==
  ASSUME TypeOK,
         \/ \E m \in wire \cup applying : Message(m)
         \/ \E f, r \in Region : AddPartition(f, r) \/ Heal(f, r)
         \/ \E r \in Region : Reconcile(r) \/ SyncRestart(r) \/ Store(r)
         \/ CloseWindow
         \/ UNCHANGED vars
  PROVE  UNCHANGED reqVars /\ \A r \in Region : OwnSlotKept(r)
<1>0. \A r, n \in Region : slot[r][n] \in Nat /\ restarts[r] \in Nat
  BY DEF TypeOK, Hash
<1>1. CASE UNCHANGED <<reqVars, slot, restarts, phase>>
  BY <1>0, <1>1 DEF OwnSlotKept, Live, InFlight, reqVars
<1>2. CASE \E m \in wire \cup applying : Apply(m)
  <2> PICK m \in wire \cup applying : Apply(m)
    BY <1>2
  <2>0. m.src \in Region /\ m.dst \in Region /\ m.val \in Nat
    BY DEF TypeOK, Msg
  <2>1. /\ slot' = [slot EXCEPT ![m.dst][m.src] = MergeSlot(@, m.val)]
        /\ UNCHANGED <<reqVars, restarts, phase>>
    BY DEF Apply, clockVars
  <2>2. MergeSlot(slot[m.dst][m.src], m.val) >= slot[m.dst][m.src]
    BY <1>0, <2>0, MergeIsMaximum
  <2>3. \A r \in Region : slot[r][r] <= slot'[r][r]
    BY <1>0, <2>0, <2>1, <2>2 DEF TypeOK, Hash
  <2>4. QED
    BY <1>0, <2>1, <2>3 DEF OwnSlotKept, Live, InFlight, reqVars
<1>3. CASE \E r \in Region : RedisRestart(r)
  <2> PICK r \in Region : RedisRestart(r)
    BY <1>3
  <2>1. /\ restarts' = [restarts EXCEPT ![r] = @ + 1]
        /\ slot' = [slot EXCEPT ![r] = EmptyHash]
        /\ UNCHANGED <<reqVars, phase>>
    BY DEF RedisRestart
  <2>2. restarts'[r] = restarts[r] + 1
    BY <2>1 DEF TypeOK, Hash
  <2>3. \A n \in Region \ {r} : restarts'[n] = restarts[n] /\ slot'[n] = slot[n]
    BY <2>1 DEF TypeOK, Hash
  <2>4. QED
    BY <1>0, <2>1, <2>2, <2>3 DEF OwnSlotKept, Live, InFlight, reqVars
<1>4. CASE \E r \in Region : Expire(r)
  <2> PICK r \in Region : Expire(r)
    BY <1>4
  <2>1. /\ slot' = [slot EXCEPT ![r] = EmptyHash]
        /\ UNCHANGED <<reqVars, phase, restarts>>
        /\ ~Live(r)
    BY DEF Expire, clockVars
  <2>2. \A n \in Region \ {r} : slot'[n] = slot[n]
    BY <2>1 DEF TypeOK
  <2>3. QED
    BY <1>0, <2>1, <2>2 DEF OwnSlotKept, Live, InFlight, reqVars
<1>5. CASE CloseWindow
  BY <1>0, <1>5 DEF CloseWindow, OwnSlotKept, Live, InFlight, reqVars
<1>6. CASE \E m \in wire \cup applying : Receive(m) \/ ApplyFails(m) \/ Lose(m)
  BY <1>1, <1>6 DEF Receive, ApplyFails, Lose, clockVars
<1>7. CASE \E f, r \in Region : AddPartition(f, r) \/ Heal(f, r)
  BY <1>1, <1>7 DEF AddPartition, Heal, clockVars
<1>8. CASE \E r \in Region : Reconcile(r) \/ SyncRestart(r)
  BY <1>1, <1>8 DEF Reconcile, ReconcileScan, ReconcileRead, ReconcilePublish,
                    SyncRestart, clockVars
<1>9. CASE UNCHANGED vars
  BY <1>1, <1>9 DEF vars, reqVars
<1>10. QED
  BY <1>2, <1>3, <1>4, <1>5, <1>6, <1>7, <1>8, <1>9 DEF Message, Store

\* The part of the inductive invariant about tickets.
Tickets == TicketTaken /\ TicketsCovered /\ UniqueTickets /\ AdmittedWithinLimit

\* At first there are no tickets.
LEMMA TicketsInit == Init => Tickets
  BY HomeAssumption
  DEF Init, Tickets, TicketTaken, TicketsCovered, UniqueTickets,
      AdmittedWithinLimit, EmptyHash

\* Steps outside the gateways change no ticket and lower no live own slot.
LEMMA TicketsOutside ==
  ASSUME TypeOK, TypeOK', Tickets,
         UNCHANGED reqVars /\ \A r \in Region : OwnSlotKept(r)
  PROVE  Tickets'
<1>0. /\ \A q \in Req : Home[q] \in Region /\ epoch[q] \in Nat /\ val[q] \in Nat
      /\ \A r \in Region : slot[r][r] \in Nat /\ restarts[r] \in Nat
      /\ \A r \in Region : slot'[r][r] \in Nat /\ restarts'[r] \in Nat
  BY HomeAssumption DEF TypeOK, Hash
<1>1. UniqueTickets' /\ AdmittedWithinLimit'
  BY DEF Tickets, UniqueTickets, AdmittedWithinLimit, reqVars
<1>2. \A q \in Req : epoch[q] <= restarts[Home[q]] /\ epoch[q] <= restarts'[Home[q]]
  BY <1>0 DEF Tickets, TicketTaken, OwnSlotKept
<1>3. TicketTaken'
  BY <1>2 DEF Tickets, TicketTaken, reqVars
<1>4. TicketsCovered'
  <2> SUFFICES ASSUME NEW q \in Req, Live(Home[q])', epoch[q] = restarts'[Home[q]]
               PROVE  val[q] <= slot'[Home[q]][Home[q]]
    BY DEF TicketsCovered, reqVars
  <2>1. Live(Home[q]) /\ restarts'[Home[q]] = restarts[Home[q]]
    BY <1>0, <1>2 DEF OwnSlotKept
  <2>2. val[q] <= slot[Home[q]][Home[q]]
    BY <2>1 DEF Tickets, TicketsCovered
  <2>3. slot[Home[q]][Home[q]] <= slot'[Home[q]][Home[q]]
    BY <1>0, <2>1 DEF OwnSlotKept
  <2>4. QED
    BY <1>0, <2>2, <2>3
<1>5. QED
  BY <1>1, <1>3, <1>4 DEF Tickets

\* A gateway step: only a request already in flight, or one started while the
\* window is open, keeps a region live.
LEMMA LiveGateway ==
  ASSUME TypeOK, NEW q \in Req, Gateway(q), NEW r \in Region, Live(r)'
  PROVE  Live(r)
<1>1. CASE phase = "open"
  BY <1>1 DEF Live
<1>2. CASE phase # "open"
  <2>1. phase' = phase
    BY DEF Gateway, Start, Count, CountReplyLost, SkipCheck, Publish, Decide, clockVars
  <2>2. PICK p \in Req : Home[p] = r /\ InFlight(p)'
    BY <1>2, <2>1 DEF Live
  <2>3. InFlight(p)
    BY <1>2, <2>2 DEF Gateway, Start, Count, CountReplyLost, SkipCheck, Publish,
                      Decide, InFlight, TypeOK, reqVars
  <2>4. QED
    BY <2>2, <2>3 DEF Live
<1>3. QED
  BY <1>1, <1>2

\* HINCRBY gives q a number above every other one of this Redis life.
LEMMA TicketsCount ==
  ASSUME TypeOK, Tickets, NEW q \in Req, Count(q)
  PROVE  Tickets'
<1> DEFINE h == Home[q]
<1>0. /\ h \in Region /\ \A p \in Req : Home[p] \in Region
      /\ \A p \in Req : epoch[p] \in Nat /\ val[p] \in Nat /\ lim[p] \in Nat
      /\ \A r \in Region : slot[r][r] \in Nat /\ restarts[r] \in Nat
  BY HomeAssumption DEF TypeOK, Hash
<1>1. /\ pc[q] = "started" /\ pc' = [pc EXCEPT ![q] = "counted"]
      /\ slot' = [slot EXCEPT ![h][h] = @ + 1]
      /\ val' = [val EXCEPT ![q] = slot[h][h] + 1]
      /\ epoch' = [epoch EXCEPT ![q] = restarts[h]]
      /\ UNCHANGED <<phase, restarts, lim, readEpoch>>
  BY DEF Count, Increment, clockVars
<1>2. Live(h)
  BY <1>1 DEF Live, InFlight
<1>3. /\ slot'[h][h] = slot[h][h] + 1
      /\ \A r \in Region \ {h} : slot'[r][r] = slot[r][r]
  BY <1>0, <1>1 DEF TypeOK, Hash
<1>4. /\ val'[q] = slot[h][h] + 1 /\ epoch'[q] = restarts[h] /\ pc'[q] = "counted"
      /\ \A p \in Req \ {q} : val'[p] = val[p] /\ epoch'[p] = epoch[p] /\ pc'[p] = pc[p]
  BY <1>1 DEF TypeOK
<1>5. \A p \in Req \ {q} : Home[p] = h /\ epoch[p] = restarts[h] => val[p] <= slot[h][h]
  BY <1>2 DEF Tickets, TicketsCovered
<1>6. TicketTaken'
  BY <1>0, <1>1, <1>4 DEF Tickets, TicketTaken
<1>7. UniqueTickets'
  <2>1. \A p \in Req \ {q} : Home[p] = h /\ epoch'[p] = epoch'[q] => val'[p] # val'[q]
    BY <1>0, <1>4, <1>5
  <2>2. QED
    BY <1>4, <2>1 DEF Tickets, UniqueTickets
<1>8. TicketsCovered'
  <2> SUFFICES ASSUME NEW p \in Req, Live(Home[p])', epoch'[p] = restarts[Home[p]]
               PROVE  val'[p] <= slot'[Home[p]][Home[p]]
    BY <1>1 DEF TicketsCovered
  <2>1. CASE p = q
    BY <1>0, <1>3, <1>4, <2>1
  <2>2. CASE p # q /\ Home[p] = h
    BY <1>0, <1>3, <1>4, <1>5, <2>2
  <2>3. CASE p # q /\ Home[p] # h
    <3>1. Live(Home[p])
      BY <1>0, LiveGateway DEF Gateway
    <3>2. val[p] <= slot[Home[p]][Home[p]]
      BY <1>4, <2>3, <3>1 DEF Tickets, TicketsCovered
    <3>3. QED
      BY <1>0, <1>3, <1>4, <2>3, <3>2
  <2>4. QED
    BY <2>1, <2>2, <2>3
<1>9. AdmittedWithinLimit'
  BY <1>1, <1>4 DEF Tickets, AdmittedWithinLimit
<1>10. QED
  BY <1>6, <1>7, <1>8, <1>9 DEF Tickets

\* The other gateway steps give out no number; HGETALL admits a request only
\* when its own number, part of the sum, is within the limit.
LEMMA TicketsGateway ==
  ASSUME TypeOK, Tickets, NEW q \in Req, Gateway(q)
  PROVE  Tickets'
<1> DEFINE h == Home[q]
<1>0. /\ h \in Region /\ \A p \in Req : Home[p] \in Region
      /\ \A p \in Req : epoch[p] \in Nat /\ val[p] \in Nat /\ lim[p] \in Nat
      /\ \A r \in Region : slot[r][r] \in Nat /\ restarts[r] \in Nat
  BY HomeAssumption DEF TypeOK, Hash
<1>1. \A r \in Region : Live(r)' => Live(r)
  BY LiveGateway
<1>2. CASE Count(q)
  BY <1>2, TicketsCount
<1>3. CASE CountReplyLost(q)
  <2>1. slot' = [slot EXCEPT ![h][h] = @ + 1] /\ UNCHANGED <<reqVars, phase, restarts>>
    BY <1>3 DEF CountReplyLost, Increment
  <2>2. \A r \in Region : slot'[r][r] \in Nat /\ slot[r][r] <= slot'[r][r]
    BY <1>0, <2>1 DEF TypeOK, Hash
  <2>3. TicketsCovered'
    BY <1>0, <1>1, <2>1, <2>2 DEF Tickets, TicketsCovered, reqVars
  <2>4. QED
    BY <2>1, <2>3 DEF Tickets, TicketTaken, UniqueTickets, AdmittedWithinLimit, reqVars
<1>4. CASE Start(q) \/ SkipCheck(q) \/ Publish(q)
  <2>1. /\ UNCHANGED <<val, epoch, readEpoch, slot, phase, restarts>>
        /\ \A p \in Req \ {q} : pc'[p] = pc[p] /\ lim'[p] = lim[p]
        /\ pc'[q] # "allowed" /\ pc'[q] # "idle" /\ pc'[q] # "denied"
        /\ pc'[q] = "started" => pc[q] = "idle"
        /\ pc'[q] \in {"counted", "published"} => pc[q] = "counted"
    BY <1>4 DEF Start, SkipCheck, Publish, TypeOK, clockVars
  <2>2. TicketTaken'
    BY <2>1 DEF Tickets, TicketTaken
  <2>3. TicketsCovered'
    BY <1>0, <1>1, <2>1 DEF Tickets, TicketsCovered
  <2>4. UniqueTickets' /\ AdmittedWithinLimit'
    BY <2>1 DEF Tickets, UniqueTickets, AdmittedWithinLimit
  <2>5. QED
    BY <2>2, <2>3, <2>4 DEF Tickets
<1>5. CASE Decide(q)
  <2>1. /\ UNCHANGED <<val, lim, epoch, slot, phase, restarts>>
        /\ \A p \in Req \ {q} : pc'[p] = pc[p] /\ readEpoch'[p] = readEpoch[p]
        /\ pc[q] = "published" /\ pc'[q] \in {"allowed", "denied"}
        /\ readEpoch'[q] = restarts[h]
        /\ pc'[q] = "allowed" => ~(Total(slot[h]) > lim[q])
    BY <1>5 DEF Decide, OverLimit, TypeOK, clockVars
  <2>2. TicketTaken' /\ UniqueTickets'
    BY <2>1 DEF Tickets, TicketTaken, UniqueTickets
  <2>3. TicketsCovered'
    BY <1>0, <1>1, <2>1 DEF Tickets, TicketsCovered
  <2>4. ASSUME pc'[q] = "allowed", readEpoch'[q] = epoch[q]
        PROVE  val[q] <= lim[q]
    <3>1. Live(h)
      BY <2>1 DEF Live, InFlight
    <3>2. val[q] <= slot[h][h]
      BY <2>1, <2>4, <3>1 DEF Tickets, TicketsCovered
    <3>3. slot[h][h] <= Total(slot[h]) /\ Total(slot[h]) \in Nat
      BY <1>0, TotalCovers DEF TypeOK
    <3>4. QED
      BY <1>0, <2>1, <2>4, <3>2, <3>3
  <2>5. AdmittedWithinLimit'
    BY <2>1, <2>4 DEF Tickets, AdmittedWithinLimit
  <2>6. QED
    BY <2>2, <2>3, <2>5 DEF Tickets
<1>6. QED
  BY <1>2, <1>3, <1>4, <1>5 DEF Gateway

\* Every new ticket is above those handed out before.
LEMMA TicketsNext == TypeOK /\ Tickets /\ [Next]_vars => Tickets'
<1> SUFFICES ASSUME TypeOK, Tickets, [Next]_vars PROVE Tickets'
  OBVIOUS
<1>1. CASE \E q \in Req : Gateway(q)
  BY <1>1, TicketsGateway
<1>2. CASE ~(\E q \in Req : Gateway(q))
  <2>1. UNCHANGED reqVars /\ \A r \in Region : OwnSlotKept(r)
    BY <1>2, OutsideGateway DEF Next
  <2>2. QED
    BY <2>1, TypeNext, TicketsOutside
<1>3. QED
  BY <1>1, <1>2

-----------------------------------------------------------------------------
(* Denials and admissions.                                                 *)

\* Only the decision of q turns it into a denied one.
LEMMA DenialNext ==
  TypeOK /\ NeverAhead /\ DenialJustified /\ [Next]_vars => DenialJustified'
<1> SUFFICES ASSUME TypeOK, NeverAhead, DenialJustified, [Next]_vars,
                    NEW q \in Req, pc'[q] = "denied"
             PROVE  Total(charged') > lim'[q]
  BY DEF DenialJustified
<1>0. TypeOK' /\ lim[q] \in Nat /\ Home[q] \in Region
  BY TypeNext, HomeAssumption DEF TypeOK
<1>1. Total(charged) <= Total(charged')
  BY <1>0, ChargedGrows, TotalMonotone DEF TypeOK
<1>2. Total(charged) \in Nat /\ Total(charged') \in Nat
  BY <1>0, TotalCovers DEF TypeOK, Region
<1>3. CASE pc[q] = "denied" /\ lim'[q] = lim[q]
  BY <1>0, <1>1, <1>2, <1>3 DEF DenialJustified
<1>4. CASE Decide(q)
  <2>1. Total(slot[Home[q]]) > lim[q] /\ lim' = lim
    BY <1>4 DEF Decide, OverLimit, TypeOK
  <2>2. Total(slot[Home[q]]) <= Total(charged)
    BY <1>0, TotalMonotone DEF TypeOK, NeverAhead
  <2>3. Total(slot[Home[q]]) \in Nat
    BY <1>0, TotalCovers DEF TypeOK, Region
  <2>4. QED
    BY <1>0, <1>1, <1>2, <2>1, <2>2, <2>3
<1>5. CASE \E p \in Req : Gateway(p)
  <2> PICK p \in Req : Gateway(p)
    BY <1>5
  <2>1. CASE p # q
    <3>1. pc'[q] = pc[q] /\ lim'[q] = lim[q]
      BY <2>1 DEF Gateway, Start, Count, CountReplyLost, SkipCheck, Publish,
                  Decide, TypeOK, reqVars
    <3>2. QED
      BY <1>3, <3>1
  <2>2. CASE p = q /\ ~Decide(q)
    <3>1. pc[q] = "denied" /\ lim'[q] = lim[q]
      BY <2>2 DEF Gateway, Start, Count, CountReplyLost, SkipCheck, Publish,
                  TypeOK, reqVars
    <3>2. QED
      BY <1>3, <3>1
  <2>3. QED
    BY <1>4, <2>1, <2>2
<1>6. CASE ~(\E p \in Req : Gateway(p))
  <2>1. UNCHANGED reqVars
    BY <1>6, OutsideGateway DEF Next
  <2>2. QED
    BY <1>3, <2>1 DEF reqVars
<1>7. QED
  BY <1>5, <1>6

\* The limit of a started request is one of the policy's.
LEMMA LimitNext == TypeOK /\ LimitRead /\ [Next]_vars => LimitRead'
<1> SUFFICES ASSUME TypeOK, LimitRead, [Next]_vars PROVE LimitRead'
  OBVIOUS
<1>1. CASE \E q \in Req : Gateway(q)
  <2> PICK q \in Req : Gateway(q)
    BY <1>1
  <2>1. CASE Start(q)
    BY <2>1 DEF Start, LimitRead, TypeOK
  <2>2. CASE ~Start(q)
    BY <2>2 DEF Gateway, Count, CountReplyLost, SkipCheck, Publish, Decide,
                LimitRead, TypeOK, reqVars
  <2>3. QED
    BY <2>1, <2>2
<1>2. CASE ~(\E q \in Req : Gateway(q))
  <2>1. UNCHANGED reqVars
    BY <1>2, OutsideGateway DEF Next
  <2>2. QED
    BY <2>1 DEF LimitRead, reqVars
<1>3. QED
  BY <1>1, <1>2

\* A message is sent only over a subscription and stays on it.
LEMMA SubscribedNext == TypeOK /\ OnlySubscribed /\ [Next]_vars => OnlySubscribed'
<1> SUFFICES ASSUME TypeOK, OnlySubscribed, [Next]_vars PROVE OnlySubscribed'
  OBVIOUS
<1> USE DEF OnlySubscribed, clockVars, syncVars
<1>1. \A r \in Region, v \in Nat : \A m \in Copies(r, v) : m.src \in Peers[m.dst]
  BY DEF Copies
<1>2. CASE \E q \in Req : Gateway(q)
  <2> PICK q \in Req : Gateway(q)
    BY <1>2
  <2>1. CASE Publish(q)
    <3>1. Home[q] \in Region /\ val[q] \in Nat
      BY HomeAssumption DEF TypeOK
    <3>2. QED
      BY <1>1, <2>1, <3>1 DEF Publish
  <2>2. CASE ~Publish(q)
    BY <2>2 DEF Gateway, Start, Count, CountReplyLost, SkipCheck, Decide
  <2>3. QED
    BY <2>1, <2>2
<1>3. CASE \E m \in wire \cup applying : Message(m)
  BY <1>3 DEF Message, Receive, Apply, ApplyFails, Lose
<1>4. CASE \E f, r \in Region : AddPartition(f, r) \/ Heal(f, r)
  BY <1>4 DEF AddPartition, Heal, TypeOK
<1>5. CASE \E r \in Region : Reconcile(r)
  <2> PICK r \in Region : Reconcile(r)
    BY <1>5
  <2>1. CASE ReconcilePublish(r)
    <3>1. recon[r].val \in Nat
      BY DEF TypeOK, ReconRecord
    <3>2. QED
      BY <1>1, <2>1, <3>1 DEF ReconcilePublish
  <2>2. CASE ReconcileScan(r) \/ ReconcileRead(r)
    BY <2>2 DEF ReconcileScan, ReconcileRead
  <2>3. QED
    BY <2>1, <2>2 DEF Reconcile
<1>6. CASE \E r \in Region : SyncRestart(r)
  BY <1>6 DEF SyncRestart, TypeOK
<1>7. CASE (\E r \in Region : Store(r)) \/ CloseWindow \/ UNCHANGED vars
  BY <1>7 DEF Store, RedisRestart, Expire, CloseWindow, vars
<1>8. QED
  BY <1>2, <1>3, <1>4, <1>5, <1>6, <1>7 DEF Next

\* IInv is an inductive invariant.
THEOREM Invariance == Spec => []IInv
<1> USE DEF IInv, Ahead, Tickets
<1>1. Init => IInv
  <2>1. Init => LimitRead /\ OnlySubscribed /\ DenialJustified
    BY DEF Init, LimitRead, OnlySubscribed, DenialJustified
  <2>2. QED
    BY <2>1, TypeInit, AheadInit, TicketsInit
<1>2. IInv /\ [Next]_vars => IInv'
  BY TypeNext, AheadNext, TicketsNext, DenialNext, LimitNext, SubscribedNext
<1>3. QED
  BY <1>1, <1>2, PTL DEF Spec

\* A request the global check denies was denied because the regions together
\* really counted more than its limit.
THEOREM DenialsAreJustified == Spec => []DenialJustified
<1>1. IInv => DenialJustified
  BY DEF IInv
<1>2. QED
  BY <1>1, Invariance, PTL

\* No two requests counted in one life of the Redis were handed the same number,
\* however their HINCRBY, publication and check interleave.
THEOREM TicketsAreUnique == Spec => []UniqueTickets
<1>1. IInv => UniqueTickets
  BY DEF IInv
<1>2. QED
  BY <1>1, Invariance, PTL

\* Numbering the admitted requests by (life of the Redis, slot value) bounds
\* their number.
LEMMA AdmittedNumbered ==
  ASSUME IInv, NEW r \in Region, NEW g \in GlobalLimits
  PROVE  /\ IsFiniteSet(Admitted(r, g))
         /\ Cardinality(Admitted(r, g)) <= g * (1 + restarts[r])
<1> DEFINE A == Admitted(r, g)
           Lives == 0 .. restarts[r]
           Numbers == 1 .. g
           number == [q \in A |-> <<epoch[q], val[q]>>]
<1>0. restarts[r] \in Nat /\ g \in Nat /\ g > 0
  BY LimitAssumption DEF IInv, TypeOK, Hash
<1>1. \A q \in A : epoch[q] \in Lives /\ val[q] \in Numbers
  <2> TAKE q \in A
  <2>1. /\ q \in Req /\ Home[q] = r /\ pc[q] = "allowed"
        /\ lim[q] <= g /\ readEpoch[q] = epoch[q]
    BY DEF Admitted
  <2>2. epoch[q] \in Nat /\ val[q] \in Nat /\ lim[q] \in Nat
    BY <2>1 DEF IInv, TypeOK
  <2>3. epoch[q] <= restarts[r] /\ val[q] > 0
    BY <2>1 DEF IInv, TicketTaken
  <2>4. val[q] <= lim[q]
    BY <2>1 DEF IInv, AdmittedWithinLimit
  <2>5. QED
    BY <1>0, <2>1, <2>2, <2>3, <2>4
<1>2. number \in [A -> Lives \X Numbers]
  BY <1>1
<1>3. \A p, q \in A : number[p] = number[q] => p = q
  <2> SUFFICES ASSUME NEW p \in A, NEW q \in A, number[p] = number[q] PROVE p = q
    OBVIOUS
  <2>1. epoch[p] = epoch[q] /\ val[p] = val[q] /\ val[p] > 0
    BY <1>0, <1>1
  <2>2. p \in Req /\ q \in Req /\ Home[p] = Home[q]
    BY DEF Admitted
  <2>3. QED
    BY <2>1, <2>2 DEF IInv, UniqueTickets
<1>4. number \in Injection(A, Lives \X Numbers)
  BY <1>2, <1>3, Fun_IsInj
<1>5. IsFiniteSet(Lives) /\ Cardinality(Lives) = restarts[r] + 1
  <2>1. 0 \in Int /\ restarts[r] \in Int /\ ~(0 > restarts[r])
    BY <1>0
  <2>2. IsFiniteSet(Lives) /\ Cardinality(Lives) = restarts[r] - 0 + 1
    BY <2>1, FS_Interval, Zenon
  <2>3. QED
    BY <1>0, <2>2
<1>6. /\ IsFiniteSet(Lives \X Numbers)
      /\ Cardinality(Lives \X Numbers) = (restarts[r] + 1) * g
  <2>1. 1 \in Int /\ g \in Int /\ ~(1 > g)
    BY <1>0
  <2>2. IsFiniteSet(Numbers) /\ Cardinality(Numbers) = g - 1 + 1
    BY <2>1, FS_Interval, Zenon
  <2>3. Cardinality(Numbers) = g
    BY <1>0, <2>2
  <2> HIDE DEF Lives, Numbers
  <2>4. QED
    BY <1>5, <2>2, <2>3, FS_Product
<1>7. IsFiniteSet(A) /\ Cardinality(A) <= Cardinality(Lives \X Numbers)
  BY <1>4, <1>6, FS_Injection
<1>8. (restarts[r] + 1) * g = g * (1 + restarts[r])
  BY <1>0
<1>9. QED
  BY <1>6, <1>7, <1>8

\* One region admits, past the global check, at most GlobalLimit requests per
\* life of its Redis, however concurrent requests interleave.
THEOREM AdmissionIsBounded == Spec => []AdmissionBound
<1>1. IInv => AdmissionBound
  BY AdmittedNumbered DEF AdmissionBound
<1>2. QED
  BY <1>1, Invariance, PTL

\* Those of all regions.
AdmittedAnywhere(g) == UNION {Admitted(r, g) : r \in Region}

\* Every request that passed the global check under a limit of at most g, and
\* those whose HINCRBY and HGETALL met different lives of their Redis: how many of
\* these pass is bounded by nothing but the requests in flight at a restart.
Passed(g) == {q \in Req : pc[q] = "allowed" /\ lim[q] <= g}
Straddling == {q \in Req : readEpoch[q] # epoch[q]}

\* No request has read in a life of its Redis that is still to come.
ReadsPast == \A q \in Req : readEpoch[q] <= restarts[Home[q]]

\* Only Decide changes what a request has read in, and restarts are only added.
LEMMA ReadsPastInvariant == Spec => []ReadsPast
<1>1. Init => ReadsPast
  BY HomeAssumption DEF Init, ReadsPast, EmptyHash
<1>2. TypeOK /\ ReadsPast /\ [Next]_vars => ReadsPast'
  <2> SUFFICES ASSUME TypeOK, ReadsPast, [Next]_vars, NEW q \in Req
               PROVE  readEpoch'[q] <= restarts'[Home[q]]
    BY DEF ReadsPast
  <2>0. /\ Home[q] \in Region /\ restarts \in [Region -> Nat] /\ readEpoch \in [Req -> Nat]
        /\ readEpoch[q] <= restarts[Home[q]]
    BY HomeAssumption DEF TypeOK, Hash, ReadsPast
  <2>1. CASE \E p \in Req : Decide(p)
    <3>1. PICK p \in Req : Decide(p)
      BY <2>1
    <3>2. readEpoch' = [readEpoch EXCEPT ![p] = restarts[Home[p]]] /\ restarts' = restarts
      BY <3>1 DEF Decide, clockVars
    <3>3. QED
      BY <2>0, <3>2
  <2>2. CASE \E r \in Region : RedisRestart(r)
    <3>1. PICK r \in Region : RedisRestart(r)
      BY <2>2
    <3>2. readEpoch' = readEpoch /\ restarts' = [restarts EXCEPT ![r] = @ + 1]
      BY <3>1 DEF RedisRestart, reqVars
    <3>3. QED
      BY <2>0, <3>2
  <2>3. CASE UNCHANGED <<readEpoch, restarts>>
    BY <2>0, <2>3
  <2>4. QED
    BY <2>1, <2>2, <2>3
       DEF Next, Gateway, Message, Reconcile, Store, Start, Count, CountReplyLost, SkipCheck,
           Publish, Receive, Apply, ApplyFails, Lose, AddPartition, Heal, ReconcileScan,
           ReconcileRead, ReconcilePublish, SyncRestart, CloseWindow, Expire, vars, reqVars,
           clockVars
<1>3. QED
  BY <1>1, <1>2, TypeCorrect, PTL DEF Spec

\* Only a restart can come between a count and its sum.
LEMMA NoneStraddling ==
  ASSUME IInv, ReadsPast, restarts = EmptyHash, NEW g
  PROVE  Passed(g) = AdmittedAnywhere(g)
<1>1. \A q \in Req : Home[q] \in Region /\ epoch[q] \in Nat /\ readEpoch[q] \in Nat
  BY HomeAssumption DEF IInv, TypeOK
<1>2. \A q \in Req : restarts[Home[q]] = 0
  BY <1>1 DEF EmptyHash
<1>3. \A q \in Req : epoch[q] <= restarts[Home[q]] /\ readEpoch[q] <= restarts[Home[q]]
  BY DEF IInv, TicketTaken, ReadsPast
<1>4. \A q \in Req : readEpoch[q] = epoch[q]
  BY <1>1, <1>2, <1>3
<1>5. QED
  BY <1>1, <1>4 DEF Passed, AdmittedAnywhere, Admitted

\* Three finite sets have together no more members than one after the other.
LEMMA CardinalityOfThree ==
  ASSUME NEW A, NEW B, NEW C, IsFiniteSet(A), IsFiniteSet(B), IsFiniteSet(C)
  PROVE  Cardinality(A \cup B \cup C) <= Cardinality(A) + Cardinality(B) + Cardinality(C)
<1>1. /\ IsFiniteSet(A \cup B) /\ IsFiniteSet(A \cap B)
      /\ Cardinality(A \cup B) = Cardinality(A) + Cardinality(B) - Cardinality(A \cap B)
  BY FS_Union, FS_Intersection
<1>2. /\ IsFiniteSet(A \cup B \cup C) /\ IsFiniteSet((A \cup B) \cap C)
      /\ Cardinality(A \cup B \cup C)
           = Cardinality(A \cup B) + Cardinality(C) - Cardinality((A \cup B) \cap C)
  BY <1>1, FS_Union, FS_Intersection
<1>3. /\ Cardinality(A) \in Nat /\ Cardinality(B) \in Nat /\ Cardinality(C) \in Nat
      /\ Cardinality(A \cap B) \in Nat /\ Cardinality((A \cup B) \cap C) \in Nat
  BY <1>1, <1>2, FS_CardinalityType
<1>4. QED
  BY <1>1, <1>2, <1>3

\* What a user can overshoot the global cap by while the regions are cut off from
\* each other (sync-design.md:170) has a bound that no length of the partition
\* changes.  As long as no Redis has restarted, all that pass the global check, in
\* all regions together, are at most three times the limit.  After restarts this
\* is a limit more for each, and it is about those that counted and read in one
\* life of their Redis.
THEOREM OvershootIsBounded ==
  Spec => [](\A g \in GlobalLimits :
               /\ restarts = EmptyHash =>
                    IsFiniteSet(Passed(g)) /\ Cardinality(Passed(g)) <= 3 * g
               /\ /\ IsFiniteSet(Passed(g) \ Straddling)
                  /\ Cardinality(Passed(g) \ Straddling) <= g * (3 + Total(restarts)))
<1> DEFINE Bounded(g) == /\ IsFiniteSet(AdmittedAnywhere(g))
                         /\ Cardinality(AdmittedAnywhere(g)) <= g * (3 + Total(restarts))
<1>1. ASSUME IInv, NEW g \in GlobalLimits PROVE Bounded(g)
  <2> DEFINE A == Admitted("us", g)
             B == Admitted("eu", g)
             C == Admitted("asia", g)
  <2>0. /\ "us" \in Region /\ "eu" \in Region /\ "asia" \in Region
        /\ Region = {"us", "eu", "asia"}
    BY DEF Region
  <2>1. /\ restarts["us"] \in Nat /\ restarts["eu"] \in Nat /\ restarts["asia"] \in Nat
        /\ g \in Nat
    BY <1>1, <2>0, LimitAssumption DEF IInv, TypeOK, Hash
  <2>2. /\ IsFiniteSet(A) /\ Cardinality(A) <= g * (1 + restarts["us"])
        /\ IsFiniteSet(B) /\ Cardinality(B) <= g * (1 + restarts["eu"])
        /\ IsFiniteSet(C) /\ Cardinality(C) <= g * (1 + restarts["asia"])
    BY <1>1, <2>0, AdmittedNumbered
  <2>3. AdmittedAnywhere(g) = A \cup B \cup C
    BY <2>0 DEF AdmittedAnywhere
  <2> HIDE DEF A, B, C
  <2>4. /\ IsFiniteSet(A \cup B \cup C)
        /\ Cardinality(A \cup B \cup C) <= Cardinality(A) + Cardinality(B) + Cardinality(C)
    BY <2>2, FS_Union, CardinalityOfThree
  <2>5. /\ Cardinality(A) \in Nat /\ Cardinality(B) \in Nat /\ Cardinality(C) \in Nat
        /\ Cardinality(A \cup B \cup C) \in Nat
    BY <2>2, <2>4, FS_CardinalityType
  <2>6. g * (1 + restarts["us"]) + g * (1 + restarts["eu"]) + g * (1 + restarts["asia"])
          = g * (3 + Total(restarts))
    BY <2>1 DEF Total
  <2>7. /\ g * (1 + restarts["us"]) \in Nat /\ g * (1 + restarts["eu"]) \in Nat
        /\ g * (1 + restarts["asia"]) \in Nat
    BY <2>1
  <2>8. QED
    BY <2>2, <2>3, <2>4, <2>5, <2>6, <2>7
<1> DEFINE Cap == \A g \in GlobalLimits :
                    /\ restarts = EmptyHash =>
                         IsFiniteSet(Passed(g)) /\ Cardinality(Passed(g)) <= 3 * g
                    /\ /\ IsFiniteSet(Passed(g) \ Straddling)
                       /\ Cardinality(Passed(g) \ Straddling) <= g * (3 + Total(restarts))
<1>2. IInv /\ ReadsPast => Cap
  <2> SUFFICES ASSUME IInv, ReadsPast, NEW g \in GlobalLimits
               PROVE  /\ restarts = EmptyHash =>
                           IsFiniteSet(Passed(g)) /\ Cardinality(Passed(g)) <= 3 * g
                      /\ /\ IsFiniteSet(Passed(g) \ Straddling)
                         /\ Cardinality(Passed(g) \ Straddling) <= g * (3 + Total(restarts))
    OBVIOUS
  <2>1. Bounded(g)
    BY <1>1
  <2>2. Passed(g) \ Straddling = AdmittedAnywhere(g)
    BY HomeAssumption DEF Passed, Straddling, AdmittedAnywhere, Admitted
  <2>3. restarts = EmptyHash => Passed(g) = AdmittedAnywhere(g) /\ g * (3 + Total(restarts)) = 3 * g
    <3>1. restarts = EmptyHash => Total(restarts) = 0
      BY DEF EmptyHash, Total, Region
    <3>2. g \in Nat
      BY LimitAssumption
    <3>3. restarts = EmptyHash => g * (3 + Total(restarts)) = 3 * g
      BY <3>1, <3>2
    <3>4. QED
      BY <3>3, NoneStraddling
  <2>4. QED
    BY <2>1, <2>2, <2>3
<1> HIDE DEF Cap
<1>3. Spec => []Cap
  BY <1>2, Invariance, ReadsPastInvariant, PTL
<1>4. QED
  BY <1>3 DEF Cap

-----------------------------------------------------------------------------
(* Partitions.                                                             *)

\* What a step can do to the knowledge r has of f: only merging a message
\* already taken raises it, and only taking one while f is not cut starts that.
LEMMA PartitionStep ==
  ASSUME IInv, [Next]_vars, NEW f \in Region, NEW r \in Region, f \in cut[r],
         \A m \in applying : m.src # f \/ m.dst # r
  PROVE  /\ slot'[r][f] <= slot[r][f]
         /\ \A m \in applying' : m.src # f \/ m.dst # r
<1>0. /\ f # r /\ slot[r][f] \in Nat
      /\ \A n \in Region : slot[n] \in [Region -> Nat]
  BY PeersAssumption DEF IInv, OnlySubscribed, TypeOK, Hash
<1>1. CASE UNCHANGED slot /\ applying' \subseteq applying
  BY <1>0, <1>1
<1>2. CASE \E q \in Req : Gateway(q)
  <2> PICK q \in Req : Gateway(q)
    BY <1>2
  <2>1. CASE UNCHANGED <<slot, applying>>
    BY <1>1, <2>1
  <2>2. CASE Increment(Home[q]) /\ UNCHANGED applying
    BY <1>0, <2>2, HomeAssumption DEF Increment, IInv, TypeOK
  <2>3. QED
    BY <2>1, <2>2 DEF Gateway, Start, Count, CountReplyLost, SkipCheck, Publish,
                      Decide, syncVars
<1>3. CASE \E m \in wire \cup applying : Message(m)
  <2> PICK m \in wire \cup applying : Message(m)
    BY <1>3
  <2>1. CASE Apply(m)
    <3>1. m.src # f \/ m.dst # r
      BY <2>1 DEF Apply
    <3>2. m.src \in Region /\ m.dst \in Region
      BY DEF IInv, TypeOK, Msg
    <3>3. slot'[r][f] = slot[r][f]
      BY <1>0, <2>1, <3>1, <3>2 DEF Apply, IInv, TypeOK
    <3>4. QED
      BY <1>0, <2>1, <3>3 DEF Apply
  <2>2. CASE Receive(m)
    BY <1>0, <2>2 DEF Receive
  <2>3. CASE ApplyFails(m) \/ Lose(m)
    BY <1>1, <2>3 DEF ApplyFails, Lose, syncVars
  <2>4. QED
    BY <2>1, <2>2, <2>3 DEF Message
<1>4. CASE \E g, n \in Region : AddPartition(g, n) \/ Heal(g, n)
  BY <1>1, <1>4 DEF AddPartition, Heal
<1>5. CASE \E n \in Region : Reconcile(n) \/ SyncRestart(n)
  BY <1>1, <1>5 DEF Reconcile, ReconcileScan, ReconcileRead, ReconcilePublish,
                    SyncRestart
<1>6. CASE \E n \in Region : Store(n)
  <2> PICK n \in Region : RedisRestart(n) \/ Expire(n)
    BY <1>6 DEF Store
  <2>1. slot' = [slot EXCEPT ![n] = EmptyHash] /\ UNCHANGED applying
    BY DEF RedisRestart, Expire, syncVars
  <2>2. QED
    BY <1>0, <2>1 DEF IInv, TypeOK, EmptyHash
<1>7. CASE CloseWindow \/ UNCHANGED vars
  BY <1>1, <1>7 DEF CloseWindow, vars, syncVars
<1>8. QED
  BY <1>2, <1>3, <1>4, <1>5, <1>6, <1>7 DEF Next

\* While a partition is in force, at most the message already being merged
\* gets through.
THEOREM PartitionsHold == Spec => PartitionHolds
<1>1. IInv /\ [Next]_vars =>
        [\A f, r \in Region :
           /\ f \in cut[r]
           /\ \A m \in applying : m.src # f \/ m.dst # r
           => /\ slot'[r][f] <= slot[r][f]
              /\ \A m \in applying' : m.src # f \/ m.dst # r]_vars
  BY PartitionStep
<1>2. QED
  BY <1>1, Invariance, PTL DEF Spec, PartitionHolds

-----------------------------------------------------------------------------
(* Refinement of GlobalQuota.                                              *)

\* Both specifications mean the same regions, hashes and sums.
LEMMA SameRegions == /\ Quota!Region = Region /\ Quota!EmptyHash = EmptyHash
                     /\ \A h : Quota!Total(h) = Total(h)
  BY DEF Quota!Region, Region, Quota!EmptyHash, EmptyHash, Quota!Total, Total

\* The initial states map to initial states.
LEMMA QuotaInit == Init => Quota!Init
  BY SameRegions DEF Init, Quota!Init

\* A gateway step is a charge, a decision, a fail-open or no step at all.
LEMMA QuotaGateway ==
  ASSUME IInv, NEW q \in Req, Gateway(q)
  PROVE  [Quota!Next]_(Quota!vars)
<1> DEFINE Verdict(p) == IF pc[p] \in {"allowed", "denied", "unchecked"} THEN pc[p] ELSE "none"
<1> USE DEF clockVars, syncVars, reqVars
<1>0. TypeOK /\ Home[q] \in Region
  BY HomeAssumption DEF IInv
<1>1. CASE Start(q) \/ Publish(q)
  <2>1. \A p \in Req : Verdict(p)' = Verdict(p)
    BY <1>0, <1>1 DEF Start, Publish, TypeOK
  <2>2. UNCHANGED <<charged, slot, val>>
    BY <1>1 DEF Start, Publish
  <2>3. QED
    BY <2>1, <2>2 DEF Quota!vars
<1>2. CASE Count(q)
  <2>1. \A p \in Req : Verdict(p)' = Verdict(p)
    BY <1>0, <1>2 DEF Count, TypeOK
  <2>2. Quota!ChargeTo(Home[q])
    BY <1>2 DEF Count, Increment, Quota!ChargeTo
  <2>3. Verdict(q) = "none" /\ val[q] = 0
    BY <1>2 DEF Count, IInv, TicketTaken
  <2>4. Quota!Charge(q)
    BY <1>2, <2>1, <2>2, <2>3 DEF Count, Quota!Charge
  <2>5. QED
    BY <2>4 DEF Quota!Next
<1>3. CASE CountReplyLost(q)
  <2>1. Quota!ChargeUnseen(Home[q])
    BY <1>3 DEF CountReplyLost, Increment, Quota!ChargeUnseen, Quota!ChargeTo
  <2>2. QED
    BY <1>0, <2>1, SameRegions DEF Quota!Next
<1>4. CASE SkipCheck(q)
  <2>1. Verdict(q) = "none" /\ pc'[q] = "unchecked"
    BY <1>0, <1>4 DEF SkipCheck, TypeOK
  <2>2. \A p \in Req \ {q} : Verdict(p)' = Verdict(p)
    BY <1>0, <1>4 DEF SkipCheck, TypeOK
  <2>3. Quota!FailOpen(q)
    BY <1>4, <2>1, <2>2 DEF SkipCheck, Quota!FailOpen
  <2>4. QED
    BY <2>3 DEF Quota!Next
<1>5. CASE Decide(q)
  <2>1. /\ Verdict(q) = "none" /\ val[q] > 0 /\ lim[q] \in GlobalLimits
        /\ UNCHANGED <<charged, slot, val>>
    BY <1>5 DEF Decide, IInv, TicketTaken, LimitRead
  <2>2. Verdict(q)' = IF Total(slot[Home[q]]) > lim[q] THEN "denied" ELSE "allowed"
    BY <1>0, <1>5 DEF Decide, OverLimit, TypeOK
  <2>3. \A p \in Req \ {q} : Verdict(p)' = Verdict(p)
    BY <1>0, <1>5 DEF Decide, TypeOK
  <2>4. Quota!Decide(q)
    BY <2>1, <2>2, <2>3, SameRegions DEF Quota!Decide
  <2>5. QED
    BY <2>4 DEF Quota!Next
<1>6. QED
  BY <1>1, <1>2, <1>3, <1>4, <1>5 DEF Gateway

\* Outside the gateways a region learns, forgets, or nothing visible happens.
LEMMA QuotaOutside ==
  ASSUME IInv,
         \/ \E m \in wire \cup applying : Message(m)
         \/ \E f, r \in Region : AddPartition(f, r) \/ Heal(f, r)
         \/ \E r \in Region : Reconcile(r) \/ SyncRestart(r) \/ Store(r)
         \/ CloseWindow
         \/ UNCHANGED vars
  PROVE  [Quota!Next]_(Quota!vars)
<1> USE DEF clockVars, syncVars, reqVars
<1>1. CASE UNCHANGED <<charged, slot, val, pc>>
  BY <1>1 DEF Quota!vars
<1>2. CASE \E m \in wire \cup applying : Apply(m)
  <2> PICK m \in wire \cup applying : Apply(m)
    BY <1>2
  <2>0. /\ m.src \in Region /\ m.dst \in Region /\ m.val \in Nat /\ m.src # m.dst
        /\ m.val <= charged[m.src]
    BY PeersAssumption DEF IInv, TypeOK, Msg, OnlySubscribed, CarriedNeverAhead
  <2>1. /\ slot' = [slot EXCEPT ![m.dst][m.src] = MergeSlot(@, m.val)]
        /\ UNCHANGED <<charged, val, pc>>
    BY DEF Apply
  <2>2. slot[m.dst][m.src] \in Nat /\ charged[m.src] \in Nat
    BY <2>0 DEF IInv, TypeOK, Hash
  <2>3. CASE m.val > slot[m.dst][m.src]
    <3>1. m.val \in (slot[m.dst][m.src] + 1) .. charged[m.src]
      BY <2>0, <2>2, <2>3
    <3>2. slot' = [slot EXCEPT ![m.dst][m.src] = m.val]
      BY <2>1, <2>3 DEF MergeSlot
    <3>3. Quota!Learn(m.dst)
      BY <2>0, <2>1, <3>1, <3>2, SameRegions DEF Quota!Learn
    <3>4. QED
      BY <2>0, <3>3, SameRegions DEF Quota!Next
  <2>4. CASE ~(m.val > slot[m.dst][m.src])
    <3>1. slot' = slot
      BY <2>0, <2>1, <2>4 DEF MergeSlot, IInv, TypeOK, Hash
    <3>2. QED
      BY <1>1, <2>1, <3>1
  <2>5. QED
    BY <2>3, <2>4
<1>3. CASE \E r \in Region : Store(r)
  <2> PICK r \in Region : RedisRestart(r) \/ Expire(r)
    BY <1>3 DEF Store
  <2>1. Quota!Forget(r)
    BY SameRegions DEF RedisRestart, Expire, Quota!Forget
  <2>2. QED
    BY <2>1, SameRegions DEF Quota!Next
<1>4. CASE \E m \in wire \cup applying : Receive(m) \/ ApplyFails(m) \/ Lose(m)
  BY <1>1, <1>4 DEF Receive, ApplyFails, Lose
<1>5. CASE \E f, r \in Region : AddPartition(f, r) \/ Heal(f, r)
  BY <1>1, <1>5 DEF AddPartition, Heal
<1>6. CASE \E r \in Region : Reconcile(r) \/ SyncRestart(r)
  BY <1>1, <1>6 DEF Reconcile, ReconcileScan, ReconcileRead, ReconcilePublish,
                    SyncRestart
<1>7. CASE CloseWindow \/ UNCHANGED vars
  BY <1>1, <1>7 DEF CloseWindow, vars
<1>8. QED
  BY <1>2, <1>3, <1>4, <1>5, <1>6, <1>7 DEF Message

\* Messages, subscribers, partitions, restarts and reconciliation together keep
\* what GlobalQuota promises of the replicated counter.
THEOREM Refinement == Spec => ImplementsQuota
<1>1. IInv /\ [Next]_vars => [Quota!Next]_(Quota!vars)
  BY QuotaGateway, QuotaOutside DEF Next
<1>2. QED
  BY <1>1, QuotaInit, Invariance, PTL DEF Spec, Quota!Spec, ImplementsQuota

-----------------------------------------------------------------------------
(* Slots only grow.                                                        *)

\* A step that lowers a slot empties the whole hash of that region.
LEMMA SlotStep ==
  ASSUME TypeOK, [Next]_vars, NEW r \in Region, NEW q \in Region,
         slot'[r][q] < slot[r][q]
  PROVE  /\ slot'[r] = EmptyHash
         /\ restarts'[r] > restarts[r] \/ ~Live(r)
<1>0. \A n, f \in Region : slot[n][f] \in Nat /\ restarts[n] \in Nat
  BY DEF TypeOK, Hash
<1>1. CASE UNCHANGED slot
  BY <1>0, <1>1
<1>2. CASE \E p \in Req : Gateway(p)
  <2> PICK p \in Req : Gateway(p)
    BY <1>2
  <2>1. CASE Increment(Home[p])
    <3>1. slot' = [slot EXCEPT ![Home[p]][Home[p]] = @ + 1] /\ Home[p] \in Region
      BY <2>1, HomeAssumption DEF Increment
    <3>2. slot[r][q] <= slot'[r][q]
      BY <1>0, <3>1 DEF TypeOK, Hash
    <3>3. QED
      BY <1>0, <3>1, <3>2 DEF TypeOK, Hash
  <2>2. CASE ~Increment(Home[p])
    BY <1>1, <2>2 DEF Gateway, Start, Count, CountReplyLost, SkipCheck, Publish, Decide
  <2>3. QED
    BY <2>1, <2>2
<1>3. CASE \E m \in wire \cup applying : Message(m)
  <2> PICK m \in wire \cup applying : Message(m)
    BY <1>3
  <2>1. CASE Apply(m)
    <3>0. m.src \in Region /\ m.dst \in Region /\ m.val \in Nat
      BY DEF TypeOK, Msg
    <3>1. /\ MergeSlot(slot[m.dst][m.src], m.val) \in Nat
          /\ MergeSlot(slot[m.dst][m.src], m.val) >= slot[m.dst][m.src]
      BY <1>0, <3>0, MergeIsMaximum
    <3>2. slot' = [slot EXCEPT ![m.dst][m.src] = MergeSlot(@, m.val)]
      BY <2>1 DEF Apply
    <3>3. slot'[r][q] >= slot[r][q] /\ slot'[r][q] \in Nat
      BY <1>0, <3>0, <3>1, <3>2 DEF TypeOK, Hash
    <3>4. QED
      BY <1>0, <3>3
  <2>2. CASE Receive(m) \/ ApplyFails(m) \/ Lose(m)
    BY <1>1, <2>2 DEF Receive, ApplyFails, Lose
  <2>3. QED
    BY <2>1, <2>2 DEF Message
<1>4. CASE \E n \in Region : RedisRestart(n)
  <2> PICK n \in Region : RedisRestart(n)
    BY <1>4
  <2>1. /\ slot' = [slot EXCEPT ![n] = EmptyHash]
        /\ restarts' = [restarts EXCEPT ![n] = @ + 1]
    BY DEF RedisRestart
  <2>2. r = n
    BY <1>0, <2>1 DEF TypeOK
  <2>3. slot'[r] = EmptyHash /\ restarts'[r] = restarts[r] + 1
    BY <2>1, <2>2 DEF TypeOK, Hash
  <2>4. QED
    BY <1>0, <2>3
<1>5. CASE \E n \in Region : Expire(n)
  <2> PICK n \in Region : Expire(n)
    BY <1>5
  <2>1. slot' = [slot EXCEPT ![n] = EmptyHash] /\ ~Live(n)
    BY DEF Expire
  <2>2. r = n
    BY <1>0, <2>1 DEF TypeOK
  <2>3. QED
    BY <2>1, <2>2 DEF TypeOK
<1>6. CASE \E f, n \in Region : AddPartition(f, n) \/ Heal(f, n)
  BY <1>1, <1>6 DEF AddPartition, Heal
<1>7. CASE \E n \in Region : Reconcile(n) \/ SyncRestart(n)
  BY <1>1, <1>7 DEF Reconcile, ReconcileScan, ReconcileRead, ReconcilePublish,
                    SyncRestart
<1>8. CASE CloseWindow \/ UNCHANGED vars
  BY <1>1, <1>8 DEF CloseWindow, vars
<1>9. QED
  BY <1>2, <1>3, <1>4, <1>5, <1>6, <1>7, <1>8 DEF Next, Store

\* No message ever lowers what a region knows.
THEOREM KnowledgeGrows == Spec => SlotsGrow
<1>1. TypeOK /\ [Next]_vars =>
        [\A r, q \in Region :
           slot'[r][q] < slot[r][q] => /\ slot'[r] = EmptyHash
                                       /\ restarts'[r] > restarts[r] \/ ~Live(r)]_vars
  BY SlotStep
<1>2. QED
  BY <1>1, TypeCorrect, PTL DEF Spec, SlotsGrow

-----------------------------------------------------------------------------
(* When the replicas agree.                                                *)

\* A message is gone, and the region it was for knows less than it said.
NewsLost == \E m \in wire \cup applying :
              m \notin (wire \cup applying)' /\ slot'[m.dst][m.src] < m.val

\* A region knows less than before.
KnowledgeLost == \E r, f \in Region : slot'[r][f] < slot[r][f]

\* What can keep replicas apart: lost news, lost hashes, and a count nobody was
\* told of.
Mishap == NewsLost \/ KnowledgeLost \/ lost' # lost

\* Nothing is on its way: whoever counted has published, every message is merged.
Quiescent == wire = {} /\ applying = {} /\ \A q \in Req : pc[q] # "counted"

\* Every region knows what those it listens to counted; if it listens to all, its
\* hash is the truth, and so the same as that of every other such region.
Agreed == \A r \in Region : /\ \A f \in Peers[r] \cup {r} : slot[r][f] = charged[f]
                            /\ Peers[r] = Region \ {r} => slot[r] = charged

\* A region's own slot is its count, and what it counted last is known to r, on
\* the way there, or about to be published.
Known(r, f) == \/ slot[f][f] <= slot[r][f]
               \/ \E m \in wire \cup applying :
                    m.src = f /\ m.dst = r /\ slot[f][f] <= m.val
               \/ \E q \in Req : Home[q] = f /\ pc[q] = "counted" /\ slot[f][f] <= val[q]

Tracked == /\ \A f \in Region : slot[f][f] = charged[f]
           /\ \A r \in Region : \A f \in Peers[r] : Known(r, f)

\* Without a mishap the own slot follows the count, and whoever raised it is
\* about to publish it.
LEMMA OwnSlotStep ==
  ASSUME IInv, [Next]_vars, ~Mishap, NEW f \in Region
  PROVE  \/ slot'[f][f] = slot[f][f] /\ charged'[f] = charged[f]
         \/ /\ slot'[f][f] = slot[f][f] + 1 /\ charged'[f] = charged[f] + 1
            /\ \E q \in Req : Home[q] = f /\ pc'[q] = "counted" /\ val'[q] = slot'[f][f]
<1>0. /\ \A n, g \in Region : slot[n][g] \in Nat
      /\ slot \in [Region -> [Region -> Nat]] /\ charged \in [Region -> Nat]
      /\ pc \in [Req -> Pc] /\ val \in [Req -> Nat] /\ lost \in Nat
  BY DEF IInv, TypeOK, Hash
<1>1. CASE UNCHANGED <<slot, charged>>
  BY <1>1
<1>2. CASE \E q \in Req : Gateway(q)
  <2> PICK q \in Req : Gateway(q)
    BY <1>2
  <2>0. Home[q] \in Region
    BY HomeAssumption
  <2>1. CASE Count(q)
    <3>1. /\ slot' = [slot EXCEPT ![Home[q]][Home[q]] = @ + 1]
          /\ charged' = [charged EXCEPT ![Home[q]] = @ + 1]
          /\ pc' = [pc EXCEPT ![q] = "counted"]
          /\ val' = [val EXCEPT ![q] = slot[Home[q]][Home[q]] + 1]
      BY <2>1 DEF Count, Increment
    <3>2. CASE Home[q] = f
      BY <1>0, <2>0, <3>1, <3>2
    <3>3. CASE Home[q] # f
      BY <1>0, <2>0, <3>1, <3>3
    <3>4. QED
      BY <3>2, <3>3
  <2>2. CASE CountReplyLost(q)
    <3>1. lost' = lost + 1
      BY <2>2 DEF CountReplyLost
    <3>2. QED
      BY <1>0, <3>1 DEF Mishap
  <2>3. CASE Start(q) \/ SkipCheck(q) \/ Publish(q) \/ Decide(q)
    BY <1>1, <2>3 DEF Start, SkipCheck, Publish, Decide
  <2>4. QED
    BY <2>1, <2>2, <2>3 DEF Gateway
<1>3. CASE \E m \in wire \cup applying : Message(m)
  <2> PICK m \in wire \cup applying : Message(m)
    BY <1>3
  <2>1. CASE Apply(m)
    <3>1. m.src \in Region /\ m.dst \in Region /\ m.src # m.dst
      BY PeersAssumption DEF IInv, TypeOK, Msg, OnlySubscribed
    <3>2. /\ slot' = [slot EXCEPT ![m.dst][m.src] = MergeSlot(@, m.val)]
          /\ charged' = charged
      BY <2>1 DEF Apply
    <3>3. slot'[f][f] = slot[f][f]
      BY <1>0, <3>1, <3>2
    <3>4. QED
      BY <3>2, <3>3
  <2>2. CASE Receive(m) \/ ApplyFails(m) \/ Lose(m)
    BY <1>1, <2>2 DEF Receive, ApplyFails, Lose
  <2>3. QED
    BY <2>1, <2>2 DEF Message
<1>4. CASE \E n \in Region : Store(n)
  <2> PICK n \in Region : RedisRestart(n) \/ Expire(n)
    BY <1>4 DEF Store
  <2>1. slot' = [slot EXCEPT ![n] = EmptyHash] /\ charged' = charged
    BY DEF RedisRestart, Expire
  <2>2. ~(slot'[f][f] < slot[f][f])
    BY DEF Mishap, KnowledgeLost
  <2>3. slot'[f][f] = slot[f][f] \/ slot'[f][f] = 0
    BY <1>0, <2>1 DEF EmptyHash
  <2>4. slot'[f][f] = slot[f][f]
    BY <1>0, <2>2, <2>3
  <2>5. QED
    BY <2>1, <2>4
<1>5. CASE \E g, n \in Region : AddPartition(g, n) \/ Heal(g, n)
  BY <1>1, <1>5 DEF AddPartition, Heal
<1>6. CASE \E n \in Region : Reconcile(n) \/ SyncRestart(n)
  BY <1>1, <1>6 DEF Reconcile, ReconcileScan, ReconcileRead, ReconcilePublish,
                    SyncRestart
<1>7. CASE CloseWindow \/ UNCHANGED vars
  BY <1>1, <1>7 DEF CloseWindow, vars
<1>8. QED
  BY <1>2, <1>3, <1>4, <1>5, <1>6, <1>7 DEF Next

\* A request that has counted keeps its number until it publishes it.
LEMMA CountedStep ==
  ASSUME IInv, [Next]_vars, NEW q \in Req, pc[q] = "counted"
  PROVE  Publish(q) \/ (pc'[q] = "counted" /\ val'[q] = val[q])
<1>0. pc \in [Req -> Pc] /\ val \in [Req -> Nat]
  BY DEF IInv, TypeOK
<1>1. CASE UNCHANGED <<pc, val>>
  BY <1>1
<1>2. CASE \E p \in Req : Gateway(p)
  <2> PICK p \in Req : Gateway(p)
    BY <1>2
  <2>1. CASE p = q
    BY <1>1, <2>1 DEF Gateway, Start, Count, CountReplyLost, SkipCheck, Decide, reqVars
  <2>2. CASE p # q
    BY <1>0, <2>2 DEF Gateway, Start, Count, CountReplyLost, SkipCheck, Publish, Decide, reqVars
  <2>3. QED
    BY <2>1, <2>2
<1>3. CASE \E m \in wire \cup applying : Message(m)
  BY <1>1, <1>3 DEF Message, Receive, Apply, ApplyFails, Lose, reqVars
<1>4. CASE \E f, r \in Region : AddPartition(f, r) \/ Heal(f, r)
  BY <1>1, <1>4 DEF AddPartition, Heal, reqVars
<1>5. CASE \E r \in Region : Reconcile(r) \/ SyncRestart(r) \/ Store(r)
  BY <1>1, <1>5 DEF Reconcile, ReconcileScan, ReconcileRead, ReconcilePublish,
                    SyncRestart, Store, RedisRestart, Expire, reqVars
<1>6. CASE CloseWindow \/ UNCHANGED vars
  BY <1>1, <1>6 DEF CloseWindow, vars, reqVars
<1>7. QED
  BY <1>2, <1>3, <1>4, <1>5, <1>6 DEF Next

\* What r knows of f, or is about to learn, stays so.
LEMMA KnownStep ==
  ASSUME IInv, IInv', [Next]_vars, ~Mishap, NEW r \in Region, NEW f \in Peers[r], Known(r, f)
  PROVE  Known(r, f)'
<1>0. /\ f \in Region
      /\ \A n, g \in Region : slot[n][g] \in Nat /\ slot'[n][g] \in Nat
      /\ \A m \in wire \cup applying : m.val \in Nat
  BY PeersAssumption DEF IInv, TypeOK, Hash, Msg
<1>1. CASE \E q \in Req : Home[q] = f /\ pc'[q] = "counted" /\ val'[q] = slot'[f][f]
  BY <1>0, <1>1 DEF Known
<1>2. CASE slot'[f][f] = slot[f][f]
  <2>1. CASE slot[f][f] <= slot[r][f]
    <3>1. ~(slot'[r][f] < slot[r][f])
      BY <1>0 DEF Mishap, KnowledgeLost
    <3>2. slot'[f][f] <= slot'[r][f]
      BY <1>0, <1>2, <2>1, <3>1
    <3>3. QED
      BY <3>2 DEF Known
  <2>2. CASE \E m \in wire \cup applying : m.src = f /\ m.dst = r /\ slot[f][f] <= m.val
    <3> PICK m \in wire \cup applying : m.src = f /\ m.dst = r /\ slot[f][f] <= m.val
      BY <2>2
    <3>1. CASE m \in (wire \cup applying)'
      BY <1>2, <3>1 DEF Known
    <3>2. CASE m \notin (wire \cup applying)'
      <4>1. ~(slot'[r][f] < m.val)
        BY <3>2 DEF Mishap, NewsLost
      <4>2. slot'[f][f] <= slot'[r][f]
        BY <1>0, <1>2, <4>1
      <4>3. QED
        BY <4>2 DEF Known
    <3>3. QED
      BY <3>1, <3>2
  <2>3. CASE \E q \in Req : Home[q] = f /\ pc[q] = "counted" /\ slot[f][f] <= val[q]
    <3> PICK q \in Req : Home[q] = f /\ pc[q] = "counted" /\ slot[f][f] <= val[q]
      BY <2>3
    <3>1. CASE Publish(q)
      <4> DEFINE m == [src |-> f, dst |-> r, val |-> val[q]]
      <4>1. m \in Copies(f, val[q])
        BY <1>0 DEF Copies
      <4>2. m \in wire'
        BY <3>1, <4>1 DEF Publish
      <4>3. m.src = f /\ m.dst = r /\ slot'[f][f] <= m.val
        BY <1>2
      <4> HIDE DEF m
      <4>4. QED
        BY <4>2, <4>3 DEF Known
    <3>2. CASE pc'[q] = "counted" /\ val'[q] = val[q]
      BY <1>2, <3>2 DEF Known
    <3>3. QED
      BY <3>1, <3>2, CountedStep
  <2>4. QED
    BY <2>1, <2>2, <2>3 DEF Known
<1>3. QED
  BY <1>0, <1>1, <1>2, OwnSlotStep

\* At rest, what is known is all there is.
LEMMA TrackedAgreed == IInv /\ Tracked /\ Quiescent => Agreed
<1> SUFFICES ASSUME IInv, Tracked, Quiescent, NEW r \in Region
             PROVE  /\ \A f \in Peers[r] \cup {r} : slot[r][f] = charged[f]
                    /\ Peers[r] = Region \ {r} => slot[r] = charged
  BY DEF Agreed
<1>0. /\ \A f \in Region : slot[r][f] \in Nat /\ charged[f] \in Nat /\ slot[r][f] <= charged[f]
      /\ slot[r] \in [Region -> Nat] /\ charged \in [Region -> Nat]
      /\ Peers[r] \subseteq Region
  BY PeersAssumption DEF IInv, TypeOK, Hash, NeverAhead
<1>1. ASSUME NEW f \in Peers[r] PROVE slot[r][f] = charged[f]
  <2>1. slot[f][f] <= slot[r][f] /\ slot[f][f] = charged[f]
    BY <1>0 DEF Tracked, Known, Quiescent
  <2>2. QED
    BY <1>0, <2>1
<1>2. slot[r][r] = charged[r]
  BY DEF Tracked
<1>3. ASSUME Peers[r] = Region \ {r} PROVE slot[r] = charged
  <2>1. \A f \in Region : slot[r][f] = charged[f]
    BY <1>1, <1>2, <1>3
  <2>2. QED
    BY <1>0, <2>1
<1>4. QED
  BY <1>1, <1>2, <1>3

\* The replicas hold identical state once all updates have been delivered
\* (sync-design.md:141-148): as long as no news, no hash and no reply got lost, whatever
\* was late, repeated, overtaken or held up, and however often services restarted.
\* After a lost hash it need not be so (run sync_redis_loss); what lost news needs is
\* the reconciliation (run sync_converge).
THEOREM ReplicasAgree == Spec /\ [][~Mishap]_vars => [](Quiescent => Agreed)
<1>1. Init => Tracked
  <2> SUFFICES ASSUME Init PROVE Tracked
    OBVIOUS
  <2>1. \A n, f \in Region : slot[n][f] = 0 /\ charged[f] = 0
    BY DEF Init, EmptyHash
  <2>2. QED
    BY <2>1, PeersAssumption DEF Tracked, Known
<1>2. IInv /\ IInv' /\ Tracked /\ [Next]_vars /\ [~Mishap]_vars => Tracked'
  <2> SUFFICES ASSUME IInv, IInv', Tracked, [Next]_vars, [~Mishap]_vars PROVE Tracked'
    OBVIOUS
  <2>1. CASE UNCHANGED vars
    BY <2>1 DEF Tracked, Known, vars
  <2>2. CASE ~Mishap
    <3>1. ASSUME NEW f \in Region PROVE slot'[f][f] = charged'[f]
      BY <2>2, OwnSlotStep DEF Tracked
    <3>2. ASSUME NEW r \in Region, NEW f \in Peers[r] PROVE Known(r, f)'
      BY <2>2, KnownStep DEF Tracked
    <3>3. QED
      BY <3>1, <3>2 DEF Tracked
  <2>3. QED
    BY <2>1, <2>2
<1>3. QED
  BY <1>1, <1>2, TrackedAgreed, Invariance, PTL DEF Spec
=============================================================================
