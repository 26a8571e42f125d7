---------------------------- MODULE GCounterSync ----------------------------
(***************************************************************************)
(* The global quota of one (tier, user, window): the gateways count the    *)
(* requests their local limiter lets through in the own slot of a hash in  *)
(* the region's Redis, publish the new slot value, and decide from the sum *)
(* of the slots; the sync services carry slot values between the regions   *)
(* and merge them by maximum.                                              *)
(*                                                                         *)
(* Keys of different users, tiers and windows never touch each other, so   *)
(* one key is modelled.  The clock appears as the key's phase: "open"      *)
(* while its window is the current one, "closed" afterwards.               *)
(***************************************************************************)
EXTENDS Regions, FiniteSets

CONSTANTS
  Req,             \* the requests for this key that pass the local limiter
  Home,            \* Home[q]: the region whose gateway receives q
  Peers,           \* Peers[r]: the regions r's sync service has an address of
  GlobalLimits,    \* the values of Policy.GlobalLimit a request may find
  MaxRestarts,     \* bound: restarts of a Redis, over all regions
  MaxLostReplies   \* bound: HINCRBYs applied whose reply never arrived

ASSUME HomeAssumption == Home \in [Req -> Region]
ASSUME PeersAssumption == \A r \in Region : Peers[r] \subseteq Region \ {r}
ASSUME LimitAssumption == GlobalLimits \subseteq Nat \ {0}
ASSUME BoundAssumption == MaxRestarts \in Nat /\ MaxLostReplies \in Nat

VARIABLES
  phase,     \* "open" while time.Now().Unix()/60 is the key's window
  slot,      \* slot[r][q]: field q of the hash in r's Redis, 0 when absent
  pc,        \* pc[q]: progress of the handler serving q
  lim,       \* lim[q]: GlobalLimit of the policy q found, 0 before
  val,       \* val[q]: newSlot, what HINCRBY returned for q, 0 before
  wire,      \* published messages not yet read by a subscriber
  applying,  \* messages a subscriber task has read and is merging
  cut,       \* cut[r]: origins f with (f, r) in PARTITIONS of r's sync service
  recon,     \* recon[r]: progress of the reconciliation loop of r
  charged,   \* history: HINCRBYs r's Redis ever applied for this key
  restarts,  \* history: how often r's Redis restarted empty
  epoch,     \* history: restarts q's HINCRBY had seen
  readEpoch, \* history: restarts q's HGETALL had seen
  lost       \* history: replies lost so far

vars == <<phase, slot, pc, lim, val, wire, applying, cut, recon, charged,
          restarts, epoch, readEpoch, lost>>
reqVars == <<pc, lim, val, epoch, readEpoch>>
clockVars == <<phase, restarts, lost>>
syncVars == <<applying, cut, recon>>

\* The fields of syncMessage this key needs: where it comes from, one
\* subscriber it goes to, and the absolute slot value.
Msg == [src : Region, dst : Region, val : Nat]

Pc == {"idle", "started", "counted", "published", "allowed", "denied", "unchecked"}

InFlight(q) == pc[q] \in {"started", "counted", "published"}

Init == /\ phase = "open"
        /\ slot = [r \in Region |-> EmptyHash]
        /\ pc = [q \in Req |-> "idle"]
        /\ lim = [q \in Req |-> 0] /\ val = [q \in Req |-> 0]
        /\ epoch = [q \in Req |-> 0] /\ readEpoch = [q \in Req |-> 0]
        /\ wire = {} /\ applying = {}
        /\ cut = [r \in Region |-> {}]
        /\ recon = [r \in Region |-> [pc |-> "sleep", val |-> 0]]
        /\ charged = EmptyHash
        /\ restarts = EmptyHash
        /\ lost = 0

-----------------------------------------------------------------------------
(* The gateway: the part of check() behind the local limiter.  A gateway   *)
(* that dies is a request that takes no further step.                      *)

\* The copies of one PUBLISH on r's Redis, one for each sync service that
\* subscribes to it.  r's own skips the message, so it gets no copy here.
Copies(r, v) ==
  {[src |-> r, dst |-> d, val |-> v] : d \in {n \in Region : r \in Peers[n]}}

\* Mutants: the cap tested one too late, and one too early.
OverLimitLate(sum, g) == sum > g + 1
OverLimitEarly(sum, g) == sum >= g

\* if sum > pol.GlobalLimit
OverLimit(sum, g) == sum > g

\* The local limiter allowed q; the handler fixes windowID.
Start(q) == /\ phase = "open" /\ pc[q] = "idle"
            /\ pc' = [pc EXCEPT ![q] = "started"]
            /\ \E g \in GlobalLimits : lim' = [lim EXCEPT ![q] = g]
            /\ UNCHANGED <<val, epoch, readEpoch, slot, wire, syncVars, charged, clockVars>>

\* Mutant: HINCRBY of the wrong field.
IncrementElsewhere(r) == /\ slot' = [slot EXCEPT ![r]["asia"] = @ + 1]
                         /\ charged' = [charged EXCEPT ![r] = @ + 1]

\* HINCRBY of the own slot (and EXPIRE).
Increment(r) == /\ slot' = [slot EXCEPT ![r][r] = @ + 1]
                /\ charged' = [charged EXCEPT ![r] = @ + 1]

Count(q) == /\ pc[q] = "started"
            /\ Increment(Home[q])
            /\ pc' = [pc EXCEPT ![q] = "counted"]
            /\ val' = [val EXCEPT ![q] = slot[Home[q]][Home[q]] + 1]
            /\ epoch' = [epoch EXCEPT ![q] = restarts[Home[q]]]
            /\ UNCHANGED <<lim, readEpoch, wire, syncVars, clockVars>>

\* HINCRBY was applied and its reply lost; the Redis client tries again.
CountReplyLost(q) == /\ pc[q] = "started" /\ lost < MaxLostReplies
                     /\ Increment(Home[q])
                     /\ lost' = lost + 1
                     /\ UNCHANGED <<phase, reqVars, wire, syncVars, restarts>>

\* incrErr != nil, or hErr != nil after the count: the global check is
\* skipped and the local limiter's verdict stands.
SkipCheck(q) == /\ pc[q] \in {"started", "published"}
                /\ pc' = [pc EXCEPT ![q] = "unchecked"]
                /\ UNCHANGED <<lim, val, epoch, readEpoch, slot, wire, syncVars, charged, clockVars>>

\* PUBLISH of the value HINCRBY returned; its error is ignored (Lose).
Publish(q) == /\ pc[q] = "counted"
              /\ wire' = wire \cup Copies(Home[q], val[q])
              /\ pc' = [pc EXCEPT ![q] = "published"]
              /\ UNCHANGED <<lim, val, epoch, readEpoch, slot, syncVars, charged, clockVars>>

\* HGETALL, a separate command, and the decision on its sum.
Decide(q) == /\ pc[q] = "published"
             /\ pc' = [pc EXCEPT ![q] =
                  IF OverLimit(Total(slot[Home[q]]), lim[q]) THEN "denied" ELSE "allowed"]
             /\ readEpoch' = [readEpoch EXCEPT ![q] = restarts[Home[q]]]
             /\ UNCHANGED <<lim, val, epoch, slot, wire, syncVars, charged, clockVars>>

-----------------------------------------------------------------------------
(* The sync service: one subscriber task per source, the admin endpoints   *)
(* and the reconciliation loop, interleaved at their awaits.               *)

\* Mutants: the incoming value taken as a delta, and taken as it comes.
MergeSlotDelta(current, incoming) == current + incoming
MergeSlotLast(current, incoming) == incoming

\* merge.lua: the larger of the stored and the incoming value.
MergeSlot(current, incoming) == IF incoming > current THEN incoming ELSE current

\* Mutant: PARTITIONS is not consulted.
ReceiveAlways(m) == /\ m \in wire
                    /\ \A n \in applying : n.src # m.src \/ n.dst # m.dst
                    /\ wire' = wire \ {m}
                    /\ applying' = applying \cup {m}
                    /\ UNCHANGED <<slot, reqVars, cut, recon, charged, clockVars>>

\* A subscriber task takes its next message and consults PARTITIONS.
Receive(m) == /\ m \in wire
              /\ \A n \in applying : n.src # m.src \/ n.dst # m.dst
              /\ wire' = wire \ {m}
              /\ applying' = IF m.src \in cut[m.dst] THEN applying
                                                     ELSE applying \cup {m}
              /\ UNCHANGED <<slot, reqVars, cut, recon, charged, clockVars>>

\* The awaited merge_remote runs on the region's Redis.
Apply(m) == /\ m \in applying
            /\ applying' = applying \ {m}
            /\ slot' = [slot EXCEPT ![m.dst][m.src] = MergeSlot(@, m.val)]
            /\ UNCHANGED <<reqVars, wire, cut, recon, charged, clockVars>>

\* merge_remote raised: logged, and the message is gone.
ApplyFails(m) == /\ m \in applying
                 /\ applying' = applying \ {m}
                 /\ UNCHANGED <<slot, reqVars, wire, cut, recon, charged, clockVars>>

\* Pub/sub is fire and forget: a copy nobody reads is gone.
Lose(m) == /\ m \in wire
           /\ wire' = wire \ {m}
           /\ UNCHANGED <<slot, reqVars, syncVars, charged, clockVars>>

\* POST /admin/partition and /admin/heal on the sync service of r.
\* A pair that names no subscription of r is stored there without effect.
AddPartition(f, r) == /\ f \in Peers[r]
                      /\ cut' = [cut EXCEPT ![r] = @ \cup {f}]
                      /\ UNCHANGED <<slot, reqVars, wire, applying, recon, charged, clockVars>>

Heal(f, r) == /\ f \in cut[r]
              /\ cut' = [cut EXCEPT ![r] = @ \ {f}]
              /\ UNCHANGED <<slot, reqVars, wire, applying, recon, charged, clockVars>>

\* The loop wakes up, computes the current window, and its SCAN meets the key:
\* an existing one, of the current window.
ReconcileScan(r) == /\ recon[r].pc = "sleep" /\ phase = "open"
                    /\ slot[r] # EmptyHash
                    /\ recon' = [recon EXCEPT ![r].pc = "scan"]
                    /\ UNCHANGED <<slot, reqVars, wire, applying, cut, charged, clockVars>>

\* HGET of the own slot; nothing is published for an absent one.
ReconcileRead(r) == /\ recon[r].pc = "scan"
                    /\ recon' = [recon EXCEPT ![r] =
                         IF slot[r][r] = 0 THEN [pc |-> "sleep", val |-> 0]
                                           ELSE [pc |-> "send", val |-> slot[r][r]]]
                    /\ UNCHANGED <<slot, reqVars, wire, applying, cut, charged, clockVars>>

\* Mutant: the loop publishes on a channel nobody listens to.
ReconcileNowhere(r) == /\ recon[r].pc = "send"
                       /\ recon' = [recon EXCEPT ![r] = [pc |-> "sleep", val |-> 0]]
                       /\ UNCHANGED <<slot, reqVars, wire, applying, cut, charged, clockVars>>

\* PUBLISH of the value read.
ReconcilePublish(r) == /\ recon[r].pc = "send"
                       /\ wire' = wire \cup Copies(r, recon[r].val)
                       /\ recon' = [recon EXCEPT ![r] = [pc |-> "sleep", val |-> 0]]
                       /\ UNCHANGED <<slot, reqVars, applying, cut, charged, clockVars>>

\* The process dies (any exception but merge_remote's ends it) and is started
\* again: PARTITIONS is empty and the subscriptions are new.
SyncRestart(r) == /\ cut' = [cut EXCEPT ![r] = {}]
                  /\ applying' = {m \in applying : m.dst # r}
                  /\ wire' = {m \in wire : m.dst # r}
                  /\ recon' = [recon EXCEPT ![r] = [pc |-> "sleep", val |-> 0]]
                  /\ UNCHANGED <<slot, reqVars, charged, clockVars>>

-----------------------------------------------------------------------------
(* Redis and the clock.                                                    *)

\* Redis runs with "appendonly no": a restart loses the hash.
RedisRestart(r) == /\ Total(restarts) < MaxRestarts
                   /\ restarts' = [restarts EXCEPT ![r] = @ + 1]
                   /\ slot' = [slot EXCEPT ![r] = EmptyHash]
                   /\ UNCHANGED <<phase, reqVars, wire, syncVars, charged, lost>>

CloseWindow == /\ phase = "open"
               /\ phase' = "closed"
               /\ UNCHANGED <<slot, reqVars, wire, syncVars, charged, restarts, lost>>

\* Some request may still touch the key in r.
Live(r) == phase = "open" \/ \E q \in Req : Home[q] = r /\ InFlight(q)

\* The TTL of 120 s, renewed by every count, outlives the window of 60 s and
\* the requests started in it.
Expire(r) == /\ ~Live(r)
             /\ slot' = [slot EXCEPT ![r] = EmptyHash]
             /\ UNCHANGED <<reqVars, wire, syncVars, charged, clockVars>>

Gateway(q) == Start(q) \/ Count(q) \/ CountReplyLost(q) \/ SkipCheck(q)
                \/ Publish(q) \/ Decide(q)

Message(m) == Receive(m) \/ Apply(m) \/ ApplyFails(m) \/ Lose(m)

Reconcile(r) == ReconcileScan(r) \/ ReconcileRead(r) \/ ReconcilePublish(r)

Store(r) == RedisRestart(r) \/ Expire(r)

Next == \/ \E q \in Req : Gateway(q)
        \/ \E m \in wire \cup applying : Message(m)
        \/ \E f, r \in Region : AddPartition(f, r) \/ Heal(f, r)
        \/ \E r \in Region : Reconcile(r) \/ SyncRestart(r) \/ Store(r)
        \/ CloseWindow

Spec == Init /\ [][Next]_vars

\* What makes region r learn the slot of region f: a handler that counted
\* publishes, the loop of f comes round, and a link that is used over and over
\* delivers now and then.  Strong fairness where restarts of the services and
\* lost messages may disable the step again and again.
LinkFairness(f, r) ==
  /\ WF_vars(\E q \in Req : Publish(q))
  /\ SF_vars(ReconcileScan(f)) /\ SF_vars(ReconcileRead(f)) /\ SF_vars(ReconcilePublish(f))
  /\ SF_vars(\E m \in wire : m.src = f /\ m.dst = r /\ Receive(m))
  /\ SF_vars(\E m \in applying : m.src = f /\ m.dst = r /\ Apply(m))

-----------------------------------------------------------------------------
(* Properties.                                                             *)

ReconRecord == [pc : {"sleep", "scan", "send"}, val : Nat]

\* Every variable keeps its shape: Redis hashes, handler progress, messages.
TypeOK == /\ phase \in {"open", "closed"}
          /\ slot \in [Region -> Hash]
          /\ pc \in [Req -> Pc] /\ lim \in [Req -> Nat] /\ val \in [Req -> Nat]
          /\ epoch \in [Req -> Nat] /\ readEpoch \in [Req -> Nat]
          /\ wire \subseteq Msg /\ applying \subseteq Msg
          /\ cut \in [Region -> SUBSET Region]
          /\ recon \in [Region -> ReconRecord]
          /\ charged \in Hash /\ restarts \in Hash /\ lost \in Nat

\* A replica never credits a region with more requests than that region's
\* Redis counted, whatever is delivered late, twice, out of order or after a
\* restart: the point of sending absolute values and merging by maximum.
NeverAhead == \A r, q \in Region : slot[r][q] <= charged[q]

\* Two requests of one region that counted in the same life of its Redis got
\* different slot values: no request is counted under another one's number.
UniqueTickets ==
  \A p, q \in Req : /\ Home[p] = Home[q] /\ epoch[p] = epoch[q]
                    /\ val[p] = val[q] /\ val[p] > 0
                    => p = q

\* Requests of r allowed by the global check under a limit of at most g, by
\* the same Redis life that counted them.
Admitted(r, g) == {q \in Req : /\ Home[q] = r /\ pc[q] = "allowed"
                               /\ lim[q] <= g
                               /\ readEpoch[q] = epoch[q]}

\* The cap of the global check, however HINCRBY and HGETALL of concurrent
\* requests interleave and whatever the peers do not know: one region lets at
\* most GlobalLimit requests through per life of its Redis.
AdmissionBound ==
  \A r \in Region, g \in GlobalLimits :
    Cardinality(Admitted(r, g)) <= g * (1 + restarts[r])

\* A globally denied request is never a false alarm of the replication: the
\* regions together really counted more than the limit it was held against.
DenialJustified ==
  \A q \in Req : pc[q] = "denied" => Total(charged) > lim[q]

\* While a partition f -> r is in force and no message of f was already being
\* merged, nothing r knows of f changes upwards.
PartitionHolds ==
  [][\A f, r \in Region :
       /\ f \in cut[r]
       /\ \A m \in applying : m.src # f \/ m.dst # r
       => /\ slot'[r][f] <= slot[r][f]
          /\ \A m \in applying' : m.src # f \/ m.dst # r]_vars

\* A slot of a replica goes down only with the whole hash, when Redis loses it
\* or when its TTL passes with no request left to read it: a late, repeated or
\* overtaken message never undoes an earlier one.
SlotsGrow ==
  [][\A r, q \in Region :
       slot'[r][q] < slot[r][q] => /\ slot'[r] = EmptyHash
                                   /\ restarts'[r] > restarts[r] \/ ~Live(r)]_vars

-----------------------------------------------------------------------------
(* The inductive invariant behind them.                                    *)

\* No value on its way between regions exceeds what its region counted.
CarriedNeverAhead ==
  /\ \A m \in wire \cup applying : m.val <= charged[m.src]
  /\ \A r \in Region : recon[r].val <= charged[r]
  /\ \A q \in Req : val[q] <= charged[Home[q]]

\* A request has its slot value exactly from HINCRBY on.
TicketTaken ==
  \A q \in Req :
    /\ pc[q] \in {"counted", "published", "allowed", "denied"} => val[q] > 0
    /\ pc[q] \in {"idle", "started"} => val[q] = 0
    /\ epoch[q] <= restarts[Home[q]]

\* While requests may still come, the own slot covers every value this life of
\* the Redis handed out.
TicketsCovered ==
  \A q \in Req : /\ Live(Home[q]) /\ epoch[q] = restarts[Home[q]]
                 => val[q] <= slot[Home[q]][Home[q]]

\* An admitted request's own number is within its limit.
AdmittedWithinLimit ==
  \A q \in Req : pc[q] = "allowed" /\ readEpoch[q] = epoch[q]
                 => val[q] <= lim[q]

\* TypeOK with the limit a started request carries.
LimitRead == \A q \in Req : pc[q] # "idle" => lim[q] \in GlobalLimits

\* Messages and partitions concern subscriptions only; no region hears of
\* itself.
OnlySubscribed == /\ \A m \in wire \cup applying : m.src \in Peers[m.dst]
                  /\ \A r \in Region : cut[r] \subseteq Peers[r]

\* NeverAhead and UniqueTickets with what keeps them true: the values in
\* flight, and the own slot as the upper end of the values handed out.
IInv == /\ TypeOK /\ LimitRead /\ OnlySubscribed
        /\ NeverAhead /\ CarriedNeverAhead
        /\ TicketTaken /\ TicketsCovered /\ UniqueTickets
        /\ AdmittedWithinLimit /\ DenialJustified

-----------------------------------------------------------------------------
(* Refinement, and what holds in the end.                                  *)

\* The replicated counter does what GlobalQuota promises.
Quota == INSTANCE GlobalQuota WITH
           Limits <- GlobalLimits,
           known <- slot,
           ticket <- val,
           verdict <- [q \in Req |-> IF pc[q] \in {"allowed", "denied", "unchecked"}
                                      THEN pc[q] ELSE "none"]

ImplementsQuota == Quota!Spec

\* A replica that stays reachable learns the owner's final slot value while
\* the window lasts, although any single message may be lost.
Converges(f, r) ==
  <>[](phase = "open" /\ f \notin cut[r]) => <>[](slot[r][f] = slot[f][f])
=============================================================================
