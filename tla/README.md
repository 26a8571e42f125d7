# geo-rate-limiter: TLA+ models, checks and proofs

This directory is the verification project of the geo-distributed rate limiter
in `src/`. It holds TLA+ modules translated from the source, the TLC
configurations that check them on small instances, theorems about them with
proofs checked by TLAPS, and `PROJECT.json`, which maps every modelled
definition to its source lines.

Paths such as `sync/merge.lua` are relative to `src/`.

## 1. Inventory of the system

Three regions (`us`, `eu`, `asia`), each with a Go gateway, a Redis without
persistence (`docker-compose.yml`: `appendonly no`) and a Python sync service.
One agent process reads Prometheus and writes policies and overrides to all
three Redis instances; a Flask API starts and stops the agent and the traffic
simulator and serves the dashboard.

| Part | State it keeps | Operations | Talks to |
|---|---|---|---|
| Gateway `/check` (`gateway/internal/handler`) | none of its own | validate, look up policy and override, local limiter, count, publish, global check, tier congestion, answer | policy store, override cache, limiter, Redis, Prometheus registry |
| Token bucket (`limiter/token_bucket.{lua,go}`) | Redis hash `rl:local:...`: tokens, last refill | one Lua script per request, with the caller's clock as argument | Redis |
| Sliding window (`limiter/sliding_window.{lua,go}`) | Redis sorted set under the same key; nonce counter per process | prune, count, record, in one Lua script | Redis |
| Policy store (`policy/store.go`, `policy.go`) | map tier → policy, refreshed every 5 s | poll all tiers under one write lock and one 1 s timeout, static fallback per tier | Redis `policy:{region}:{tier}` |
| Override cache (`override/cache.go`) | entries with TTL 5 s, in-flight lookups | `Lookup` with single flight, negative caching | Redis `override:{user}` |
| Global counter (`handler.go` 137-205, `sync/counter.py`, `merge.lua`) | hash `rl:global:{tier}:{user}:{window}`, one slot per region | HINCRBY own slot, PUBLISH, HGETALL, max-merge of foreign slots | Redis, pub/sub |
| Sync service (`sync/sync_service.py`, `admin.py`, `state.py`) | `PARTITIONS`, one task per subscription, reconciliation loop | receive, drop or merge; republish own slots every 30 s; partition and heal | own Redis, peers' Redis |
| Agent (`agent/loop.py`, `decider.py`, `policy_writer.py`) | cooldown timestamps, last noisy time, spike counters | one tick: read metrics and policies, decide, write with TTL | Prometheus, three Redis |
| Predictors, detector (`agent/predictor.py`, `detector.py`) | per-series EWMA or Holt-Winters state, isolation forest | update, forecast, score | agent loop |
| Dashboard API (`agent/api.py`) | process handles, current scenario, `decisions.jsonl`, a demo's results file | start and stop agent and scenario, seed policies, scrub overrides, flush, clear results, restart gateways | OS processes, Redis, Docker |
| Simulator (`simulator/main.py`, `scenarios.py`, `engine.py`, `population.py`, `stats.py`) | population, statistics | scenarios, requests with up to three attempts | gateways |
| Global-quota demo (`simulator/demo_global_quota.py`) | saved policies, results file | phases of traffic, save, set and restore of policies, handlers of signals | gateways, Redis |
| Tools (`tools/`) | none | seed policies, diagnose | Redis, gateways |

### What is hard here, and what correctness means

* **Global quota.** Counting, publishing and reading are separate Redis
  commands, so requests of one region interleave; replicas learn late, lose
  messages, are partitioned, and a Redis may restart empty in mid-window. It is
  correct when no replica credits a region with more than it counted, a region
  admits at most `GlobalLimit` checked requests, no request is denied for
  traffic that never happened, and replicas agree in the end.
* **Local limiters.** The time stamp is taken before the script runs, so scripts
  evaluate stamps out of order, and clocks step back. Correct when the admitted
  rate stays bounded in spite of it.
* **Override cache.** Concurrent lookups share one flight. Correct when at most
  one fetch per user is in flight, nobody waits for ever, and an answer is never
  older than TTL and fetch time allow.
* **Policy store.** A refresh is all tiers under one deadline; a slow Redis makes
  later tiers fall back although their policy exists.
* **Agent.** Rules interact over time: cooldowns per user but writes per region,
  TTLs that outlive or expire under the agent's own memory, restoring towards a
  baseline. Correct when limits stay within floor and baseline and come back.
* **Control API.** Flask threads share process handles with check-then-act.
* **Simulator.** Save and restore of policies around signals.

The hazards are listed at their lines in `PROJECT.json`.

## 2. Plan

Modules in the order of the importance of what they model; all are written.

1. `Regions`, `GCounterSync`, abstract `GlobalQuota`, `GCounterSync_proofs` - the
   global quota.
2. `CallClock`, `TokenBucket`, `SlidingWindow` and their proofs - the local
   limiters under late and out-of-order evaluation.
3. `OverrideKey`, `OverrideCache`, abstract `StaleRegister`, and the proofs - single
   flight, staleness, order of answers, liveness of waiters.
4. `TierPolicy` and its proofs - the agent's rules for the tiers of one region, the
   tick as read, decide, write, with failing writes, TTLs and restarts.
5. `UserOverrides` and its proofs - Rule 3: the cooldown per user, the write to one
   region, the gauge it goes by, and the scrub that the agent is not told of.
6. `PolicyStore`, composed by `GatewayCheck`, and the proofs - refresh and static
   fallback under one lock and one deadline; the whole request, the switch of
   algorithm on one key, error answers, the usage gauge.
7. `DemoQuota`, composed by `DashboardControl`, and the proofs - start and stop of agent
   and scenario from concurrent threads, one handle per process; save and restore of
   policies around signals.

The project is kept to a dozen runs, so that all of it can be checked in one go.

## 3. Modules and the code they model

`PROJECT.json` maps every definition to its lines. In every module a command to
Redis, a section under a lock, or a run of a Lua script is one action; what the
program does between two of them is interleaved with everybody else. Operators
marked *Mutant* in a comment are plausible wrong versions of the definition that
follows them. They are used by no specification: substituting one for the
original is how each property is shown to depend on the code.

### Global quota: `Regions`, `GCounterSync`, `GlobalQuota`

One key `rl:global:{tier}:{user}:{window}` in three Redis instances. `slot[r][q]`
is field `q` of the hash in `r`'s Redis.

| Action | Code |
|---|---|
| `Start`, `Count`, `Publish`, `Decide` | `check()` behind the local limiter: window id, HINCRBY, PUBLISH, HGETALL and the cap (`handler.go` 141-181) |
| `CountReplyLost` | the Redis client repeats a HINCRBY whose reply was lost |
| `SkipCheck` | `incrErr` or `hErr`: the request goes through unchecked |
| `Receive`, `Apply`, `ApplyFails`, `Lose` | `_subscribe`: the PARTITIONS check, the awaited `merge_remote`, its exception, and pub/sub that forgets |
| `AddPartition`, `Heal` | the admin endpoints |
| `ReconcileScan`, `ReconcileRead`, `ReconcilePublish` | `_reconcile`, cut at its awaits |
| `SyncRestart`, `RedisRestart`, `Expire`, `CloseWindow` | process and store restarts, the TTL, the end of the window |

`wire` is a set: messages are delivered in any order, and a repeated equal message
is the reconciliation sending it again. The windows appear as a phase, because a
key is only ever counted in its own window; the 120 s TTL therefore never ends
a key some request may still touch (`Live`).

`GlobalQuota` says what the counter promises, without messages: regions charge,
learn late part of what others charged, forget, and decide from what they know.
`GCounterSync` implements it with `known <- slot`, `ticket <- val`, and the
verdict read off `pc` (`ImplementsQuota`).

### Local limiters: `CallClock`, `TokenBucket`, `SlidingWindow`

`CallClock` is shared: `Check()` reads the gateway's clock (`ReadClock`), the script
runs up to `MaxDelay` later with that stamp, and the gateway's clock is up to
`MaxStep` ahead of Redis's. So scripts run with stamps out of order by at most
`Skew = MaxStep + MaxDelay`. The offset is drawn anew for each call, which covers
clocks that step back and several gateways.

`TokenBucket` is `token_bucket.lua`: `Elapsed` (clamped), `Tokens` (capped refill),
`Refilled` (`last_refill_ms` never back), `RetryAfter` (ceiling). Tokens are counted
in the share that one unit of time refills at limit 1, so that a token is `Minute`
of them and every division of the script but the final ceiling is exact. Limit and
burst are chosen per call, as policies and overrides change them.

`SlidingWindow` is `sliding_window.lua`: the sorted set is the set of members
`now_ms:nonce`, `Live` is what ZREMRANGEBYSCORE leaves.

Both have `ReplyLost` (the script ran, the client runs it again with the same
arguments), `Fail` (an error), `Expire` and `RedisRestart`. `Observe` in
`TokenBucket` is no step of the program: it lets the bound be counted from any
moment on.

### Override cache: `OverrideCache`, `StaleRegister`, `OverrideKey`

One user. `FastHit`/`FastMiss` are the section under the read lock; `SlowHit`, `Join`
and `Lead` the one under the write lock; `Get` and `Fetch` are the GET and its
return, apart, since Redis may change in between; `FetchFails` any error;
`Publish` the section that stores, hands over and ends the flight; `Close` and
`Wake` the channel. `Write` is the agent, the dashboard or the TTL changing the
key. An entry that was never there is one that expired at 0.

`OverrideKey` is the key with its history, numbered in versions. `StaleRegister` says what
the callers get, without entries, flights or locks: from the cache a version that was the
override less than a TTL and a fetch before the call, from a shared lookup one that was at
most a fetch before; never an older version than one already returned when the call began;
and a failure only in a shared lookup. `ImplementsRegister` maps a call to `asking` from
the moment it joins or leads until it returns. A result carries its version as history.

### Agent: `TierPolicy`

The tiers `free` (which Rule 1 cuts) and `premium` (which it compensates) of one
region; regions do not influence each other's policies, and `internal` is
treated as `premium` is, without compensation. What a tick observes is reduced to what
the rules ask of it (`Observation`), in every combination. `Decisions` goes through the
rules in the order of `decide`, with `Cur` for the limit as read: missing keys and failed
reads look alike.

| Action | Code |
|---|---|
| `Tick`, `TickFails` | `loop.py` 79-118: read, decide, and stamp the cooldowns; or the exception at 167 |
| `Write`, `WriteFails` | one SET of `apply_decisions`; the error at 101, with the SET applied or not |
| `AgentDies`, `AgentStarts` | the process ends anywhere and comes back with a new `Decider` |
| `Seed` | `tools/seed_policies.py`, at any time |
| `RedisRestart`, `Elapse` | an empty Redis; a tick's time, with the expiry of keys |

The reads of a tick are one step: a seed between them looks like a seed before or
after the tick, and a Redis lost between them like a failed read. Times are counted
from the event (`since`, `calm`) and stop where they no longer matter. The limits the
demo writes are not part of this model; who holds a key at what time is the
subject of `DashboardControl`.

### Agent: `UserOverrides`

One tier, its users in all regions, Rule 3. `gauge[r][u]` is the Prometheus series
`rl_counter_value`, 0 without a series.

| Action | Code |
|---|---|
| `Request` | the end of `check()`: the series is set from half the limit on and deleted below (`Series`, `handler.go` 186-196); the sum of the window is any of `Sums` |
| `GatewayRestart` | a process that restarts has no series |
| `Tick`, `TickFails` | the noisy users of every region with traffic (`Noisy`: 30 % of the tier's gauge, 60 a minute), one override each, in the region that comes first in the loop (`Overrides`); or a query that fails |
| `Write`, `WriteFails` | SET `override:{user}` with a TTL; a failed one with or without effect - the cooldown runs in either case |
| `AgentDies`, `AgentStarts` | a new `Decider` remembers no cooldown |
| `Scrub` | `_clear_overrides` of the API for one region, or its Redis restarts empty |
| `Elapse` | a tick's time |

That Prometheus copies the gauge once a second is abstracted: the agent reads what
the gateway has, and what it reads late is what a tick a second before reads.
`large`, `loud` and `unseen` are histories for the properties.

### The request: `PolicyStore`, `GatewayCheck`

`PolicyStore` is one gateway's cache of policies. `refresh` is the tier `refresh()` is at and
is not 0 exactly while it holds the write lock; `late` says that its one second
is over. `held` is a history: the values each key had so far during the refresh under way.

| Action | Code |
|---|---|
| `RefreshBegins` | the ticker, the context with its deadline, the lock (`store.go` `Start`, `refresh`) |
| `RefreshReads` | one GET that is answered: a valid contract is followed (`Live`), anything else gives the hardcoded policy (`Valid`, `SetStatic`) |
| `RefreshFails`, `Deadline` | a GET that fails, and the second that is over for this and all later tiers |
| `WritePolicy` | whoever writes, lets expire or flushes a key |
| `StoreRestart` | `NewStore` and the first refresh |

`GatewayCheck` extends it with the goroutines of `/check`. Whether a limiter that works
has a token left, and how far the count of a window has come, are open: those are
the subjects of the modules above.

| Action | Code |
|---|---|
| `Arrive`, `GetPolicy` | the guards, and `Get`, which waits while the lock is held for writing |
| `Limit`, `LimitFails` | `lim.Check` with the algorithm of the policy as read; the key `rl:local:...` is a hash or a sorted set, and the other script fails on it and does not renew its TTL |
| `Count`, `ReadSum`, `Unchecked` | HINCRBY under the window of that moment, HGETALL, and the way round them when either fails |
| `SetGauge` | the global verdict and the series of the user |
| `Heat` | the tier's congestion counter, the delay and the answer |
| `Expire`, `WindowEnds` | the TTL of a key, in windows; the window, which no request outlives twice |
| `RedisRestart`, `GatewayRestart` | each process alone |

A handler keeps the policy of `GetPolicy` until it is past the limiter, whatever the
store does meanwhile.

### The dashboard: `DemoQuota`, `DashboardControl`

`DemoQuota` is the script `demo_global_quota.py` as a process with a position (`at`), what it
remembers (`saved`), and the policies of two tiers by who wrote them: `"agent"`, `"demo"`,
or `"baseline"`, which also stands for nothing, as the script restores the
baseline for a missing key. Its steps are those on a key or on the results
file: `Setup`, `LocalOnly`, `GeoDistributed`, `AgentAssisted`, `Cleanup` for the phases of `main`;
`Raises` and `Signalled` for an exception and the handler of signals, which interrupts any step,
the restore included, and restores both tiers (`Undoes`). Every GET and SET may fail,
and the region is then skipped.

`DashboardControl` adds the API: `handle` is `_procs`, `op[x]` is what thread `x` is in the
middle of.

| Action | Code |
|---|---|
| `StartSim`, `LaunchSim`, `LaunchFails` | the checks of `POST scenario`; unlinking a demo's old results, `Popen` and the handle; a `Popen` that raises |
| `StopSim`, `KillSim`, `StoppedSim`, `ReseedSim` | `terminate`, the kill after five seconds, `wait` and the handle, the seed script that overwrites what a demo may have left |
| `Cleared` | the early return of both stops, which clears the handle |
| `StartAgent`, `LaunchAgent`, `StopAgent`, `StoppedAgent`, `UnlinkLog` | the same for the agent, with `decisions.jsonl` unlinked before a start and after a stop |
| `OpenLog`, `AgentEnds` | `DecisionLog` opens the path once; the process ends in any way |
| `SimSteps`, `SimKilled` | the steps of a simulator, a signal from outside, kill -9 |
| `SeedPolicies`, `SeedUnlinks`, `Flush`, `ClearResults` | the other endpoints that write |
| `AgentWrites`, `Vanishes` | a policy written by an agent; one that expires |
| `ApiRestarts` | the container stops, with its processes, and starts |

Flask serves requests in threads, and nothing lies between the check and the
act. `raced` records that a launch met another start or stop of the same kind
half way; the properties are about what holds without. `left` and `owed` are histories too, read by
no guard. `left` holds the tiers with a demo's policy that nobody is going to take back: the
demo was killed, its restore failed or put another demo's policy back, or the seeding after its
stop failed. `owed` is about the last demo that was started: the tiers in which it found the policy
of an earlier one, and those it failed to restore. An API that restarts takes what it finds for
an earlier demo's.

## 4. What the runs check

The number of concurrent requests, messages and faults is small; the hazards need
two actors and one fault each, and every action fires in some run.

| Run | Instance | Shows |
|---|---|---|
| `sync_safety` | two requests in `us`, limit 1, link `us` to `eu`, one restart of any Redis | HINCRBY and HGETALL of two requests interleave in every way, messages are lost, late and repeated: one life of a Redis never hands out a number twice (`UniqueTickets`), the cap per life (`AdmissionBound`), a partition lets through only a message already being merged (`PartitionHolds`), slots never lowered by a message (`SlotsGrow`), nobody ahead of the owner (`NeverAhead`), the inductive invariant, and the counter implements `GlobalQuota` |
| `sync_converge` | one request in each of two regions, limit 2, link `us` to `eu`, one lost reply | who is denied in `eu` for what `us` has counted is denied rightly (`DenialJustified`): with a merge that adds, one message heard twice would be enough for a false denial; with fair links a reachable replica learns the final value while the window lasts, although any message may be lost; `GlobalQuota` is implemented also with repeated counts |
| `sync_redis_loss` | violation | after the owner lost its Redis the replicas differ for good |
| `window` | three calls, window 4, skew 2, limits up to 2, one restart | `WindowBound`: at most the limit per window less the skew; an idle user starts afresh; the hint is between 1 and window and skew |
| `bucket` | three calls, minute 3, limits and bursts 1 and 2, skew 2, one restart | `RateBound`: at most burst and refill from any moment on; `HintSuffices`: a caller that waits as told finds a token |
| `override` | two calls, TTL 1, fetch at most 1, two changes, time up to 3 | one flight, one GET per TTL, answers as `StaleRegister` gives them (`ImplementsRegister`), every call returns |
| `agent_policy` | free 11 (fallback 5, floor 4), premium 12 (fallback 10) up to 13, cooldown 2, TTL and memory 3, one fault | limits stay in their band (`InBand`), rules do not contradict each other in a tick (`DecidedOnce`), an attack undoes the cut and the compensation (`SafetyNet`), limits come back when spikes end (`Recovers`), an agent that is gone leaves nothing behind (`Lapses`) |
| `agent_missing` | violation | a spike keeps a missing policy from being restored |
| `agent_overrides` | two users, one of them in two regions, sums 30 and 150, limits 10 and 300, cooldown 2, TTL 3, one failed write | a noisy user is at large for at most a cooldown, and one more per failed write (`NotAtLarge`); a quiet one is never throttled, alone in the gauge as he may be (`QuietNeverThrottled`); nobody is throttled a TTL after he was last seen noisy, with or without an agent (`ReleasedInTime`); overrides lapse once the series show no noise (`ReleasedWithSeries`) |
| `stale_gauge` | violation | a user who sends nothing more stays throttled, as nobody ends his series |
| `gateway` | two requests of the second of two tiers, one policy with the other algorithm, TTL of a key one window | the version gauge tells which policy is followed, a gauge is not about a past window, a refresh leaves no tier with a policy older than itself (`NoOldPolicy`), a policy arrives and lapses in spite of earlier failures, every request is answered (`FirstAnswered`: of one of two handlers that are alike), a key of the wrong type goes away |
| `control` | two threads, two simulators, two agents, a demo or other traffic | each handle names the one living process, a borrowed policy has somebody who takes it back or was left to its TTL (`BorrowedPolicy`), a complete demo has given back what it took, except in a tier where it found another demo's policy or failed to restore (`CompleteMeansReturned`), an agent's log is the one that is read |

The limits of `agent_policy` are the smallest at which a cut, both kinds of step, the cap of
a step at the baseline and the floor all occur; the cooldown is longer than a tick and
shorter than the TTL, as 60 s is between 1 s and 300 s.

A third request or a fourth time unit adds states but no new order: two calls
already lie on either side of every step of a third, and each bound is
reached in the runs (limits, restarts, lost replies, end of time). The proofs
below remove the bounds for the safety properties; that no chain of calls to the override
cache ever goes back to an older version is one of them.

The sums of `agent_overrides` lie on both sides of the 60 a minute and, with the limits, on both
sides of the half that sets the series; the two users can hold any share of it. In
`gateway` the policy that is read second is the one a slow first GET makes fall back. The
constraint `NoRaceYet` of `control` stops at the first race: all four properties say nothing
after one until the API restarts, and what such a restart leaves of the processes is
nothing, as after any other. The theorems of section 5 are without the constraint.

Types are an invariant of no run of their own: they are a part of `IInv` or proved
(section 5).

`CHECK_DEADLOCK FALSE` is set where the modelled requests or the window may end, and then
the system is at rest. In `control` there is always a step, and deadlock is checked.

### Fairness

* `sync_converge` (`LinkFairness`): a handler that counted goes on to publish
  (weak fairness). The reconciliation loop comes round and the subscriber takes and
  merges messages (strong fairness: restarts of the service and losses disable these
  steps and enable them again). Messages may still be lost at any time, only not
  all of them for ever; the loop republishes every 30 s, so this is a statement about
  a link that is not dead.
* `override` (`FairSpec`): every goroutine that can run does, and a GET ends - by an
  answer or by the 500 ms timeout of `fetch`. Nothing is assumed of the writers or
  of the outcome of the GET.
* `agent_policy` (`FairSpec`): the loop goes on, each SET ends, time passes (weak
  fairness); and of the ticks that become due again and again some have metrics (strong
  fairness, as `TickFails` may come in between). Nothing is assumed of the observations:
  a tier that is never slow recovers because its key expires. `Recovers` is about an
  agent that, from some time on, stays alive; `Lapses` about one that stays dead.
* `agent_overrides`, `stale_gauge` (`FairSpec`): the same of the loop, the metrics and the SETs.
  Time passes even if the agent is restarted again and again (strong fairness of
  `Elapse`: a restart makes a tick due, which does not stop the clock).
* `gateway` (`Fairness`): the ticker fires, the deadline comes and ends what is late
  (`StoreGoesOn`, weak fairness; whether Redis answers is left open; only one of the three is
  possible at a time); a reader gets the lock though refreshes
  take it again and again (strong fairness of `GetPolicy`: Go's `RWMutex` lets readers that
  waited in before the next writer); a handler goes on, windows end and keys expire
  (`TimePasses`: a window cannot end before the keys whose TTL is over).
  `PremiumArrives` is about refreshes that from some time on do not fail on a
  valid policy and a gateway that is not restarted for ever; `PremiumLapses` needs neither.

## 5. What is proved

`tlapm` checks every proof. The assumptions are the named `ASSUME`s of the modules
(types and finiteness of nothing but the numbers); TLC evaluates them in the runs.

**`GCounterSync_proofs`** - for every set of requests, homes, peers and limits:
`TypeCorrect`, `ReplicaNeverAhead`, `DenialsAreJustified`, `AdmissionIsBounded`, `TicketsAreUnique`,
`PartitionsHold`, `KnowledgeGrows`, and `Refinement` (the counter implements
`GlobalQuota`). `NeverAhead` alone is not inductive: a value under way could be
too large. `IInv` adds that no message, no value read by the reconciliation and no
ticket exceeds the owner's count (`CarriedNeverAhead`), and for the cap that the own
slot covers every ticket this life of the Redis handed out (`TicketsCovered`), so
that the next one is new. `AdmissionBound` then follows by counting: the pairs of
ticket and life of the admitted requests are distinct, and there are at most
`g * (1 + restarts)` of them. Two theorems go beyond the runs. `OvershootIsBounded` adds the
regions up: what `docs/sync-design.md` 170-174 bounds by the length of a partition is also bounded
by three times the limit, however long the partition is, and as long as no Redis restarts that
is all there are (`NoneStraddling`: a count and its sum are then of one life of the Redis). After restarts
a limit is added for each, and requests whose `HINCRBY` was before a restart and whose `HGETALL` was
after it (`Straddling`) are not counted: they read a hash that has forgotten them, and any number of
them in flight may pass.
`ReplicasAgree` says exactly when the promise of 141-148 of that document does hold: until a
message with news, a hash or the reply of an `HINCRBY` is lost (`Mishap`), replicas at rest are equal to the
true counts. Its invariant `Tracked` follows the last count of each region: the peer knows
it, a message carries it there, or the request is about to publish it.

**`SlidingWindow_proofs`** - `WindowIsBounded`, `HintIsBounded`, `IdleForgotten` for
every window, limit, skew less than the window, and number of calls. The log alone
does not tell how many were admitted, because a call with a late stamp prunes
entries an earlier stamp would count. `Remembered` says that what is gone is so old
that no call still to run can lie in the same interval; with distinct nonces
(`NoncesFresh`) the live entries count the admissions one by one.

**`TokenBucket_proofs`** - `RateIsBounded` for every limit, burst and skew under
`TtlAssumption`: an idle bucket refills within the TTL less the skew. `Budget` is
the invariant - calls granted and tokens left are paid for by burst and refill -
and `LastNotAhead` says that a forgotten bucket is a TTL old, so that the full one
which replaces it is paid for too. The seeded policies are within the assumption;
the policy of `demo_global_quota.py` (limit 100, burst 500, TTL 120 s) is not, and
there the bound is not claimed. `HintIsHonest`: where no burst is 0, whoever waits
as told finds a token (the ceiling never rounds down).

**`OverrideCache_proofs`** - `FlightIsSingle`, `GetsAreSpaced`, and `CacheIsStaleRegister`: the
cache implements `StaleRegister`, for any number of calls, limits, changes, and any TTL and
duration of a fetch. Staleness passes through three hands: what the leader has read
(`ReadRecently`), what is cached (`CachedRecently`) and what is handed to those who joined
(`SharedRecently`); each part says since when a version that is no longer the key's can
have been gone. `NoneNewer` is why nobody goes back: versions are published in the order
they were read, because only the one in the table has a lookup under way, so what
is cached is the newest that anybody got. `EveryResultFaithful` ties the versions, which
are history, to the limits the code passes on.

**`TierPolicy_proofs`** - for all baselines, fallbacks and floors with floor at most fallback
less than baseline. `LimitsInBand`: `InBand` is made inductive by what the agent is about
to write: the decisions are a sequence of sane ones (`SaneDecision`), which is kept when the
lists of the rules are put together (`DecisionsSane`) and taken apart. Each rule has its lemma
(`CutsSane`, `BoostedSane`, `StepSane`); all need that what the decider takes for the
current limit is sane even if the key is missing or could not be read (`CurSane`).
`RulesAgree`: which rules exclude each other decides for which tiers a list already has
something (`Has`), and one more decision is harmless if it restores or is the first
(`OnceJoined`). `MistakesUndone`: `calm = 0` is only seen between a tick that saw an
attack and the next unit of time; in that tick Rule 1 is silent (`AttackDecides`), and until
the writes are done each tier is either settled or still has a decision that
settles it (`Settling`), whatever is seeded or lost between two writes.

**`UserOverrides_proofs`** - for any users, regions, sums, limits and times. `QuietAreSpared`
needs `Spared`: of whoever was never loud no gauge shows 60 a minute and nothing is decided.
`NoisyAreCaught` needs `Bounded`, which counts the ticks at large against the cooldown that has
run (`since`) and the writes that failed, and knows that a user who is still `Owed` an
override has used up at most this cooldown. That a user seen somewhere is decided for
one region (`FirstSeen`) is well-foundedness of the order of the loop. `OverridesLapse`
(`ReleasedInTime`) needs `Lapsing`: what is left of an override and the time its user has not been seen
noisy together never exceed the TTL, and a decision still to be written is about a
user the present tick saw.

**`GatewayCheck_proofs`** - for any tiers, handlers, policies and TTL. `VersionIsTrue` is inductive with the
types: every step that changes the cache changes the gauge with it. `GaugeIsFresh` is not: a
request of the window before could set the gauge back. `NoneLeft` adds that none is
pending once the gauge counts as fresh; a handler that counts anew counts for the
present window. `PoliciesAreRecent` (`NoOldPolicy`) is about one refresh as a whole: `ReadRecent` says
at each of its steps that the tiers it has passed are hardcoded or have a policy that was in
Redis since it took the lock, and that the present value of each other key counts as such too.

**`DashboardControl_proofs`** - for any number of threads, simulators and agents. `OneAtATime`
needs what the threads have found out (`SimThreads`, `AgentThreads`): a thread that checked that nothing runs is
still right as long as nobody raced it, and one that waits has signalled the one there
is. `LoansAreKnown` needs in addition that `_scenario_active` is right about
a demo that lives (`Credited`), and that without it every policy of a demo is one that was
left (`Settled`). `PanelIsHonest` rests on the demo being alone and on two invariants: where `main` has not yet
lowered a limit or has put it back, a demo's policy is one that is `owed` (`Clean`), so a demo never
saves its own policy as the original (`Remembered`); a demo that is done has then nothing more to
restore (`Honest`). `LogIsRead` follows from the agent being alone.

Every module also has its `TypeCorrect` or has the types in its `Invariance`.

Only model-checked: liveness (`ConvergesUsEu`, `EveryCallReturns`, `Recovers`, `Lapses`, `PremiumArrives`,
`PremiumLapses`, `FirstAnswered`, `SwitchHeals`, `ReleasedWithSeries`), which is out of
the prover's reach; and the violations.

## 6. Where the code and its documents differ

With a run:

* **Replicas do not always agree in the end** (`sync_redis_loss`). `docs/sync-design.md`
  141-148 promises identical state after quiescence. A Redis that lost its hash counts its own
  slot from 0, its peers keep the larger value and never send it back.
* **A missing policy is not always restored** (`agent_missing`). The comment at
  `decider.py` 252-256 and `README.md` 227 say that a policy whose key is missing is restored to the
  baseline at once. Rule 1 comes first: if a spike is forecast, `free` is cut from the
  static fallback and `premium` compensated from it (110 instead of 3000 per minute),
  for at least the cooldown.
* **The usage gauge of a user who goes away stays** (`stale_gauge`). `handler.go` 188-195 deletes the
  series so that it "ends instead of going stale", but only a later request of the same
  user gets there. As long as his tier has other traffic, the agent renews his override
  after every cooldown, until the gateway restarts.

Seen while modelling, each part of a model but without a run of its own:

* A denied request is counted: `docs/sync-design.md` 60-64 reads the sum first and
  counts only if still allowed; `handler.go` counts at 146 and denies at 174.
* A message lost shortly before the window ends is never made up for, since the
  reconciliation goes on to the next window (`docs/sync-design.md` 106-107, 141-142).
* "Only one agent and one simulator run at a time" (`api.py` 110) fails when two
  requests race: both start one, and the handle of the first is lost; or a stop that
  has waited clears the handle of a new one (`raced` in `DashboardControl`).
* A seed request unlinks `decisions.jsonl` under a running agent (`api.py` 784), which goes on
  writing to a file that no path names (`cut`).
* Stopping a scenario that has ended by itself returns before the policies are
  seeded and the overrides scrubbed; a demo that was killed then leaves its
  policies to their TTL (`left`).
* The docstring of `demo_global_quota.py` (20-22) says it "saves the existing policy first;
  restores it on exit": a signal before the save, or before that of the second tier, puts
  the baseline over a policy that was never saved.
* A demo started while the policy of one that was killed is still in force (for up to 300 s) saves
  that policy as the original, puts it back for another 300 s and reports "complete": neither "restores it
  on exit" (20) nor the line "Restoring original policies..." (572) says so. In `CompleteMeansReturned`
  these tiers are `owed`.
* A demo that is killed leaves the results file at "running" until somebody clears it.
* An abuser active in two regions is throttled in one at a time: the cooldown is per
  user, the override per region.

And smaller ones, outside the models: `README.md` 219 gives 10 per minute as the floor
of Rule 1, `config.py` 24 has 5; the comment at `decider.py` 220 speaks of four spike
ticks where 225 asks for three; with burst 0, which `validate` accepts (`store.go`
171), the token bucket reports a wait (`token_bucket.lua` 40) although none is enough;
`README.md` 548-553 documents `POST /api/control/override`, for which `api.py` has no route; the
agent's handler of SIGTERM only sets a flag that is looked at after the sleep, so
with the default interval of 15 s the five seconds of a stop end in a kill;
`/api/user-latency` calls `_safe_redis(region)` without the function it requires (`api.py` 1073,
1096); and the restart of gateways (`api.py` 1036) calls a docker CLI that the comment
at 455-457 says is not installed there.

## 7. What is not modelled

* The predictors' floating-point arithmetic and the isolation forest: their results are
  inputs of the decider, in every combination.
* The simulator's random traffic, its retries and statistics: to the models it is a process that
  ends, and requests that may come at any time.
* Endpoints that only read (status, policies, decisions, metrics, latency), the dashboard page,
  deployment files, the diagnosis tool, and the restart of gateways by docker beyond the
  `GatewayRestart` it causes.
* Prometheus queries, the delay of a scrape, parsing and formatting.
* In the demo and the API, failures to unlink the results or the log, which leave the
  old file where it is.
* In the limiters, the `remaining` count, as no decision depends on it, and the branch
  for limit 0, which neither `validate` nor the override cache lets through; in the handler,
  the branch for an unknown algorithm (119-127), which `validate` makes unreachable.
