---------------------------- MODULE OverrideCache ----------------------------
(***************************************************************************)
(* override.Cache for one user: the goroutines of concurrent requests call *)
(* Lookup while the agent and the dashboard write override:{user_id} in    *)
(* Redis.  A section under c.mu is one action; the lock is not held while  *)
(* Redis is asked.                                                         *)
(***************************************************************************)
EXTENDS OverrideKey

CONSTANTS
  Caller,    \* the calls of Lookup; None is no call, too
  Ttl,       \* c.ttl
  MaxFetch,  \* bound: from the start of a fetch to the publication of its result
  MaxClock,  \* bound: end of time
  MaxWrites  \* bound: changes of the key

ASSUME CacheAssumption ==
  /\ None \notin Value /\ None \notin Caller
  /\ Ttl \in Nat \ {0} /\ MaxFetch \in Nat /\ MaxClock \in Nat /\ MaxWrites \in Nat

VARIABLES
  entry,    \* c.entries[userID]; one that expired at 0 if there is none
  flight,   \* c.inflight[userID]: the call that leads the lookup
  began,    \* history: when it began, 0 if there is none
  pc,       \* pc[c]: where call c is
  start,    \* history: start[c], when c called
  floor,    \* history: floor[c], `seen' when c called
  seen,     \* history: the newest version a call has returned
  mine,     \* mine[c]: what the GET, then fetch, returned to c, then Lookup
  leader,   \* leader[c]: the call whose inflight record c led or joined
  res       \* res[c]: fl.res of the record c created

callVars == <<pc, start, floor, seen, mine, leader>>
flightVars == <<flight, began, res>>
vars == <<clock, keyVars, entry, callVars, flightVars>>

\* hasValue is limit # None; history: the version of the override that was read, 0
\* if none was, and whether the result stands for an error.
CacheEntry == [limit : Limit, expires : Nat, version : Nat, failed : BOOLEAN]
ZeroEntry == [limit |-> None, expires |-> 0, version |-> 0, failed |-> FALSE]

Init == /\ KeyInit
        /\ entry = ZeroEntry
        /\ pc = [c \in Caller |-> "idle"] /\ start = [c \in Caller |-> 0]
        /\ floor = [c \in Caller |-> 0] /\ seen = 0
        /\ mine = [c \in Caller |-> ZeroEntry]
        /\ leader = [c \in Caller |-> None]
        /\ flight = None /\ began = 0
        /\ res = [c \in Caller |-> ZeroEntry]

\* time.Now().Before(e.expiresAt)
Fresh == clock < entry.expires

\* A cacheEntry as its limit and hasValue.
Result(e) == [e EXCEPT !.expires = 0]

\* Lookup returns them; c's locals die.
Return(c, e) == /\ pc' = [pc EXCEPT ![c] = "done"]
                /\ mine' = [mine EXCEPT ![c] = Result(e)]
                /\ seen' = IF e.version > seen THEN e.version ELSE seen
                /\ start' = [start EXCEPT ![c] = 0] /\ floor' = [floor EXCEPT ![c] = 0]
                /\ leader' = [leader EXCEPT ![c] = None]

\* Lookup returns what is cached.
Hit(c) == Return(c, entry) /\ UNCHANGED <<clock, keyVars, entry, flightVars>>

\* Under RLock: the fast path.
FastHit(c) == pc[c] = "idle" /\ Fresh /\ Hit(c)

FastMiss(c) == /\ pc[c] = "idle" /\ ~Fresh
               /\ start' = [start EXCEPT ![c] = clock]
               /\ floor' = [floor EXCEPT ![c] = seen]
               /\ pc' = [pc EXCEPT ![c] = "missed"]
               /\ UNCHANGED <<clock, keyVars, entry, seen, mine, leader, flightVars>>

\* Under Lock: the second check.
SlowHit(c) == pc[c] = "missed" /\ Fresh /\ Hit(c)

\* Mutant: no second check under the write lock.
MissUnchecked(c) == pc[c] = "missed"

\* The second check failed too.
SlowMiss(c) == pc[c] = "missed" /\ ~Fresh

\* Join the lookup under way.
Join(c) == /\ SlowMiss(c) /\ flight # None
           /\ leader' = [leader EXCEPT ![c] = flight]
           /\ pc' = [pc EXCEPT ![c] = "waiting"]
           /\ UNCHANGED <<clock, keyVars, entry, start, floor, seen, mine, flightVars>>

\* Mutant: the lookup under way is not looked for.
LeadAnyway(c) == /\ SlowMiss(c)
                 /\ flight' = c /\ began' = clock
                 /\ leader' = [leader EXCEPT ![c] = c]
                 /\ pc' = [pc EXCEPT ![c] = "fetching"]
                 /\ UNCHANGED <<clock, keyVars, entry, start, floor, seen, mine, res>>

\* Start one.
Lead(c) == /\ SlowMiss(c) /\ flight = None
           /\ flight' = c /\ began' = clock
           /\ leader' = [leader EXCEPT ![c] = c]
           /\ pc' = [pc EXCEPT ![c] = "fetching"]
           /\ UNCHANGED <<clock, keyVars, entry, start, floor, seen, mine, res>>

\* Redis answers the GET; fetch has yet to see the answer.
Get(c) == /\ pc[c] = "fetching"
          /\ mine' = [mine EXCEPT ![c] = [ZeroEntry EXCEPT !.limit = key, !.version = Current]]
          /\ pc' = [pc EXCEPT ![c] = "got"]
          /\ UNCHANGED <<clock, keyVars, entry, start, floor, seen, leader, flightVars>>

\* Mutant: an error is cached as an absence is.
FailureCached == [ZeroEntry EXCEPT !.expires = clock + Ttl, !.failed = TRUE]

\* Errors expire at once.
Failure == [ZeroEntry EXCEPT !.expires = clock, !.failed = TRUE]

\* fetch returns the override, or its absence.
Fetch(c) == /\ pc[c] = "got"
            /\ mine' = [mine EXCEPT ![c].expires = clock + Ttl]
            /\ pc' = [pc EXCEPT ![c] = "fetched"]
            /\ UNCHANGED <<clock, keyVars, entry, start, floor, seen, leader, flightVars>>

\* The GET fails, times out, or the request of c was cancelled.
FetchFails(c) == /\ pc[c] \in {"fetching", "got"}
                 /\ mine' = [mine EXCEPT ![c] = Failure]
                 /\ pc' = [pc EXCEPT ![c] = "fetched"]
                 /\ UNCHANGED <<clock, keyVars, entry, start, floor, seen, leader, flightVars>>

\* Store the result, hand its limit and hasValue over, and end the flight.
PublishResult(c) == /\ entry' = mine[c] /\ flight' = None
                    /\ res' = [res EXCEPT ![c] = Result(mine[c])]

\* Under Lock again.
Publish(c) == /\ pc[c] = "fetched"
              /\ PublishResult(c)
              /\ pc' = [pc EXCEPT ![c] = "closing"]
              /\ began' = 0
              /\ UNCHANGED <<clock, keyVars, start, floor, seen, mine, leader>>

\* Mutant: a failed lookup does not wake those who wait.
CloseFound(c) == pc[c] = "closing" /\ ~mine[c].failed

\* close(fl.done) is reached on every path.
Closing(c) == pc[c] = "closing"

\* Close the channel and return.
Close(c) == /\ Closing(c)
            /\ Return(c, mine[c])
            /\ UNCHANGED <<clock, keyVars, entry, flightVars>>

\* <-fl.done, and return fl.res
Wake(c) == /\ pc[c] = "waiting" /\ pc[leader[c]] = "done"
           /\ Return(c, res[leader[c]])
           /\ UNCHANGED <<clock, keyVars, entry, flightVars>>

Step(c) == \/ FastHit(c) \/ FastMiss(c) \/ SlowHit(c) \/ Join(c) \/ Lead(c)
           \/ Get(c) \/ Fetch(c) \/ FetchFails(c) \/ Publish(c) \/ Close(c) \/ Wake(c)

Write == Current <= MaxWrites /\ Change /\ UNCHANGED <<entry, callVars, flightVars>>

\* Time passes, but no flight takes longer than MaxFetch.
Tick == /\ clock < MaxClock
        /\ flight # None => clock < began + MaxFetch
        /\ clock' = clock + 1
        /\ UNCHANGED <<keyVars, entry, callVars, flightVars>>

Next == (\E c \in Caller : Step(c)) \/ Write \/ Tick

Spec == Init /\ [][Next]_vars

\* The scheduler runs every goroutine that can run, and a GET ends.
FairSpec == Spec /\ \A c \in Caller : WF_vars(Step(c))

-----------------------------------------------------------------------------
Pc == {"idle", "missed", "waiting", "fetching", "got", "fetched", "closing", "done"}

\* Every variable keeps its type.
TypeOK == /\ KeyTypeOK /\ entry \in CacheEntry
          /\ flight \in Caller \cup {None} /\ began \in Nat
          /\ pc \in [Caller -> Pc] /\ start \in [Caller -> Nat]
          /\ floor \in [Caller -> Nat] /\ seen \in Nat
          /\ mine \in [Caller -> CacheEntry] /\ res \in [Caller -> CacheEntry]
          /\ leader \in [Caller -> Caller \cup {None}]

\* The calls whose lookup is under way.
Flying == {c \in Caller : pc[c] \in {"fetching", "got", "fetched"}}

\* "spawning N parallel GETs" (cache.go:33) never happens: a lookup under way is
\* the one in the table, and there is no other.
SingleFlight == Flying = {flight} \ {None}

\* "one GET per user per TTL window" (cache.go:68): no lookup begins while the
\* result of the last one has not expired.
OneGetPerTtl == [][flight = None /\ flight' # None => clock >= entry.expires]_vars

\* What the callers see: a call that asks Redis is "asking" until it returns.
Phase(c) == CASE pc[c] = "idle" -> "idle"
              [] pc[c] = "missed" -> "called"
              [] pc[c] = "done" -> "done"
              [] OTHER -> "asking"

AnswerOf(e) == [limit |-> e.limit, version |-> e.version, failed |-> e.failed]

Register == INSTANCE StaleRegister WITH
  phase <- [c \in Caller |-> Phase(c)],
  answer <- [c \in Caller |-> AnswerOf(IF pc[c] = "done" THEN mine[c] ELSE ZeroEntry)]

\* Lookup answers as a register of bounded staleness does: a change is "visible
\* within ~5 seconds of being written" (cache.go:4), whoever's lookup is shared; no
\* call goes back behind what an earlier call returned; an error reaches only those
\* who shared the lookup that failed (cache.go:128).
ImplementsRegister == Register!Spec

\* No call waits for ever for a lookup that ended.
EveryCallReturns == \A c \in Caller : pc[c] = "missed" ~> pc[c] = "done"

-----------------------------------------------------------------------------
(* The inductive invariant. *)

\* A call calls at a time that has been, and so did the flight begin, at most
\* MaxFetch ago; no version ended later than now.
TimesPast == /\ \A n \in 1 .. Len(past) : past[n].until <= clock
             /\ \A c \in Caller : start[c] <= clock /\ floor[c] <= seen
             /\ flight # None => began <= clock /\ clock <= began + MaxFetch

\* Nothing expires later than a Ttl from now.
ExpireSoon == /\ entry.expires <= clock + Ttl
              /\ \A c \in Caller : mine[c].expires <= clock + Ttl

\* Who waits has a leader; whose lookup is under way or to be closed leads.
Leaders ==
  \A c \in Caller :
    /\ pc[c] \in {"fetching", "got", "fetched", "closing"} => leader[c] = c
    /\ pc[c] = "waiting" => /\ leader[c] \in Caller
                            /\ leader[c] = flight \/ pc[leader[c]] \in {"closing", "done"}

\* A result is a version the key had, or has.
Faithful(e) == /\ e.version <= Current
               /\ IF e.version = 0 THEN e.limit = None
                  ELSE e.limit = LimitOf(e.version) /\ ~e.failed

EveryResultFaithful == /\ Faithful(entry) /\ seen <= Current
                       /\ \A c \in Caller : Faithful(mine[c]) /\ Faithful(res[c])

\* What a lookup under way has read was the override since the lookup began.
ReadRecently ==
  \A c \in Caller :
    /\ pc[c] = "got" => mine[c].version # 0 /\ Held(mine[c].version, began, 1)
    /\ pc[c] = "fetched" => \/ mine[c].failed /\ mine[c].expires <= clock
                            \/ /\ mine[c].version # 0
                               /\ Held(mine[c].version, began, 1)
                               /\ Held(mine[c].version, mine[c].expires, Ttl + MaxFetch + 1)

\* So was what is cached, or it expires soon enough.
CachedRecently == \/ entry.version = 0 /\ entry.expires <= clock
                  \/ /\ entry.version # 0
                     /\ Held(entry.version, entry.expires, Ttl + MaxFetch + 1)

\* What a lookup handed over serves a call: it was the override at most MaxFetch
\* before the call, and no older version than one returned before, or it failed.
Serves(e, c) == \/ e.failed
                \/ /\ e.version # 0 /\ floor[c] <= e.version
                   /\ Held(e.version, start[c], MaxFetch + 1)

\* Who shares a flight called before it can have ended.
SharedRecently ==
  \A c \in Caller :
    /\ pc[c] = "waiting" /\ leader[c] = flight => start[c] <= began + MaxFetch
    /\ pc[c] = "waiting" /\ leader[c] # flight => Serves(res[leader[c]], c)
    /\ pc[c] \in {"fetching", "got", "fetched"} => start[c] <= began
    /\ pc[c] = "closing" => Serves(mine[c], c)

\* No result that a call returned or may return is newer than version n.
UpTo(n) == /\ seen <= n
           /\ \A c \in Caller : /\ res[c].version <= n
                                /\ pc[c] = "closing" => mine[c].version <= n

\* Versions are published in their order: nothing is newer than what is cached,
\* and that is not newer than what a lookup under way has read.
NoneNewer ==
  /\ entry.version # 0 => UpTo(entry.version)
  /\ \A c \in Caller : pc[c] \in {"got", "fetched"} /\ mine[c].version # 0 =>
       UpTo(mine[c].version) /\ entry.version <= mine[c].version

IInv == /\ TypeOK /\ SingleFlight /\ TimesPast /\ ExpireSoon /\ Leaders
        /\ EveryResultFaithful /\ ReadRecently /\ CachedRecently /\ SharedRecently
        /\ NoneNewer
=============================================================================
