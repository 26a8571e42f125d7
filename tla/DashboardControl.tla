-------------------------- MODULE DashboardControl --------------------------
(***************************************************************************)
(* The control endpoints of the dashboard API: Flask threads that start    *)
(* and stop the agent and the simulator through one handle for each, with  *)
(* nothing between the check and the act, the log the agent appends to and *)
(* the threads unlink, and the policies a demo borrows.                    *)
(***************************************************************************)
EXTENDS DemoQuota

CONSTANTS
  Agents,      \* the agent processes, each started once at most
  Thread,      \* the threads of the API that serve a control request
  Scenario     \* the scenarios asked for

NoProc == "none"

ASSUME NamesAssumption == NoProc \notin Sims \cup Agents /\ Sims \cap Agents = {}

VARIABLES
  free,     \* processes that may still be started (bound)
  handle,   \* handle[k]: _procs[k]
  active,   \* _scenario_active
  up,       \* up[a]: an agent is starting, has its log open, or is over
  fh,       \* fh[a]: the file a appends to, named by who created it
  log,      \* decisions.jsonl: the file the path names
  op,       \* op[x]: what thread x is doing
  raced,    \* history: a launch met another start or a stop half way
  cut,      \* history: agents whose file a seed request unlinked
  left,     \* history: tiers where a demo was left to its TTL
  owed      \* history: tiers in which the last demo, or the API, found an earlier demo's
            \* policy when it started, or which that demo failed to restore

agentVars == <<up, fh, log, cut>>
ctlVars == <<handle, active, op, raced>>
vars == <<demoVars, free, handle, active, up, fh, log, op, raced, cut, left, owed>>

Kind == {"agent", "simulator"}
Idle == [do |-> "idle", proc |-> NoProc, what |-> "none"]
Doing(do, p, w) == [do |-> do, proc |-> p, what |-> w]

Init == /\ DemoInit
        /\ free = Sims \cup Agents
        /\ handle = [k \in Kind |-> NoProc]
        /\ active = "none"
        /\ up = [a \in Agents |-> "none"] /\ fh = [a \in Agents |-> NoProc]
        /\ log = NoProc
        /\ op = [x \in Thread |-> Idle]
        /\ raced = FALSE /\ cut = {} /\ left = {} /\ owed = {}

Lives(p) == IF p \in Sims THEN at[p] \in Alive
            ELSE p \in Agents /\ up[p] \in {"boot", "open"}

\* _is_running
IsRunning(k) == Lives(handle[k])

Set(x, o) == op' = [op EXCEPT ![x] = o]

\* Another thread is between its check and the handle, or has waited for a
\* process and is going to clear the handle.
Midway(x, k) ==
  \E y \in Thread \ {x} : op[y].do \in IF k = "agent" THEN {"startAgent", "stopAgent", "noAgent", "unlink"}
                                       ELSE {"startSim", "stopSim", "noSim", "reseed"}

-----------------------------------------------------------------------------
(* The simulator.                                                          *)

\* The checks of POST scenario.
StartSim(x, s) == /\ op[x] = Idle /\ free \cap Sims # {}
                  /\ ~IsRunning("simulator")
                  /\ Set(x, Doing("startSim", NoProc, s))
                  /\ UNCHANGED <<demoVars, free, handle, active, agentVars, raced, left, owed>>

\* A demo's old results are unlinked before it starts.
FreshResults(s) == results' = IF s = "global_quota_bypass" THEN "none" ELSE results

\* Popen, and the handle.  What another demo has left in a tier is found there by
\* the new one.
LaunchSim(x, d) == /\ op[x].do = "startSim" /\ d \in free
                   /\ free' = free \ {d}
                   /\ FreshResults(op[x].what)
                   /\ Spawn(d, op[x].what)
                   /\ handle' = [handle EXCEPT !["simulator"] = d]
                   /\ active' = op[x].what
                   /\ raced' = (raced \/ Midway(x, "simulator"))
                   /\ Set(x, Idle)
                   /\ owed' = IF op[x].what = "global_quota_bypass"
                               THEN {t \in Tier : policy[t] = "demo"} ELSE owed
                   /\ UNCHANGED <<policy, saved, agentVars, left>>

\* POST scenario/stop: terminate, or nothing to stop.
StopSim(x) ==
  /\ op[x] = Idle
  /\ IF IsRunning("simulator")
     THEN /\ Set(x, Doing("stopSim", handle["simulator"], "none"))
          /\ Signalled(handle["simulator"])
     ELSE /\ Set(x, Doing("noSim", NoProc, "none"))
          /\ UNCHANGED <<at, saved, results>>
  /\ UNCHANGED <<policy, free, handle, active, agentVars, raced, left, owed>>

\* The early return of a stop that found no process clears the handle.
Cleared(x, do, k) == /\ op[x].do = do
                     /\ handle' = [handle EXCEPT ![k] = NoProc]
                     /\ Set(x, Idle)
                     /\ UNCHANGED <<demoVars, free, active, agentVars, raced, left, owed>>

\* Five seconds are over: kill.
KillSim(x) == /\ op[x].do = "stopSim" /\ Lives(op[x].proc)
              /\ Ends(op[x].proc)
              /\ UNCHANGED <<policy, results, free, ctlVars, agentVars, left, owed>>

\* Mutant: the handle is cleared without waiting for the process.
StoppedEarly(x) == /\ op[x].do = "stopSim"
                   /\ handle' = [handle EXCEPT !["simulator"] = NoProc]
                   /\ Set(x, Doing("reseed", NoProc, "none"))
                   /\ UNCHANGED <<demoVars, free, active, agentVars, raced, left, owed>>

\* wait() returns; the handle is cleared, whoever it is of by now.
StoppedSim(x) == /\ op[x].do = "stopSim" /\ ~Lives(op[x].proc)
                 /\ handle' = [handle EXCEPT !["simulator"] = NoProc]
                 /\ Set(x, Doing("reseed", NoProc, "none"))
                 /\ UNCHANGED <<demoVars, free, active, agentVars, raced, left, owed>>

\* The safety net: what the demo may have left is seeded over, unless the
\* script fails, which is only logged.
Reseed(x) ==
  \/ /\ active = "global_quota_bypass"
     /\ policy' = [t \in Tier |-> "baseline"] /\ left' = {}
  \/ /\ active = "global_quota_bypass"
     /\ left' = left \cup {t \in Tier : policy[t] = "demo"} /\ UNCHANGED policy
  \/ active # "global_quota_bypass" /\ UNCHANGED <<policy, left>>

ReseedSim(x) == /\ op[x].do = "reseed"
                /\ Reseed(x)
                /\ active' = "none"
                /\ Set(x, Idle)
                /\ UNCHANGED <<at, saved, results, free, handle, agentVars, raced, owed>>

\* The process itself: its steps, its end, a signal from outside, kill -9.
SimSteps(d) ==
  /\ \/ /\ Demo(d)
        /\ left' = {t \in Tier : policy'[t] = "demo" /\ (t \in left \/ Returns(d, t))}
        /\ owed' = owed \cup {t \in Tier : /\ Returns(d, t) /\ policy'[t] = "demo"
                                          /\ saved[d][t] # "demo"}
     \/ /\ TrafficEnds(d) \/ Raises(d) \/ (Lives(d) /\ Signalled(d) /\ UNCHANGED policy)
        /\ UNCHANGED <<left, owed>>
  /\ UNCHANGED <<free, ctlVars, agentVars>>

SimKilled(d) == /\ Lives(d) /\ Ends(d) /\ UNCHANGED <<policy, results>>
                /\ left' = left \cup {t \in Tier : policy[t] = "demo"}
                /\ UNCHANGED <<free, ctlVars, agentVars, owed>>

-----------------------------------------------------------------------------
(* The agent.                                                              *)

\* The checks of POST agent/start.
StartAgent(x) == /\ op[x] = Idle /\ free \cap Agents # {}
                 /\ ~IsRunning("agent")
                 /\ Set(x, Doing("startAgent", NoProc, "none"))
                 /\ UNCHANGED <<demoVars, free, handle, active, agentVars, raced, left, owed>>

\* Mutant: the old log is unlinked once the agent has been started.
LaunchThenUnlink(x, a) == /\ op[x].do = "startAgent" /\ a \in free
                          /\ free' = free \ {a}
                          /\ up' = [up EXCEPT ![a] = "boot"]
                          /\ handle' = [handle EXCEPT !["agent"] = a]
                          /\ raced' = (raced \/ Midway(x, "agent"))
                          /\ Set(x, Doing("unlink", NoProc, "none"))
                          /\ UNCHANGED <<demoVars, active, fh, log, cut, left, owed>>

\* The old log is unlinked, Popen, and the handle.
LaunchAgent(x, a) == /\ op[x].do = "startAgent" /\ a \in free
                     /\ free' = free \ {a}
                     /\ up' = [up EXCEPT ![a] = "boot"]
                     /\ log' = NoProc
                     /\ handle' = [handle EXCEPT !["agent"] = a]
                     /\ raced' = (raced \/ Midway(x, "agent"))
                     /\ Set(x, Idle)
                     /\ UNCHANGED <<demoVars, active, fh, cut, left, owed>>

\* Popen fails; the agent's old log, or a demo's results, are gone all the same.
LaunchFails(x) == /\ op[x].do \in {"startSim", "startAgent"}
                  /\ log' = IF op[x].do = "startAgent" THEN NoProc ELSE log
                  /\ FreshResults(op[x].what)
                  /\ Set(x, Idle)
                  /\ UNCHANGED <<policy, at, saved, free, handle, active, up, fh, cut, raced, left,
                                 owed>>

\* DecisionLog: open(path, "a"), once.
OpenLog(a) == /\ up[a] = "boot"
              /\ up' = [up EXCEPT ![a] = "open"]
              /\ log' = IF log = NoProc THEN a ELSE log
              /\ fh' = [fh EXCEPT ![a] = log']
              /\ UNCHANGED <<demoVars, free, ctlVars, cut, left, owed>>

AgentOver(a) == /\ up' = [up EXCEPT ![a] = "gone"]
                /\ fh' = [fh EXCEPT ![a] = NoProc]
                /\ cut' = cut \ {a}

\* It ends: killed, terminated, or by itself.
AgentEnds(a) == /\ up[a] \in {"boot", "open"}
                /\ AgentOver(a)
                /\ UNCHANGED <<demoVars, free, ctlVars, log, left, owed>>

\* POST agent/stop: terminate, or nothing to stop.
StopAgent(x) == /\ op[x] = Idle
                /\ Set(x, IF IsRunning("agent") THEN Doing("stopAgent", handle["agent"], "none")
                                                ELSE Doing("noAgent", NoProc, "none"))
                /\ UNCHANGED <<demoVars, free, handle, active, agentVars, raced, left, owed>>

\* It is gone, after five seconds by kill; the handle is cleared.
StoppedAgent(x) == /\ op[x].do = "stopAgent"
                   /\ IF Lives(op[x].proc) THEN AgentOver(op[x].proc)
                                           ELSE UNCHANGED <<up, fh, cut>>
                   /\ handle' = [handle EXCEPT !["agent"] = NoProc]
                   /\ Set(x, Doing("unlink", NoProc, "none"))
                   /\ UNCHANGED <<demoVars, free, active, log, raced, left, owed>>

UnlinkLog(x) == /\ op[x].do = "unlink"
                /\ log' = NoProc
                /\ Set(x, Idle)
                /\ UNCHANGED <<demoVars, free, handle, active, up, fh, cut, raced, left, owed>>

-----------------------------------------------------------------------------
(* Everything else.                                                        *)

\* POST policies/seed: the script puts the baseline into every key, and then the
\* log is unlinked.
SeedPolicies == /\ policy' = [t \in Tier |-> "baseline"] /\ left' = {}
                /\ UNCHANGED <<at, saved, results, free, ctlVars, agentVars, owed>>

SeedUnlinks == /\ log' = NoProc
               /\ cut' = cut \cup {a \in Agents : up[a] = "open"}
               /\ UNCHANGED <<demoVars, free, ctlVars, up, fh, left, owed>>

Write(t, h) == /\ policy' = [policy EXCEPT ![t] = h]
               /\ left' = left \ {t}
               /\ UNCHANGED <<at, saved, results, free, ctlVars, agentVars, owed>>

\* An agent, the dashboard's or one started by hand, writes a policy.
AgentWrites(t) == Write(t, "agent")

\* A key expires, or Redis is flushed: nothing is left.
Vanishes(t) == policy[t] \in Mortal /\ Write(t, "baseline")
Flush == /\ policy' = [t \in Tier |-> "baseline"] /\ left' = {}
         /\ UNCHANGED <<at, saved, results, free, ctlVars, agentVars, owed>>

\* POST demo/clear.
ClearResults == /\ results' = "none"
                /\ UNCHANGED <<policy, at, saved, free, ctlVars, agentVars, left, owed>>

\* The API container stops and starts: its processes are killed, and a cold
\* start unlinks the log.
ApiRestarts == /\ at' = [d \in Sims |-> IF Lives(d) THEN "gone" ELSE at[d]]
               /\ saved' = [d \in Sims |-> Nothing]
               /\ left' = left \cup {t \in Tier : policy[t] = "demo"}
               /\ owed' = {t \in Tier : policy[t] = "demo"}
               /\ handle' = [k \in Kind |-> NoProc] /\ active' = "none"
               /\ op' = [x \in Thread |-> Idle]
               /\ up' = [a \in Agents |-> IF Lives(a) THEN "gone" ELSE up[a]]
               /\ fh' = [a \in Agents |-> NoProc]
               /\ log' = NoProc /\ cut' = {}
               /\ raced' = FALSE
               /\ UNCHANGED <<policy, results, free>>

Control(x) == \/ \E s \in Scenario : StartSim(x, s)
              \/ \E d \in Sims : LaunchSim(x, d)
              \/ StopSim(x) \/ KillSim(x) \/ StoppedSim(x) \/ ReseedSim(x)
              \/ Cleared(x, "noSim", "simulator") \/ Cleared(x, "noAgent", "agent")
              \/ LaunchFails(x)
              \/ StartAgent(x) \/ \E a \in Agents : LaunchAgent(x, a)
              \/ StopAgent(x) \/ StoppedAgent(x) \/ UnlinkLog(x)

Next == \/ \E x \in Thread : Control(x)
        \/ \E d \in Sims : SimSteps(d) \/ SimKilled(d)
        \/ \E a \in Agents : OpenLog(a) \/ AgentEnds(a)
        \/ \E t \in Tier : AgentWrites(t) \/ Vanishes(t)
        \/ SeedPolicies \/ SeedUnlinks \/ Flush \/ ClearResults \/ ApiRestarts

Spec == Init /\ [][Next]_vars
-----------------------------------------------------------------------------
(* Properties.                                                             *)

TypeOK == /\ policy \in [Tier -> Holding]
          /\ at \in [Sims -> Alive \cup {"none", "gone"}]
          /\ saved \in [Sims -> [Tier -> Holding]]
          /\ results \in {"none", "running", "error", "complete"}
          /\ free \in SUBSET (Sims \cup Agents)
          /\ handle \in [Kind -> {NoProc} \cup Sims \cup Agents]
          /\ active \in Scenario \cup {"none"}
          /\ up \in [Agents -> {"none", "boot", "open", "gone"}]
          /\ fh \in [Agents -> Agents \cup {NoProc}]
          /\ log \in Agents \cup {NoProc}
          /\ op \in [Thread -> [do : {"idle", "startSim", "stopSim", "noSim", "reseed",
                                       "startAgent", "stopAgent", "noAgent", "unlink"},
                                 proc : {NoProc} \cup Sims \cup Agents,
                                 what : Scenario \cup {"none"}]]
          /\ raced \in BOOLEAN /\ cut \in SUBSET Agents
          /\ left \in SUBSET Tier /\ owed \in SUBSET Tier

\* "Only one agent and one simulator run at a time" (api.py:110) holds unless two
\* control requests come at once: as long as no
\* launch met another start or a stop half way, every living process is the one
\* its handle names, so every stop reaches it.
OnlyOneUnlessRaced ==
  ~raced => /\ \A d \in Sims : Lives(d) => handle["simulator"] = d
            /\ \A a \in Agents : Lives(a) => handle["agent"] = a

Rescued(t) == \E x \in Thread : op[x].do \in {"stopSim", "reseed"}

\* The demo's limits do not stay: a tier that holds the demo's policy has a demo
\* alive that will take it back, or a thread that is stopping one and seeds
\* over it, or is left to the TTL: the demo was killed with -9 or with the API,
\* its restore failed or put an earlier demo's policy back, or the seeding after
\* it was stopped failed.
BorrowedPolicy ==
  ~raced => \A t \in Tier : policy[t] = "demo" =>
              t \in left \/ Rescued(t) \/ \E d \in Sims : Lives(d) /\ Borrows(d, t)

\* GET demo/results: what the panel shows.
Panel == IF results = "none" THEN "idle" ELSE results

\* A panel that says the demo is complete is right for every tier that held no
\* demo's policy when the demo started and that it did not fail to restore: no
\* demo's policy is in force there.  Of the others it may be wrong: a demo that finds the
\* policy of one that was killed takes it for the original, puts it back for
\* another 300 s, and is complete.
CompleteMeansReturned ==
  ~raced /\ Panel = "complete" => \A t \in Tier : policy[t] = "demo" => t \in owed

\* What an agent logs is what the dashboard reads, unless a seed request has
\* unlinked the file under it.
LogVisible ==
  ~raced => \A a \in Agents : up[a] = "open" /\ a \notin cut => fh[a] = log
=============================================================================
