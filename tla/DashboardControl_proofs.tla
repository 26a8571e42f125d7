---------------------- MODULE DashboardControl_proofs ----------------------
(***************************************************************************)
(* For any number of threads, simulators and agents, and however they are  *)
(* interleaved, signalled and killed: as long as no two control requests   *)
(* race, each handle names the one living process, what a demo borrows is  *)
(* given back or known to be left, the results panel does not promise too  *)
(* much, and the log that is read is the one that is written.              *)
(***************************************************************************)
EXTENDS DashboardControl, TLAPS

Demoing(d) == at[d] \in Alive \ {"traffic"}
NoSim == \A d \in Sims : at[d] \notin Alive

Rescuing == \E x \in Thread : op[x].do \in {"stopSim", "reseed"}

\* Every policy of a demo is one that was left.
AllLeft == \A t \in Tier : policy[t] = "demo" => t \in left

SoleSim == \A d \in Sims : at[d] \in Alive => handle["simulator"] = d

\* What a thread has found out about the simulator is still so: nobody has
\* launched another one.
SimThreads ==
  \A x \in Thread :
    /\ op[x].do \in {"startSim", "noSim", "reseed"} => NoSim
    /\ op[x].do = "stopSim" =>
         \A d \in Sims : at[d] \in Alive => d = op[x].proc /\ at[d] \in Undo

Lent == \A t \in Tier : policy[t] = "demo" =>
          t \in left \/ Rescuing \/ \E d \in Sims : at[d] \in Alive /\ Borrows(d, t)

\* _scenario_active is right about a demo that lives, and a thread that re-seeds
\* only after a demo can rely on it.
Credited == \A d \in Sims : Demoing(d) => active = "global_quota_bypass"
Settled == active # "global_quota_bypass" => AllLeft

SimInv == ~raced => SoleSim /\ SimThreads /\ Lent /\ Credited /\ Settled

\* Where main has not yet lowered a limit, or has put it back, a demo's policy is
\* owed to somebody else.
Clean == \A d \in Sims, t \in Tier :
           at[d] \in {"boot"} \cup Main /\ ~Borrows(d, t) /\ policy[t] = "demo" => t \in owed

\* Nobody takes his own policy for the original.
Remembered == \A d \in Sims, t \in Tier : saved[d][t] = "demo" => at[d] \in Alive /\ t \in owed

\* A demo that is complete has nothing more to restore.
Honest == results = "complete" => /\ \A t \in Tier : policy[t] = "demo" => t \in owed
                                  /\ \A d \in Sims : ~Demoing(d)

PanelInv == ~raced => Clean /\ Remembered /\ Honest

LivesAgent(a) == up[a] \in {"boot", "open"}
NoAgent == \A a \in Agents : ~LivesAgent(a)

SoleAgent == \A a \in Agents : LivesAgent(a) => handle["agent"] = a

\* The same of the agent.
AgentThreads ==
  \A x \in Thread :
    /\ op[x].do \in {"startAgent", "noAgent", "unlink"} => NoAgent
    /\ op[x].do = "stopAgent" => \A a \in Agents : LivesAgent(a) => a = op[x].proc

Logged == \A a \in Agents : up[a] = "open" /\ a \notin cut => fh[a] = log

AgentInv == ~raced => SoleAgent /\ AgentThreads /\ Logged

IInv == TypeOK /\ SimInv /\ PanelInv /\ AgentInv

-----------------------------------------------------------------------------
(* Facts about the definitions.                                            *)

\* Who lives.
LEMMA Living ==
  /\ \A d \in Sims : Lives(d) <=> at[d] \in Alive
  /\ \A a \in Agents : Lives(a) <=> LivesAgent(a)
BY NamesAssumption DEF NamesAssumption, Lives, LivesAgent

\* The steps of a process that lives, as names.
LEMMA AliveSteps ==
  /\ Alive = {"saveFree", "setFree", "phase1", "phase2", "savePremium", "setPremium", "raise",
              "restoreFree", "restorePremium", "done", "undoFree", "undoPremium", "boot", "traffic"}
  /\ Main \subseteq Alive /\ Undo \subseteq Alive
  /\ "gone" \notin Alive /\ "none" \notin Alive
  /\ "traffic" \notin Main \cup Undo /\ "boot" \notin Main \cup Undo
BY DEF Alive, Main, Undo

\* A step of the demo moves on in order; what it writes is taken back by a later
\* step, or by this one.
LEMMA DemoMoves ==
  ASSUME TypeOK, NEW d \in Sims, Demo(d)
  PROVE  /\ Demoing(d)
         /\ \A e \in Sims \ {d} : at'[e] = at[e]
         /\ at'[d] # "traffic"
         /\ at[d] \in Undo => at'[d] \in Undo \cup {"gone"}
         /\ \A t \in Tier : policy'[t] = "demo" =>
              \/ Returns(d, t)
              \/ at'[d] \in Alive /\ Borrows(d, t)'
              \/ policy[t] = "demo" /\ ~Borrows(d, t)
         /\ \/ results' \in {results, "running"}
            \/ at[d] = "done" /\ at'[d] = "gone" /\ policy' = policy /\ results' = "complete"
<1> USE AliveSteps DEF Demoing, Borrows, Returns, Step, Goto, Skip, Report, Undo, Tier
<1>0. at \in [Sims -> Alive \cup {"none", "gone"}] /\ policy \in [Tier -> Holding]
  BY DEF TypeOK
<1>1. CASE Setup(d)
  BY <1>0, <1>1 DEF Setup, Save, SetDemo
<1>2. CASE LocalOnly(d) \/ GeoDistributed(d)
  BY <1>0, <1>2 DEF LocalOnly, GeoDistributed
<1>3. CASE AgentAssisted(d)
  BY <1>0, <1>3 DEF AgentAssisted, Save, SetDemo
<1>4. CASE Cleanup(d)
  BY <1>0, <1>4 DEF Cleanup, Restore, Ends
<1>5. CASE Undoes(d)
  BY <1>0, <1>5 DEF Undoes, Restore, Ends
<1>6. QED
  BY <1>1, <1>2, <1>3, <1>4, <1>5 DEF Demo

\* A signal, or an exception, turns a demo back, and it goes on with what it has
\* borrowed; anything else it ends.
LEMMA TurnedBack ==
  ASSUME TypeOK, NEW d \in Sims, TrafficEnds(d) \/ Raises(d) \/ Signalled(d)
  PROVE  /\ \A e \in Sims \ {d} : at'[e] = at[e]
         /\ at'[d] \in Undo \cup {"gone"}
         /\ at'[d] \in Undo => at[d] \in Main \cup Undo
         /\ \A t \in Tier : at[d] \in Alive /\ Borrows(d, t) => at'[d] \in Alive /\ Borrows(d, t)'
         /\ results' \in {results, "error"}
<1> USE AliveSteps DEF Borrows, Goto, Skip, Report, Undo, Main, Ends
<1>0. at \in [Sims -> Alive \cup {"none", "gone"}]
  BY DEF TypeOK
<1>1. CASE TrafficEnds(d)
  BY <1>0, <1>1 DEF TrafficEnds
<1>2. CASE Raises(d)
  BY <1>0, <1>2 DEF Raises
<1>3. CASE Signalled(d)
  BY <1>0, <1>3 DEF Signalled
<1>4. QED
  BY <1>1, <1>2, <1>3

-----------------------------------------------------------------------------
(* The simulator's side.                                                   *)

\* The steps that do not concern it.
LEMMA SimKept ==
  ASSUME SimInv, ~raced' => ~raced,
         UNCHANGED <<at, policy, left, active>>,
         handle'["simulator"] = handle["simulator"],
         \A x \in Thread : op[x].do \in {"stopSim", "reseed"} \/ op'[x].do \in {"startSim", "stopSim", "noSim", "reseed"}
                             => op'[x] = op[x]
  PROVE  SimInv'
<1> SUFFICES ASSUME ~raced' PROVE (SoleSim /\ SimThreads /\ Lent /\ Credited /\ Settled)'
  BY DEF SimInv
<1>0. SoleSim /\ SimThreads /\ Lent /\ Credited /\ Settled
  BY DEF SimInv
<1>1. SoleSim' /\ Credited'
  BY <1>0 DEF SoleSim, Credited, Demoing
<1>2. SimThreads'
  BY <1>0 DEF SimThreads, NoSim
<1>3. Rescuing => Rescuing'
  BY DEF Rescuing
<1>4. Lent'
  BY <1>0, <1>3 DEF Lent, Borrows
<1>5. AllLeft => AllLeft'
  BY DEF AllLeft
<1>6. Settled'
  BY <1>0, <1>5 DEF Settled, Demoing
<1>7. QED
  BY <1>1, <1>2, <1>4, <1>6

\* The steps that only overwrite policies.
LEMMA Repaid ==
  ASSUME SimInv, UNCHANGED <<at, handle, active, op, raced>>,
         \A t \in Tier : policy'[t] = "demo" => policy[t] = "demo" /\ (t \in left => t \in left')
  PROVE  SimInv'
<1> SUFFICES ASSUME ~raced' PROVE (SoleSim /\ SimThreads /\ Lent /\ Credited /\ Settled)'
  BY DEF SimInv
<1>0. SoleSim /\ SimThreads /\ Lent /\ Credited /\ Settled
  BY DEF SimInv
<1>1. SoleSim' /\ SimThreads' /\ Credited'
  BY <1>0 DEF SoleSim, SimThreads, NoSim, Credited, Demoing
<1>2. Lent'
  BY <1>0 DEF Lent, Borrows, Rescuing
<1>3. AllLeft => AllLeft'
  BY DEF AllLeft
<1>4. Settled'
  BY <1>0, <1>3 DEF Settled, Demoing
<1>5. QED
  BY <1>1, <1>2, <1>4

\* A step of one living process, which threads and handle do not take part in.
LEMMA OneMoves ==
  ASSUME SimInv, NEW d \in Sims, at[d] \in Alive, UNCHANGED <<handle, active, op, raced>>,
         \A e \in Sims \ {d} : at'[e] = at[e],
         at[d] \in Undo => at'[d] \in Undo \cup {"gone"},
         Demoing(d)' => Demoing(d),
         ~raced /\ Lent => Lent', ~raced /\ Settled => Settled'
  PROVE  SimInv'
<1> SUFFICES ASSUME ~raced' PROVE (SoleSim /\ SimThreads /\ Lent /\ Credited /\ Settled)'
  BY DEF SimInv
<1> USE AliveSteps
<1>0. SoleSim /\ SimThreads /\ Lent /\ Credited /\ Settled /\ ~raced
  BY DEF SimInv
<1>1. SoleSim'
  BY <1>0 DEF SoleSim
<1>2. Credited'
  BY <1>0 DEF Credited, Demoing
<1>3. SimThreads'
  <2> SUFFICES ASSUME NEW x \in Thread
               PROVE  /\ op[x].do \in {"startSim", "noSim", "reseed"} => NoSim'
                      /\ op[x].do = "stopSim" =>
                           \A e \in Sims : at'[e] \in Alive => e = op[x].proc /\ at'[e] \in Undo
    BY DEF SimThreads
  <2>1. op[x].do \in {"startSim", "noSim", "reseed"} => NoSim'
    BY <1>0 DEF SimThreads, NoSim
  <2>2. op[x].do = "stopSim" =>
          \A e \in Sims : at'[e] \in Alive => e = op[x].proc /\ at'[e] \in Undo
    BY <1>0 DEF SimThreads
  <2>3. QED
    BY <2>1, <2>2
<1>4. QED
  BY <1>0, <1>1, <1>2, <1>3

\* A step of the demo: what it still borrows it will take back, and when it
\* says it is complete, all is.
LEMMA DemoKeeps ==
  ASSUME TypeOK, SimInv, NEW d \in Sims, Demo(d),
         left' = {t \in Tier : policy'[t] = "demo" /\ (t \in left \/ Returns(d, t))},
         UNCHANGED <<handle, active, op, raced>>
  PROVE  SimInv'
<1>1. Demoing(d) /\ at[d] \in Alive
  BY DemoMoves, AliveSteps DEF Demoing
<1>2. /\ \A e \in Sims \ {d} : at'[e] = at[e]
      /\ at[d] \in Undo => at'[d] \in Undo \cup {"gone"}
  BY DemoMoves
<1>3. ASSUME ~raced, Lent PROVE Lent'
  <2> SUFFICES ASSUME NEW t \in Tier, policy'[t] = "demo"
               PROVE  t \in left' \/ Rescuing \/ \E e \in Sims : at'[e] \in Alive /\ Borrows(e, t)'
    BY DEF Lent, Rescuing
  <2>1. \A e \in Sims : at[e] \in Alive => e = d
    BY <1>1, <1>3 DEF SimInv, SoleSim
  <2>2. CASE Returns(d, t)
    BY <2>2
  <2>3. CASE at'[d] \in Alive /\ Borrows(d, t)'
    BY <2>3
  <2>4. CASE policy[t] = "demo" /\ ~Borrows(d, t)
    BY <1>3, <2>1, <2>4 DEF Lent
  <2>5. QED
    BY <2>2, <2>3, <2>4, DemoMoves
<1>4. ASSUME ~raced, Settled PROVE Settled'
  BY <1>1, <1>4 DEF SimInv, Credited, Settled
<1>5. Demoing(d)' => Demoing(d)
  BY <1>1
<1>6. QED
  BY <1>1, <1>2, <1>3, <1>4, <1>5, OneMoves

\* Any other step of a living process, which leaves the policies as they are.
LEMMA OthersKeep ==
  ASSUME TypeOK, SimInv, NEW d \in Sims, at[d] \in Alive,
         TrafficEnds(d) \/ Raises(d) \/ Signalled(d),
         UNCHANGED <<policy, left, handle, active, op, raced>>
  PROVE  SimInv'
<1>1. /\ \A e \in Sims \ {d} : at'[e] = at[e]
      /\ at'[d] \in Undo \cup {"gone"}
      /\ at'[d] \in Undo => at[d] \in Main \cup Undo
      /\ \A t \in Tier : at[d] \in Alive /\ Borrows(d, t) => at'[d] \in Alive /\ Borrows(d, t)'
      /\ results' \in {results, "error"}
  BY TurnedBack
<1>2. Demoing(d)' => Demoing(d)
  BY <1>1, AliveSteps DEF Demoing
<1>3. Lent => Lent'
  <2>1. \A e \in Sims, t \in Tier : at[e] \in Alive /\ Borrows(e, t) => at'[e] \in Alive /\ Borrows(e, t)'
    BY <1>1 DEF Borrows
  <2>2. QED
    BY <2>1 DEF Lent, Rescuing
<1>4. Settled => Settled'
  BY DEF Settled, AllLeft
<1>5. QED
  BY <1>1, <1>2, <1>3, <1>4, OneMoves

\* kill -9, by a thread that rescues or by anyone else.
LEMMA KilledKeeps ==
  ASSUME TypeOK, SimInv, NEW d \in Sims, at[d] \in Alive, Ends(d),
         UNCHANGED <<policy, results, handle, active, op, raced>>,
         (Rescuing /\ left' = left) \/ left' = left \cup {t \in Tier : policy[t] = "demo"}
  PROVE  SimInv'
<1> USE AliveSteps
<1>1. at'[d] = "gone" /\ \A e \in Sims \ {d} : at'[e] = at[e]
  BY DEF Ends, TypeOK
<1>2. Lent => Lent'
  BY DEF Lent, Rescuing
<1>3. AllLeft => AllLeft'
  BY DEF AllLeft
<1>4. Settled => Settled'
  BY <1>3 DEF Settled
<1>5. QED
  BY <1>1, <1>2, <1>4, OneMoves DEF Demoing

\* A start found no simulator alive.
LEMMA StartSimKeeps ==
  ASSUME TypeOK, SimInv, NEW x \in Thread, NEW s \in Scenario, StartSim(x, s)
  PROVE  SimInv'
<1> SUFFICES ASSUME ~raced' PROVE (SoleSim /\ SimThreads /\ Lent /\ Credited /\ Settled)'
  BY DEF SimInv
<1>0. /\ SoleSim /\ SimThreads /\ Lent /\ Credited /\ Settled
      /\ UNCHANGED <<policy, at, results, handle, active, left>>
  BY DEF SimInv, StartSim, demoVars
<1>1. /\ op[x].do = "idle" /\ op'[x].do = "startSim"
      /\ \A y \in Thread \ {x} : op'[y] = op[y]
  BY DEF StartSim, Set, Doing, Idle, TypeOK
<1>2. NoSim
  BY <1>0, Living DEF StartSim, IsRunning, SoleSim, NoSim
<1>3. SimThreads'
  BY <1>0, <1>1, <1>2 DEF SimThreads, NoSim
<1>4. Rescuing => Rescuing'
  BY <1>1 DEF Rescuing
<1>5. QED
  BY <1>0, <1>3, <1>4 DEF SoleSim, Lent, Borrows, Credited, Settled, Demoing, AllLeft

\* Whoever launches unraced finds nothing that lives and nobody who rescues.
LEMMA LaunchSimKeeps ==
  ASSUME TypeOK, SimInv, NEW x \in Thread, NEW d \in Sims, LaunchSim(x, d)
  PROVE  SimInv'
<1> SUFFICES ASSUME ~raced' PROVE (SoleSim /\ SimThreads /\ Lent /\ Credited /\ Settled)'
  BY DEF SimInv
<1> DEFINE demo == op[x].what = "global_quota_bypass"
<1> USE AliveSteps
<1>1. ~raced /\ ~Midway(x, "simulator") /\ op[x].do = "startSim"
  BY DEF LaunchSim
<1>2. SoleSim /\ SimThreads /\ Lent /\ Credited /\ Settled
  BY <1>1 DEF SimInv
<1>3. NoSim
  BY <1>1, <1>2 DEF SimThreads
<1>4. \A y \in Thread \ {x} : op[y].do \notin {"startSim", "stopSim", "noSim", "reseed"}
  BY <1>1 DEF Midway
<1>5. AllLeft
  BY <1>1, <1>2, <1>3, <1>4 DEF Lent, NoSim, Rescuing, AllLeft
<1>6. op'[x].do = "idle" /\ \A y \in Thread \ {x} : op'[y] = op[y]
  BY DEF LaunchSim, Set, Idle, TypeOK
<1>7. /\ \A e \in Sims \ {d} : at'[e] = at[e]
      /\ at'[d] = IF demo THEN "boot" ELSE "traffic"
      /\ handle'["simulator"] = d /\ active' = op[x].what
      /\ results' = IF demo THEN "none" ELSE results
      /\ UNCHANGED <<policy, left>>
  BY DEF LaunchSim, Spawn, Goto, FreshResults, TypeOK, Kind
<1>8. SoleSim' /\ Credited'
  BY <1>3, <1>7 DEF SoleSim, NoSim, Credited, Demoing
<1>9. SimThreads'
  BY <1>4, <1>6 DEF SimThreads
<1>10. AllLeft'
  BY <1>5, <1>7 DEF AllLeft
<1>11. Lent' /\ Settled'
  BY <1>10 DEF Lent, Settled, AllLeft
<1>12. QED
  BY <1>8, <1>9, <1>11

\* A stop found one and signalled it, or found none.
LEMMA StopSimKeeps ==
  ASSUME TypeOK, SimInv, NEW x \in Thread, StopSim(x)
  PROVE  SimInv'
<1> SUFFICES ASSUME ~raced' PROVE (SoleSim /\ SimThreads /\ Lent /\ Credited /\ Settled)'
  BY DEF SimInv
<1> DEFINE h == handle["simulator"]
<1> USE AliveSteps
<1>0. /\ SoleSim /\ SimThreads /\ Lent /\ Credited /\ Settled
      /\ UNCHANGED <<policy, handle, active, left>>
  BY DEF SimInv, StopSim
<1>1. op[x].do = "idle" /\ \A y \in Thread \ {x} : op'[y] = op[y]
  BY DEF StopSim, Set, Idle, TypeOK
<1>2. Rescuing => Rescuing'
  BY <1>1 DEF Rescuing
<1>3. CASE IsRunning("simulator") /\ h \in Sims
  <2>1. op'[x].do = "stopSim" /\ op'[x].proc = h /\ Signalled(h)
    BY <1>3 DEF StopSim, Set, Doing, TypeOK
  <2>2. /\ \A e \in Sims \ {h} : at'[e] = at[e]
        /\ at'[h] \in Undo \cup {"gone"}
        /\ at'[h] \in Undo => at[h] \in Main \cup Undo
        /\ results' \in {results, "error"}
    BY <1>3, <2>1, TurnedBack
  <2>3. at[h] \in Alive /\ \A e \in Sims : at[e] \in Alive => e = h
    BY <1>0, <1>3, Living DEF IsRunning, SoleSim
  <2>4. SoleSim' /\ Credited'
    BY <1>0, <2>2, <2>3 DEF SoleSim, Credited, Demoing
  <2>5. \A e \in Sims : at'[e] \in Alive => e = h /\ at'[e] \in Undo
    BY <2>2, <2>3
  <2>6. SimThreads'
    <3>1. \A y \in Thread \ {x} : op[y].do \notin {"startSim", "noSim", "reseed"}
      BY <1>0, <1>3, <2>3 DEF SimThreads, NoSim
    <3>2. \A y \in Thread \ {x} : op[y].do = "stopSim" => op[y].proc = h
      BY <1>0, <1>3, <2>3 DEF SimThreads
    <3>3. QED
      BY <1>1, <2>1, <2>5, <3>1, <3>2 DEF SimThreads
  <2>7. Rescuing'
    BY <2>1 DEF Rescuing
  <2>8. QED
    BY <1>0, <2>4, <2>6, <2>7 DEF Lent, Settled, AllLeft
<1>4. CASE IsRunning("simulator") /\ h \notin Sims
  <2>1. op'[x].do = "stopSim" /\ op'[x].proc = h /\ Signalled(h)
    BY <1>4 DEF StopSim, Set, Doing, TypeOK
  <2>2. NoSim
    BY <1>0, <1>4 DEF SoleSim, NoSim
  <2>3. at' = at /\ results' \in {results, "error"}
    BY <1>4, <2>1 DEF Signalled, Goto, Ends, Report, TypeOK
  <2>4. SimThreads' /\ SoleSim' /\ Credited'
    BY <1>0, <1>1, <2>1, <2>2, <2>3
       DEF SimThreads, NoSim, SoleSim, Credited, Demoing, AllLeft
  <2>5. Rescuing'
    BY <2>1 DEF Rescuing
  <2>6. QED
    BY <1>0, <2>4, <2>5 DEF Lent, Settled, AllLeft
<1>5. CASE ~IsRunning("simulator")
  <2>1. op'[x].do = "noSim" /\ UNCHANGED <<at, results>>
    BY <1>5 DEF StopSim, Set, Doing, TypeOK
  <2>2. NoSim
    BY <1>0, <1>5, Living DEF IsRunning, SoleSim, NoSim
  <2>3. SimThreads' /\ SoleSim' /\ Credited'
    BY <1>0, <1>1, <2>1, <2>2 DEF SimThreads, NoSim, SoleSim, Credited, Demoing, AllLeft
  <2>4. Lent' /\ Settled'
    BY <1>0, <1>2, <2>1 DEF Lent, Borrows, Settled, AllLeft
  <2>5. QED
    BY <2>3, <2>4
<1>6. QED
  BY <1>3, <1>4, <1>5

\* Whoever waited knows that no simulator is alive.
LEMMA StoppedSimKeeps ==
  ASSUME TypeOK, SimInv, NEW x \in Thread, StoppedSim(x)
  PROVE  SimInv'
<1> SUFFICES ASSUME ~raced' PROVE (SoleSim /\ SimThreads /\ Lent /\ Credited /\ Settled)'
  BY DEF SimInv
<1>0. /\ SoleSim /\ SimThreads /\ Lent /\ Credited /\ Settled
      /\ UNCHANGED <<policy, at, results, active, left>>
  BY DEF SimInv, StoppedSim, demoVars
<1>1. /\ op[x].do = "stopSim" /\ op'[x].do = "reseed"
      /\ \A y \in Thread \ {x} : op'[y] = op[y]
  BY DEF StoppedSim, Set, Doing, TypeOK
<1>2. NoSim
  BY <1>0, <1>1, Living DEF StoppedSim, SimThreads, NoSim
<1>3. Rescuing'
  BY <1>1 DEF Rescuing
<1>4. SimThreads'
  BY <1>0, <1>1, <1>2 DEF SimThreads, NoSim
<1>5. SoleSim' /\ Credited'
  BY <1>0, <1>2 DEF SoleSim, NoSim, Credited, Demoing, AllLeft
<1>6. QED
  BY <1>0, <1>3, <1>4, <1>5 DEF Lent, Settled, AllLeft

\* After the re-seeding, or where there is nothing to re-seed, all that is of a
\* demo is left.
LEMMA ReseedKeeps ==
  ASSUME TypeOK, SimInv, NEW x \in Thread, ReseedSim(x)
  PROVE  SimInv'
<1> SUFFICES ASSUME ~raced' PROVE (SoleSim /\ SimThreads /\ Lent /\ Credited /\ Settled)'
  BY DEF SimInv
<1>0. /\ SoleSim /\ SimThreads /\ Lent /\ Credited /\ Settled
      /\ UNCHANGED <<at, results, handle>> /\ op[x].do = "reseed"
  BY DEF SimInv, ReseedSim
<1>1. op'[x].do = "idle" /\ \A y \in Thread \ {x} : op'[y] = op[y]
  BY DEF ReseedSim, Set, Idle, TypeOK
<1>2. NoSim
  BY <1>0 DEF SimThreads
<1>3. AllLeft'
  <2>1. CASE active # "global_quota_bypass" /\ UNCHANGED <<policy, left>>
    BY <1>0, <2>1 DEF Settled, AllLeft
  <2>2. CASE policy' = [t \in Tier |-> "baseline"] \/ (policy' = policy /\ left' = left \cup {t \in Tier : policy[t] = "demo"})
    BY <2>2 DEF AllLeft
  <2>3. QED
    BY <2>1, <2>2 DEF ReseedSim, Reseed
<1>4. SimThreads'
  BY <1>0, <1>1, <1>2 DEF SimThreads, NoSim
<1>5. SoleSim' /\ Credited'
  BY <1>0, <1>2, <1>3, AliveSteps DEF SoleSim, NoSim, Credited, Demoing
<1>6. Lent' /\ Settled'
  BY <1>3 DEF Lent, Settled, AllLeft
<1>7. QED
  BY <1>4, <1>5, <1>6

\* An early return clears a handle of nobody.
LEMMA ClearedSimKeeps ==
  ASSUME TypeOK, SimInv, NEW x \in Thread, Cleared(x, "noSim", "simulator")
  PROVE  SimInv'
<1> SUFFICES ASSUME ~raced' PROVE (SoleSim /\ SimThreads /\ Lent /\ Credited /\ Settled)'
  BY DEF SimInv
<1>0. /\ SoleSim /\ SimThreads /\ Lent /\ Credited /\ Settled
      /\ UNCHANGED <<policy, at, results, active, left>> /\ op[x].do = "noSim"
  BY DEF SimInv, Cleared, demoVars
<1>1. op'[x].do = "idle" /\ \A y \in Thread \ {x} : op'[y] = op[y]
  BY DEF Cleared, Set, Idle, TypeOK
<1>2. NoSim
  BY <1>0 DEF SimThreads
<1>3. SimThreads'
  BY <1>0, <1>1 DEF SimThreads, NoSim
<1>4. Rescuing => Rescuing'
  BY <1>0, <1>1 DEF Rescuing
<1>5. SoleSim' /\ Credited'
  BY <1>0, <1>2 DEF SoleSim, NoSim, Credited, Demoing, AllLeft
<1>6. Lent' /\ Settled'
  BY <1>0, <1>4 DEF Lent, Borrows, Settled, AllLeft
<1>7. QED
  BY <1>3, <1>5, <1>6

\* A restart of the API kills its simulators and leaves what they lent to the TTL.
LEMMA ApiRestartsSim == ASSUME TypeOK, ApiRestarts PROVE SimInv'
<1> SUFFICES (SoleSim /\ SimThreads /\ Lent /\ Credited /\ Settled)'
  BY DEF SimInv
<1>1. \A d \in Sims : at'[d] \notin Alive
  BY Living, AliveSteps DEF ApiRestarts
<1>2. \A x \in Thread : op'[x].do = "idle"
  BY DEF ApiRestarts, Idle
<1>3. AllLeft'
  BY DEF ApiRestarts, AllLeft
<1>4. SoleSim' /\ Credited'
  BY <1>1, <1>3, AliveSteps DEF SoleSim, Credited, Demoing
<1>5. SimThreads'
  BY <1>2 DEF SimThreads
<1>6. Lent' /\ Settled'
  BY <1>3 DEF Lent, Settled, AllLeft
<1>7. QED
  BY <1>4, <1>5, <1>6

-----------------------------------------------------------------------------
(* The panel's side.                                                       *)

\* A step in which processes start other traffic, turn back or end, and no demo's
\* policy appears, keeps it.
LEMMA PanelKept ==
  ASSUME PanelInv, ~raced' => ~raced, owed' = owed,
         \A d \in Sims : \/ at'[d] = at[d] /\ saved'[d] = saved[d]
                         \/ at'[d] \in Undo /\ Demoing(d) /\ saved'[d] = saved[d]
                         \/ at'[d] = "traffic" /\ at[d] \notin Alive /\ saved'[d] = saved[d]
                         \/ at'[d] = "gone" /\ saved'[d] = Nothing,
         \A t \in Tier : policy'[t] = "demo" => policy[t] = "demo",
         results' = "complete" => results = "complete"
  PROVE  PanelInv'
<1> SUFFICES ASSUME ~raced' PROVE (Clean /\ Remembered /\ Honest)'
  BY DEF PanelInv
<1> USE AliveSteps
<1>0. Clean /\ Remembered /\ Honest
  BY DEF PanelInv
<1>1. Clean'
  <2> SUFFICES ASSUME NEW d \in Sims, NEW t \in Tier, at'[d] \in {"boot"} \cup Main,
                      ~Borrows(d, t)', policy'[t] = "demo"
               PROVE  t \in owed
    BY DEF Clean
  <2>1. at'[d] = at[d]
    BY DEF Main, Undo
  <2>2. QED
    BY <1>0, <2>1 DEF Clean, Borrows
<1>2. Remembered'
  <2> SUFFICES ASSUME NEW d \in Sims, NEW t \in Tier, saved'[d][t] = "demo"
               PROVE  at'[d] \in Alive /\ t \in owed
    BY DEF Remembered
  <2>1. saved'[d] = saved[d]
    BY DEF Nothing
  <2>2. at[d] \in Alive /\ t \in owed
    BY <1>0, <2>1 DEF Remembered
  <2>3. at'[d] # "gone" \/ saved'[d] # Nothing
    BY DEF Nothing
  <2>4. QED
    BY <2>2, <2>3
<1>3. Honest'
  BY <1>0 DEF Honest, Demoing
<1>4. QED
  BY <1>1, <1>2, <1>3

\* What a step of the demo gives back, or fails to.
LEMMA DemoOwes ==
  ASSUME TypeOK, NEW d \in Sims, Demo(d),
         \A t \in Tier : at[d] \in {"boot"} \cup Main /\ ~Borrows(d, t) /\ policy[t] = "demo" => t \in owed,
         \A t \in Tier : saved[d][t] = "demo" => t \in owed,
         owed' = owed \cup {t \in Tier : /\ Returns(d, t) /\ policy'[t] = "demo"
                                         /\ saved[d][t] # "demo"}
  PROVE  /\ \A t \in Tier : at'[d] \in {"boot"} \cup Main /\ ~Borrows(d, t)' /\ policy'[t] = "demo" => t \in owed'
         /\ \A t \in Tier : saved'[d][t] = "demo" => at'[d] \in Alive /\ t \in owed'
         /\ \A e \in Sims \ {d} : saved'[e] = saved[e]
<1> USE AliveSteps DEF Borrows, Returns, Step, Goto, Skip, Main, Undo, Tier
<1>0. /\ at \in [Sims -> Alive \cup {"none", "gone"}] /\ policy \in [Tier -> Holding]
      /\ saved \in [Sims -> [Tier -> Holding]]
  BY DEF TypeOK
<1>1. CASE Setup(d)
  BY <1>0, <1>1 DEF Setup, Save, SetDemo
<1>2. CASE LocalOnly(d) \/ GeoDistributed(d)
  BY <1>0, <1>2 DEF LocalOnly, GeoDistributed
<1>3. CASE AgentAssisted(d)
  BY <1>0, <1>3 DEF AgentAssisted, Save, SetDemo
<1>4. CASE Cleanup(d)
  BY <1>0, <1>4 DEF Cleanup, Restore, Ends, Nothing
<1>5. CASE Undoes(d)
  BY <1>0, <1>5 DEF Undoes, Restore, Ends, Nothing
<1>6. QED
  BY <1>1, <1>2, <1>3, <1>4, <1>5 DEF Demo

\* A step of the demo: when it says it is complete, both tiers are put back.
LEMMA PanelDemo ==
  ASSUME TypeOK, SimInv, PanelInv, NEW d \in Sims, Demo(d), raced' = raced,
         owed' = owed \cup {t \in Tier : /\ Returns(d, t) /\ policy'[t] = "demo"
                                         /\ saved[d][t] # "demo"}
  PROVE  PanelInv'
<1> SUFFICES ASSUME ~raced PROVE (Clean /\ Remembered /\ Honest)'
  BY DEF PanelInv
<1>0. SoleSim /\ Clean /\ Remembered /\ Honest
  BY DEF SimInv, PanelInv
<1>1. Demoing(d) /\ at[d] \in Alive /\ \A e \in Sims \ {d} : at'[e] = at[e] /\ at[e] \notin Alive
  BY <1>0, DemoMoves, AliveSteps DEF Demoing, SoleSim
<1>2. /\ \A t \in Tier : at'[d] \in {"boot"} \cup Main /\ ~Borrows(d, t)' /\ policy'[t] = "demo" => t \in owed'
      /\ \A t \in Tier : saved'[d][t] = "demo" => at'[d] \in Alive /\ t \in owed'
      /\ \A e \in Sims \ {d} : saved'[e] = saved[e]
  <2>1. /\ \A t \in Tier : at[d] \in {"boot"} \cup Main /\ ~Borrows(d, t) /\ policy[t] = "demo" => t \in owed
        /\ \A t \in Tier : saved[d][t] = "demo" => t \in owed
    BY <1>0 DEF Clean, Remembered
  <2>2. QED
    BY <2>1, DemoOwes
<1>3. Clean'
  BY <1>1, <1>2, AliveSteps DEF Clean
<1>4. Remembered'
  BY <1>0, <1>1, <1>2 DEF Remembered
<1>5. Honest'
  <2> SUFFICES ASSUME results' = "complete"
               PROVE  /\ \A t \in Tier : policy'[t] = "demo" => t \in owed'
                      /\ \A e \in Sims : ~Demoing(e)'
    BY DEF Honest
  <2>1. at[d] = "done" /\ at'[d] = "gone" /\ policy' = policy
    BY <1>0, <1>1, DemoMoves DEF Honest
  <2>2. \A t \in Tier : policy[t] = "demo" => t \in owed
    BY <1>0, <2>1 DEF Clean, Borrows, Main, Undo
  <2>3. \A e \in Sims : ~Demoing(e)'
    BY <1>1, <2>1, AliveSteps DEF Demoing
  <2>4. QED
    BY <2>1, <2>2, <2>3
<1>6. QED
  BY <1>3, <1>4, <1>5

\* A signal, or an exception, or the end of traffic.
LEMMA PanelTurned ==
  ASSUME TypeOK, PanelInv, NEW d \in Sims, at[d] \in Alive, ~raced' => ~raced,
         TrafficEnds(d) \/ Raises(d) \/ Signalled(d), UNCHANGED <<policy, owed>>
  PROVE  PanelInv'
<1> USE AliveSteps
<1>0. at \in [Sims -> Alive \cup {"none", "gone"}] /\ saved \in [Sims -> [Tier -> Holding]]
  BY DEF TypeOK
<1>1. \/ /\ at' = [at EXCEPT ![d] = "undoFree"] /\ at[d] \in Main \cup Undo /\ saved' = saved
      \/ at' = [at EXCEPT ![d] = "gone"] /\ saved' = [saved EXCEPT ![d] = Nothing]
  BY DEF TrafficEnds, Raises, Signalled, Goto, Ends, Skip
<1>2. results' = "complete" => results = "complete"
  BY DEF TrafficEnds, Raises, Signalled, Report
<1>3. at[d] \in Main \cup Undo => Demoing(d)
  BY DEF Demoing
<1>4. \A e \in Sims : \/ at'[e] = at[e] /\ saved'[e] = saved[e]
                      \/ at'[e] \in Undo /\ Demoing(e) /\ saved'[e] = saved[e]
                      \/ at'[e] = "gone" /\ saved'[e] = Nothing
  BY <1>0, <1>1, <1>3 DEF Undo
<1>5. QED
  BY <1>2, <1>4, PanelKept

\* A demo that is launched finds what others have left.
LEMMA PanelLaunch ==
  ASSUME TypeOK, SimInv, PanelInv, NEW x \in Thread, NEW d \in Sims, LaunchSim(x, d)
  PROVE  PanelInv'
<1> DEFINE demo == op[x].what = "global_quota_bypass"
<1> USE AliveSteps
<1>1. /\ at[d] = "none" /\ at' = [at EXCEPT ![d] = IF demo THEN "boot" ELSE "traffic"]
      /\ results' = IF demo THEN "none" ELSE results
      /\ owed' = IF demo THEN {t \in Tier : policy[t] = "demo"} ELSE owed
      /\ UNCHANGED <<policy, saved>> /\ (~raced' => ~raced)
  BY DEF LaunchSim, Spawn, Goto, FreshResults
<1>2. at \in [Sims -> Alive \cup {"none", "gone"}]
  BY DEF TypeOK
<1>3. CASE demo
  <2> SUFFICES ASSUME ~raced' PROVE (Clean /\ Remembered /\ Honest)'
    BY DEF PanelInv
  <2>1. NoSim
    BY DEF LaunchSim, SimInv, SimThreads
  <2>2. Remembered
    BY <1>1 DEF PanelInv
  <2>3. Clean'
    BY <1>1, <1>3 DEF Clean
  <2>4. Remembered'
    BY <1>1, <2>1, <2>2 DEF Remembered, NoSim
  <2>5. Honest'
    BY <1>1, <1>3 DEF Honest
  <2>6. QED
    BY <2>3, <2>4, <2>5
<1>4. CASE ~demo
  <2>1. \A e \in Sims : \/ at'[e] = at[e] /\ saved'[e] = saved[e]
                        \/ at'[e] = "traffic" /\ at[e] \notin Alive /\ saved'[e] = saved[e]
    BY <1>1, <1>2, <1>4
  <2>2. QED
    BY <1>1, <1>4, <2>1, PanelKept
<1>5. QED
  BY <1>3, <1>4

\* A restart of the API leaves no process, and what a demo has left is owed.
LEMMA PanelRestarts == ASSUME TypeOK, ApiRestarts PROVE PanelInv'
<1>1. \A d \in Sims : at'[d] \notin Alive /\ saved'[d] = Nothing
  BY Living, AliveSteps DEF ApiRestarts
<1>2. \A t \in Tier : policy'[t] = "demo" => t \in owed'
  BY DEF ApiRestarts
<1>3. Clean' /\ Remembered' /\ Honest'
  BY <1>1, <1>2, AliveSteps DEF Clean, Remembered, Honest, Demoing, Nothing
<1>4. QED
  BY <1>3 DEF PanelInv

-----------------------------------------------------------------------------
(* The agent's side.                                                       *)

\* A step that has nothing to do with the agent keeps its part.
LEMMA AgentKept ==
  ASSUME AgentInv, ~raced' => ~raced, UNCHANGED agentVars,
         handle'["agent"] = handle["agent"],
         \A x \in Thread : op'[x].do \in {"startAgent", "stopAgent", "noAgent", "unlink"}
                             => op'[x] = op[x]
  PROVE  AgentInv'
<1> SUFFICES ASSUME ~raced' PROVE (SoleAgent /\ AgentThreads /\ Logged)'
  BY DEF AgentInv
<1>0. SoleAgent /\ AgentThreads /\ Logged /\ UNCHANGED <<up, fh, log, cut>>
  BY DEF AgentInv, agentVars
<1>1. SoleAgent' /\ Logged'
  BY <1>0 DEF SoleAgent, Logged, LivesAgent
<1>2. AgentThreads'
  BY <1>0 DEF AgentThreads, NoAgent, LivesAgent
<1>3. QED
  BY <1>1, <1>2

\* A start found no agent alive.
LEMMA StartAgentKeeps ==
  ASSUME TypeOK, AgentInv, NEW x \in Thread, StartAgent(x)
  PROVE  AgentInv'
<1> SUFFICES ASSUME ~raced' PROVE (SoleAgent /\ AgentThreads /\ Logged)'
  BY DEF AgentInv
<1>0. /\ SoleAgent /\ AgentThreads /\ Logged
      /\ UNCHANGED <<up, fh, log, cut, handle>>
  BY DEF AgentInv, StartAgent, agentVars
<1>1. op'[x].do = "startAgent" /\ \A y \in Thread \ {x} : op'[y] = op[y]
  BY DEF StartAgent, Set, Doing, TypeOK
<1>2. NoAgent
  BY <1>0, Living DEF StartAgent, IsRunning, SoleAgent, NoAgent
<1>3. AgentThreads'
  BY <1>0, <1>1, <1>2 DEF AgentThreads, NoAgent, LivesAgent
<1>4. QED
  BY <1>0, <1>3 DEF SoleAgent, Logged, LivesAgent

\* The launched agent is the only one and the path names no file yet.
LEMMA LaunchAgentKeeps ==
  ASSUME TypeOK, AgentInv, NEW x \in Thread, NEW a \in Agents, LaunchAgent(x, a)
  PROVE  AgentInv'
<1> SUFFICES ASSUME ~raced' PROVE (SoleAgent /\ AgentThreads /\ Logged)'
  BY DEF AgentInv
<1>1. ~raced /\ ~Midway(x, "agent") /\ op[x].do = "startAgent"
  BY DEF LaunchAgent
<1>2. NoAgent
  BY <1>1 DEF AgentInv, AgentThreads
<1>3. \A y \in Thread \ {x} : op[y].do \notin {"startAgent", "stopAgent", "noAgent", "unlink"}
  BY <1>1 DEF Midway
<1>4. op'[x].do = "idle" /\ \A y \in Thread \ {x} : op'[y] = op[y]
  BY DEF LaunchAgent, Set, Idle, TypeOK
<1>5. /\ up'[a] = "boot" /\ \A b \in Agents \ {a} : up'[b] = up[b]
      /\ handle'["agent"] = a
  BY DEF LaunchAgent, TypeOK, Kind
<1>6. SoleAgent' /\ Logged'
  BY <1>2, <1>5 DEF SoleAgent, Logged, NoAgent, LivesAgent
<1>7. AgentThreads'
  BY <1>3, <1>4 DEF AgentThreads
<1>8. QED
  BY <1>6, <1>7

\* A launch that fails has unlinked the log of an agent that is gone.
LEMMA LaunchFailsAgent ==
  ASSUME TypeOK, AgentInv, NEW x \in Thread, LaunchFails(x)
  PROVE  AgentInv'
<1> SUFFICES ASSUME ~raced' PROVE (SoleAgent /\ AgentThreads /\ Logged)'
  BY DEF AgentInv
<1>0. SoleAgent /\ AgentThreads /\ Logged /\ UNCHANGED <<up, fh, cut, handle>>
  BY DEF AgentInv, LaunchFails
<1>1. op'[x].do = "idle" /\ \A y \in Thread \ {x} : op'[y] = op[y]
  BY DEF LaunchFails, Set, Idle, TypeOK
<1>2. SoleAgent' /\ AgentThreads'
  BY <1>0, <1>1 DEF SoleAgent, AgentThreads, NoAgent, LivesAgent
<1>3. log' = log \/ NoAgent
  BY <1>0 DEF LaunchFails, AgentThreads
<1>4. Logged'
  BY <1>0, <1>3 DEF Logged, NoAgent, LivesAgent
<1>5. QED
  BY <1>2, <1>4

\* The file an agent opens is the one the path names, and no other agent lives.
LEMMA OpenLogKeeps ==
  ASSUME TypeOK, AgentInv, NEW a \in Agents, OpenLog(a)
  PROVE  AgentInv'
<1> SUFFICES ASSUME ~raced' PROVE (SoleAgent /\ AgentThreads /\ Logged)'
  BY DEF AgentInv
<1>0. SoleAgent /\ AgentThreads /\ UNCHANGED <<handle, op, cut>>
  BY DEF AgentInv, OpenLog, ctlVars
<1>1. /\ up[a] = "boot" /\ up'[a] = "open" /\ fh'[a] = log'
      /\ \A b \in Agents \ {a} : up'[b] = up[b]
  BY DEF OpenLog, TypeOK
<1>2. \A b \in Agents : LivesAgent(b)' <=> LivesAgent(b)
  BY <1>1 DEF LivesAgent
<1>3. SoleAgent' /\ AgentThreads'
  BY <1>0, <1>2 DEF SoleAgent, AgentThreads, NoAgent
<1>4. \A b \in Agents \ {a} : ~LivesAgent(b)
  BY <1>0, <1>1 DEF SoleAgent, LivesAgent
<1>5. Logged'
  BY <1>1, <1>4 DEF Logged, LivesAgent
<1>6. QED
  BY <1>3, <1>5

\* The end of an agent disturbs nothing.
LEMMA AgentEndsKeeps ==
  ASSUME TypeOK, AgentInv, NEW a \in Agents, AgentEnds(a)
  PROVE  AgentInv'
<1> SUFFICES ASSUME ~raced' PROVE (SoleAgent /\ AgentThreads /\ Logged)'
  BY DEF AgentInv
<1>0. SoleAgent /\ AgentThreads /\ Logged /\ UNCHANGED <<handle, op, log>>
  BY DEF AgentInv, AgentEnds, ctlVars
<1>1. /\ up'[a] = "gone" /\ cut' = cut \ {a}
      /\ \A b \in Agents \ {a} : up'[b] = up[b] /\ fh'[b] = fh[b]
  BY DEF AgentEnds, AgentOver, TypeOK
<1>2. \A b \in Agents : LivesAgent(b)' => LivesAgent(b)
  BY <1>1 DEF LivesAgent
<1>3. SoleAgent' /\ AgentThreads'
  BY <1>0, <1>2 DEF SoleAgent, AgentThreads, NoAgent
<1>4. Logged'
  BY <1>0, <1>1 DEF Logged
<1>5. QED
  BY <1>3, <1>4

\* A stop found the agent of the handle, or none.
LEMMA StopAgentKeeps ==
  ASSUME TypeOK, AgentInv, NEW x \in Thread, StopAgent(x)
  PROVE  AgentInv'
<1> SUFFICES ASSUME ~raced' PROVE (SoleAgent /\ AgentThreads /\ Logged)'
  BY DEF AgentInv
<1>0. /\ SoleAgent /\ AgentThreads /\ Logged
      /\ UNCHANGED <<up, fh, log, cut, handle>>
  BY DEF AgentInv, StopAgent, agentVars
<1>1. /\ \A y \in Thread \ {x} : op'[y] = op[y]
      /\ op'[x] = IF IsRunning("agent") THEN Doing("stopAgent", handle["agent"], "none")
                                        ELSE Doing("noAgent", NoProc, "none")
  BY DEF StopAgent, Set, TypeOK
<1>2. ~IsRunning("agent") => NoAgent
  BY <1>0, Living DEF IsRunning, SoleAgent, NoAgent
<1>3. AgentThreads'
  <2>1. CASE IsRunning("agent")
    BY <1>0, <1>1, <2>1 DEF AgentThreads, NoAgent, LivesAgent, SoleAgent, Doing
  <2>2. CASE ~IsRunning("agent")
    BY <1>0, <1>1, <1>2, <2>2 DEF AgentThreads, NoAgent, LivesAgent, Doing
  <2>3. QED
    BY <2>1, <2>2
<1>4. QED
  BY <1>0, <1>3 DEF SoleAgent, Logged, LivesAgent

\* Once it is stopped, no agent is alive.
LEMMA StoppedAgentKeeps ==
  ASSUME TypeOK, AgentInv, NEW x \in Thread, StoppedAgent(x)
  PROVE  AgentInv'
<1> SUFFICES ASSUME ~raced' PROVE (SoleAgent /\ AgentThreads /\ Logged)'
  BY DEF AgentInv
<1> DEFINE p == op[x].proc
<1>0. SoleAgent /\ AgentThreads /\ op[x].do = "stopAgent"
  BY DEF AgentInv, StoppedAgent
<1>1. /\ op'[x].do = "unlink" /\ \A y \in Thread \ {x} : op'[y] = op[y]
  BY DEF StoppedAgent, Set, Doing, TypeOK
<1>2. \A a \in Agents : LivesAgent(a) => a = p
  BY <1>0 DEF AgentThreads
<1>3. NoAgent'
  <2> SUFFICES ASSUME NEW a \in Agents PROVE up'[a] \notin {"boot", "open"}
    BY DEF NoAgent, LivesAgent
  <2>1. CASE Lives(p)
    <3>1. up' = [up EXCEPT ![p] = "gone"]
      BY <2>1 DEF StoppedAgent, AgentOver
    <3>2. QED
      BY <1>2, <3>1 DEF TypeOK, LivesAgent
  <2>2. CASE ~Lives(p)
    <3>1. up' = up
      BY <2>2 DEF StoppedAgent
    <3>2. ~LivesAgent(a)
      BY <1>2, <2>2, Living
    <3>3. QED
      BY <3>1, <3>2 DEF LivesAgent
  <2>3. QED
    BY <2>1, <2>2
<1>4. SoleAgent' /\ Logged'
  BY <1>3 DEF SoleAgent, Logged, NoAgent, LivesAgent
<1>5. AgentThreads'
  BY <1>0, <1>1, <1>3 DEF AgentThreads, NoAgent
<1>6. QED
  BY <1>4, <1>5

\* A thread that clears the handle, or unlinks the log, has found no agent.
LEMMA NoAgentKeeps ==
  ASSUME TypeOK, AgentInv, NEW x \in Thread, Cleared(x, "noAgent", "agent") \/ UnlinkLog(x)
  PROVE  AgentInv'
<1> SUFFICES ASSUME ~raced' PROVE (SoleAgent /\ AgentThreads /\ Logged)'
  BY DEF AgentInv
<1>0. /\ SoleAgent /\ AgentThreads /\ Logged /\ up' = up
      /\ op[x].do \in {"noAgent", "unlink"}
  BY DEF AgentInv, Cleared, UnlinkLog, agentVars
<1>1. op'[x].do = "idle" /\ \A y \in Thread \ {x} : op'[y] = op[y]
  BY DEF Cleared, UnlinkLog, Set, Idle, TypeOK
<1>2. NoAgent'
  BY <1>0 DEF AgentThreads, NoAgent, LivesAgent
<1>3. AgentThreads'
  BY <1>0, <1>1, <1>2 DEF AgentThreads, NoAgent
<1>4. QED
  BY <1>2, <1>3 DEF SoleAgent, Logged, NoAgent, LivesAgent

\* Whoever loses his file to a seed request is cut.
LEMMA SeedUnlinksKeeps ==
  ASSUME TypeOK, AgentInv, SeedUnlinks
  PROVE  AgentInv'
<1>1. UNCHANGED <<up, fh, handle, op, raced>> /\ \A a \in Agents : up[a] = "open" => a \in cut'
  BY DEF SeedUnlinks, ctlVars
<1>2. Logged'
  BY <1>1 DEF Logged
<1>3. QED
  BY <1>1, <1>2 DEF AgentInv, SoleAgent, AgentThreads, NoAgent, LivesAgent

\* A restart of the API leaves no agent and no log.
LEMMA ApiRestartsAgent == ASSUME TypeOK, ApiRestarts PROVE AgentInv'
<1>1. \A a \in Agents : up'[a] \notin {"boot", "open"}
  BY Living DEF ApiRestarts, LivesAgent
<1>2. \A x \in Thread : op'[x].do = "idle"
  BY DEF ApiRestarts, Idle
<1>3. QED
  BY <1>1, <1>2 DEF AgentInv, SoleAgent, AgentThreads, Logged, LivesAgent

-----------------------------------------------------------------------------
(* Types.                                                                  *)

Do == {"idle", "startSim", "stopSim", "noSim", "reseed",
       "startAgent", "stopAgent", "noAgent", "unlink"}
Op == [do : Do, proc : {NoProc} \cup Sims \cup Agents, what : Scenario \cup {"none"}]

\* A thread that goes on keeps the type of what it does.
LEMMA OpType ==
  ASSUME TypeOK, NEW x \in Thread,
         Set(x, Idle) \/ \E do \in Do, p \in {NoProc} \cup Sims \cup Agents,
                            w \in Scenario \cup {"none"} : Set(x, Doing(do, p, w))
  PROVE  op' \in [Thread -> Op]
<1>1. op \in [Thread -> Op]
  BY DEF TypeOK, Op, Do
<1>2. PICK o \in Op : op' = [op EXCEPT ![x] = o]
  BY DEF Set, Idle, Doing, Op, Do
<1>3. QED
  BY <1>1, <1>2

DemoType == /\ policy \in [Tier -> Holding]
            /\ at \in [Sims -> Alive \cup {"none", "gone"}]
            /\ saved \in [Sims -> [Tier -> Holding]]
            /\ results \in {"none", "running", "error", "complete"}

\* What a demo remembers before it saved anything.
LEMMA NothingType == Nothing \in [Tier -> Holding]
BY DEF Nothing, Holding

\* A step of a process.
LEMMA GotoType ==
  ASSUME DemoType, NEW d, NEW s \in Alive \cup {"none", "gone"}, Goto(d, s)
  PROVE  at' \in [Sims -> Alive \cup {"none", "gone"}]
BY DEF DemoType, Goto

\* The end of a process.
LEMMA EndsType ==
  ASSUME DemoType, NEW d, Ends(d)
  PROVE  /\ at' \in [Sims -> Alive \cup {"none", "gone"}]
         /\ saved' \in [Sims -> [Tier -> Holding]]
BY NothingType DEF DemoType, Ends

\* A policy that is written.
LEMMA PolicyType ==
  ASSUME DemoType, NEW t \in Tier, NEW h \in Holding, policy' = [policy EXCEPT ![t] = h]
  PROVE  policy' \in [Tier -> Holding]
BY DEF DemoType

\* A policy that is remembered.
LEMMA SaveType ==
  ASSUME DemoType, NEW d \in Sims, NEW t \in Tier, Save(d, t)
  PROVE  saved' \in [Sims -> [Tier -> Holding]] /\ policy' = policy
<1>1. saved[d] \in [Tier -> Holding] /\ policy[t] \in Holding
  BY DEF DemoType
<1>2. saved' = [saved EXCEPT ![d] = [saved[d] EXCEPT ![t] = policy[t]]] /\ policy' = policy
  BY DEF Save
<1>3. [saved[d] EXCEPT ![t] = policy[t]] \in [Tier -> Holding]
  BY <1>1
<1>4. QED
  BY <1>2, <1>3 DEF DemoType

\* Any of the steps of a demo on a key.
LEMMA WritesType ==
  ASSUME DemoType, NEW d \in Sims, NEW t \in Tier,
         SetDemo(d, t) \/ Restore(d, t) \/ Skip \/ Save(d, t)
  PROVE  policy' \in [Tier -> Holding] /\ saved' \in [Sims -> [Tier -> Holding]]
<1>1. CASE SetDemo(d, t)
  BY <1>1 DEF SetDemo, DemoType, Holding
<1>2. CASE Restore(d, t)
  <2>1. saved[d][t] \in Holding
    BY DEF DemoType
  <2>2. QED
    BY <1>2, <2>1, PolicyType DEF Restore, DemoType
<1>3. CASE Skip
  BY <1>3 DEF Skip, DemoType
<1>4. CASE Save(d, t)
  BY <1>4, SaveType DEF DemoType
<1>5. QED
  BY <1>1, <1>2, <1>3, <1>4

\* The steps of a demo keep its types.
LEMMA DemoTyped ==
  ASSUME DemoType, NEW d \in Sims, Demo(d)
  PROVE  DemoType'
<1> USE AliveSteps
<1>0. "free" \in Tier /\ "premium" \in Tier
  BY DEF Tier
<1>1. results' \in {"none", "running", "error", "complete"}
  BY DEF Demo, Setup, LocalOnly, GeoDistributed, AgentAssisted, Cleanup, Undoes, Report, DemoType
<1>2. at' \in [Sims -> Alive \cup {"none", "gone"}]
  <2>1. (\E s \in Alive : Goto(d, s)) \/ Ends(d)
    BY DEF Demo, Setup, LocalOnly, GeoDistributed, AgentAssisted, Cleanup, Undoes, Step
  <2>2. QED
    BY <2>1, GotoType, EndsType
<1>3. CASE \E t \in Tier : SetDemo(d, t) \/ Restore(d, t) \/ Skip \/ Save(d, t)
  BY <1>1, <1>2, <1>3, WritesType DEF DemoType
<1>4. CASE Ends(d) /\ (policy' = policy \/ policy' = [policy EXCEPT !["premium"] = saved[d]["premium"]])
  <2>1. saved[d]["premium"] \in Holding
    BY <1>0 DEF DemoType
  <2>2. policy' \in [Tier -> Holding]
    BY <1>0, <1>4, <2>1, PolicyType DEF DemoType
  <2>3. QED
    BY <1>1, <1>2, <1>4, <2>2, EndsType DEF DemoType
<1>5. QED
  BY <1>0, <1>3, <1>4 DEF Demo, Setup, LocalOnly, GeoDistributed, AgentAssisted, Cleanup, Undoes

\* So do exceptions, signals and the end of traffic.
LEMMA TurnedTyped ==
  ASSUME DemoType, NEW d, TrafficEnds(d) \/ Raises(d) \/ Signalled(d)
  PROVE  /\ at' \in [Sims -> Alive \cup {"none", "gone"}]
         /\ saved' \in [Sims -> [Tier -> Holding]]
         /\ results' \in {"none", "running", "error", "complete"}
<1>1. results' \in {"none", "running", "error", "complete"}
  BY DEF TrafficEnds, Raises, Signalled, Report, DemoType
<1>2. (Goto(d, "undoFree") /\ saved' = saved) \/ Ends(d)
  BY DEF TrafficEnds, Raises, Signalled, Skip
<1>3. QED
  BY <1>1, <1>2, GotoType, EndsType, AliveSteps DEF DemoType

CtlType == /\ free \in SUBSET (Sims \cup Agents)
           /\ handle \in [Kind -> {NoProc} \cup Sims \cup Agents]
           /\ active \in Scenario \cup {"none"}
           /\ op \in [Thread -> Op]
           /\ raced \in BOOLEAN /\ left \in SUBSET Tier /\ owed \in SUBSET Tier

AgentType == /\ up \in [Agents -> {"none", "boot", "open", "gone"}]
             /\ fh \in [Agents -> Agents \cup {NoProc}]
             /\ log \in Agents \cup {NoProc}
             /\ cut \in SUBSET Agents

\* The types of the demo, the API and the agent make up all of them,
LEMMA TypeSplit == TypeOK <=> DemoType /\ CtlType /\ AgentType
BY DEF TypeOK, DemoType, CtlType, AgentType, Op, Do

\* also after a step.
LEMMA TypeJoined == ASSUME DemoType', CtlType', AgentType' PROVE TypeOK'
BY DEF TypeOK, DemoType, CtlType, AgentType, Op, Do

\* The results that a launch may unlink.
LEMMA FreshType ==
  ASSUME DemoType, NEW s, FreshResults(s)
  PROVE  results' \in {"none", "running", "error", "complete"}
BY DEF FreshResults, DemoType

\* The end of an agent.
LEMMA AgentOverType ==
  ASSUME AgentType, NEW a, AgentOver(a)
  PROVE  /\ up' \in [Agents -> {"none", "boot", "open", "gone"}]
         /\ fh' \in [Agents -> Agents \cup {NoProc}] /\ cut' \in SUBSET Agents
BY DEF AgentOver, AgentType

\* The steps of the threads keep the types,
LEMMA ControlTyped ==
  ASSUME TypeOK, NEW x \in Thread, Control(x)
  PROVE  TypeOK'
<1> SUFFICES DemoType' /\ CtlType' /\ AgentType'
  BY TypeJoined
<1> USE AliveSteps
<1>0. DemoType /\ CtlType /\ AgentType /\ "none" \in Scenario \cup {"none"}
      /\ "simulator" \in Kind /\ "agent" \in Kind
      /\ op[x].what \in Scenario \cup {"none"}
      /\ handle["simulator"] \in {NoProc} \cup Sims \cup Agents
      /\ handle["agent"] \in {NoProc} \cup Sims \cup Agents
  BY TypeSplit DEF Kind, CtlType, Op
<1>op. op' \in [Thread -> Op]
  <2>1. op' = op \/ Set(x, Idle) \/ \E do \in Do, p \in {NoProc} \cup Sims \cup Agents,
                                       w \in Scenario \cup {"none"} : Set(x, Doing(do, p, w))
    <3>1. CASE \E s \in Scenario : StartSim(x, s)
      BY <3>1 DEF StartSim, Do
    <3>2. CASE StopSim(x) \/ StoppedSim(x) \/ StartAgent(x) \/ StopAgent(x) \/ StoppedAgent(x)
      BY <1>0, <3>2 DEF StopSim, StoppedSim, StartAgent, StopAgent, StoppedAgent, Do
    <3>3. CASE KillSim(x)
      BY <3>3 DEF KillSim, ctlVars
    <3>4. CASE \/ \E d \in Sims : LaunchSim(x, d)
               \/ ReseedSim(x) \/ LaunchFails(x) \/ UnlinkLog(x)
               \/ Cleared(x, "noSim", "simulator") \/ Cleared(x, "noAgent", "agent")
               \/ \E a \in Agents : LaunchAgent(x, a)
      BY <3>4 DEF LaunchSim, ReseedSim, LaunchFails, UnlinkLog, Cleared, LaunchAgent
    <3>5. QED
      BY <3>1, <3>2, <3>3, <3>4 DEF Control
  <2>2. QED
    BY <1>0, <2>1, OpType DEF CtlType
<1>1. CASE (\E s \in Scenario : StartSim(x, s)) \/ StartAgent(x) \/ StopAgent(x)
  BY <1>0, <1>op, <1>1
     DEF StartSim, StartAgent, StopAgent, demoVars, agentVars, DemoType, CtlType, AgentType
<1>2. CASE \E d \in Sims : LaunchSim(x, d)
  <2>1. PICK d \in Sims : LaunchSim(x, d)
    BY <1>2
  <2>2. at' \in [Sims -> Alive \cup {"none", "gone"}]
    BY <1>0, <2>1, GotoType DEF LaunchSim, Spawn
  <2>3. DemoType'
    BY <1>0, <2>1, <2>2, FreshType DEF LaunchSim, DemoType
  <2>4. CtlType'
    BY <1>0, <1>op, <2>1 DEF LaunchSim, CtlType
  <2>5. AgentType'
    BY <1>0, <2>1 DEF LaunchSim, agentVars, AgentType
  <2>6. QED
    BY <2>3, <2>4, <2>5
<1>3. CASE StopSim(x)
  <2>1. DemoType'
    <3>1. CASE Signalled(handle["simulator"])
      BY <1>0, <1>3, <3>1, TurnedTyped DEF StopSim, DemoType
    <3>2. CASE UNCHANGED <<at, saved, results>>
      BY <1>0, <1>3, <3>2 DEF StopSim, DemoType
    <3>3. QED
      BY <1>3, <3>1, <3>2 DEF StopSim
  <2>2. CtlType' /\ AgentType'
    BY <1>0, <1>op, <1>3 DEF StopSim, agentVars, CtlType, AgentType
  <2>3. QED
    BY <2>1, <2>2
<1>4. CASE KillSim(x)
  <2>1. DemoType'
    BY <1>0, <1>4, EndsType DEF KillSim, DemoType
  <2>2. QED
    BY <1>0, <1>4, <2>1 DEF KillSim, ctlVars, agentVars, CtlType, AgentType
<1>5. CASE \/ StoppedSim(x) \/ UnlinkLog(x)
           \/ Cleared(x, "noSim", "simulator") \/ Cleared(x, "noAgent", "agent")
  BY <1>0, <1>op, <1>5
     DEF StoppedSim, UnlinkLog, Cleared, demoVars, agentVars, DemoType, CtlType, AgentType
<1>6. CASE ReseedSim(x)
  <2>1. policy' \in [Tier -> Holding] /\ left' \in SUBSET Tier
    BY <1>0, <1>6 DEF ReseedSim, Reseed, DemoType, CtlType, Holding
  <2>2. QED
    BY <1>0, <1>op, <1>6, <2>1 DEF ReseedSim, agentVars, DemoType, CtlType, AgentType
<1>7. CASE LaunchFails(x)
  <2>1. results' \in {"none", "running", "error", "complete"}
    BY <1>0, <1>7, FreshType DEF LaunchFails
  <2>2. QED
    BY <1>0, <1>op, <1>7, <2>1 DEF LaunchFails, DemoType, CtlType, AgentType
<1>8. CASE \E a \in Agents : LaunchAgent(x, a)
  BY <1>0, <1>op, <1>8 DEF LaunchAgent, demoVars, DemoType, CtlType, AgentType
<1>9. CASE StoppedAgent(x)
  <2>1. AgentType'
    <3>1. CASE AgentOver(op[x].proc)
      BY <1>0, <1>9, <3>1, AgentOverType DEF StoppedAgent, AgentType
    <3>2. CASE UNCHANGED <<up, fh, cut>>
      BY <1>0, <1>9, <3>2 DEF StoppedAgent, AgentType
    <3>3. QED
      BY <1>9, <3>1, <3>2 DEF StoppedAgent
  <2>2. QED
    BY <1>0, <1>op, <1>9, <2>1 DEF StoppedAgent, demoVars, DemoType, CtlType
<1>10. QED
  BY <1>1, <1>2, <1>3, <1>4, <1>5, <1>6, <1>7, <1>8, <1>9 DEF Control

\* The steps no thread takes.
Others == \/ \E d \in Sims : SimSteps(d) \/ SimKilled(d)
          \/ \E a \in Agents : OpenLog(a) \/ AgentEnds(a)
          \/ \E t \in Tier : AgentWrites(t) \/ Vanishes(t)
          \/ SeedPolicies \/ SeedUnlinks \/ Flush \/ ClearResults \/ ApiRestarts

\* and so do those of everybody else.
LEMMA OthersTyped == TypeOK /\ (Others \/ UNCHANGED vars) => TypeOK'
<1> SUFFICES ASSUME TypeOK, Others \/ UNCHANGED vars
             PROVE  DemoType' /\ CtlType' /\ AgentType'
  BY TypeJoined
<1> USE AliveSteps
<1>0. DemoType /\ CtlType /\ AgentType
  BY TypeSplit
<1>1. CASE \E d \in Sims : SimSteps(d)
  <2>1. PICK d \in Sims : SimSteps(d)
    BY <1>1
  <2>2. DemoType'
    <3>1. CASE Demo(d)
      BY <1>0, <3>1, DemoTyped
    <3>2. CASE (TrafficEnds(d) \/ Raises(d) \/ Signalled(d)) /\ policy' = policy
      BY <1>0, <3>2, TurnedTyped DEF DemoType
    <3>3. QED
      BY <2>1, <3>1, <3>2 DEF SimSteps, TrafficEnds, Raises, Skip
  <2>3. left' \in SUBSET Tier
    BY <1>0, <2>1 DEF SimSteps, CtlType
  <2>4. QED
    BY <1>0, <2>1, <2>2, <2>3 DEF SimSteps, ctlVars, agentVars, CtlType, AgentType
<1>2. CASE \E d \in Sims : SimKilled(d)
  <2>1. PICK d \in Sims : SimKilled(d)
    BY <1>2
  <2>2. DemoType'
    BY <1>0, <2>1, EndsType DEF SimKilled, DemoType
  <2>3. QED
    BY <1>0, <2>1, <2>2 DEF SimKilled, ctlVars, agentVars, CtlType, AgentType
<1>3. CASE \E a \in Agents : OpenLog(a) \/ AgentEnds(a)
  <2>1. PICK a \in Agents : OpenLog(a) \/ AgentEnds(a)
    BY <1>3
  <2>2. AgentType'
    <3>1. CASE OpenLog(a)
      <4>1. log' \in Agents \cup {NoProc} /\ UNCHANGED cut
        BY <1>0, <3>1 DEF OpenLog, AgentType
      <4>2. up' = [up EXCEPT ![a] = "open"] /\ fh' = [fh EXCEPT ![a] = log']
        BY <3>1 DEF OpenLog
      <4>3. QED
        BY <1>0, <4>1, <4>2 DEF AgentType
    <3>2. CASE AgentEnds(a)
      BY <1>0, <3>2, AgentOverType DEF AgentEnds, AgentType
    <3>3. QED
      BY <2>1, <3>1, <3>2
  <2>3. QED
    BY <1>0, <2>1, <2>2 DEF OpenLog, AgentEnds, demoVars, ctlVars, DemoType, CtlType
<1>4. CASE \/ SeedPolicies \/ Flush \/ SeedUnlinks \/ ClearResults
           \/ \E t \in Tier : AgentWrites(t) \/ Vanishes(t)
  <2>1. policy' \in [Tier -> Holding] /\ left' \in SUBSET Tier
    <3>1. CASE \E t \in Tier : AgentWrites(t) \/ Vanishes(t)
      <4>1. PICK t \in Tier, h \in {"agent", "baseline"} : Write(t, h)
        BY <3>1 DEF AgentWrites, Vanishes
      <4>2. QED
        BY <1>0, <4>1 DEF Write, DemoType, CtlType, Holding
    <3>2. CASE SeedPolicies \/ Flush \/ SeedUnlinks \/ ClearResults
      BY <1>0, <3>2 DEF SeedPolicies, Flush, SeedUnlinks, ClearResults, demoVars, DemoType,
                        CtlType, Holding
    <3>3. QED
      BY <1>4, <3>1, <3>2
  <2>2. UNCHANGED <<at, saved, free, ctlVars, up, fh, owed>> /\ results' \in {"none", results}
        /\ log' \in {NoProc, log} /\ cut' \in SUBSET Agents
    BY <1>0, <1>4 DEF SeedPolicies, Flush, SeedUnlinks, ClearResults, AgentWrites, Vanishes,
                      Write, demoVars, agentVars, AgentType
  <2>3. QED
    BY <1>0, <2>1, <2>2 DEF ctlVars, DemoType, CtlType, AgentType
<1>5. CASE ApiRestarts
  <2>1. DemoType'
    BY <1>0, <1>5, NothingType DEF ApiRestarts, DemoType
  <2>2. op' \in [Thread -> Op]
    BY <1>5 DEF ApiRestarts, Idle, Op, Do
  <2>3. CtlType'
    BY <1>0, <1>5, <2>2 DEF ApiRestarts, CtlType
  <2>4. AgentType'
    BY <1>0, <1>5 DEF ApiRestarts, AgentType
  <2>5. QED
    BY <2>1, <2>3, <2>4
<1>6. CASE UNCHANGED vars
  BY <1>0, <1>6 DEF vars, demoVars, DemoType, CtlType, AgentType
<1>7. QED
  BY <1>1, <1>2, <1>3, <1>4, <1>5, <1>6 DEF Others

-----------------------------------------------------------------------------
(* The steps together.                                                     *)

\* The steps of the threads keep the simulator's part,
LEMMA ControlSim ==
  ASSUME TypeOK, SimInv, NEW x \in Thread, Control(x)
  PROVE  SimInv'
<1>1. CASE \/ \E s \in Scenario : StartSim(x, s)
           \/ \E d \in Sims : LaunchSim(x, d)
           \/ StopSim(x) \/ StoppedSim(x) \/ ReseedSim(x) \/ Cleared(x, "noSim", "simulator")
  BY <1>1, StartSimKeeps, LaunchSimKeeps, StopSimKeeps, StoppedSimKeeps, ReseedKeeps,
     ClearedSimKeeps
<1>2. CASE KillSim(x)
  <2> DEFINE d == op[x].proc
  <2>1. /\ op[x].do = "stopSim" /\ Lives(d) /\ Ends(d)
        /\ UNCHANGED <<policy, results, handle, active, op, raced, left>>
    BY <1>2 DEF KillSim, ctlVars
  <2>2. Rescuing
    BY <2>1 DEF Rescuing
  <2>3. CASE d \in Sims
    BY <2>1, <2>2, <2>3, Living, KilledKeeps
  <2>4. CASE d \notin Sims
    <3>1. at' = at
      BY <2>1, <2>4 DEF Ends, TypeOK
    <3>2. QED
      BY <2>1, <3>1, Repaid
  <2>5. QED
    BY <2>3, <2>4
<1>3. CASE \/ StartAgent(x) \/ StopAgent(x) \/ StoppedAgent(x) \/ UnlinkLog(x) \/ LaunchFails(x)
           \/ Cleared(x, "noAgent", "agent") \/ \E a \in Agents : LaunchAgent(x, a)
  <2>1. /\ UNCHANGED <<at, policy, left, active>> /\ results' \in {"none", results}
        /\ handle'["simulator"] = handle["simulator"] /\ (~raced' => ~raced)
    BY <1>3 DEF StartAgent, StopAgent, StoppedAgent, UnlinkLog, LaunchFails, Cleared, LaunchAgent,
                demoVars, FreshResults, TypeOK, Kind
  <2>2. /\ \A y \in Thread \ {x} : op'[y] = op[y]
        /\ op[x].do \notin {"stopSim", "reseed"}
        /\ op'[x].do \notin {"startSim", "stopSim", "noSim", "reseed"}
    BY <1>3 DEF StartAgent, StopAgent, StoppedAgent, UnlinkLog, LaunchFails, Cleared, LaunchAgent,
                Set, Doing, Idle, TypeOK
  <2>3. QED
    BY <2>1, <2>2, SimKept
<1>4. QED
  BY <1>1, <1>2, <1>3 DEF Control

\* and so do those of everybody else.
LEMMA OthersSim ==
  ASSUME TypeOK, SimInv, Others \/ UNCHANGED vars
  PROVE  SimInv'
<1>1. CASE \E d \in Sims : SimSteps(d)
  <2>1. PICK d \in Sims : SimSteps(d)
    BY <1>1
  <2>2. UNCHANGED <<handle, active, op, raced>>
    BY <2>1 DEF SimSteps, ctlVars
  <2>3. CASE /\ Demo(d)
             /\ left' = {t \in Tier : policy'[t] = "demo" /\ (t \in left \/ Returns(d, t))}
    BY <2>2, <2>3, DemoKeeps
  <2>4. CASE TrafficEnds(d) \/ Raises(d) \/ (Lives(d) /\ Signalled(d) /\ UNCHANGED policy)
    <3>1. at[d] \in Alive
      BY <2>4, Living, AliveSteps DEF TrafficEnds, Raises
    <3>2. CASE left' = left
      BY <2>2, <2>4, <3>1, <3>2, OthersKeep DEF TrafficEnds, Raises, Skip
    <3>3. CASE left' # left
      BY <2>1, <2>3, <3>3 DEF SimSteps
    <3>4. QED
      BY <3>2, <3>3
  <2>5. QED
    BY <2>1, <2>3, <2>4 DEF SimSteps
<1>2. CASE \E d \in Sims : SimKilled(d)
  <2>1. PICK d \in Sims : SimKilled(d)
    BY <1>2
  <2>2. at[d] \in Alive /\ UNCHANGED <<handle, active, op, raced>>
    BY <2>1, Living DEF SimKilled, ctlVars
  <2>3. QED
    BY <2>1, <2>2, KilledKeeps DEF SimKilled
<1>3. CASE \/ \E t \in Tier : AgentWrites(t) \/ Vanishes(t)
           \/ SeedPolicies \/ Flush \/ ClearResults
  <2>1. UNCHANGED <<at, handle, active, op, raced>> /\ results' \in {"none", results}
    BY <1>3 DEF AgentWrites, Vanishes, Write, SeedPolicies, Flush, ClearResults, ctlVars
  <2>2. \A t \in Tier : policy'[t] = "demo" => policy[t] = "demo" /\ (t \in left => t \in left')
    <3>1. CASE SeedPolicies \/ Flush
      BY <3>1 DEF SeedPolicies, Flush
    <3>2. CASE \E s \in Tier : AgentWrites(s) \/ Vanishes(s)
      <4>1. PICK s \in Tier, h \in {"agent", "baseline"} : Write(s, h)
        BY <3>2 DEF AgentWrites, Vanishes
      <4>2. QED
        BY <4>1 DEF Write, TypeOK
    <3>3. CASE ClearResults
      BY <3>3 DEF ClearResults
    <3>4. QED
      BY <1>3, <3>1, <3>2, <3>3
  <2>3. QED
    BY <2>1, <2>2, Repaid
<1>4. CASE (\E a \in Agents : OpenLog(a) \/ AgentEnds(a)) \/ SeedUnlinks \/ UNCHANGED vars
  <2>1. UNCHANGED <<at, policy, results, handle, active, op, raced, left>>
    BY <1>4 DEF OpenLog, AgentEnds, SeedUnlinks, vars, demoVars, ctlVars
  <2>2. QED
    BY <2>1, Repaid
<1>5. CASE ApiRestarts
  BY <1>5, ApiRestartsSim
<1>6. QED
  BY <1>1, <1>2, <1>3, <1>4, <1>5 DEF Others

\* The steps of the threads keep the panel's part,
LEMMA ControlPanel ==
  ASSUME TypeOK, SimInv, PanelInv, NEW x \in Thread, Control(x)
  PROVE  PanelInv'
<1>1. CASE \E d \in Sims : LaunchSim(x, d)
  BY <1>1, PanelLaunch
<1>2. CASE StopSim(x)
  <2> DEFINE h == handle["simulator"]
  <2>1. UNCHANGED <<policy, raced, owed>>
    BY <1>2 DEF StopSim
  <2>2. CASE IsRunning("simulator") /\ h \in Sims
    <3>1. Signalled(h) /\ at[h] \in Alive
      BY <1>2, <2>2, Living DEF StopSim, IsRunning
    <3>2. QED
      BY <2>1, <2>2, <3>1, PanelTurned
  <2>3. CASE IsRunning("simulator") /\ h \notin Sims
    <3>1. Signalled(h)
      BY <1>2, <2>3 DEF StopSim
    <3>2. UNCHANGED <<at, saved>> /\ (results' = "complete" => results = "complete")
      BY <2>3, <3>1 DEF Signalled, Goto, Ends, Report, TypeOK
    <3>3. QED
      BY <2>1, <3>2, PanelKept
  <2>4. CASE ~IsRunning("simulator")
    <3>1. UNCHANGED <<at, saved, results>>
      BY <1>2, <2>4 DEF StopSim
    <3>2. QED
      BY <2>1, <3>1, PanelKept
  <2>5. QED
    BY <2>2, <2>3, <2>4
<1>3. CASE KillSim(x)
  <2>1. Ends(op[x].proc) /\ UNCHANGED <<policy, results, raced, owed>>
    BY <1>3 DEF KillSim, ctlVars
  <2>2. \A d \in Sims : \/ at'[d] = at[d] /\ saved'[d] = saved[d]
                        \/ at'[d] = "gone" /\ saved'[d] = Nothing
    BY <2>1 DEF Ends, TypeOK
  <2>3. QED
    BY <2>1, <2>2, PanelKept
<1>4. CASE ReseedSim(x)
  <2>1. /\ UNCHANGED <<at, saved, results, raced, owed>>
        /\ \A t \in Tier : policy'[t] = "demo" => policy[t] = "demo"
    BY <1>4 DEF ReseedSim, Reseed
  <2>2. QED
    BY <2>1, PanelKept
<1>5. CASE \/ (\E s \in Scenario : StartSim(x, s)) \/ StoppedSim(x) \/ LaunchFails(x)
           \/ Cleared(x, "noSim", "simulator") \/ Cleared(x, "noAgent", "agent")
           \/ StartAgent(x) \/ (\E a \in Agents : LaunchAgent(x, a))
           \/ StopAgent(x) \/ StoppedAgent(x) \/ UnlinkLog(x)
  <2>1. UNCHANGED <<policy, at, saved, owed>> /\ (~raced' => ~raced)
    <3>1. CASE \E a \in Agents : LaunchAgent(x, a)
      BY <3>1 DEF LaunchAgent, demoVars
    <3>2. CASE \/ (\E s \in Scenario : StartSim(x, s)) \/ StartAgent(x) \/ StopAgent(x)
               \/ StoppedSim(x) \/ LaunchFails(x)
      BY <3>2 DEF StartSim, StartAgent, StopAgent, StoppedSim, LaunchFails, demoVars
    <3>3. CASE \/ StoppedAgent(x) \/ UnlinkLog(x)
               \/ Cleared(x, "noSim", "simulator") \/ Cleared(x, "noAgent", "agent")
      BY <3>3 DEF StoppedAgent, UnlinkLog, Cleared, demoVars
    <3>4. QED
      BY <1>5, <3>1, <3>2, <3>3
  <2>2. results' = "complete" => results = "complete"
    BY <1>5 DEF StartSim, StoppedSim, LaunchFails, Cleared, StartAgent, LaunchAgent, StopAgent,
                StoppedAgent, UnlinkLog, FreshResults, demoVars
  <2>3. QED
    BY <2>1, <2>2, PanelKept
<1>6. QED
  BY <1>1, <1>2, <1>3, <1>4, <1>5 DEF Control

\* and so do those of everybody else.
LEMMA OthersPanel ==
  ASSUME TypeOK, SimInv, PanelInv, Others \/ UNCHANGED vars
  PROVE  PanelInv'
<1>1. CASE \E d \in Sims : SimSteps(d)
  <2>1. PICK d \in Sims : SimSteps(d)
    BY <1>1
  <2>2. raced' = raced
    BY <2>1 DEF SimSteps, ctlVars
  <2>3. CASE /\ Demo(d)
             /\ owed' = owed \cup {t \in Tier : /\ Returns(d, t) /\ policy'[t] = "demo"
                                             /\ saved[d][t] # "demo"}
    BY <2>2, <2>3, PanelDemo
  <2>4. CASE /\ TrafficEnds(d) \/ Raises(d) \/ (Lives(d) /\ Signalled(d) /\ UNCHANGED policy)
             /\ owed' = owed
    <3>1. at[d] \in Alive /\ policy' = policy
      BY <2>4, Living, AliveSteps DEF TrafficEnds, Raises, Skip
    <3>2. QED
      BY <2>2, <2>4, <3>1, PanelTurned
  <2>5. QED
    BY <2>1, <2>3, <2>4 DEF SimSteps
<1>2. CASE \E d \in Sims : SimKilled(d)
  <2>1. PICK d \in Sims : SimKilled(d)
    BY <1>2
  <2>2. Ends(d) /\ UNCHANGED <<policy, results, raced, owed>>
    BY <2>1 DEF SimKilled, ctlVars
  <2>3. \A e \in Sims : \/ at'[e] = at[e] /\ saved'[e] = saved[e]
                        \/ at'[e] = "gone" /\ saved'[e] = Nothing
    BY <2>2 DEF Ends, TypeOK
  <2>4. QED
    BY <2>2, <2>3, PanelKept
<1>3. CASE \/ \E t \in Tier : AgentWrites(t) \/ Vanishes(t)
           \/ SeedPolicies \/ Flush \/ ClearResults
           \/ (\E a \in Agents : OpenLog(a) \/ AgentEnds(a)) \/ SeedUnlinks \/ UNCHANGED vars
  <2>1. UNCHANGED <<at, saved, raced, owed>> /\ (results' = "complete" => results = "complete")
    BY <1>3 DEF AgentWrites, Vanishes, Write, SeedPolicies, Flush, ClearResults, OpenLog, AgentEnds,
                SeedUnlinks, vars, demoVars, ctlVars
  <2>2. \A t \in Tier : policy'[t] = "demo" => policy[t] = "demo"
    <3>1. CASE \E s \in Tier : AgentWrites(s) \/ Vanishes(s)
      <4>1. PICK s \in Tier, h \in {"agent", "baseline"} : Write(s, h)
        BY <3>1 DEF AgentWrites, Vanishes
      <4>2. QED
        BY <4>1 DEF Write, TypeOK
    <3>2. CASE \/ SeedPolicies \/ Flush \/ ClearResults \/ SeedUnlinks \/ UNCHANGED vars
               \/ \E a \in Agents : OpenLog(a) \/ AgentEnds(a)
      BY <3>2 DEF SeedPolicies, Flush, ClearResults, SeedUnlinks, vars, OpenLog, AgentEnds, demoVars
    <3>3. QED
      BY <1>3, <3>1, <3>2
  <2>3. QED
    BY <2>1, <2>2, PanelKept
<1>4. CASE ApiRestarts
  BY <1>4, PanelRestarts
<1>5. QED
  BY <1>1, <1>2, <1>3, <1>4 DEF Others

\* The steps of the threads keep the agent's part,
LEMMA ControlAgent ==
  ASSUME TypeOK, AgentInv, NEW x \in Thread, Control(x)
  PROVE  AgentInv'
<1>1. CASE \/ StartAgent(x) \/ (\E a \in Agents : LaunchAgent(x, a)) \/ LaunchFails(x)
           \/ StopAgent(x) \/ StoppedAgent(x) \/ UnlinkLog(x) \/ Cleared(x, "noAgent", "agent")
  BY <1>1, StartAgentKeeps, LaunchAgentKeeps, LaunchFailsAgent, StopAgentKeeps,
     StoppedAgentKeeps, NoAgentKeeps
<1>2. CASE \/ \E s \in Scenario : StartSim(x, s)
           \/ \E d \in Sims : LaunchSim(x, d)
           \/ StopSim(x) \/ KillSim(x) \/ StoppedSim(x) \/ ReseedSim(x)
           \/ Cleared(x, "noSim", "simulator")
  <2>1. UNCHANGED agentVars /\ handle'["agent"] = handle["agent"] /\ (~raced' => ~raced)
    BY <1>2 DEF StartSim, LaunchSim, StopSim, KillSim, StoppedSim, ReseedSim, Cleared, ctlVars,
                TypeOK, Kind
  <2>2. /\ \A y \in Thread \ {x} : op'[y] = op[y]
        /\ op'[x] = op[x] \/ op'[x].do \in {"startSim", "idle", "stopSim", "noSim", "reseed"}
    BY <1>2 DEF StartSim, LaunchSim, StopSim, KillSim, StoppedSim, ReseedSim, Cleared, ctlVars,
                Set, Doing, Idle, TypeOK
  <2>3. QED
    BY <2>1, <2>2, AgentKept
<1>3. QED
  BY <1>1, <1>2 DEF Control

\* and so do those of everybody else.
LEMMA OthersAgent ==
  ASSUME TypeOK, AgentInv, Others \/ UNCHANGED vars
  PROVE  AgentInv'
<1>1. CASE \E a \in Agents : OpenLog(a) \/ AgentEnds(a)
  BY <1>1, OpenLogKeeps, AgentEndsKeeps
<1>2. CASE \/ \E d \in Sims : SimSteps(d) \/ SimKilled(d)
           \/ \E t \in Tier : AgentWrites(t) \/ Vanishes(t)
           \/ SeedPolicies \/ Flush \/ ClearResults \/ UNCHANGED vars
  <2>1. UNCHANGED <<agentVars, handle, op, raced>>
    BY <1>2 DEF SimSteps, SimKilled, AgentWrites, Vanishes, Write, SeedPolicies, Flush,
                ClearResults, vars, ctlVars, agentVars
  <2>2. QED
    BY <2>1, AgentKept
<1>3. CASE SeedUnlinks \/ ApiRestarts
  BY <1>3, SeedUnlinksKeeps, ApiRestartsAgent
<1>4. QED
  BY <1>1, <1>2, <1>3 DEF Others

\* IInv is an inductive invariant.
THEOREM Invariance == Spec => []IInv
<1>1. Init => IInv
  <2> SUFFICES ASSUME Init PROVE IInv
    OBVIOUS
  <2>1. TypeOK
    <3>1. DemoType
      BY NothingType DEF Init, DemoInit, DemoType, Holding
    <3>2. CtlType /\ AgentType
      BY DEF Init, CtlType, AgentType, Op, Do, Idle
    <3>3. QED
      BY <3>1, <3>2, TypeSplit
  <2>2. SimInv
    BY AliveSteps
       DEF Init, DemoInit, SimInv, SoleSim, SimThreads, Lent, Credited, Settled, AllLeft,
           Demoing, Idle
  <2>3. PanelInv
    BY AliveSteps DEF Init, DemoInit, PanelInv, Clean, Remembered, Honest, Nothing
  <2>4. AgentInv
    BY DEF Init, AgentInv, SoleAgent, AgentThreads, Logged, LivesAgent, Idle
  <2>5. QED
    BY <2>1, <2>2, <2>3, <2>4 DEF IInv
<1>2. IInv /\ [Next]_vars => IInv'
  <2> SUFFICES ASSUME IInv, [Next]_vars PROVE IInv'
    OBVIOUS
  <2>1. CASE \E x \in Thread : Control(x)
    BY <2>1, ControlTyped, ControlSim, ControlPanel, ControlAgent DEF IInv
  <2>2. CASE Others \/ UNCHANGED vars
    BY <2>2, OthersTyped, OthersSim, OthersPanel, OthersAgent DEF IInv
  <2>3. QED
    BY <2>1, <2>2 DEF Next, Others
<1>3. QED
  BY <1>1, <1>2, PTL DEF Spec

\* Every variable of the control endpoints keeps its type.
THEOREM TypeCorrect == Spec => []TypeOK
<1>1. IInv => TypeOK
  BY DEF IInv
<1>2. QED
  BY <1>1, Invariance, PTL

\* "Only one agent and one simulator run at a time", for any number of threads
\* and processes, unless control requests race.
THEOREM OneAtATime == Spec => []OnlyOneUnlessRaced
<1>1. IInv => OnlyOneUnlessRaced
  BY Living DEF IInv, SimInv, AgentInv, SoleSim, SoleAgent, OnlyOneUnlessRaced
<1>2. QED
  BY <1>1, Invariance, PTL

\* A tier that holds the policy of a demo has a demo that will take it back, or a
\* thread that seeds over it, or was left to the TTL.
THEOREM LoansAreKnown == Spec => []BorrowedPolicy
<1>1. IInv => BorrowedPolicy
  BY Living DEF IInv, SimInv, Lent, BorrowedPolicy, Rescued, Rescuing
<1>2. QED
  BY <1>1, Invariance, PTL

\* When the panel calls a demo complete, no demo's policy is in force in a tier
\* where it found none and whose restore did not fail.
THEOREM PanelIsHonest == Spec => []CompleteMeansReturned
<1>1. IInv => CompleteMeansReturned
  BY DEF IInv, PanelInv, Honest, CompleteMeansReturned, Panel
<1>2. QED
  BY <1>1, Invariance, PTL

\* The file an agent appends to is the one the dashboard reads, unless a seed
\* request unlinked it.
THEOREM LogIsRead == Spec => []LogVisible
<1>1. IInv => LogVisible
  BY DEF IInv, AgentInv, Logged, LogVisible
<1>2. QED
  BY <1>1, Invariance, PTL
=============================================================================
