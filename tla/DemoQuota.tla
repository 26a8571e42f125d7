------------------------------ MODULE DemoQuota ------------------------------
(***************************************************************************)
(* The global-quota demo as a process that borrows the policies of two     *)
(* tiers: it saves what a key holds, overwrites it, and puts it back when  *)
(* it ends, fails or is signalled.  One region: the script treats the      *)
(* regions alike, one after the other, and skips one whose Redis fails.    *)
(* The traffic it sends touches no policy; a phase of it is one step.      *)
(***************************************************************************)
EXTENDS Integers, FiniteSets

CONSTANTS Sims          \* the simulator processes, each started once at most

VARIABLES
  policy,   \* policy[t]: what policy:{region}:{t} holds, by who wrote it
  at,       \* at[d]: how far process d has come
  saved,    \* saved[d][t]: _original_policies and _original_premium_policies
  results   \* the status in the results file the dashboard polls, "none" without it

demoVars == <<policy, at, saved, results>>

Tier == {"free", "premium"}

\* A key holds a policy of the agent, one of the demo, or else the seeded
\* baseline or nothing: the demo puts the baseline back for either.
Holding == {"baseline", "agent", "demo"}

\* The steps of main once the handler of signals is installed, those of the
\* restore after a signal or an exception, and "traffic" for any other scenario.
Main == {"saveFree", "setFree", "phase1", "phase2", "savePremium", "setPremium", "raise",
         "restoreFree", "restorePremium", "done"}
Undo == {"undoFree", "undoPremium"}
Alive == Main \cup Undo \cup {"boot", "traffic"}

\* Also what restoring writes of a tier that was not saved.
Nothing == [t \in Tier |-> "baseline"]

DemoInit == /\ policy = [t \in Tier |-> "baseline"]
            /\ at = [d \in Sims |-> "none"]
            /\ saved = [d \in Sims |-> Nothing]
            /\ results = "none"

Goto(d, s) == at' = [at EXCEPT ![d] = s]

Step(d, from, to) == at[d] = from /\ Goto(d, to)

\* The process is over and with it what it remembered.
Ends(d) == /\ at' = [at EXCEPT ![d] = "gone"]
           /\ saved' = [saved EXCEPT ![d] = Nothing]

\* The parent starts it.
Spawn(d, scenario) == /\ at[d] = "none"
                      /\ Goto(d, IF scenario = "global_quota_bypass" THEN "boot" ELSE "traffic")

\* _write_results: the file is replaced as a whole, or the failure is only told.
Report(status) == results' = status \/ UNCHANGED results

\* The GET of _save_and_set, remembered.
Save(d, t) == /\ saved' = [saved EXCEPT ![d][t] = policy[t]]
              /\ UNCHANGED policy

\* The SET that follows, for 300 s.
SetDemo(d, t) == /\ policy' = [policy EXCEPT ![t] = "demo"]
                 /\ UNCHANGED saved

\* A step on Redis fails: the region is skipped.
Skip == UNCHANGED <<policy, saved>>

\* _restore_policies: what was saved, else the baseline.
Restore(d, t) == /\ policy' = [policy EXCEPT ![t] = saved[d][t]]
                 /\ UNCHANGED saved

-----------------------------------------------------------------------------
(* main.                                                                   *)

\* The handler is installed, the first results are written, the limit of free is
\* lowered.
Setup(d) == \/ Step(d, "boot", "saveFree") /\ Skip /\ Report("running")
            \/ /\ \/ Step(d, "saveFree", "setFree") /\ Save(d, "free")
                  \/ Step(d, "saveFree", "phase1") /\ Skip
                  \/ Step(d, "setFree", "phase1") /\ (SetDemo(d, "free") \/ Skip)
               /\ UNCHANGED results

\* The traffic of a user for each region, and its totals.
LocalOnly(d) == Step(d, "phase1", "phase2") /\ Skip /\ Report("running")

\* The traffic of one user in all regions, and its totals.
GeoDistributed(d) == Step(d, "phase2", "savePremium") /\ Skip /\ Report("running")

\* The limit of premium is lowered, then raised as an agent would; the traffic
\* that follows, and its totals.
AgentAssisted(d) ==
  \/ /\ \/ Step(d, "savePremium", "setPremium") /\ Save(d, "premium")
        \/ Step(d, "savePremium", "raise") /\ Skip
        \/ Step(d, "setPremium", "raise") /\ (SetDemo(d, "premium") \/ Skip)
     /\ UNCHANGED results
  \/ /\ Step(d, "raise", "restoreFree") /\ (SetDemo(d, "premium") \/ Skip)
     /\ Report("running")

\* Mutant: the demo is complete before it cleans up.
CleanupLast(d) ==
  \/ /\ \/ Step(d, "restorePremium", "done") /\ (Restore(d, "premium") \/ Skip)
        \/ at[d] = "done" /\ Ends(d) /\ UNCHANGED policy
     /\ UNCHANGED results
  \/ /\ Step(d, "restoreFree", "restorePremium") /\ (Restore(d, "free") \/ Skip)
     /\ Report("complete")

\* Both tiers are restored, and the demo is complete.
Cleanup(d) ==
  \/ /\ \/ Step(d, "restoreFree", "restorePremium") /\ (Restore(d, "free") \/ Skip)
        \/ Step(d, "restorePremium", "done") /\ (Restore(d, "premium") \/ Skip)
     /\ UNCHANGED results
  \/ at[d] = "done" /\ Ends(d) /\ UNCHANGED policy /\ Report("complete")

\* The restore of the handlers, which ends the process.
Undoes(d) == /\ \/ Step(d, "undoFree", "undoPremium") /\ (Restore(d, "free") \/ Skip)
                \/ /\ at[d] = "undoPremium" /\ Ends(d)
                   /\ \/ policy' = [policy EXCEPT !["premium"] = saved[d]["premium"]]
                      \/ UNCHANGED policy
             /\ UNCHANGED results

Demo(d) == \/ Setup(d) \/ LocalOnly(d) \/ GeoDistributed(d) \/ AgentAssisted(d)
           \/ Cleanup(d) \/ Undoes(d)

\* An exception in main: it is reported, then the same restore.
Raises(d) == /\ at[d] \in Main
             /\ Goto(d, "undoFree") /\ Skip /\ Report("error")

\* Mutant: the handler takes back the free tier only.
SignalledHalf(d) == IF at[d] \in Main \cup Undo
                    THEN Goto(d, "undoPremium") /\ UNCHANGED saved /\ Report("error")
                    ELSE Ends(d) /\ UNCHANGED results

\* SIGTERM or SIGINT: _handle_signal reports it and restores both tiers, from the
\* beginning if it interrupts a restore; before the handler is installed the
\* process dies.
Signalled(d) == IF at[d] \in Main \cup Undo
                THEN Goto(d, "undoFree") /\ UNCHANGED saved /\ Report("error")
                ELSE Ends(d) /\ UNCHANGED results

\* Traffic ends by itself.
TrafficEnds(d) == at[d] = "traffic" /\ Ends(d) /\ UNCHANGED <<policy, results>>

\* What is written for 300 s; the baseline is for a day.
Mortal == {"agent", "demo"}

\* d has put its policy into t and has not taken it back.
Borrows(d, t) == at[d] \in IF t = "free"
                           THEN {"phase1", "phase2", "savePremium", "setPremium", "raise",
                                 "restoreFree", "undoFree"}
                           ELSE {"raise", "restoreFree", "restorePremium"} \cup Undo

\* The step of d is the one that takes t back.
Returns(d, t) == at[d] \in IF t = "free" THEN {"restoreFree", "undoFree"}
                                         ELSE {"restorePremium", "undoPremium"}
=============================================================================
