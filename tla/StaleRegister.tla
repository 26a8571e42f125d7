--------------------------- MODULE StaleRegister ----------------------------
(***************************************************************************)
(* What override.Cache promises to the callers of Lookup, without entries, *)
(* flights or locks: a register that may answer late, but never with a     *)
(* version that was gone too long when the call began, and never with an   *)
(* older one than a call that had already returned.                        *)
(***************************************************************************)
EXTENDS OverrideKey

CONSTANTS Caller,
          Ttl,      \* how long a result may be kept
          MaxFetch  \* how long a lookup may take

VARIABLES phase,   \* phase[c]: "idle", "called", "asking" or "done"
          start,   \* start[c]: when c called
          floor,   \* floor[c]: `seen' when c called
          seen,    \* the newest version a call has returned
          answer   \* answer[c]: what c returned

callVars == <<phase, start, floor, seen, answer>>
vars == <<clock, keyVars, callVars>>

\* Version 0 is no version.
NoAnswer == [limit |-> None, version |-> 0, failed |-> FALSE]
Failure == [limit |-> None, version |-> 0, failed |-> TRUE]

Init == /\ KeyInit
        /\ phase = [c \in Caller |-> "idle"] /\ start = [c \in Caller |-> 0]
        /\ floor = [c \in Caller |-> 0] /\ seen = 0
        /\ answer = [c \in Caller |-> NoAnswer]

\* A call that has done nothing yet calls now.
Called(c) == IF phase[c] = "idle" THEN clock ELSE start[c]
Floor(c) == IF phase[c] = "idle" THEN seen ELSE floor[c]

Call(c) == /\ phase[c] = "idle"
           /\ phase' = [phase EXCEPT ![c] = "called"]
           /\ start' = [start EXCEPT ![c] = clock]
           /\ floor' = [floor EXCEPT ![c] = seen]
           /\ UNCHANGED <<clock, keyVars, seen, answer>>

\* c shares a lookup: it begins one, or joins one.
Ask(c) == /\ phase[c] = "called"
          /\ phase' = [phase EXCEPT ![c] = "asking"]
          /\ UNCHANGED <<clock, keyVars, start, floor, seen, answer>>

Return(c) == /\ phase' = [phase EXCEPT ![c] = "done"]
             /\ start' = [start EXCEPT ![c] = 0] /\ floor' = [floor EXCEPT ![c] = 0]
             /\ UNCHANGED <<clock, keyVars>>

\* c returns a version that lasted until less than d before it called, and is
\* not older than one returned before that.
Answer(c, d) == \E n \in 1 .. Current :
                  /\ Floor(c) <= n /\ Held(n, Called(c), d)
                  /\ answer' = [answer EXCEPT ![c] =
                                  [limit |-> LimitOf(n), version |-> n, failed |-> FALSE]]
                  /\ seen' = IF n > seen THEN n ELSE seen
                  /\ Return(c)

\* The kept result was read within a Ttl and a lookup.
FromCache(c) == phase[c] \in {"idle", "called"} /\ Answer(c, Ttl + MaxFetch)

\* A lookup that c shares began at most MaxFetch before c called.
FromLookup(c) == phase[c] = "asking" /\ Answer(c, MaxFetch + 1)

\* Only a call that shares a lookup can learn that it failed.
Fail(c) == /\ phase[c] = "asking"
           /\ answer' = [answer EXCEPT ![c] = Failure]
           /\ Return(c)
           /\ UNCHANGED seen

Write == Change /\ UNCHANGED callVars

Tick == clock' = clock + 1 /\ UNCHANGED <<keyVars, callVars>>

Next == \/ \E c \in Caller : Call(c) \/ Ask(c) \/ FromCache(c) \/ FromLookup(c) \/ Fail(c)
        \/ Write \/ Tick

Spec == Init /\ [][Next]_vars
=============================================================================
