----------------------------- MODULE CallClock -----------------------------
(***************************************************************************)
(* How calls of a local limiter meet time.  Check() reads the gateway's    *)
(* clock, and the script with that stamp runs in Redis some time later, so *)
(* scripts of concurrent requests run in any order of their stamps.  The   *)
(* gateway's clock may step back and forth within MaxStep; Redis expires   *)
(* keys by its own clock.                                                  *)
(***************************************************************************)
EXTENDS Naturals

CONSTANTS
  Call,      \* the requests to one key
  MaxStep,   \* the gateway's clock is at most this far ahead of Redis's
  MaxDelay,  \* bound: time from reading the clock to the script's run
  MaxClock   \* bound: end of time

ASSUME TimeAssumption == MaxStep \in Nat /\ MaxDelay \in Nat /\ MaxClock \in Nat

VARIABLES
  clock,  \* the clock of Redis
  phase,  \* phase[c]: "idle", "sent", "allowed", "denied" or "error"
  stamp,  \* stamp[c]: nowMs, what time.Now() told c
  sent    \* history: clock when c read its stamp

callVars == <<phase, stamp, sent>>

Phase == {"idle", "sent", "allowed", "denied", "error"}

CallTypeOK == /\ clock \in Nat
              /\ phase \in [Call -> Phase]
              /\ stamp \in [Call -> Nat] /\ sent \in [Call -> Nat]

CallInit == /\ clock = 0
            /\ phase = [c \in Call |-> "idle"]
            /\ stamp = [c \in Call |-> 0] /\ sent = [c \in Call |-> 0]

\* nowMs := time.Now().UnixMilli()
ReadClock(c) == /\ phase[c] = "idle"
                /\ phase' = [phase EXCEPT ![c] = "sent"]
                /\ stamp' \in {[stamp EXCEPT ![c] = t] : t \in clock .. clock + MaxStep}
                /\ sent' = [sent EXCEPT ![c] = clock]
                /\ UNCHANGED clock

\* Time passes, but not past the deadline of a call under way.
Tick == /\ clock < MaxClock
        /\ \A c \in Call : phase[c] = "sent" => clock < sent[c] + MaxDelay
        /\ clock' = clock + 1
        /\ UNCHANGED callVars

\* The script of c answers, and Check returns.
Answer(c, verdict) == /\ phase' = [phase EXCEPT ![c] = verdict]
                      /\ stamp' = [stamp EXCEPT ![c] = 0]
                      /\ sent' = [sent EXCEPT ![c] = 0]
                      /\ UNCHANGED clock

\* How far two stamps can be out of order when their scripts run.
Skew == MaxStep + MaxDelay

\* A call under way is not late, and its stamp is near the time it was read.
CallsOnTime ==
  \A c \in Call : phase[c] = "sent" =>
    /\ sent[c] <= clock /\ clock <= sent[c] + MaxDelay
    /\ sent[c] <= stamp[c] /\ stamp[c] <= sent[c] + MaxStep
=============================================================================
