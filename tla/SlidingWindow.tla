---------------------------- MODULE SlidingWindow ----------------------------
(***************************************************************************)
(* The sliding-window log: SlidingWindowLogLimiter.Check and               *)
(* sliding_window.lua on one key.  The sorted set is the set of its        *)
(* members, each with its score.                                           *)
(***************************************************************************)
EXTENDS CallClock, FiniteSets

CONSTANTS
  MaxLimit,    \* bound: the limits policies and overrides give this key
  Window,      \* window_ms
  Ttl,         \* ttl_secs
  MaxRestarts  \* bound: restarts of Redis

ASSUME WindowAssumption ==
  /\ MaxLimit \in Nat \ {0} /\ Window \in Nat /\ Ttl \in Nat /\ MaxRestarts \in Nat
  /\ Skew < Window /\ Window <= Ttl

VARIABLES
  log,      \* the sorted set
  seq,      \* l.seq: the last nonce of the gateway process
  nonce,    \* nonce[c]
  hint,     \* retry_after_ms of the last denial
  touched,  \* when EXPIRE last ran
  life,     \* history: restarts of Redis so far
  admitted  \* history: members of the allowed calls, with the life they saw

windowVars == <<log, seq, nonce, hint, touched, life, admitted>>
vars == <<clock, callVars, windowVars>>

Init == /\ CallInit
        /\ log = {} /\ seq = 0
        /\ nonce = [c \in Call |-> 0] /\ hint = 0
        /\ touched = 0 /\ life = 0 /\ admitted = {}

\* Mutant: the member is the time stamp alone.
StampOnly(c) == [at |-> stamp[c], nonce |-> 0]

\* now_ms .. ":" .. nonce, with score now_ms
Member(c) == [at |-> stamp[c], nonce |-> nonce[c]]

\* Mutant: entries leave one unit late.
LiveLong(entries, t) == {e \in entries : e.at + Window >= t}

\* What ZREMRANGEBYSCORE -inf .. now_ms - window_ms leaves.
Live(entries, t) == {e \in entries : e.at + Window > t}

\* Time until the oldest live entry leaves.
RetryAfter(entries, t) ==
  LET oldest == CHOOSE e \in entries : \A d \in entries : e.at <= d.at
  IN (oldest.at + Window) - t

\* Check: take a nonce and the time.
Check(c) == /\ ReadClock(c)
            /\ seq' = seq + 1
            /\ nonce' = [nonce EXCEPT ![c] = seq + 1]
            /\ UNCHANGED <<log, hint, touched, life, admitted>>

\* The script allows c and records it.
Allow(c) == /\ phase[c] = "sent"
            /\ \E limit \in 1 .. MaxLimit : Cardinality(Live(log, stamp[c])) < limit
            /\ log' = Live(log, stamp[c]) \cup {Member(c)}
            /\ admitted' = admitted \cup {[at |-> stamp[c], call |-> c, life |-> life]}
            /\ touched' = clock
            /\ Answer(c, "allowed")
            /\ UNCHANGED <<seq, nonce, hint, life>>

\* The script denies c and tells when the oldest entry leaves.
Deny(c) == /\ phase[c] = "sent"
           /\ \E limit \in 1 .. MaxLimit : Cardinality(Live(log, stamp[c])) >= limit
           /\ log' = Live(log, stamp[c])
           /\ hint' = RetryAfter(log', stamp[c])
           /\ touched' = clock
           /\ Answer(c, "denied")
           /\ UNCHANGED <<seq, nonce, life, admitted>>

\* The script ran but its reply is lost: the Redis client runs it again with the
\* same arguments.
ReplyLost(c) == /\ phase[c] = "sent"
                /\ \E limit \in 1 .. MaxLimit :
                     log' = IF Cardinality(Live(log, stamp[c])) < limit
                            THEN Live(log, stamp[c]) \cup {Member(c)}
                            ELSE Live(log, stamp[c])
                /\ touched' = clock
                /\ UNCHANGED <<clock, callVars, seq, nonce, hint, life, admitted>>

\* Check returns err.
Fail(c) == /\ phase[c] = "sent"
           /\ Answer(c, "error")
           /\ UNCHANGED windowVars

\* The key's TTL passes.
Expire == /\ log # {} /\ clock >= touched + Ttl
          /\ log' = {}
          /\ UNCHANGED <<clock, callVars, seq, nonce, hint, touched, life, admitted>>

\* Redis restarts empty.
RedisRestart == /\ life < MaxRestarts
                /\ life' = life + 1 /\ log' = {}
                /\ UNCHANGED <<clock, callVars, seq, nonce, hint, touched, admitted>>

Next == \/ \E c \in Call : Check(c) \/ Allow(c) \/ Deny(c) \/ ReplyLost(c) \/ Fail(c)
        \/ Expire \/ RedisRestart
        \/ Tick /\ UNCHANGED windowVars

Spec == Init /\ [][Next]_vars

-----------------------------------------------------------------------------
Entry == [at : Nat, nonce : Nat]
Admission == [at : Nat, call : Call, life : Nat]

\* Every variable keeps its type.
TypeOK == /\ CallTypeOK
          /\ log \subseteq Entry /\ seq \in Nat
          /\ nonce \in [Call -> Nat] /\ hint \in Nat
          /\ touched \in Nat /\ life \in Nat
          /\ admitted \subseteq Admission

\* The admissions by one life of Redis with stamps in the interval of length
\* Window - Skew that begins with a's.
AdmittedSince(a) == {b \in admitted : /\ b.life = a.life
                                      /\ a.at <= b.at
                                      /\ b.at < a.at + (Window - Skew)}

\* Whatever the order in which scripts run and however the clock steps, they are
\* never more than the limit ("max requests in the window", sliding_window.lua:5).
WindowBound == \A a \in admitted : Cardinality(AdmittedSince(a)) <= MaxLimit

\* A user nobody heard of for a window and a clock step starts afresh: no entry
\* recorded under a clock ahead of time blocks it any longer.
IdleUserForgotten == clock >= touched + Window + MaxStep => Live(log, clock) = {}

\* A denied caller is told to wait, and no longer than the window and the skew.
HintBounded == (\E c \in Call : phase[c] = "denied") => hint \in 1 .. Window + Skew

-----------------------------------------------------------------------------
(* The inductive invariant. *)

\* No two calls share a nonce.
NoncesFresh ==
  \A c, d \in Call : phase[c] # "idle" =>
    /\ nonce[c] <= seq
    /\ phase[d] # "idle" /\ nonce[c] = nonce[d] => c = d

\* A call is admitted once, by this life of Redis or one before it.
AdmittedOnce ==
  \A a \in admitted : /\ phase[a.call] = "allowed" /\ a.life <= life
                      /\ \A b \in admitted : a.call = b.call => a = b

\* What an admitted call recorded is in the log until it is too old to count
\* for a call still to run.
Remembered ==
  \A a \in admitted : a.life = life =>
    \/ [at |-> a.at, nonce |-> nonce[a.call]] \in log
    \/ a.at + Window <= clock + MaxStep

\* No entry is further in the future than a clock step allows.
LogNotAhead == /\ touched <= clock
               /\ \A e \in log : e.at <= touched + MaxStep

IInv == /\ TypeOK /\ IsFiniteSet(log) /\ CallsOnTime
        /\ NoncesFresh /\ AdmittedOnce /\ Remembered /\ LogNotAhead
        /\ WindowBound /\ HintBounded
=============================================================================
