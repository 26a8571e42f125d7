----------------------------- MODULE OverrideKey -----------------------------
(***************************************************************************)
(* The key override:{user_id} of one user in Redis, with the history of    *)
(* what it held: version n of the override is what the key held after      *)
(* n - 1 changes.                                                          *)
(***************************************************************************)
EXTENDS Naturals, Sequences

CONSTANTS
  Value,  \* the limits an override can set
  None    \* no override

VARIABLES
  clock,
  key,    \* the limit override:{user_id} holds, if it holds a usable one
  past    \* history: the versions that are no more, and until when each lasted

keyVars == <<key, past>>

Limit == Value \cup {None}
Version == [limit : Limit, until : Nat]

KeyTypeOK == clock \in Nat /\ key \in Limit /\ past \in Seq(Version)

KeyInit == clock = 0 /\ key \in Limit /\ past = <<>>

\* The version the key holds.
Current == Len(past) + 1

\* The limit that version n sets.
LimitOf(n) == IF n = Current THEN key ELSE past[n].limit

\* Version n is the override, or was less than d before t.
Held(n, t, d) == n = Current \/ t < past[n].until + d

\* The key is written, deleted, expires, or takes a value the gateway rejects.
Change == /\ \E v \in Limit \ {key} : key' = v
          /\ past' = Append(past, [limit |-> key, until |-> clock])
          /\ UNCHANGED clock
=============================================================================
