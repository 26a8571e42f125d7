---------------------------- MODULE GlobalQuota ----------------------------
(***************************************************************************)
(* What the replicated counter of one (tier, user, window) promises,       *)
(* without messages, subscribers, partitions or reconciliation.            *)
(*                                                                         *)
(* Every region charges the requests its own gateway lets through and      *)
(* knows some of what the others charged.  What it knows of a region never *)
(* exceeds what that region really charged, and it only grows until the    *)
(* region's store is lost.  A charged request is decided from what its own *)
(* region knows at that moment.                                            *)
(***************************************************************************)
EXTENDS Regions

CONSTANTS Req, Home, Limits

VARIABLES charged,  \* charged[r]: requests region r really counted
          known,    \* known[r][q]: what r knows region q to have counted
          ticket,   \* ticket[q]: value of the own slot q's charge returned, 0 before
          verdict   \* verdict[q]: the answer given to q

vars == <<charged, known, ticket, verdict>>

Verdict == {"none", "allowed", "denied", "unchecked"}

Init == /\ charged = EmptyHash
        /\ known = [r \in Region |-> EmptyHash]
        /\ ticket = [q \in Req |-> 0]
        /\ verdict = [q \in Req |-> "none"]

\* One more request is charged to r, whose own store follows at once.
ChargeTo(r) == /\ charged' = [charged EXCEPT ![r] = @ + 1]
               /\ known' = [known EXCEPT ![r][r] = @ + 1]

\* A request is charged once, before it is answered.
Charge(q) == /\ verdict[q] = "none" /\ ticket[q] = 0
             /\ ChargeTo(Home[q])
             /\ ticket' = [ticket EXCEPT ![q] = known[Home[q]][Home[q]] + 1]
             /\ UNCHANGED verdict

\* A charge nobody learns of: the store applied it and its reply was lost.
ChargeUnseen(r) == /\ ChargeTo(r)
                   /\ UNCHANGED <<ticket, verdict>>

\* A region learns, late or never, part of what another one charged.
Learn(r) == \E q \in Region \ {r} :
              \E n \in (known[r][q] + 1) .. charged[q] :
                /\ known' = [known EXCEPT ![r][q] = n]
                /\ UNCHANGED <<charged, ticket, verdict>>

\* The store of a region is lost and starts again from nothing.
Forget(r) == /\ known' = [known EXCEPT ![r] = EmptyHash]
             /\ UNCHANGED <<charged, ticket, verdict>>

\* A charged request is allowed exactly when its region knows of no more
\* than the limit.
Decide(q) == /\ verdict[q] = "none" /\ ticket[q] > 0
             /\ \E g \in Limits :
                  verdict' = [verdict EXCEPT ![q] =
                     IF Total(known[Home[q]]) > g THEN "denied" ELSE "allowed"]
             /\ UNCHANGED <<charged, known, ticket>>

\* The store failed: the request is let through without the global check.
FailOpen(q) == /\ verdict[q] = "none"
               /\ verdict' = [verdict EXCEPT ![q] = "unchecked"]
               /\ UNCHANGED <<charged, known, ticket>>

Next == \/ \E q \in Req : Charge(q) \/ Decide(q) \/ FailOpen(q)
        \/ \E r \in Region : ChargeUnseen(r) \/ Learn(r) \/ Forget(r)

Spec == Init /\ [][Next]_vars
=============================================================================
