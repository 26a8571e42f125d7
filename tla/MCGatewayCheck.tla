--------------------------- MODULE MCGatewayCheck ---------------------------
(***************************************************************************)
(* Small instance of GatewayCheck: requests of premium users, whose policy *)
(* is read second.                                                         *)
(***************************************************************************)
EXTENDS GatewayCheck

CONSTANTS h1, h2

MCTierOrder == <<"free", "premium">>
MCTierOf == [h \in Handler |-> "premium"]
MCStaticLimit == [t \in {"free", "premium"} |-> 1]

\* A policy with the algorithm the hardcoded one does not have.
MCPolicy == [form |-> "contract", limit |-> 3, burst |-> 0, algorithm |-> "sliding_window",
             home |-> TRUE, of |-> TRUE, id |-> 2]

\* Of free there is nothing to read.
MCValues == [t \in {"free", "premium"} |->
  IF t = "free" THEN {Absent} ELSE {Absent, MCPolicy}]

\* store.go refresh: the premium policy is followed in the end if it stays.
PremiumArrives == PolicyArrives("premium", MCPolicy)

\* store.go setStatic: it is not followed for ever if it is gone.
PremiumLapses == PolicyLapses("premium", MCPolicy)

\* handler.go check: the requests of h1 are answered.  The handlers are alike, so
\* what holds of one holds of each.
FirstAnswered == RequestAnswered(h1)
=============================================================================
