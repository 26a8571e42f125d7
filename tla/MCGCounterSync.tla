--------------------------- MODULE MCGCounterSync ---------------------------
(***************************************************************************)
(* Small instances of GCounterSync.                                        *)
(***************************************************************************)
EXTENDS GCounterSync

CONSTANTS q1, q2, q3

\* "eu" serves q3 and "us" every other request.
MCHome == [q \in Req |-> IF q = q3 THEN "eu" ELSE "us"]

\* The sync service of "eu" receives the messages of "us".
MCPeersUsToEu == [r \in Region |-> IF r = "eu" THEN {"us"} ELSE {}]

\* The link from "us" to "eu" stands for every link: the specification treats
\* all of them alike.
FairSpec == Spec /\ LinkFairness("us", "eu")

\* "eu" learns the final slot value of "us" while the window lasts.
ConvergesUsEu == Converges("us", "eu")
=============================================================================
