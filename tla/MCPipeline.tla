----------------------------- MODULE MCPipeline -----------------------------
(***************************************************************************)
(* Small instances of module Pipeline for TLC: one client, who makes       *)
(* another request only when one has failed.                               *)
(***************************************************************************)
EXTENDS Pipeline, TLC

CONSTANTS t1, t2, alice, bob, book

Row(cents) == [balance |-> cents, version |-> 1]
NoRow      == [balance |-> 0, version |-> 0]

MCPurchase == t1 :> book @@ t2 :> book

\* It asks for the same payment again.
SamePayer  == t1 :> alice @@ t2 :> alice
SamePayee  == t1 :> bob @@ t2 :> bob
SameAmount == t1 :> 60 @@ t2 :> 60
Rich       == alice :> Row(150) @@ bob :> Row(0)

\* It had the payment the wrong way round, and turns it: both may be under
\* way, and want the same two rows.  Bob is a newcomer, and short at first.
TurnedPayer  == t1 :> alice @@ t2 :> bob
TurnedPayee  == t1 :> bob @@ t2 :> alice
TurnedAmount == t1 :> 60 @@ t2 :> 50
Short        == alice :> Row(100) @@ bob :> NoRow
=============================================================================
