---------------------------- MODULE MCSettlement ----------------------------
(***************************************************************************)
(* Small instances of module Settlement for TLC.                           *)
(***************************************************************************)
EXTENDS SettlementProperties, TLC

CONSTANTS t1, t2, t3, t4,       \* transactions
          alice, bob, carol     \* parties

Row(cents) == [balance |-> cents, version |-> 1]

NoRow == [balance |-> 0, version |-> 0]

-----------------------------------------------------------------------------
(***************************************************************************)
(* "Newcomer": carol has no account.  t1 and t3 both pay her, so that two  *)
(* workers may be about to insert her row at once; she can pay t2 only out *)
(* of what t1 brings, and then t1, delivered again, and t2 lock the rows   *)
(* of alice and carol in opposite orders; bob pays himself with t4, which  *)
(* he cannot afford after t3.  The fees of t1 and t3 end in half a cent.   *)
(***************************************************************************)
NewcomerPayer   == t1 :> alice @@ t2 :> carol @@ t3 :> bob @@ t4 :> bob
NewcomerPayee   == t1 :> carol @@ t2 :> alice @@ t3 :> carol @@ t4 :> bob
NewcomerAmount  == t1 :> 75 @@ t2 :> 40 @@ t3 :> 25 @@ t4 :> 50
NewcomerOpening == alice :> Row(100) @@ bob :> Row(60) @@ carol :> NoRow

(***************************************************************************)
(* "Crossing": t1 and t2 pay in opposite directions, so two workers can    *)
(* each own the row the other one needs; t3 pays somebody who has no       *)
(* account.  bob can pay only one of t2 and t3 unless t1 has paid him.     *)
(***************************************************************************)
CrossingPayer   == t1 :> alice @@ t2 :> bob @@ t3 :> bob
CrossingPayee   == t1 :> bob @@ t2 :> alice @@ t3 :> carol
CrossingAmount  == t1 :> 75 @@ t2 :> 40 @@ t3 :> 50
CrossingOpening == alice :> Row(100) @@ bob :> Row(60) @@ carol :> NoRow

\* The same payments between parties who can always pay.
AmpleOpening    == alice :> Row(500) @@ bob :> Row(500) @@ carol :> NoRow

-----------------------------------------------------------------------------
\* The fraud detector gives each transaction one verdict.
AgreeingDecisions == {<<t1, "APPROVE">>, <<t2, "APPROVE">>, <<t3, "DECLINE">>}

\* A transaction that a fraud worker scores again after a crash may get
\* another verdict.
ContradictoryDecisions ==
    {<<t1, "APPROVE">>, <<t1, "DECLINE">>, <<t1, "OTHER">>,
     <<t2, "APPROVE">>, <<t3, "APPROVE">>, <<t4, "APPROVE">>}

AllApproved == {<<t1, "APPROVE">>, <<t2, "APPROVE">>, <<t3, "APPROVE">>}
=============================================================================
