------------------------ MODULE MCSettlementConsumer ------------------------
(***************************************************************************)
(* Small instances of module SettlementConsumer for TLC: two payments      *)
(* between two parties, of which the payer can afford only one at first.   *)
(***************************************************************************)
EXTENDS SettlementConsumer, TLC

CONSTANTS t1, t2, alice, bob

Row(cents) == [balance |-> cents, version |-> 1]

MCPayer   == t1 :> alice @@ t2 :> alice
MCPayee   == t1 :> bob @@ t2 :> bob
MCAmount  == t1 :> 60 @@ t2 :> 50
MCOpening == alice :> Row(100) @@ bob :> Row(0)

Decisions == {<<t1, "APPROVE">>, <<t2, "DECLINE">>}

OneDecision == {<<t1, "APPROVE">>}
=============================================================================
