--------------------------- MODULE MCFraudDetector ---------------------------
(***************************************************************************)
(* Small instances of module FraudDetector for TLC, and the score checked  *)
(* on both sides of each of its limits.                                    *)
(***************************************************************************)
EXTENDS FraudDetector, TLC

\* The workers are interchangeable.
Symmetry == Permutations(Workers)

\* Amounts are given to the features when a transaction is processed.
Calm   == [DefaultFeatures(0) EXCEPT !.is_familiar_merchant = TRUE]

Alarming ==
    [transactions_1min |-> 11, transactions_1hour |-> 101,
     avg_transaction_amount |-> 1000, amount |-> 0, device_trust_score |-> 29,
     is_familiar_merchant |-> FALSE, is_normal_location |-> FALSE]

MCProfiles == {Calm, Alarming}

-----------------------------------------------------------------------------
Edges ==
    [transactions_1min      : {10, 11},
     transactions_1hour     : {100, 101},
     avg_transaction_amount : {0, 10},
     amount                 : {20, 21, 31, 51},
     device_trust_score     : {29, 30, 49, 50},
     is_familiar_merchant   : BOOLEAN,
     is_normal_location     : BOOLEAN]

ASSUME FourSignsOnEdges ==
    \A f \in Edges : Score(f) >= FraudThreshold => Signs(f) >= 4

ASSUME MonotoneOnEdges ==
    \A f, g \in Edges : AtLeastAsBad(g, f) => Score(g) >= Score(f)

ASSUME DefaultsNeverDecline ==
    \A amount \in 0 .. 60000 : Score(DefaultFeatures(amount)) <= 40
=============================================================================
