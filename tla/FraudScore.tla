----------------------------- MODULE FraudScore -----------------------------
(***************************************************************************)
(* The score of a transaction: _simulate_model_scoring over the features   *)
(* that Redis holds for the user and the amount of the transaction.        *)
(* Amounts and averages are in cents; an average is never negative.        *)
(***************************************************************************)
EXTENDS Integers

Features ==
    [transactions_1min      : Nat,
     transactions_1hour     : Nat,
     avg_transaction_amount : Nat,
     amount                 : Nat,
     device_trust_score     : Nat,
     is_familiar_merchant   : BOOLEAN,
     is_normal_location     : BOOLEAN]

\* settings.fraud_threshold
FraudThreshold == 75

\* The score that stands for a scoring that failed.
ErrorScore == 50

\* The features of a user of whom Redis knows nothing.
DefaultFeatures(amount) ==
    [transactions_1min      |-> 0,
     transactions_1hour     |-> 0,
     avg_transaction_amount |-> 5000,
     amount                 |-> amount,
     device_trust_score     |-> 50,
     is_familiar_merchant   |-> FALSE,
     is_normal_location     |-> TRUE]

If(condition, points) == IF condition THEN points ELSE 0

VelocityPoints(f) ==
    If(f.transactions_1min > 10, 20) + If(f.transactions_1hour > 100, 15)

\* The amount is more than n times the average; no average, no deviation.
Exceeds(f, n) ==
    f.avg_transaction_amount > 0 /\ f.amount > n * f.avg_transaction_amount

DeviationPoints(f) ==
    IF Exceeds(f, 5) THEN 25 ELSE IF Exceeds(f, 3) THEN 15 ELSE If(Exceeds(f, 2), 10)

DevicePoints(f) ==
    IF f.device_trust_score < 30 THEN 20 ELSE If(f.device_trust_score < 50, 10)

MerchantPoints(f) == If(~f.is_familiar_merchant, 15)

LocationPoints(f) == If(~f.is_normal_location, 20)

Score(f) ==
    LET points == VelocityPoints(f) + DeviationPoints(f) + DevicePoints(f)
                     + MerchantPoints(f) + LocationPoints(f)
    IN  IF points > 100 THEN 100 ELSE points

-----------------------------------------------------------------------------
\* How many of the six warning signs that the score knows are there.
Signs(f) ==
    If(f.transactions_1min > 10, 1) + If(f.transactions_1hour > 100, 1)
       + If(Exceeds(f, 2), 1) + If(f.device_trust_score < 50, 1)
       + If(~f.is_familiar_merchant, 1) + If(~f.is_normal_location, 1)

(***************************************************************************)
(* g looks at least as bad as f in every respect, for a user who has an    *)
(* average.                                                                *)
(***************************************************************************)
AtLeastAsBad(g, f) ==
    /\ g.transactions_1min >= f.transactions_1min
    /\ g.transactions_1hour >= f.transactions_1hour
    /\ g.avg_transaction_amount \in 1 .. f.avg_transaction_amount
    /\ g.amount >= f.amount
    /\ g.device_trust_score <= f.device_trust_score
    /\ g.is_familiar_merchant => f.is_familiar_merchant
    /\ g.is_normal_location => f.is_normal_location
=============================================================================
