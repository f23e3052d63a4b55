------------------------------- MODULE Money -------------------------------
(***************************************************************************)
(* The money arithmetic of the settlement service.                         *)
(*                                                                         *)
(* A DECIMAL(19,2) column holds a whole number of cents.  A Python Decimal *)
(* in memory is exact: multiplying an amount by Decimal('0.02') gives four *)
(* decimal places, so values in memory are counted in hundredths of a      *)
(* cent.  PostgreSQL rounds a value to the column's scale when it is       *)
(* stored, half away from zero; every stored value here is non-negative.   *)
(* The 17 integer digits of the column are taken as unbounded.             *)
(***************************************************************************)
EXTENDS Integers

\* A column value (cents) loaded into memory.
Loaded(cents) == 100 * cents

\* A value in memory (hundredths of a cent, not negative) written to a column.
Stored(exact) == (exact + 50) \div 100

\* transaction.amount * Decimal('0.02'), in memory.
ProcessingFee(amount) == 2 * amount

\* transaction.amount - processing_fee, in memory.
MerchantCredit(amount) == Loaded(amount) - ProcessingFee(amount)

\* Amounts, in cents, whose two-per-cent fee ends in exactly half a cent.
HalfCentFee(amount) == amount % 50 = 25

-----------------------------------------------------------------------------
(***************************************************************************)
(* What rounding the fee and the net amount separately costs: the stored   *)
(* fee and net amount exceed the gross amount by one cent exactly when the *)
(* fee ends in half a cent, and add up to it otherwise.                    *)
(***************************************************************************)
RoundingSlack(amount) ==
    Stored(ProcessingFee(amount)) + Stored(MerchantCredit(amount))
        = amount + (IF HalfCentFee(amount) THEN 1 ELSE 0)
=============================================================================
