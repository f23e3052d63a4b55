------------------------------ MODULE Payments ------------------------------
(***************************************************************************)
(* The rows that the settlement service reads and writes: transactions,    *)
(* user_accounts, settlements.  Users and merchants share one account      *)
(* table, so a payer and a payee are both members of Parties, and a        *)
(* transaction may name the same party twice.                              *)
(***************************************************************************)
EXTENDS Money, Sequences

CONSTANTS
    Txns,       \* transaction ids
    Parties,    \* user and merchant ids
    Payer,      \* Transaction.user_id
    Payee,      \* Transaction.merchant_id
    Amount,     \* Transaction.amount, in cents
    Opening     \* the user_accounts table before the first settlement

(***************************************************************************)
(* A row of user_accounts.  A missing row is version 0 with balance 0; the *)
(* first version a row has is 1.                                           *)
(***************************************************************************)
Account == [balance : Nat, version : Nat]

HasRow(account) == account.version # 0

ASSUME PartiesAssumption ==
    /\ Payer \in [Txns -> Parties]
    /\ Payee \in [Txns -> Parties]

(***************************************************************************)
(* TransactionRequest demands amount > 0, but a float below half a cent is *)
(* stored as 0.00, so a stored amount may be zero.                         *)
(***************************************************************************)
ASSUME AmountAssumption == Amount \in [Txns -> Nat]

ASSUME OpeningAssumption ==
    /\ Opening \in [Parties -> Account]
    /\ \A p \in Parties : ~HasRow(Opening[p]) => Opening[p].balance = 0

\* Transaction.status; "NONE" when the transactions table has no such row.
Status == {"NONE", "PENDING", "APPROVED", "DECLINED"}

\* The row of the settlements table that settling t inserts.
SettlementRow(t) ==
    [txn   |-> t,
     gross |-> Amount[t],
     fee   |-> Stored(ProcessingFee(Amount[t])),
     net   |-> Stored(MerchantCredit(Amount[t]))]

Rows == {SettlementRow(t) : t \in Txns}

\* The rows of a settlements table (in commit order) that are for t.
RowsOf(table, t) == {i \in DOMAIN table : table[i].txn = t}

\* MUTANT of IsSettled: settlements.transaction_id has no unique index.
NoUniqueIndex(table, t) == FALSE

\* UNIQUE(transaction_id) on settlements already holds t.
IsSettled(table, t) == RowsOf(table, t) # {}

\* A row that is missing comes into being at version 1, with nothing in it.
Opened(row) == IF HasRow(row) THEN row ELSE [balance |-> 0, version |-> 1]

(***************************************************************************)
(* The effect of settling t on the account table.  Version counts the      *)
(* updates of a row, so a transaction from a party to itself counts twice. *)
(***************************************************************************)
Transferred(accounts, t) ==
    LET from == Payer[t]
        to   == Payee[t]
        amt  == Amount[t]
    IN  IF from = to
        THEN [accounts EXCEPT ![from] =
                 [balance |-> Stored(Loaded(@.balance) - ProcessingFee(amt)),
                  version |-> Opened(@).version + 2]]
        ELSE [accounts EXCEPT
                 ![from] = [balance |-> @.balance - amt,
                            version |-> Opened(@).version + 1],
                 ![to]   = [balance |-> Stored(Loaded(@.balance) + MerchantCredit(amt)),
                            version |-> Opened(@).version + 1]]
=============================================================================
