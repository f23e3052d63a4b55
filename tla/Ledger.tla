------------------------------- MODULE Ledger -------------------------------
(***************************************************************************)
(* What settlement promises, with no workers, sessions, locks or faults: a *)
(* transaction that has been submitted is settled at most once, in one     *)
(* indivisible step that moves the money, inserts the settlement row and   *)
(* marks the transaction APPROVED, and only if the payer can pay.  A       *)
(* DECLINE is honoured whenever it is processed.  Module Settlement        *)
(* implements this one.                                                    *)
(***************************************************************************)
EXTENDS Books

VARIABLES
    account,        \* the user_accounts table
    status,         \* Transaction.status
    settlements     \* the settlements table, in commit order

vars == <<account, status, settlements>>

Init ==
    /\ account = Opening
    /\ status = [t \in Txns |-> "NONE"]
    /\ settlements = <<>>

\* The API gateway commits a new transaction row.
Submit(t) ==
    /\ status[t] = "NONE"
    /\ status' = [status EXCEPT ![t] = "PENDING"]
    /\ UNCHANGED <<account, settlements>>

\* MUTANT of Settle: the balance is not looked at.
SettleUnchecked(t) ==
    /\ status[t] # "NONE"
    /\ ~IsSettled(settlements, t)
    /\ account' = Transferred(account, t)
    /\ settlements' = Append(settlements, SettlementRow(t))
    /\ status' = [status EXCEPT ![t] = "APPROVED"]

Settle(t) ==
    /\ status[t] # "NONE"
    /\ ~IsSettled(settlements, t)
    /\ account[Payer[t]].balance >= Amount[t]
    /\ account' = Transferred(account, t)
    /\ settlements' = Append(settlements, SettlementRow(t))
    /\ status' = [status EXCEPT ![t] = "APPROVED"]

Decline(t) ==
    /\ status[t] # "NONE"
    /\ status' = [status EXCEPT ![t] = "DECLINED"]
    /\ UNCHANGED <<account, settlements>>

Next == \E t \in Txns : Submit(t) \/ Settle(t) \/ Decline(t)

Spec == Init /\ [][Next]_vars

-----------------------------------------------------------------------------
(***************************************************************************)
(* The accounts are the opening accounts with the settlements replayed.    *)
(***************************************************************************)
BooksBalance == account = Replay(settlements)[Len(settlements)]

(***************************************************************************)
(* What the accounts hold together and what the settlements kept back make *)
(* up what the accounts held at first.                                     *)
(***************************************************************************)
MoneyAccountedFor == Total(account) + Kept(settlements) = Total(Opening)

(***************************************************************************)
(* A transaction that is settled has a verdict, and an APPROVED one is     *)
(* settled.                                                                *)
(***************************************************************************)
VerdictsAndSettlements ==
    \A t \in Txns : /\ IsSettled(settlements, t) => status[t] \in {"APPROVED", "DECLINED"}
                    /\ status[t] = "APPROVED" => IsSettled(settlements, t)

(***************************************************************************)
(* A party that could pay at first for all its transactions together can   *)
(* always pay for those that are left.                                     *)
(***************************************************************************)
DuesStayCovered ==
    \A p \in Parties : Covered(p) => account[p].balance >= Owed(settlements, p)
=============================================================================
