-------------------------------- MODULE Books --------------------------------
(***************************************************************************)
(* What the accounts and a settlements table amount to, for the statements *)
(* about the books.                                                        *)
(***************************************************************************)
EXTENDS Payments, Functions

\* The accounts after the first n rows of a settlements table, for every n.
Replay(table) ==
    LET books[n \in 0 .. Len(table)] ==
            IF n = 0 THEN Opening ELSE Transferred(books[n - 1], table[n].txn)
    IN  books

\* All that the parties own, in cents.
Total(accounts) == SumFunctionOnSet([p \in Parties |-> accounts[p].balance], Parties)

\* What the settlements of a table kept back: the difference between what
\* the payers paid and what the payees were credited with.
Kept(table) ==
    SumFunctionOnSet([i \in DOMAIN table |-> table[i].gross - table[i].net], DOMAIN table)

\* What party p has yet to pay, if all its transactions without a row in the
\* table are settled.
Owed(table, p) ==
    SumFunctionOnSet(Amount, {t \in Txns : Payer[t] = p /\ ~IsSettled(table, t)})

\* p could pay at first for all its transactions together.
Covered(p) == Opening[p].balance >= Owed(<<>>, p)
==============================================================================
