------------------------ MODULE SettlementProperties ------------------------
(***************************************************************************)
(* What settle_transaction owes its callers and the books, stated over the *)
(* state of module Settlement.                                             *)
(***************************************************************************)
EXTENDS Settlement, Books

\* The abstract ledger over the same tables.
L == INSTANCE Ledger

-----------------------------------------------------------------------------
(***************************************************************************)
(* Every variable has its type.  Balances are natural numbers, so this     *)
(* also says that nobody's stored balance is ever negative.                *)
(***************************************************************************)
TypeOK ==
    /\ account \in [Parties -> Account]
    /\ status \in [Txns -> Status]
    /\ settlements \in Seq(Rows)
    /\ audit \subseteq AuditRows
    /\ lock \in [Parties -> Workers \cup {NoOne}]
    /\ pc \in [Workers -> Points]
    /\ txn \in [Workers -> Txns \cup {NoTxn}]
    /\ seen \in [Workers -> Status]
    /\ touched \in [Workers -> SUBSET Parties]
    /\ cache \in [Workers -> [Parties -> Account]]
    /\ pending \in [Workers -> SUBSET AuditRows]
    /\ answer \in [Workers -> Answers]

(***************************************************************************)
(* The accounts are the opening accounts with the settlements replayed one *)
(* after the other in commit order: no update is lost, applied twice or    *)
(* half applied whatever the workers' interleaving, although each one      *)
(* writes balances it computed from what it had read (settlement.py 273 to *)
(* 278 and 310, 311), and the version column counts the updates.           *)
(***************************************************************************)
BooksBalance == account = Replay(settlements)[Len(settlements)]

(***************************************************************************)
(* No cent is made or lost: what all the accounts hold, and what the       *)
(* settlements kept back (gross minus net, row by row), make up what the   *)
(* accounts held at first.  A payee is credited by rounding a balance and  *)
(* the row by rounding a net amount (settlement.py 138 to 144, 171), in    *)
(* calls that run at the same time, and the two stay the same to the cent. *)
(***************************************************************************)
MoneyAccountedFor == Total(account) + Kept(settlements) = Total(Opening)

(***************************************************************************)
(* A party that could pay at first for all its transactions together can   *)
(* always pay for those that have no settlement yet: no redelivery charges *)
(* it twice, no failure keeps what it deducted (settlement.py 147 to 157,  *)
(* 227 to 231) and no credit of its own is needed.                         *)
(***************************************************************************)
DuesStayCovered ==
    \A p \in Parties : Covered(p) => account[p].balance >= Owed(settlements, p)

(***************************************************************************)
(* No transaction is settled twice, in whatever way its decision is        *)
(* delivered again: to two workers at once, or after a crash or an ERROR.  *)
(* The code does not look at the status before it settles; it relies on    *)
(* the unique index over settlements.transaction_id.                       *)
(***************************************************************************)
SettledOnce ==
    \A i, j \in DOMAIN settlements :
        settlements[i].txn = settlements[j].txn => i = j

(***************************************************************************)
(* The audit log and the settlements table agree: a settlement has both    *)
(* its entries, and no entry tells of a settlement that was rolled back.   *)
(***************************************************************************)
SettlementsAudited ==
    \A t \in Txns, action \in {"settled", "created"} :
        AuditRow(t, action) \in audit <=> IsSettled(settlements, t)

(***************************************************************************)
(* A row is owned only between the deduction and the commit: every way out *)
(* of settle_transaction ends the database transaction that owns rows, so  *)
(* a worker waiting for its next message never keeps others waiting.       *)
(***************************************************************************)
RowsGivenBack ==
    \A p \in Parties :
        lock[p] # NoOne => pc[lock[p]] \in {"deducted", "openingPayee", "credited"}

(***************************************************************************)
(* What a worker is about to write is what the ledger would compute from   *)
(* the accounts as they are now, and the payer can still pay: nothing the  *)
(* worker has read is stale when it commits.                               *)
(***************************************************************************)
NothingStale ==
    \A w \in Workers : pc[w] = "credited" =>
        /\ AccountsFlushed(w) = Transferred(account, txn[w])
        /\ account[Payer[txn[w]]].balance >= Amount[txn[w]]

(***************************************************************************)
(* Settlement by many workers implements the ledger.                       *)
(***************************************************************************)
ImplementsLedger == L!Spec

-----------------------------------------------------------------------------
(***************************************************************************)
(* The inductive invariant: TypeOK, RowsGivenBack, SettledOnce and         *)
(* SettlementsAudited above, and what they and NothingStale rest on.       *)
(***************************************************************************)

\* An account that has no row holds nothing.
MissingIsEmpty ==
    \A p \in Parties : ~HasRow(account[p]) => account[p].balance = 0

\* The object of an account is in a session only while the worker owns the
\* row; so two sessions never hold the same account.
OwnsTouched ==
    \A w \in Workers : \A p \in touched[w] : lock[p] = w

\* What the worker's next flush stores for p.
Written(w, p) == [balance |-> Stored(cache[w][p].balance),
                  version |-> cache[w][p].version]

\* What the session of a worker holds at each point of an APPROVE.
SessionOf(w) ==
    LET from == Payer[txn[w]]
        to   == Payee[txn[w]]
        amt  == Amount[txn[w]]
    IN  /\ InCall(w) => txn[w] \in Txns /\ status[txn[w]] # "NONE"
        /\ pc[w] \notin {"deducted", "openingPayee", "credited"} => touched[w] = {}
        /\ pc[w] \in {"deducted", "openingPayee"} =>
              /\ touched[w] = {from}
              /\ account[from].balance >= amt
              /\ cache[w][from] =
                    [balance |-> Loaded(account[from].balance) - Loaded(amt),
                     version |-> Opened(account[from]).version + 1]
        /\ pc[w] = "openingPayee" => to # from
        /\ pc[w] = "credited" =>
              /\ touched[w] = {from, to}
              /\ account[from].balance >= amt
              /\ \A p \in touched[w] : Written(w, p) = Transferred(account, txn[w])[p]

SessionsCurrent == \A w \in Workers : SessionOf(w)

\* APPROVED is never written without a settlement.
ApprovedIsSettled ==
    \A t \in Txns : status[t] = "APPROVED" => IsSettled(settlements, t)

\* Nor loaded.
SeenApprovedIsSettled ==
    \A w \in Workers :
        /\ pc[w] = "idle" => seen[w] = "NONE"
        /\ seen[w] = "APPROVED" => IsSettled(settlements, txn[w])

\* Only entries of declines are left in a session.
PendingAreDeclines ==
    \A w \in Workers : \A r \in pending[w] : r.action = "declined"

IInv ==
    /\ TypeOK
    /\ MissingIsEmpty
    /\ OwnsTouched
    /\ RowsGivenBack
    /\ SessionsCurrent
    /\ SettledOnce
    /\ ApprovedIsSettled
    /\ SeenApprovedIsSettled
    /\ PendingAreDeclines
    /\ SettlementsAudited

-----------------------------------------------------------------------------
(***************************************************************************)
(* What holds when all the decisions delivered for a transaction agree.    *)
(***************************************************************************)
(***************************************************************************)
(* The transactions table and the settlements table agree: a transaction   *)
(* is APPROVED exactly when it has a settlement, and one that the fraud    *)
(* detector declines is never paid.                                        *)
(***************************************************************************)
ApprovedIffSettled ==
    \A t \in Txns : status[t] = "APPROVED" <=> IsSettled(settlements, t)

(***************************************************************************)
(* A verdict is final: the status of a transaction leaves PENDING once.    *)
(***************************************************************************)
VerdictIsFinal ==
    [][\A t \in Txns : status[t] \in {"APPROVED", "DECLINED"}
                          => status'[t] = status[t]]_vars

(***************************************************************************)
(* What a worker reports is what the tables say, until the worker goes on  *)
(* to its next message: SETTLED of a transaction that is APPROVED and has  *)
(* a settlement, DECLINED of one that has none.                            *)
(***************************************************************************)
ReportsAreTrue ==
    \A w \in Workers :
        /\ answer[w] = "SETTLED"  => /\ status[txn[w]] = "APPROVED"
                                     /\ IsSettled(settlements, txn[w])
        /\ answer[w] = "DECLINED" => /\ status[txn[w]] = "DECLINED"
                                     /\ ~IsSettled(settlements, txn[w])

-----------------------------------------------------------------------------
(***************************************************************************)
(* Why those three hold: with agreeing decisions every verdict that is     *)
(* stored, in hand or reported is backed by a decision, and a transaction  *)
(* has decisions of one kind only.                                         *)
(***************************************************************************)
DecisionsAgree ==
    \A t \in Txns : ~({<<t, "APPROVE">>, <<t, "DECLINE">>} \subseteq Deliverable)

\* A worker acts on a decision that was taken.
CallsBacked ==
    \A w \in Workers :
        /\ pc[w] # "idle" => txn[w] \in Txns
        /\ pc[w] \in {"declining", "declined"} => <<txn[w], "DECLINE">> \in Deliverable
        /\ InCall(w) /\ pc[w] \notin {"declining", "declined"} =>
              <<txn[w], "APPROVE">> \in Deliverable

\* So do the tables, and nothing settled has another status than APPROVED.
TablesBacked ==
    \A t \in Txns :
        /\ IsSettled(settlements, t) => /\ status[t] = "APPROVED"
                                        /\ <<t, "APPROVE">> \in Deliverable
        /\ status[t] = "DECLINED" => <<t, "DECLINE">> \in Deliverable

\* What a worker has loaded, committed or reported is still what is stored.
WordsKept ==
    \A w \in Workers :
        /\ pc[w] # "answered" => answer[w] = "NONE"
        /\ \/ seen[w] = "DECLINED"
           \/ pc[w] = "declined"
           \/ answer[w] = "DECLINED"
           => status[txn[w]] = "DECLINED"
        /\ answer[w] = "SETTLED" => IsSettled(settlements, txn[w])

VerdictInv == CallsBacked /\ TablesBacked /\ WordsKept

-----------------------------------------------------------------------------
(***************************************************************************)
(* Every call ends.  Two workers that settle payments in opposite          *)
(* directions wait for each other's rows; the deadlock detector frees one. *)
(***************************************************************************)
CallsEnd == \A w \in Workers : InCall(w) ~> pc[w] = "idle"

(***************************************************************************)
(* Only payments in a circle deadlock: the victim pays somebody who pays,  *)
(* in another payment that is half done, and is paid in a third one (or in *)
(* the same).  Payments of one payer, payments to one payee, and the same  *)
(* transaction in the hands of two workers never do, because rows are      *)
(* taken payer first and given back by every error (settlement.py 124, 150 *)
(* and 229, 249, 294).                                                     *)
(***************************************************************************)
OnlyCirclesDeadlock ==
    \A w \in Workers : Deadlocked(w) =>
        \E u, v \in Workers :
            /\ {pc[u], pc[v], pc[w]} \subseteq {"deducted", "openingPayee"}
            /\ txn[w] \notin {txn[u], txn[v]}
            /\ Payer[txn[u]] = Payee[txn[w]]
            /\ Payee[txn[v]] = Payer[txn[w]]

-----------------------------------------------------------------------------
(***************************************************************************)
(* What the documents say and the code does not do.                        *)
(***************************************************************************)

(***************************************************************************)
(* README 790, "Every transaction change logged in audit_logs table", for  *)
(* declines, and read generously: the entry need not be durable while some *)
(* worker still has it to add or to flush.  The entry of a decline is      *)
(* added after the commit (settlement.py 85 to 95), so a rollback of the   *)
(* next payment destroys it.                                               *)
(***************************************************************************)
DeclinesAudited ==
    \A t \in Txns : status[t] = "DECLINED" =>
        \/ AuditRow(t, "declined") \in audit
        \/ \E w \in Workers :
              \/ AuditRow(t, "declined") \in pending[w]
              \/ txn[w] = t /\ pc[w] = "declined"

(***************************************************************************)
(* models/transaction.py 84, "Only transactions with status=APPROVED       *)
(* appear here": a DECLINE that arrives for a transaction already settled  *)
(* overwrites its status and leaves the settlement.                        *)
(***************************************************************************)
SettlementsAreApproved ==
    \A t \in Txns : IsSettled(settlements, t) => status[t] = "APPROVED"

(***************************************************************************)
(* README 134, "gross_amount, processing_fee (2%), net_amount (what         *)
(* merchant receives)", and settlement.py 139, net = gross - fee.  Fee and *)
(* net are each rounded when the row is stored; a fee of a half cent makes *)
(* them exceed the gross amount by a cent.                                 *)
(***************************************************************************)
RowsAddUp ==
    \A i \in DOMAIN settlements :
        settlements[i].gross = settlements[i].fee + settlements[i].net

(***************************************************************************)
(* ARCHITECTURE 438, "Application retries SELECT+UPDATE": a payment that   *)
(* conflicts with another is settled in the end.  A worker whose database  *)
(* transaction is chosen to break a deadlock answers ERROR and goes on.    *)
(***************************************************************************)
ConflictsAreRetried ==
    \A t \in Txns :
        (\E w \in Workers : txn[w] = t /\ pc[w] = "approving")
            ~> IsSettled(settlements, t)
=============================================================================
