----------------------------- MODULE Settlement -----------------------------
(***************************************************************************)
(* SettlementService.settle_transaction, run by several settlement workers *)
(* against one PostgreSQL database.                                        *)
(*                                                                         *)
(* Each worker is a process with one SettlementService and, in it, one     *)
(* SQLAlchemy session that lives as long as the process.  A step of this   *)
(* module is one exchange with the database: the SELECT of the             *)
(* transaction, each SELECT ... FOR UPDATE, each INSERT of a missing       *)
(* account, each COMMIT.  What Python computes between two exchanges       *)
(* belongs to the step before it, because no other process can see it.     *)
(*                                                                         *)
(* The database is READ COMMITTED.  SELECT ... FOR UPDATE waits while      *)
(* another transaction holds the row and then reads the row as committed.  *)
(* It does not see a row another transaction has inserted and not yet      *)
(* committed; the INSERT that follows waits on the unique index over       *)
(* user_id instead.  Both kinds of ownership are kept in lock.             *)
(***************************************************************************)
EXTENDS Payments, FiniteSets

CONSTANTS
    Workers,        \* the settlement processes (settlement-deployment: replicas)
    NoOne,          \* the owner of a row that nobody has locked
    NoTxn,          \* the transaction of a worker that is processing none
    Deliverable,    \* the pairs <<transaction, decision>> a worker may be handed
    Faults          \* the faults that may happen: "crash", "error", "unacked"

ASSUME NoOneAssumption == NoOne \notin Workers
ASSUME NoTxnAssumption == NoTxn \notin Txns

(***************************************************************************)
(* The fraud detector emits APPROVE or DECLINE; settle_transaction also    *)
(* answers any other string, here "OTHER".                                 *)
(***************************************************************************)
Decisions == {"APPROVE", "DECLINE", "OTHER"}

ASSUME DeliverableAssumption == Deliverable \subseteq Txns \X Decisions

VARIABLES
    \* PostgreSQL
    account,        \* user_accounts, as committed
    status,         \* Transaction.status, as committed
    settlements,    \* settlements, in commit order
    audit,          \* audit_logs, as a set of rows
    lock,           \* the worker whose open transaction owns the row of a party
    \* each worker and its session
    pc,             \* where settle_transaction is
    txn,            \* transaction_id
    seen,           \* the status loaded with the transaction
    touched,        \* the accounts loaded into the session's identity map
    cache,          \* their attributes in memory (balance in 1/100 cent)
    pending,        \* AuditLog objects added and not yet flushed
    answer          \* the 'status' of the returned dictionary

db      == <<account, status, settlements, audit>>
memory  == <<touched, cache>>
vars    == <<account, status, settlements, audit, lock,
             pc, txn, seen, touched, cache, pending, answer>>

\* The values of pc, in the order settle_transaction goes through them.
Points == {"idle",
           "declining",     \* DECLINE: status assigned, commit not yet sent
           "declined",      \* DECLINE: committed, audit entry not yet added
           "approving",     \* about to select the payer FOR UPDATE
           "openingPayer",  \* the payer has no row: about to insert it
           "deducted",      \* about to select the payee FOR UPDATE
           "openingPayee",  \* the payee has no row: about to insert it
           "credited",      \* everything assigned, commit not yet sent
           "answered"}      \* returned

Answers == {"NONE", "SETTLED", "DECLINED", "ERROR"}

(***************************************************************************)
(* A row of audit_logs: the transaction concerned, the action, and the     *)
(* status that old_values names ("NONE" where the code passes None).  The  *)
(* code always writes PENDING for a transaction, whatever it has loaded.   *)
(***************************************************************************)
Actions == {"declined", "settled", "created"}

AuditRow(t, action) ==
    [txn |-> t, action |-> action,
     old |-> IF action = "created" THEN "NONE" ELSE "PENDING"]

AuditRows == {AuditRow(t, a) : t \in Txns, a \in Actions}

\* The attributes of an account object that the session has not loaded.
Blank == [balance |-> 0, version |-> 0]

Init ==
    /\ account = Opening
    /\ status = [t \in Txns |-> "NONE"]
    /\ settlements = <<>>
    /\ audit = {}
    /\ lock = [p \in Parties |-> NoOne]
    /\ pc = [w \in Workers |-> "idle"]
    /\ txn = [w \in Workers |-> NoTxn]
    /\ seen = [w \in Workers |-> "NONE"]
    /\ touched = [w \in Workers |-> {}]
    /\ cache = [w \in Workers |-> [p \in Parties |-> Blank]]
    /\ pending = [w \in Workers |-> {}]
    /\ answer = [w \in Workers |-> "NONE"]

-----------------------------------------------------------------------------
(***************************************************************************)
(* Ends of a database transaction.                                         *)
(***************************************************************************)

\* COMMIT and ROLLBACK give up every row the transaction owns.
ReleaseRows(w) ==
    lock' = [p \in Parties |-> IF lock[p] = w THEN NoOne ELSE lock[p]]

\* MUTANT of ExpireAll: expire_on_commit=False.
ExpireNothing(w) == UNCHANGED memory

\* commit() and rollback() expire every object in the identity map.
ExpireAll(w) ==
    /\ touched' = [touched EXCEPT ![w] = {}]
    /\ cache' = [cache EXCEPT ![w] = [p \in Parties |-> Blank]]

\* rollback() and a successful flush both empty the session's pending list.
DropPending(w) == pending' = [pending EXCEPT ![w] = {}]

Return(w, a) ==
    /\ pc' = [pc EXCEPT ![w] = "answered"]
    /\ answer' = [answer EXCEPT ![w] = a]

\* MUTANT of RollbackAndError: an error path that forgets to roll back.
ErrorWithoutRollback(w) ==
    /\ Return(w, "ERROR")
    /\ UNCHANGED <<db, lock, memory, pending, txn, seen>>

\* MUTANT of RollbackAndError: the transaction is put back to be tried again.
RollbackAndRequeue(w) ==
    /\ status' = [status EXCEPT ![txn[w]] = "PENDING"]
    /\ ReleaseRows(w)
    /\ ExpireAll(w)
    /\ DropPending(w)
    /\ Return(w, "ERROR")
    /\ UNCHANGED <<account, settlements, audit, txn, seen>>

\* self.db.rollback() followed by the ERROR dictionary.
RollbackAndError(w) ==
    /\ ReleaseRows(w)
    /\ ExpireAll(w)
    /\ DropPending(w)
    /\ Return(w, "ERROR")
    /\ UNCHANGED <<db, txn, seen>>

-----------------------------------------------------------------------------
(***************************************************************************)
(* WHO: the API gateway.  create_transaction commits a PENDING row.        *)
(***************************************************************************)
Submit(t) ==
    /\ status[t] = "NONE"
    /\ status' = [status EXCEPT ![t] = "PENDING"]
    /\ UNCHANGED <<account, settlements, audit, lock, pc, txn, seen,
                   touched, cache, pending, answer>>

(***************************************************************************)
(* WHO: a worker.  settle_transaction(t, d) is called and selects the      *)
(* transaction.  An unknown transaction or decision is answered at once,   *)
(* with neither commit nor rollback: pending audit entries stay pending.   *)
(***************************************************************************)
Call(w, t, d) ==
    /\ pc[w] = "idle"
    /\ txn' = [txn EXCEPT ![w] = t]
    /\ \/ /\ status[t] = "NONE" \/ d \notin {"APPROVE", "DECLINE"}
          /\ Return(w, "ERROR")
          /\ UNCHANGED seen
       \/ /\ status[t] # "NONE"
          /\ d \in {"APPROVE", "DECLINE"}
          /\ seen' = [seen EXCEPT ![w] = status[t]]
          /\ pc' = [pc EXCEPT ![w] = IF d = "APPROVE" THEN "approving"
                                                      ELSE "declining"]
          /\ UNCHANGED answer
    /\ UNCHANGED <<db, lock, memory, pending>>

-----------------------------------------------------------------------------
(***************************************************************************)
(* DECLINE.                                                                *)
(***************************************************************************)

\* MUTANT of StatusFlushed: transaction.status is not assigned.
StatusForgotten(w, s) == status

\* transaction.status = s, flushed: no UPDATE is sent for a value that is
\* the one loaded.
StatusFlushed(w, s) ==
    IF seen[w] = s THEN status ELSE [status EXCEPT ![txn[w]] = s]

\* MUTANT of DeclineDurable: no commit before the answer.
DeclineNotCommitted(w) ==
    /\ pc[w] = "declining"
    /\ DropPending(w)
    /\ UNCHANGED <<db, lock, txn, seen, memory>>

\* What the COMMIT of a DECLINE makes durable: the status, and whatever
\* audit entries an earlier call left in the session.
DeclineDurable(w) ==
    /\ pc[w] = "declining"
    /\ status' = StatusFlushed(w, "DECLINED")
    /\ audit' = audit \cup pending[w]
    /\ DropPending(w)
    /\ UNCHANGED <<account, settlements, lock, txn, seen, memory>>

CommitDecline(w) ==
    /\ DeclineDurable(w)
    /\ pc' = [pc EXCEPT ![w] = "declined"]
    /\ UNCHANGED answer

\* The entry is added to the session after the commit; nothing flushes it.
LogDecline(w) ==
    /\ pc[w] = "declined"
    /\ pending' = [pending EXCEPT ![w] = @ \cup {AuditRow(txn[w], "declined")}]
    /\ Return(w, "DECLINED")
    /\ UNCHANGED <<db, lock, txn, seen, memory>>

-----------------------------------------------------------------------------
(***************************************************************************)
(* APPROVE.                                                                *)
(***************************************************************************)

\* The object the session builds from a committed row.
RowObject(p) == [balance |-> Loaded(account[p].balance),
                 version |-> account[p].version]

\* UserAccount(balance=Decimal('0'), version=1)
NewObject == [balance |-> 0, version |-> 1]

\* The worker owns the row of p and gives its object these attributes.
Assign(w, p, object) ==
    /\ lock' = [lock EXCEPT ![p] = w]
    /\ touched' = [touched EXCEPT ![w] = @ \cup {p}]
    /\ cache' = [cache EXCEPT ![w][p] = object]

\* MUTANT of Deduct: the balance is not compared with the amount.
DeductUnchecked(w, object) ==
    /\ Assign(w, Payer[txn[w]], [balance |-> object.balance - Loaded(Amount[txn[w]]),
                                 version |-> object.version + 1])
    /\ pc' = [pc EXCEPT ![w] = "deducted"]
    /\ UNCHANGED <<db, txn, seen, pending, answer>>

(***************************************************************************)
(* The rest of _deduct_from_user, once it has the payer's object.  A       *)
(* balance that is too small rolls back and answers ERROR: the status of   *)
(* the transaction stays what it was.                                      *)
(***************************************************************************)
Deduct(w, object) ==
    LET amt == Amount[txn[w]]
    IN  \/ /\ object.balance < Loaded(amt)
           /\ RollbackAndError(w)
        \/ /\ object.balance >= Loaded(amt)
           /\ Assign(w, Payer[txn[w]], [balance |-> object.balance - Loaded(amt),
                                        version |-> object.version + 1])
           /\ pc' = [pc EXCEPT ![w] = "deducted"]
           /\ UNCHANGED <<db, txn, seen, pending, answer>>

\* MUTANT of LockPayer: the SELECT has no FOR UPDATE.
SelectPayer(w) ==
    LET p == Payer[txn[w]]
    IN  /\ pc[w] = "approving"
        /\ HasRow(account[p])
        /\ Deduct(w, RowObject(p))

\* WHO: a worker.  The SELECT ... FOR UPDATE of _deduct_from_user.
LockPayer(w) ==
    LET p == Payer[txn[w]]
    IN  /\ pc[w] = "approving"
        /\ \/ /\ ~HasRow(account[p])
              /\ pc' = [pc EXCEPT ![w] = "openingPayer"]
              /\ UNCHANGED <<db, lock, txn, seen, memory, pending, answer>>
           \/ /\ HasRow(account[p])
              /\ lock[p] = NoOne
              /\ Deduct(w, RowObject(p))

\* WHO: a worker.  The flush() that inserts the payer's row.  The unique
\* index rejects it if another worker has committed such a row meanwhile.
InsertPayer(w) ==
    LET p == Payer[txn[w]]
    IN  /\ pc[w] = "openingPayer"
        /\ lock[p] = NoOne
        /\ \/ /\ HasRow(account[p])
              /\ RollbackAndError(w)
           \/ /\ ~HasRow(account[p])
              /\ Deduct(w, NewObject)

\* MUTANT of Credit: the merchant gets the gross amount.
CreditGross(w, object) ==
    /\ Assign(w, Payee[txn[w]],
              [balance |-> object.balance + Loaded(Amount[txn[w]]),
               version |-> object.version + 1])
    /\ pc' = [pc EXCEPT ![w] = "credited"]
    /\ UNCHANGED <<db, txn, seen, pending, answer>>

\* The rest of _credit_to_merchant, once it has the payee's object.
Credit(w, object) ==
    /\ Assign(w, Payee[txn[w]],
              [balance |-> object.balance + MerchantCredit(Amount[txn[w]]),
               version |-> object.version + 1])
    /\ pc' = [pc EXCEPT ![w] = "credited"]
    /\ UNCHANGED <<db, txn, seen, pending, answer>>

\* MUTANT of LockPayee: the SELECT has no FOR UPDATE.
SelectPayee(w) ==
    LET p == Payee[txn[w]]
    IN  /\ pc[w] = "deducted"
        /\ \/ /\ p \notin touched[w]
              /\ ~HasRow(account[p])
              /\ pc' = [pc EXCEPT ![w] = "openingPayee"]
              /\ UNCHANGED <<db, lock, txn, seen, memory, pending, answer>>
           \/ /\ p \in touched[w] \/ HasRow(account[p])
              /\ Credit(w, IF p \in touched[w] THEN cache[w][p] ELSE RowObject(p))

(***************************************************************************)
(* WHO: a worker.  The SELECT ... FOR UPDATE of _credit_to_merchant.  An   *)
(* object that is in the identity map already, because the payer is the    *)
(* payee, keeps the attributes it has in memory.                           *)
(***************************************************************************)
LockPayee(w) ==
    LET p == Payee[txn[w]]
    IN  /\ pc[w] = "deducted"
        /\ \/ /\ p \in touched[w]
              /\ Credit(w, cache[w][p])
           \/ /\ p \notin touched[w]
              /\ ~HasRow(account[p])
              /\ pc' = [pc EXCEPT ![w] = "openingPayee"]
              /\ UNCHANGED <<db, lock, txn, seen, memory, pending, answer>>
           \/ /\ p \notin touched[w]
              /\ HasRow(account[p])
              /\ lock[p] = NoOne
              /\ Credit(w, RowObject(p))

(***************************************************************************)
(* WHO: a worker.  The flush() that inserts the payee's row.  When it      *)
(* fails the session's transaction is gone: the refund that follows raises *)
(* before it does anything, and settle_transaction rolls back.             *)
(***************************************************************************)
InsertPayee(w) ==
    LET p == Payee[txn[w]]
    IN  /\ pc[w] = "openingPayee"
        /\ lock[p] = NoOne
        /\ \/ /\ HasRow(account[p])
              /\ RollbackAndError(w)
           \/ /\ ~HasRow(account[p])
              /\ Credit(w, NewObject)

\* user_accounts after the flush of the session's dirty account objects.
AccountsFlushed(w) ==
    [p \in Parties |-> IF p \in touched[w]
                       THEN [balance |-> Stored(cache[w][p].balance),
                             version |-> cache[w][p].version]
                       ELSE account[p]]

\* MUTANT of SettlementEntries: the settlement's own entry is left out.
StatusEntryOnly(t) == {AuditRow(t, "settled")}

\* The entries that the two calls of _log_audit add to the session.
SettlementEntries(t) == {AuditRow(t, "settled"), AuditRow(t, "created")}

\* What the COMMIT of an APPROVE makes durable, all of it or nothing.
SettlementDurable(w) ==
    /\ pc[w] = "credited"
    /\ ~IsSettled(settlements, txn[w])
    /\ account' = AccountsFlushed(w)
    /\ settlements' = Append(settlements, SettlementRow(txn[w]))
    /\ status' = StatusFlushed(w, "APPROVED")
    /\ audit' = audit \cup pending[w] \cup SettlementEntries(txn[w])
    /\ ReleaseRows(w)
    /\ ExpireAll(w)
    /\ DropPending(w)
    /\ UNCHANGED <<txn, seen>>

CommitSettlement(w) == SettlementDurable(w) /\ Return(w, "SETTLED")

\* UNIQUE(transaction_id) rejects a second settlement of the transaction.
RejectDuplicate(w) ==
    /\ pc[w] = "credited"
    /\ IsSettled(settlements, txn[w])
    /\ RollbackAndError(w)

-----------------------------------------------------------------------------
(***************************************************************************)
(* Faults and the way the code meets them.                                 *)
(***************************************************************************)

InCall(w) == pc[w] \notin {"idle", "answered"}

(***************************************************************************)
(* A statement fails (connection lost, failover, timeout).  Whichever      *)
(* except clause catches it, settle_transaction rolls back and answers     *)
(* ERROR; _refund_to_user runs in the aborted transaction, has no effect   *)
(* and swallows its own failure.                                           *)
(***************************************************************************)
StatementError(w) ==
    /\ "error" \in Faults
    /\ InCall(w)
    /\ RollbackAndError(w)

\* The COMMIT is durable but its acknowledgement is lost: the client sees
\* an exception, rolls back, and answers ERROR.
UnackedDecline(w) ==
    /\ "unacked" \in Faults
    /\ DeclineDurable(w)
    /\ Return(w, "ERROR")

UnackedSettlement(w) ==
    /\ "unacked" \in Faults
    /\ SettlementDurable(w)
    /\ Return(w, "ERROR")

\* The account that the next statement of w needs.
Wanted(w) ==
    IF pc[w] \in {"approving", "openingPayer"} THEN Payer[txn[w]]
                                               ELSE Payee[txn[w]]

\* w waits for the transaction of another worker to end.
Blocked(w) ==
    /\ \/ pc[w] \in {"openingPayer", "openingPayee"}
       \/ /\ pc[w] \in {"approving", "deducted"}
          /\ HasRow(account[Wanted(w)])
    /\ lock[Wanted(w)] \notin {NoOne, w}

\* Each worker waits for one other, so a set of workers that is the set of
\* those its members wait for is made of cycles.
Deadlocked(w) ==
    \E S \in SUBSET Workers :
        /\ w \in S
        /\ \A v \in S : Blocked(v)
        /\ S = {lock[Wanted(v)] : v \in S}

\* PostgreSQL aborts a transaction of a cycle, which one is not determined.
DeadlockVictim(w) ==
    /\ Deadlocked(w)
    /\ RollbackAndError(w)

\* The run loop goes on to the next message.
Finish(w) ==
    /\ pc[w] = "answered"
    /\ pc' = [pc EXCEPT ![w] = "idle"]
    /\ txn' = [txn EXCEPT ![w] = NoTxn]
    /\ seen' = [seen EXCEPT ![w] = "NONE"]
    /\ answer' = [answer EXCEPT ![w] = "NONE"]
    /\ UNCHANGED <<db, lock, memory, pending>>

(***************************************************************************)
(* The process dies and is restarted with an empty session.  PostgreSQL    *)
(* rolls its open transaction back.                                        *)
(***************************************************************************)
Crash(w) ==
    /\ "crash" \in Faults
    /\ pc' = [pc EXCEPT ![w] = "idle"]
    /\ txn' = [txn EXCEPT ![w] = NoTxn]
    /\ seen' = [seen EXCEPT ![w] = "NONE"]
    /\ answer' = [answer EXCEPT ![w] = "NONE"]
    /\ ReleaseRows(w)
    /\ ExpireAll(w)
    /\ DropPending(w)
    /\ UNCHANGED db

-----------------------------------------------------------------------------
Receive(w) == \E m \in Deliverable : Call(w, m[1], m[2])

\* Statements that may have to wait for a row.
Acquire(w) == LockPayer(w) \/ InsertPayer(w) \/ LockPayee(w) \/ InsertPayee(w)

\* Statements that never wait.
Proceed(w) ==
    \/ CommitDecline(w) \/ LogDecline(w)
    \/ CommitSettlement(w) \/ RejectDuplicate(w)
    \/ DeadlockVictim(w)
    \/ Finish(w)

Fault(w) == StatementError(w) \/ UnackedDecline(w) \/ UnackedSettlement(w) \/ Crash(w)

Next ==
    \/ \E t \in Txns : Submit(t)
    \/ \E w \in Workers : Receive(w) \/ Acquire(w) \/ Proceed(w) \/ Fault(w)

Spec == Init /\ [][Next]_vars

(***************************************************************************)
(* A worker in a call keeps running, and the database serves the waiters   *)
(* of a row in order, so a worker that can take the row again and again is *)
(* given it at some point.  Nothing obliges messages or faults to occur.   *)
(***************************************************************************)
Fairness == \A w \in Workers : WF_vars(Proceed(w)) /\ SF_vars(Acquire(w))

FairSpec == Spec /\ Fairness
=============================================================================
