-------------------------- MODULE SettlementProofs --------------------------
(***************************************************************************)
(* Proofs about module Settlement, for any number of workers, parties and  *)
(* transactions, any amounts and opening balances, any set of deliverable  *)
(* decisions (contradictory ones too) and any faults.                      *)
(***************************************************************************)
EXTENDS SettlementProperties, BooksProofs

-----------------------------------------------------------------------------
(***************************************************************************)
(* The shapes of a step.  Most actions differ only in their guards, so     *)
(* what is proved about a step is proved about these.                      *)
(***************************************************************************)

\* The attributes of the object of p that has just been loaded or inserted.
FreshObject(p) == [balance |-> Loaded(account[p].balance),
                   version |-> Opened(account[p]).version]

\* The object of the payee: loaded already when the payer is the payee.
PayeeObject(w) == IF Payee[txn[w]] \in touched[w] THEN cache[w][Payee[txn[w]]]
                                                  ELSE FreshObject(Payee[txn[w]])

\* The payer or the payee turns out to have no row.
RowMissing(w) ==
    /\ \/ pc[w] = "approving" /\ pc' = [pc EXCEPT ![w] = "openingPayer"]
       \/ /\ pc[w] = "deducted"
          /\ Payee[txn[w]] \notin touched[w]
          /\ pc' = [pc EXCEPT ![w] = "openingPayee"]
    /\ UNCHANGED <<db, lock, txn, seen, memory, pending, answer>>

PayerTaken(w) ==
    LET p   == Payer[txn[w]]
        amt == Amount[txn[w]]
    IN  /\ pc[w] \in {"approving", "openingPayer"}
        /\ lock[p] = NoOne
        /\ account[p].balance >= amt
        /\ Assign(w, p, [balance |-> Loaded(account[p].balance) - Loaded(amt),
                         version |-> FreshObject(p).version + 1])
        /\ pc' = [pc EXCEPT ![w] = "deducted"]
        /\ UNCHANGED <<db, txn, seen, pending, answer>>

PayeeTaken(w) ==
    /\ pc[w] \in {"deducted", "openingPayee"}
    /\ Payee[txn[w]] \in touched[w] \/ lock[Payee[txn[w]]] = NoOne
    /\ Credit(w, PayeeObject(w))

Declined(w) ==
    /\ DeclineDurable(w)
    /\ \/ pc' = [pc EXCEPT ![w] = "declined"] /\ UNCHANGED answer
       \/ Return(w, "ERROR")

Settled(w) ==
    /\ SettlementDurable(w)
    /\ \E a \in {"SETTLED", "ERROR"} : Return(w, a)

RolledBack(w) == InCall(w) /\ RollbackAndError(w)

Shape(w) ==
    \/ Receive(w)
    \/ Declined(w) \/ LogDecline(w)
    \/ RowMissing(w) \/ PayerTaken(w) \/ PayeeTaken(w)
    \/ Settled(w)
    \/ RolledBack(w)
    \/ Finish(w) \/ Crash(w)

\* A missing row is inserted with the attributes FreshObject gives it.
LEMMA FreshObjects ==
  ASSUME IInv, NEW p \in Parties
  PROVE  /\ FreshObject(p).balance = Loaded(account[p].balance)
         /\ HasRow(account[p]) => RowObject(p) = FreshObject(p)
         /\ ~HasRow(account[p]) => NewObject = FreshObject(p)
         /\ FreshObject(p) \in Account
         /\ account[p] \in Account
  <1>1. account[p] \in Account /\ (~HasRow(account[p]) => account[p].balance = 0)
    BY DEF IInv, TypeOK, MissingIsEmpty
  <1>. QED
    BY <1>1 DEF FreshObject, RowObject, NewObject, Opened, HasRow, Account, Loaded

\* Parties and amounts of the transaction a worker is in a call for.
LEMMA InCallFacts ==
  ASSUME IInv, NEW w \in Workers, InCall(w)
  PROVE  /\ txn[w] \in Txns
         /\ status[txn[w]] # "NONE"
         /\ Payer[txn[w]] \in Parties
         /\ Payee[txn[w]] \in Parties
         /\ Amount[txn[w]] \in Nat
  <1>1. txn[w] \in Txns /\ status[txn[w]] # "NONE"
    BY DEF IInv, SessionsCurrent, SessionOf
  <1>. QED
    BY <1>1, PartiesAssumption, AmountAssumption

LEMMA DeductShape ==
  ASSUME IInv, NEW w \in Workers, pc[w] \in {"approving", "openingPayer"},
         lock[Payer[txn[w]]] = NoOne, Deduct(w, FreshObject(Payer[txn[w]]))
  PROVE  PayerTaken(w) \/ RolledBack(w)
  <1>0. InCall(w)
    BY DEF InCall
  <1>. DEFINE p == Payer[txn[w]]
              amt == Amount[txn[w]]
  <1>1. /\ p \in Parties /\ amt \in Nat
        /\ FreshObject(p).balance = Loaded(account[p].balance)
        /\ account[p].balance \in Nat
    BY <1>0, InCallFacts, FreshObjects DEF Account
  <1>2. FreshObject(p).balance >= Loaded(amt) <=> account[p].balance >= amt
    BY <1>1, LoadedOrder
  <1>3. CASE RollbackAndError(w)
    BY <1>0, <1>3 DEF RolledBack
  <1>4. CASE ~RollbackAndError(w)
    BY <1>1, <1>2, <1>4 DEF Deduct, PayerTaken
  <1>. QED
    BY <1>3, <1>4

LEMMA Shapes ==
  ASSUME IInv, [Next]_vars
  PROVE  \/ UNCHANGED vars
         \/ \E t \in Txns : Submit(t)
         \/ \E w \in Workers : Shape(w)
  <1>1. SUFFICES ASSUME NEW w \in Workers,
                        Receive(w) \/ Acquire(w) \/ Proceed(w) \/ Fault(w)
                 PROVE  Shape(w)
    BY DEF Next
  <1>2. CASE LockPayer(w)
    <2>1. pc[w] = "approving" /\ InCall(w)
      BY <1>2 DEF LockPayer, InCall
    <2>2. Payer[txn[w]] \in Parties
      BY <2>1, InCallFacts
    <2>3. CASE HasRow(account[Payer[txn[w]]])
      <3>1. lock[Payer[txn[w]]] = NoOne /\ Deduct(w, FreshObject(Payer[txn[w]]))
        BY <1>2, <2>2, <2>3, FreshObjects DEF LockPayer
      <3>. QED
        BY <2>1, <3>1, DeductShape DEF Shape
    <2>4. CASE ~HasRow(account[Payer[txn[w]]])
      BY <1>2, <2>1, <2>4 DEF LockPayer, RowMissing, Shape
    <2>. QED
      BY <2>3, <2>4
  <1>3. CASE InsertPayer(w)
    <2>1. pc[w] = "openingPayer" /\ InCall(w)
      BY <1>3 DEF InsertPayer, InCall
    <2>2. Payer[txn[w]] \in Parties
      BY <2>1, InCallFacts
    <2>3. CASE HasRow(account[Payer[txn[w]]])
      BY <1>3, <2>1, <2>3 DEF InsertPayer, RolledBack, Shape
    <2>4. CASE ~HasRow(account[Payer[txn[w]]])
      <3>1. lock[Payer[txn[w]]] = NoOne /\ Deduct(w, FreshObject(Payer[txn[w]]))
        BY <1>3, <2>2, <2>4, FreshObjects DEF InsertPayer
      <3>. QED
        BY <2>1, <3>1, DeductShape DEF Shape
    <2>. QED
      BY <2>3, <2>4
  <1>4. CASE LockPayee(w)
    <2>1. pc[w] = "deducted" /\ InCall(w)
      BY <1>4 DEF LockPayee, InCall
    <2>2. Payee[txn[w]] \in Parties
      BY <2>1, InCallFacts
    <2>3. CASE Payee[txn[w]] \in touched[w]
      BY <1>4, <2>1, <2>3 DEF LockPayee, PayeeTaken, PayeeObject, Shape
    <2>4. CASE Payee[txn[w]] \notin touched[w] /\ ~HasRow(account[Payee[txn[w]]])
      BY <1>4, <2>1, <2>4 DEF LockPayee, RowMissing, Shape
    <2>5. CASE Payee[txn[w]] \notin touched[w] /\ HasRow(account[Payee[txn[w]]])
      BY <1>4, <2>1, <2>2, <2>5, FreshObjects
         DEF LockPayee, PayeeTaken, PayeeObject, Shape
    <2>. QED
      BY <2>3, <2>4, <2>5
  <1>5. CASE InsertPayee(w)
    <2>1. pc[w] = "openingPayee" /\ InCall(w)
      BY <1>5 DEF InsertPayee, InCall
    <2>2. Payee[txn[w]] \in Parties
      BY <2>1, InCallFacts
    <2>3. Payee[txn[w]] \notin touched[w]
      BY <2>1 DEF IInv, SessionsCurrent, SessionOf
    <2>4. CASE HasRow(account[Payee[txn[w]]])
      BY <1>5, <2>1, <2>4 DEF InsertPayee, RolledBack, Shape
    <2>5. CASE ~HasRow(account[Payee[txn[w]]])
      BY <1>5, <2>1, <2>2, <2>3, <2>5, FreshObjects
         DEF InsertPayee, PayeeTaken, PayeeObject, Shape
    <2>. QED
      BY <2>4, <2>5
  <1>6. CASE Proceed(w)
    <2>1. CASE CommitDecline(w)
      BY <2>1 DEF CommitDecline, Declined, Shape
    <2>2. CASE CommitSettlement(w)
      BY <2>2 DEF CommitSettlement, Settled, Shape
    <2>3. CASE RejectDuplicate(w)
      BY <2>3 DEF RejectDuplicate, RolledBack, InCall, Shape
    <2>4. CASE DeadlockVictim(w)
      BY <2>4 DEF DeadlockVictim, Deadlocked, Blocked, RolledBack, InCall, Shape
    <2>. QED
      BY <1>6, <2>1, <2>2, <2>3, <2>4 DEF Proceed, Shape
  <1>7. CASE Fault(w)
    <2>1. CASE StatementError(w)
      BY <2>1 DEF StatementError, RolledBack, Shape
    <2>2. CASE UnackedDecline(w)
      BY <2>2 DEF UnackedDecline, Declined, Shape
    <2>3. CASE UnackedSettlement(w)
      BY <2>3 DEF UnackedSettlement, Settled, Shape
    <2>. QED
      BY <1>7, <2>1, <2>2, <2>3 DEF Fault, Shape
  <1>. QED
    BY <1>1, <1>2, <1>3, <1>4, <1>5, <1>6, <1>7 DEF Acquire, Shape

-----------------------------------------------------------------------------
(***************************************************************************)
(* The types are preserved.                                                *)
(***************************************************************************)

LEMMA PayerObjectType ==
  ASSUME IInv, NEW w \in Workers, PayerTaken(w)
  PROVE  [balance |-> Loaded(account[Payer[txn[w]]].balance) - Loaded(Amount[txn[w]]),
          version |-> FreshObject(Payer[txn[w]]).version + 1] \in Account
  <1>1. InCall(w)
    BY DEF PayerTaken, InCall
  <1>2. /\ Amount[txn[w]] \in Nat
        /\ FreshObject(Payer[txn[w]]) \in Account
        /\ account[Payer[txn[w]]].balance \in Nat
    BY <1>1, InCallFacts, FreshObjects DEF Account
  <1>. QED
    BY <1>2, LoadedDifference DEF PayerTaken, Account

LEMMA PayeeObjectType ==
  ASSUME IInv, NEW w \in Workers, PayeeTaken(w)
  PROVE  /\ PayeeObject(w) \in Account
         /\ [balance |-> PayeeObject(w).balance + MerchantCredit(Amount[txn[w]]),
             version |-> PayeeObject(w).version + 1] \in Account
  <1>1. InCall(w)
    BY DEF PayeeTaken, InCall
  <1>2. PayeeObject(w) \in Account
    BY <1>1, InCallFacts, FreshObjects DEF PayeeObject, IInv, TypeOK
  <1>3. MerchantCredit(Amount[txn[w]]) \in Nat
    BY <1>1, InCallFacts, MoneyTypes
  <1>. QED
    BY <1>2, <1>3 DEF Account

\* The statement of an audit entry is an audit row.
LEMMA AuditTypes ==
  ASSUME NEW t \in Txns, NEW a \in Actions
  PROVE  AuditRow(t, a) \in AuditRows
  BY DEF AuditRows

LEMMA TypeStep == ASSUME IInv, [Next]_vars PROVE TypeOK'
  <1>. USE DEF db, memory
  <1>1. TypeOK
    BY DEF IInv
  <1>2. CASE UNCHANGED vars
    BY <1>1, <1>2 DEF TypeOK, vars
  <1>3. ASSUME NEW t \in Txns, Submit(t)
        PROVE  TypeOK'
    BY <1>1, <1>3 DEF TypeOK, Submit, Status
  <1>4. ASSUME NEW w \in Workers, Shape(w)
        PROVE  TypeOK'
    <2>1. CASE Receive(w)
      <3>1. PICK m \in Deliverable : Call(w, m[1], m[2])
        BY <2>1 DEF Receive
      <3>2. m[1] \in Txns
        BY DeliverableAssumption
      <3>. QED
        BY <1>1, <3>1, <3>2 DEF TypeOK, Call, Return, Points, Answers
    <2>2. CASE Declined(w)
      BY <1>1, <2>2
         DEF TypeOK, Declined, DeclineDurable, StatusFlushed, DropPending, Return,
             Points, Answers, Status
    <2>3. CASE LogDecline(w)
      <3>1. AuditRow(txn[w], "declined") \in AuditRows
        BY <2>3, InCallFacts, AuditTypes DEF LogDecline, InCall, Actions
      <3>. QED
        BY <1>1, <2>3, <3>1 DEF TypeOK, LogDecline, Return, Points, Answers
    <2>4. CASE RowMissing(w)
      BY <1>1, <2>4 DEF TypeOK, RowMissing, Points
    <2>5. CASE PayerTaken(w)
      <3>1. Payer[txn[w]] \in Parties
        BY <2>5, InCallFacts DEF PayerTaken, InCall
      <3>. QED
        BY <1>1, <2>5, <3>1, PayerObjectType DEF TypeOK, PayerTaken, Assign, Points
    <2>6. CASE PayeeTaken(w)
      <3>1. Payee[txn[w]] \in Parties
        BY <2>6, InCallFacts DEF PayeeTaken, InCall
      <3>. QED
        BY <1>1, <2>6, <3>1, PayeeObjectType DEF TypeOK, PayeeTaken, Credit, Assign, Points
    <2>7. CASE Settled(w)
      <3>1. txn[w] \in Txns
        BY <2>7, InCallFacts DEF Settled, SettlementDurable, InCall
      <3>2. account' \in [Parties -> Account]
        <4>1. ASSUME NEW p \in Parties
              PROVE  Stored(cache[w][p].balance) \in Nat /\ cache[w][p].version \in Nat
          BY <1>1, StoredType DEF TypeOK, Account
        <4>. QED
          BY <1>1, <2>7, <4>1 DEF TypeOK, Settled, SettlementDurable, AccountsFlushed, Account
      <3>3. settlements' \in Seq(Rows)
        BY <1>1, <2>7, <3>1, RowTypes DEF TypeOK, Settled, SettlementDurable
      <3>4. audit' \subseteq AuditRows
        BY <1>1, <2>7, <3>1, AuditTypes
           DEF TypeOK, Settled, SettlementDurable, SettlementEntries, Actions
      <3>5. /\ status' \in [Txns -> Status]
            /\ pc' \in [Workers -> Points]
            /\ answer' \in [Workers -> Answers]
        BY <1>1, <2>7 DEF TypeOK, Settled, SettlementDurable, StatusFlushed, Return,
                          Status, Points, Answers
      <3>6. /\ lock' \in [Parties -> Workers \cup {NoOne}]
            /\ touched' \in [Workers -> SUBSET Parties]
            /\ cache' \in [Workers -> [Parties -> Account]]
            /\ pending' \in [Workers -> SUBSET AuditRows]
            /\ UNCHANGED <<txn, seen>>
        BY <1>1, <2>7 DEF TypeOK, Settled, SettlementDurable, ReleaseRows, ExpireAll,
                          DropPending, Blank, Account
      <3>. QED
        BY <1>1, <3>2, <3>3, <3>4, <3>5, <3>6 DEF TypeOK
    <2>8. CASE RolledBack(w)
      BY <1>1, <2>8
         DEF TypeOK, RolledBack, RollbackAndError, ReleaseRows, ExpireAll, DropPending,
             Return, Blank, Account, Points, Answers
    <2>9. CASE Finish(w)
      BY <1>1, <2>9 DEF TypeOK, Finish, Points, Answers, Status
    <2>10. CASE Crash(w)
      BY <1>1, <2>10
         DEF TypeOK, Crash, ReleaseRows, ExpireAll, DropPending, Blank, Account,
             Points, Answers, Status
    <2>. QED
      BY <1>4, <2>1, <2>2, <2>3, <2>4, <2>5, <2>6, <2>7, <2>8, <2>9, <2>10 DEF Shape
  <1>. QED
    BY <1>2, <1>3, <1>4, Shapes

-----------------------------------------------------------------------------
(***************************************************************************)
(* Who owns the rows.                                                      *)
(***************************************************************************)

\* The points at which a worker may own rows.
Holding == {"deducted", "openingPayee", "credited"}

\* Every step moves at most one worker, and either leaves the rows alone, gives
\* all rows of that worker back, or takes one and leaves the worker holding.
LEMMA GivenBackMove ==
  ASSUME TypeOK, RowsGivenBack, NEW w \in Workers, NEW x,
         pc' = [pc EXCEPT ![w] = x],
         \/ lock' = lock /\ (pc[w] \in Holding => x \in Holding)
         \/ ReleaseRows(w)
         \/ \E p \in Parties : lock' = [lock EXCEPT ![p] = w] /\ x \in Holding
  PROVE  RowsGivenBack'
  <1>1. SUFFICES ASSUME NEW q \in Parties, lock'[q] # NoOne
                 PROVE  pc'[lock'[q]] \in Holding
    BY DEF RowsGivenBack, Holding
  <1>2. lock[q] # NoOne => lock[q] \in Workers /\ pc[lock[q]] \in Holding
    BY DEF TypeOK, RowsGivenBack, Holding
  <1>3. pc'[w] = x /\ \A v \in Workers : v # w => pc'[v] = pc[v]
    BY DEF TypeOK
  <1>4. CASE lock' = lock /\ (pc[w] \in Holding => x \in Holding)
    BY <1>1, <1>2, <1>3, <1>4
  <1>5. CASE ReleaseRows(w)
    <2>1. lock[q] # w /\ lock'[q] = lock[q]
      BY <1>1, <1>5 DEF ReleaseRows
    <2>. QED
      BY <1>1, <1>2, <1>3, <2>1
  <1>6. ASSUME NEW p \in Parties, lock' = [lock EXCEPT ![p] = w], x \in Holding
        PROVE  pc'[lock'[q]] \in Holding
    <2>1. lock'[q] = IF q = p THEN w ELSE lock[q]
      BY <1>6 DEF TypeOK
    <2>. QED
      BY <1>1, <1>2, <1>3, <1>6, <2>1
  <1>. QED
    BY <1>4, <1>5, <1>6

LEMMA GivenBackStep == ASSUME IInv, [Next]_vars PROVE RowsGivenBack'
  <1>. USE DEF db, memory
  <1>1. TypeOK /\ RowsGivenBack
    BY DEF IInv
  <1>2. CASE UNCHANGED vars
    BY <1>1, <1>2 DEF RowsGivenBack, vars
  <1>3. ASSUME NEW t \in Txns, Submit(t)
        PROVE  RowsGivenBack'
    BY <1>1, <1>3 DEF RowsGivenBack, Submit
  <1>4. ASSUME NEW w \in Workers, Shape(w)
        PROVE  RowsGivenBack'
    <2>1. CASE Receive(w)
      <3>1. /\ pc[w] = "idle" /\ lock' = lock
            /\ \E x : pc' = [pc EXCEPT ![w] = x]
        BY <2>1 DEF Receive, Call, Return
      <3>. QED
        BY <1>1, <3>1, GivenBackMove DEF Holding
    <2>2. CASE Declined(w)
      <3>1. /\ pc[w] = "declining" /\ lock' = lock
            /\ \E x : pc' = [pc EXCEPT ![w] = x]
        BY <2>2 DEF Declined, DeclineDurable, Return
      <3>. QED
        BY <1>1, <3>1, GivenBackMove DEF Holding
    <2>3. CASE LogDecline(w)
      BY <1>1, <2>3, GivenBackMove DEF Holding, LogDecline, Return
    <2>4. CASE RowMissing(w)
      BY <1>1, <2>4, GivenBackMove DEF Holding, RowMissing
    <2>5. CASE PayerTaken(w)
      <3>1. Payer[txn[w]] \in Parties
        BY <2>5, InCallFacts DEF PayerTaken, InCall
      <3>. QED
        BY <1>1, <2>5, <3>1, GivenBackMove DEF Holding, PayerTaken, Assign
    <2>6. CASE PayeeTaken(w)
      <3>1. Payee[txn[w]] \in Parties
        BY <2>6, InCallFacts DEF PayeeTaken, InCall
      <3>. QED
        BY <1>1, <2>6, <3>1, GivenBackMove DEF Holding, PayeeTaken, Credit, Assign
    <2>7. CASE Settled(w)
      BY <1>1, <2>7, GivenBackMove DEF Settled, SettlementDurable, Return
    <2>8. CASE RolledBack(w)
      BY <1>1, <2>8, GivenBackMove DEF RolledBack, RollbackAndError, Return
    <2>9. CASE Finish(w)
      BY <1>1, <2>9, GivenBackMove DEF Holding, Finish
    <2>10. CASE Crash(w)
      BY <1>1, <2>10, GivenBackMove DEF Crash
    <2>. QED
      BY <1>4, <2>1, <2>2, <2>3, <2>4, <2>5, <2>6, <2>7, <2>8, <2>9, <2>10 DEF Shape
  <1>. QED
    BY <1>2, <1>3, <1>4, Shapes

\* A worker that gives its rows back has an empty session.
LEMMA OwnRelease ==
  ASSUME TypeOK, OwnsTouched, NEW w \in Workers, ReleaseRows(w), ExpireAll(w)
  PROVE  OwnsTouched'
  BY DEF TypeOK, OwnsTouched, ReleaseRows, ExpireAll

\* A worker takes only rows that are free or its own.
LEMMA OwnTake ==
  ASSUME TypeOK, OwnsTouched, NEW w \in Workers, NEW p \in Parties, NEW object,
         Assign(w, p, object), lock[p] = NoOne \/ p \in touched[w]
  PROVE  OwnsTouched'
  <1>1. SUFFICES ASSUME NEW v \in Workers, NEW q \in touched'[v]
                 PROVE  lock'[q] = v
    BY DEF OwnsTouched
  <1>2. /\ lock' = [lock EXCEPT ![p] = w]
        /\ touched' = [touched EXCEPT ![w] = touched[w] \cup {p}]
    BY DEF Assign
  <1>3. v # NoOne
    BY NoOneAssumption
  <1>4. CASE v = w
    BY <1>1, <1>2, <1>4 DEF TypeOK, OwnsTouched
  <1>5. CASE v # w
    <2>1. q \in touched[v] /\ lock[q] = v /\ q \in Parties
      BY <1>1, <1>2, <1>5 DEF TypeOK, OwnsTouched
    <2>2. lock[p] # v
      BY <1>3, <1>5 DEF OwnsTouched
    <2>. QED
      BY <1>2, <2>1, <2>2 DEF TypeOK
  <1>. QED
    BY <1>4, <1>5

LEMMA OwnStep == ASSUME IInv, [Next]_vars PROVE OwnsTouched'
  <1>. USE DEF db, memory
  <1>1. TypeOK /\ OwnsTouched
    BY DEF IInv
  <1>2. CASE UNCHANGED vars
    BY <1>1, <1>2 DEF OwnsTouched, vars
  <1>3. ASSUME NEW t \in Txns, Submit(t)
        PROVE  OwnsTouched'
    BY <1>1, <1>3 DEF OwnsTouched, Submit
  <1>4. ASSUME NEW w \in Workers, Shape(w)
        PROVE  OwnsTouched'
    <2>1. CASE Receive(w)
      BY <1>1, <2>1 DEF OwnsTouched, Receive, Call
    <2>2. CASE Declined(w)
      BY <1>1, <2>2 DEF OwnsTouched, Declined, DeclineDurable
    <2>3. CASE LogDecline(w)
      BY <1>1, <2>3 DEF OwnsTouched, LogDecline
    <2>4. CASE RowMissing(w)
      BY <1>1, <2>4 DEF OwnsTouched, RowMissing
    <2>5. CASE PayerTaken(w)
      <3>1. Payer[txn[w]] \in Parties
        BY <2>5, InCallFacts DEF PayerTaken, InCall
      <3>. QED
        BY <1>1, <2>5, <3>1, OwnTake DEF PayerTaken
    <2>6. CASE PayeeTaken(w)
      <3>1. Payee[txn[w]] \in Parties
        BY <2>6, InCallFacts DEF PayeeTaken, InCall
      <3>. QED
        BY <1>1, <2>6, <3>1, OwnTake DEF PayeeTaken, Credit
    <2>7. CASE Settled(w)
      BY <1>1, <2>7, OwnRelease DEF Settled, SettlementDurable
    <2>8. CASE RolledBack(w)
      BY <1>1, <2>8, OwnRelease DEF RolledBack, RollbackAndError
    <2>9. CASE Finish(w)
      BY <1>1, <2>9 DEF OwnsTouched, Finish
    <2>10. CASE Crash(w)
      BY <1>1, <2>10, OwnRelease DEF Crash
    <2>. QED
      BY <1>4, <2>1, <2>2, <2>3, <2>4, <2>5, <2>6, <2>7, <2>8, <2>9, <2>10 DEF Shape
  <1>. QED
    BY <1>2, <1>3, <1>4, Shapes

-----------------------------------------------------------------------------
(***************************************************************************)
(* What a worker is about to write is what the ledger would compute from   *)
(* the accounts as they are now (settlement.py 117 to 144, 207).           *)
(***************************************************************************)
LEMMA CurrentAtCommit == IInv => NothingStale
  <1>1. SUFFICES ASSUME IInv, NEW w \in Workers, pc[w] = "credited"
                 PROVE  /\ AccountsFlushed(w) = Transferred(account, txn[w])
                        /\ account[Payer[txn[w]]].balance >= Amount[txn[w]]
    BY DEF NothingStale
  <1>2. InCall(w) /\ txn[w] \in Txns /\ account \in [Parties -> Account]
    BY <1>1, InCallFacts DEF InCall, IInv, TypeOK
  <1>3. /\ touched[w] = {Payer[txn[w]], Payee[txn[w]]}
        /\ account[Payer[txn[w]]].balance >= Amount[txn[w]]
        /\ \A p \in touched[w] : Written(w, p) = Transferred(account, txn[w])[p]
    BY <1>1 DEF IInv, SessionsCurrent, SessionOf
  <1>4. ASSUME NEW p \in Parties
        PROVE  AccountsFlushed(w)[p] = Transferred(account, txn[w])[p]
    <2>1. CASE p \in touched[w]
      BY <1>3, <2>1 DEF AccountsFlushed, Written
    <2>2. CASE p \notin touched[w]
      <3>1. p \notin {Payer[txn[w]], Payee[txn[w]]}
        BY <1>3, <2>2
      <3>2. Transferred(account, txn[w])[p] = account[p]
        BY <1>2, <3>1, TransferredAt DEF Changed
      <3>. QED
        BY <2>2, <3>2 DEF AccountsFlushed
    <2>. QED
      BY <2>1, <2>2
  <1>5. AccountsFlushed(w) = [p \in Parties |-> AccountsFlushed(w)[p]]
    BY DEF AccountsFlushed
  <1>. QED
    BY <1>2, <1>3, <1>4, <1>5, TransferredDomain

\* A settlement has exactly the effect the ledger gives it.
LEMMA SettledAccounts ==
  ASSUME IInv, NEW w \in Workers, Settled(w)
  PROVE  /\ txn[w] \in Txns
         /\ account' = Transferred(account, txn[w])
         /\ account[Payer[txn[w]]].balance >= Amount[txn[w]]
         /\ \A p \in Parties \ touched[w] : account'[p] = account[p]
  <1>1. pc[w] = "credited" /\ account' = AccountsFlushed(w)
    BY DEF Settled, SettlementDurable
  <1>2. txn[w] \in Txns
    BY <1>1, InCallFacts DEF InCall
  <1>. QED
    BY <1>1, <1>2, CurrentAtCommit DEF NothingStale, AccountsFlushed

\* No other step changes the accounts.
LEMMA OthersKeepAccounts ==
  ASSUME NEW w \in Workers, Shape(w), ~Settled(w)
  PROVE  UNCHANGED <<account, settlements>>
  BY DEF Shape, Receive, Call, Declined, DeclineDurable, LogDecline, RowMissing, PayerTaken,
         PayeeTaken, Credit, RolledBack, RollbackAndError, Finish, Crash, db

LEMMA MissingStep == ASSUME IInv, [Next]_vars PROVE MissingIsEmpty'
  <1>1. TypeOK /\ MissingIsEmpty
    BY DEF IInv
  <1>2. CASE UNCHANGED account
    BY <1>1, <1>2 DEF MissingIsEmpty
  <1>3. ASSUME NEW w \in Workers, Settled(w)
        PROVE  MissingIsEmpty'
    <2>1. SUFFICES ASSUME NEW p \in Parties, ~HasRow(account'[p])
                   PROVE  account'[p].balance = 0
      BY DEF MissingIsEmpty
    <2>2. txn[w] \in Txns /\ account'[p] = Changed(account[p], txn[w], p)
      BY <1>1, <1>3, SettledAccounts, TransferredAt DEF TypeOK
    <2>3. Opened(account[p]).version \in Nat
      BY <1>1 DEF TypeOK, Opened, Account
    <2>4. p \notin {Payer[txn[w]], Payee[txn[w]]}
      BY <2>1, <2>2, <2>3 DEF Changed, HasRow
    <2>5. account'[p] = account[p]
      BY <2>2, <2>4 DEF Changed
    <2>. QED
      BY <1>1, <2>1, <2>5 DEF MissingIsEmpty
  <1>. QED
    BY <1>2, <1>3, Shapes, OthersKeepAccounts DEF vars, Submit

-----------------------------------------------------------------------------
(***************************************************************************)
(* The sessions stay current.                                              *)
(***************************************************************************)

\* A step of one worker leaves the process of another alone.
LEMMA OthersUntouched ==
  ASSUME IInv, NEW w \in Workers, Shape(w), NEW v \in Workers, v # w
  PROVE  /\ pc'[v] = pc[v] /\ txn'[v] = txn[v] /\ seen'[v] = seen[v]
         /\ touched'[v] = touched[v] /\ cache'[v] = cache[v]
         /\ pending'[v] = pending[v]
  <1>. USE DEF db, memory
  <1>1. TypeOK
    BY DEF IInv
  <1>2. CASE Receive(w)
    BY <1>1, <1>2 DEF TypeOK, Receive, Call, Return
  <1>3. CASE Declined(w) \/ LogDecline(w)
    BY <1>1, <1>3 DEF TypeOK, Declined, DeclineDurable, DropPending, LogDecline, Return
  <1>4. CASE RowMissing(w)
    BY <1>1, <1>4 DEF TypeOK, RowMissing
  <1>5. CASE PayerTaken(w)
    BY <1>1, <1>5 DEF TypeOK, PayerTaken, Assign
  <1>6. CASE PayeeTaken(w)
    BY <1>1, <1>6 DEF TypeOK, PayeeTaken, Credit, Assign
  <1>7. CASE Settled(w)
    BY <1>1, <1>7 DEF TypeOK, Settled, SettlementDurable, ExpireAll, DropPending, Return
  <1>8. CASE RolledBack(w)
    BY <1>1, <1>8 DEF TypeOK, RolledBack, RollbackAndError, ExpireAll, DropPending, Return
  <1>9. CASE Finish(w) \/ Crash(w)
    BY <1>1, <1>9 DEF TypeOK, Finish, Crash, ExpireAll, DropPending
  <1>. QED
    BY <1>2, <1>3, <1>4, <1>5, <1>6, <1>7, <1>8, <1>9 DEF Shape

\* No step removes a transaction.
LEMMA StatusKept ==
  ASSUME IInv, NEW w \in Workers, Shape(w), NEW t \in Txns, status[t] # "NONE"
  PROVE  status'[t] # "NONE"
  <1>1. TypeOK
    BY DEF IInv
  <1>2. CASE Declined(w) \/ Settled(w)
    BY <1>1, <1>2 DEF TypeOK, Declined, DeclineDurable, Settled, SettlementDurable, StatusFlushed
  <1>3. CASE ~Declined(w) /\ ~Settled(w)
    BY <1>3 DEF Shape, Receive, Call, LogDecline, RowMissing, PayerTaken, PayeeTaken, Credit,
                RolledBack, RollbackAndError, Finish, Crash, db
  <1>. QED
    BY <1>2, <1>3

\* A session stays current while nobody changes the rows of its accounts.
LEMMA SessionFrame ==
  ASSUME IInv, NEW v \in Workers,
         pc'[v] = pc[v], txn'[v] = txn[v], touched'[v] = touched[v], cache'[v] = cache[v],
         account' \in [Parties -> Account],
         \A p \in touched[v] : account'[p] = account[p],
         \A t \in Txns : status[t] # "NONE" => status'[t] # "NONE"
  PROVE  SessionOf(v)'
  <1>1. SessionOf(v) /\ account \in [Parties -> Account] /\ touched[v] \subseteq Parties
    BY DEF IInv, TypeOK, SessionsCurrent
  <1>2. InCall(v)' <=> InCall(v)
    BY DEF InCall
  <1>3. InCall(v) => txn[v] \in Txns /\ status'[txn[v]] # "NONE"
    BY <1>1 DEF SessionOf
  <1>4. pc[v] \in {"deducted", "openingPayee"} => account'[Payer[txn[v]]] = account[Payer[txn[v]]]
    BY <1>1 DEF SessionOf
  <1>5. ASSUME pc[v] = "credited"
        PROVE  /\ account'[Payer[txn[v]]] = account[Payer[txn[v]]]
               /\ \A p \in touched[v] :
                    Transferred(account', txn[v])[p] = Transferred(account, txn[v])[p]
    <2>1. txn[v] \in Txns
      BY <1>3, <1>5 DEF InCall
    <2>2. account'[Payer[txn[v]]] = account[Payer[txn[v]]]
      BY <1>1, <1>5 DEF SessionOf
    <2>3. ASSUME NEW p \in touched[v]
          PROVE  Transferred(account', txn[v])[p] = Transferred(account, txn[v])[p]
      BY <1>1, <2>1, TransferredAt
    <2>. QED
      BY <2>2, <2>3
  <1>. QED
    BY <1>1, <1>2, <1>3, <1>4, <1>5 DEF SessionOf, Written, Opened, HasRow

\* A worker outside an APPROVE, or at its start, holds nothing.
LEMMA EmptySession ==
  ASSUME NEW w \in Workers, touched'[w] = {},
         pc'[w] \notin {"deducted", "openingPayee", "credited"},
         InCall(w)' => txn'[w] \in Txns /\ status'[txn'[w]] # "NONE"
  PROVE  SessionOf(w)'
  BY DEF SessionOf

LEMMA PayerSession ==
  ASSUME IInv, NEW w \in Workers, PayerTaken(w)
  PROVE  SessionOf(w)'
  <1>1. /\ pc[w] \in {"approving", "openingPayer"} /\ InCall(w)
        /\ txn' = txn /\ status' = status /\ account' = account
        /\ account[Payer[txn[w]]].balance >= Amount[txn[w]]
    BY DEF PayerTaken, InCall, db
  <1>2. /\ txn[w] \in Txns /\ status[txn[w]] # "NONE"
        /\ Payer[txn[w]] \in Parties
    BY <1>1, InCallFacts
  <1>3. touched[w] = {} /\ TypeOK
    BY <1>1 DEF IInv, SessionsCurrent, SessionOf
  <1>4. /\ pc'[w] = "deducted"
        /\ touched'[w] = {Payer[txn[w]]}
        /\ cache'[w][Payer[txn[w]]] =
             [balance |-> Loaded(account[Payer[txn[w]]].balance) - Loaded(Amount[txn[w]]),
              version |-> FreshObject(Payer[txn[w]]).version + 1]
    BY <1>2, <1>3 DEF PayerTaken, Assign, TypeOK
  <1>. QED
    BY <1>1, <1>2, <1>4 DEF SessionOf, FreshObject, Opened, HasRow

LEMMA PayeeSession ==
  ASSUME IInv, NEW w \in Workers, PayeeTaken(w)
  PROVE  SessionOf(w)'
  <1>. DEFINE t    == txn[w]
              from == Payer[txn[w]]
              to   == Payee[txn[w]]
              amt  == Amount[txn[w]]
  <1>1. /\ pc[w] \in {"deducted", "openingPayee"} /\ InCall(w)
        /\ txn' = txn /\ status' = status /\ account' = account
    BY DEF PayeeTaken, InCall, Credit, db
  <1>2. /\ t \in Txns /\ status[t] # "NONE"
        /\ from \in Parties /\ to \in Parties /\ amt \in Nat
    BY <1>1, InCallFacts
  <1>3. /\ touched[w] = {from}
        /\ account[from].balance >= amt
        /\ cache[w][from] = [balance |-> Loaded(account[from].balance) - Loaded(amt),
                             version |-> Opened(account[from]).version + 1]
    BY <1>1 DEF IInv, SessionsCurrent, SessionOf
  <1>4. TypeOK /\ account \in [Parties -> Account]
    BY DEF IInv, TypeOK
  <1>5. /\ pc'[w] = "credited"
        /\ touched'[w] = {from, to}
        /\ cache' = [cache EXCEPT ![w][to] =
                       [balance |-> PayeeObject(w).balance + MerchantCredit(amt),
                        version |-> PayeeObject(w).version + 1]]
    BY <1>2, <1>3, <1>4 DEF PayeeTaken, Credit, Assign, TypeOK
  <1>6. /\ account[from] \in Account /\ account[to] \in Account
        /\ Opened(account[from]) \in Account /\ Opened(account[to]) \in Account
    BY <1>2, <1>4 DEF Opened, Account
  <1>7. /\ MerchantCredit(amt) \in Nat
        /\ ProcessingFee(amt) + MerchantCredit(amt) = Loaded(amt)
        /\ ProcessingFee(amt) \in Nat /\ Loaded(amt) \in Nat
        /\ Loaded(account[from].balance) \in Nat
    BY <1>2, <1>6, MoneyTypes DEF Account
  <1>8. ASSUME NEW p \in {from, to}
        PROVE  [balance |-> Stored(cache'[w][p].balance), version |-> cache'[w][p].version]
                 = Changed(account[p], t, p)
    <2>1. CASE from = to
      <3>1. /\ cache'[w][to].balance
                 = Loaded(account[from].balance) - Loaded(amt) + MerchantCredit(amt)
            /\ cache'[w][to].version = Opened(account[from]).version + 1 + 1
        BY <1>2, <1>3, <1>4, <1>5, <2>1 DEF PayeeObject, TypeOK
      <3>2. cache'[w][to].balance = Loaded(account[from].balance) - ProcessingFee(amt)
        BY <1>7, <3>1
      <3>3. cache'[w][to].version = Opened(account[from]).version + 2
        BY <1>6, <3>1 DEF Account
      <3>. QED
        BY <2>1, <3>2, <3>3 DEF Changed
    <2>2. CASE from # to /\ p = from
      <3>1. cache'[w][p] = cache[w][from]
        BY <1>2, <1>4, <1>5, <2>2 DEF TypeOK
      <3>2. Stored(cache'[w][p].balance) = account[from].balance - amt
        BY <1>2, <1>3, <1>6, <3>1, LoadedDifference, StoredLoaded DEF Account
      <3>. QED
        BY <1>3, <2>2, <3>1, <3>2 DEF Changed
    <2>3. CASE from # to /\ p = to
      <3>1. PayeeObject(w) = FreshObject(to)
        BY <1>3, <2>3 DEF PayeeObject
      <3>2. cache'[w][p] = [balance |-> Loaded(account[to].balance) + MerchantCredit(amt),
                            version |-> Opened(account[to]).version + 1]
        BY <1>2, <1>4, <1>5, <2>3, <3>1 DEF TypeOK, FreshObject
      <3>. QED
        BY <2>3, <3>2 DEF Changed
    <2>. QED
      BY <2>1, <2>2, <2>3
  <1>9. ASSUME NEW p \in {from, to}
        PROVE  Written(w, p)' = Transferred(account, t)[p]
    BY <1>2, <1>4, <1>8, TransferredAt DEF Written
  <1>. QED
    BY <1>1, <1>2, <1>3, <1>5, <1>9 DEF SessionOf

LEMMA SessionStep == ASSUME IInv, [Next]_vars PROVE SessionsCurrent'
  <1>. USE DEF db, memory
  <1>1. TypeOK /\ SessionsCurrent /\ TypeOK'
    BY TypeStep DEF IInv
  <1>2. CASE UNCHANGED vars
    <2>1. ASSUME NEW v \in Workers
          PROVE  SessionOf(v)'
      BY <1>1, <1>2, SessionFrame DEF vars, TypeOK
    <2>. QED
      BY <2>1 DEF SessionsCurrent
  <1>3. ASSUME NEW t \in Txns, Submit(t)
        PROVE  SessionsCurrent'
    <2>1. \A u \in Txns : status[u] # "NONE" => status'[u] # "NONE"
      BY <1>1, <1>3 DEF Submit, TypeOK
    <2>2. ASSUME NEW v \in Workers
          PROVE  SessionOf(v)'
      BY <1>1, <1>3, <2>1, SessionFrame DEF Submit, TypeOK
    <2>. QED
      BY <2>2 DEF SessionsCurrent
  <1>4. ASSUME NEW w \in Workers, Shape(w), NEW v \in Workers
        PROVE  SessionOf(v)'
    <2>1. CASE v # w
      <3>1. \A p \in touched[v] : account'[p] = account[p]
        <4>1. CASE Settled(w)
          <5>1. \A p \in touched[v] : p \in Parties /\ p \notin touched[w]
            BY <1>1, <2>1 DEF IInv, OwnsTouched, TypeOK
          <5>. QED
            BY <4>1, <5>1, SettledAccounts
        <4>2. CASE ~Settled(w)
          BY <1>4, <4>2, OthersKeepAccounts
        <4>. QED
          BY <4>1, <4>2
      <3>2. account' \in [Parties -> Account]
        BY <1>1 DEF TypeOK
      <3>. QED
        BY <1>4, <2>1, <3>1, <3>2, OthersUntouched, StatusKept, SessionFrame
    <2>2. CASE v = w
      <3>1. SessionOf(w) /\ TypeOK
        BY <1>1 DEF SessionsCurrent
      <3>2. CASE Receive(w)
        <4>1. PICK m \in Deliverable : Call(w, m[1], m[2])
          BY <3>2 DEF Receive
        <4>2. m[1] \in Txns /\ pc[w] = "idle" /\ touched'[w] = {} /\ txn'[w] = m[1]
          BY <3>1, <4>1, DeliverableAssumption DEF Call, SessionOf, TypeOK
        <4>3. \/ pc'[w] = "answered"
              \/ pc'[w] \in {"approving", "declining"} /\ status'[m[1]] # "NONE"
          BY <3>1, <4>1 DEF Call, Return, TypeOK
        <4>. QED
          BY <2>2, <4>2, <4>3, EmptySession DEF InCall
      <3>3. CASE Declined(w)
        <4>1. InCall(w) /\ touched'[w] = {} /\ txn' = txn
          BY <3>1, <3>3 DEF Declined, DeclineDurable, SessionOf, InCall
        <4>2. txn'[w] \in Txns /\ status'[txn'[w]] # "NONE"
          BY <1>4, <4>1, InCallFacts, StatusKept
        <4>3. pc'[w] \in {"declined", "answered"}
          BY <3>1, <3>3 DEF Declined, Return, TypeOK
        <4>. QED
          BY <2>2, <4>1, <4>2, <4>3, EmptySession
      <3>4. CASE LogDecline(w)
        <4>1. touched'[w] = {} /\ pc'[w] = "answered"
          BY <3>1, <3>4 DEF LogDecline, SessionOf, Return, TypeOK
        <4>. QED
          BY <2>2, <4>1, EmptySession DEF InCall
      <3>5. CASE RowMissing(w)
        <4>1. InCall(w) /\ UNCHANGED <<account, status, txn, touched, cache>>
          BY <3>5 DEF RowMissing, InCall
        <4>2. txn'[w] \in Txns /\ status'[txn'[w]] # "NONE"
          BY <4>1, InCallFacts
        <4>3. CASE pc'[w] = "openingPayer"
          <5>1. pc[w] = "approving"
            BY <3>1, <3>5, <4>3 DEF RowMissing, TypeOK
          <5>. QED
            BY <2>2, <3>1, <4>1, <4>2, <4>3, <5>1, EmptySession DEF SessionOf
        <4>4. CASE pc'[w] # "openingPayer"
          <5>1. pc[w] = "deducted" /\ pc'[w] = "openingPayee" /\ Payee[txn[w]] \notin touched[w]
            BY <3>1, <3>5, <4>4 DEF RowMissing, TypeOK
          <5>. QED
            BY <2>2, <3>1, <4>1, <4>2, <5>1 DEF SessionOf, Opened, HasRow
        <4>. QED
          BY <4>3, <4>4
      <3>6. CASE PayerTaken(w)
        BY <2>2, <3>6, PayerSession
      <3>7. CASE PayeeTaken(w)
        BY <2>2, <3>7, PayeeSession
      <3>8. CASE Settled(w) \/ RolledBack(w)
        <4>1. touched'[w] = {} /\ pc'[w] = "answered"
          BY <3>1, <3>8 DEF Settled, SettlementDurable, RolledBack, RollbackAndError,
                            ExpireAll, Return, TypeOK
        <4>. QED
          BY <2>2, <4>1, EmptySession DEF InCall
      <3>9. CASE Finish(w)
        <4>1. touched'[w] = {} /\ pc'[w] = "idle"
          BY <3>1, <3>9 DEF Finish, SessionOf, TypeOK
        <4>. QED
          BY <2>2, <4>1, EmptySession DEF InCall
      <3>10. CASE Crash(w)
        <4>1. touched'[w] = {} /\ pc'[w] = "idle"
          BY <3>1, <3>10 DEF Crash, ExpireAll, TypeOK
        <4>. QED
          BY <2>2, <4>1, EmptySession DEF InCall
      <3>. QED
        BY <1>4, <3>2, <3>3, <3>4, <3>5, <3>6, <3>7, <3>8, <3>9, <3>10 DEF Shape
    <2>. QED
      BY <2>1, <2>2
  <1>. QED
    BY <1>2, <1>3, <1>4, Shapes DEF SessionsCurrent

-----------------------------------------------------------------------------
(***************************************************************************)
(* The tables agree with each other.                                       *)
(***************************************************************************)

LEMMA SettledRows ==
  ASSUME IInv, NEW w \in Workers, Settled(w)
  PROVE  /\ txn[w] \in Txns
         /\ ~IsSettled(settlements, txn[w])
         /\ settlements' = Append(settlements, SettlementRow(txn[w]))
         /\ \A t : IsSettled(settlements', t) <=> IsSettled(settlements, t) \/ t = txn[w]
  <1>1. /\ txn[w] \in Txns
        /\ ~IsSettled(settlements, txn[w])
        /\ settlements' = Append(settlements, SettlementRow(txn[w]))
    BY SettledAccounts DEF Settled, SettlementDurable
  <1>. QED
    BY <1>1, AppendedRow DEF IInv, TypeOK

LEMMA OnceStep == ASSUME IInv, [Next]_vars PROVE SettledOnce'
  <1>1. TypeOK /\ SettledOnce
    BY DEF IInv
  <1>2. CASE UNCHANGED settlements
    BY <1>1, <1>2 DEF SettledOnce
  <1>3. ASSUME NEW w \in Workers, Settled(w)
        PROVE  SettledOnce'
    <2>. DEFINE n == Len(settlements)
    <2>1. /\ n \in Nat
          /\ DOMAIN settlements' = 1 .. n + 1
          /\ DOMAIN settlements = 1 .. n
          /\ \A i \in 1 .. n : settlements'[i] = settlements[i]
          /\ settlements'[n + 1].txn = txn[w]
      <3>1. /\ txn[w] \in Txns /\ settlements \in Seq(Rows)
            /\ settlements' = Append(settlements, SettlementRow(txn[w]))
        BY <1>1, <1>3, SettledRows DEF TypeOK
      <3>2. SettlementRow(txn[w]).txn = txn[w]
        BY <3>1, RowTypes
      <3>. QED
        BY <3>1, <3>2
    <2>2. \A i \in 1 .. n : settlements[i].txn # txn[w]
      BY <1>3, <2>1, SettledRows DEF IsSettled, RowsOf
    <2>3. ASSUME NEW i \in 1 .. n + 1, NEW j \in 1 .. n + 1,
                 settlements'[i].txn = settlements'[j].txn
          PROVE  i = j
      <3>1. CASE i \in 1 .. n /\ j \in 1 .. n
        BY <1>1, <2>1, <2>3, <3>1 DEF SettledOnce
      <3>2. CASE ~(i \in 1 .. n /\ j \in 1 .. n)
        BY <2>1, <2>2, <2>3, <3>2
      <3>. QED
        BY <3>1, <3>2
    <2>. QED
      BY <2>1, <2>3 DEF SettledOnce
  <1>. QED
    BY <1>2, <1>3, Shapes, OthersKeepAccounts DEF vars, Submit

LEMMA ApprovedStep == ASSUME IInv, [Next]_vars PROVE ApprovedIsSettled'
  <1>. USE DEF db
  <1>1. TypeOK /\ ApprovedIsSettled
    BY DEF IInv
  <1>2. CASE UNCHANGED <<status, settlements>>
    BY <1>1, <1>2 DEF ApprovedIsSettled
  <1>3. ASSUME NEW t \in Txns, Submit(t)
        PROVE  ApprovedIsSettled'
    BY <1>1, <1>3 DEF Submit, ApprovedIsSettled, TypeOK
  <1>4. ASSUME NEW w \in Workers, Declined(w)
        PROVE  ApprovedIsSettled'
    BY <1>1, <1>4 DEF Declined, DeclineDurable, StatusFlushed, ApprovedIsSettled, TypeOK
  <1>5. ASSUME NEW w \in Workers, Settled(w)
        PROVE  ApprovedIsSettled'
    <2>1. \A t \in Txns : status'[t] = "APPROVED" => t = txn[w] \/ status[t] = "APPROVED"
      BY <1>1, <1>5 DEF Settled, SettlementDurable, StatusFlushed, TypeOK
    <2>. QED
      BY <1>1, <1>5, <2>1, SettledRows DEF ApprovedIsSettled
  <1>6. ASSUME NEW w \in Workers, Shape(w), ~Declined(w), ~Settled(w)
        PROVE  UNCHANGED <<status, settlements>>
    BY <1>6 DEF Shape, Receive, Call, LogDecline, RowMissing, PayerTaken, PayeeTaken, Credit,
                RolledBack, RollbackAndError, Finish, Crash
  <1>. QED
    BY <1>2, <1>3, <1>4, <1>5, <1>6, Shapes DEF vars

\* Settlements stay.
LEMMA SettledForGood ==
  ASSUME IInv, NEW w \in Workers, Shape(w), NEW t, IsSettled(settlements, t)
  PROVE  IsSettled(settlements', t)
  <1>1. CASE Settled(w)
    BY <1>1, SettledRows
  <1>2. CASE ~Settled(w)
    BY <1>2, OthersKeepAccounts
  <1>. QED
    BY <1>1, <1>2

LEMMA SeenStep == ASSUME IInv, [Next]_vars PROVE SeenApprovedIsSettled'
  <1>. USE DEF db, memory
  <1>1. TypeOK /\ SeenApprovedIsSettled
    BY DEF IInv
  <1>2. CASE UNCHANGED <<pc, seen, txn, settlements>>
    BY <1>1, <1>2 DEF SeenApprovedIsSettled
  <1>3. ASSUME NEW w \in Workers, Shape(w), NEW v \in Workers
        PROVE  /\ pc'[v] = "idle" => seen'[v] = "NONE"
               /\ seen'[v] = "APPROVED" => IsSettled(settlements', txn'[v])
    <2>1. CASE v # w
      BY <1>1, <1>3, <2>1, OthersUntouched, SettledForGood DEF SeenApprovedIsSettled
    <2>2. CASE v = w /\ Receive(w)
      <3>1. PICK m \in Deliverable : Call(w, m[1], m[2])
        BY <2>2 DEF Receive
      <3>2. /\ m[1] \in Txns /\ txn'[w] = m[1] /\ settlements' = settlements
            /\ pc[w] = "idle" /\ pc'[w] # "idle"
            /\ seen'[w] = seen[w] \/ seen'[w] = status[m[1]]
        BY <1>1, <3>1, DeliverableAssumption DEF Call, Return, TypeOK
      <3>. QED
        BY <1>1, <2>2, <3>2 DEF SeenApprovedIsSettled, IInv, ApprovedIsSettled
    <2>3. CASE v = w /\ (Finish(w) \/ Crash(w))
      <3>1. seen'[w] = "NONE"
        BY <1>1, <2>3 DEF Finish, Crash, TypeOK
      <3>. QED
        BY <2>3, <3>1
    <2>4. CASE v = w /\ (Declined(w) \/ LogDecline(w) \/ RowMissing(w) \/ PayerTaken(w)
                            \/ PayeeTaken(w) \/ Settled(w) \/ RolledBack(w))
      <3>1. UNCHANGED <<seen, txn>>
        BY <2>4 DEF Declined, DeclineDurable, LogDecline, RowMissing, PayerTaken, PayeeTaken,
                    Credit, Settled, SettlementDurable, RolledBack, RollbackAndError
      <3>2. pc'[w] # "idle"
        BY <1>1, <2>4 DEF Declined, LogDecline, RowMissing, PayerTaken, PayeeTaken,
                          Credit, Settled, RolledBack, RollbackAndError, Return, TypeOK
      <3>. QED
        BY <1>1, <1>3, <2>4, <3>1, <3>2, SettledForGood DEF SeenApprovedIsSettled
    <2>. QED
      BY <1>3, <2>1, <2>2, <2>3, <2>4 DEF Shape
  <1>. QED
    BY <1>2, <1>3, Shapes DEF vars, Submit, SeenApprovedIsSettled

LEMMA PendingStep == ASSUME IInv, [Next]_vars PROVE PendingAreDeclines'
  <1>. USE DEF db, memory
  <1>1. TypeOK /\ PendingAreDeclines
    BY DEF IInv
  <1>2. CASE UNCHANGED pending
    BY <1>1, <1>2 DEF PendingAreDeclines
  <1>3. ASSUME NEW w \in Workers, Shape(w)
        PROVE  PendingAreDeclines'
    <2>1. CASE LogDecline(w)
      BY <1>1, <2>1 DEF LogDecline, PendingAreDeclines, AuditRow, TypeOK
    <2>2. CASE Declined(w) \/ Settled(w) \/ RolledBack(w) \/ Crash(w)
      BY <1>1, <2>2 DEF Declined, DeclineDurable, Settled, SettlementDurable, RolledBack,
                        RollbackAndError, Crash, DropPending, PendingAreDeclines, TypeOK
    <2>3. CASE Receive(w) \/ RowMissing(w) \/ PayerTaken(w) \/ PayeeTaken(w) \/ Finish(w)
      BY <1>2, <2>3 DEF Receive, Call, RowMissing, PayerTaken, PayeeTaken, Credit, Finish
    <2>. QED
      BY <1>3, <2>1, <2>2, <2>3 DEF Shape
  <1>. QED
    BY <1>2, <1>3, Shapes DEF vars, Submit

LEMMA AuditStep == ASSUME IInv, [Next]_vars PROVE SettlementsAudited'
  <1>. USE DEF db, memory
  <1>1. TypeOK /\ SettlementsAudited /\ PendingAreDeclines
    BY DEF IInv
  <1>2. CASE UNCHANGED <<audit, settlements>>
    BY <1>1, <1>2 DEF SettlementsAudited
  <1>3. ASSUME NEW w \in Workers, NEW t \in Txns, NEW a \in {"settled", "created"}
        PROVE  AuditRow(t, a) \notin pending[w]
    BY <1>1 DEF PendingAreDeclines, AuditRow
  <1>4. ASSUME NEW w \in Workers, Declined(w)
        PROVE  SettlementsAudited'
    <2>1. audit' = audit \cup pending[w] /\ settlements' = settlements
      BY <1>4 DEF Declined, DeclineDurable
    <2>. QED
      BY <1>1, <1>3, <2>1 DEF SettlementsAudited
  <1>5. ASSUME NEW w \in Workers, Settled(w), NEW t \in Txns, NEW a \in {"settled", "created"}
        PROVE  AuditRow(t, a) \in audit' <=> IsSettled(settlements', t)
    <2>1. audit' = audit \cup pending[w] \cup {AuditRow(txn[w], "settled"),
                                               AuditRow(txn[w], "created")}
      BY <1>5 DEF Settled, SettlementDurable, SettlementEntries
    <2>2. AuditRow(t, a) \in {AuditRow(txn[w], "settled"), AuditRow(txn[w], "created")}
            <=> t = txn[w]
      BY DEF AuditRow
    <2>. QED
      BY <1>1, <1>3, <1>5, <2>1, <2>2, SettledRows DEF SettlementsAudited
  <1>6. ASSUME NEW w \in Workers, Shape(w), ~Declined(w), ~Settled(w)
        PROVE  UNCHANGED <<audit, settlements>>
    BY <1>6 DEF Shape, Receive, Call, LogDecline, RowMissing, PayerTaken, PayeeTaken, Credit,
                RolledBack, RollbackAndError, Finish, Crash
  <1>. QED
    BY <1>2, <1>4, <1>5, <1>6, Shapes DEF vars, Submit, SettlementsAudited

-----------------------------------------------------------------------------
(***************************************************************************)
(* The invariant.                                                          *)
(***************************************************************************)

LEMMA InitInv == Init => IInv
  <1>. SUFFICES ASSUME Init PROVE IInv
    OBVIOUS
  <1>1. TypeOK
    BY OpeningAssumption
       DEF Init, TypeOK, Blank, Account, Points, Answers, Status, AuditRows
  <1>2. MissingIsEmpty
    BY OpeningAssumption DEF Init, MissingIsEmpty
  <1>3. OwnsTouched /\ RowsGivenBack /\ SessionsCurrent
    BY DEF Init, OwnsTouched, RowsGivenBack, SessionsCurrent, SessionOf, InCall
  <1>4. SettledOnce
    BY DEF Init, SettledOnce
  <1>5. ApprovedIsSettled /\ SeenApprovedIsSettled /\ PendingAreDeclines
    BY DEF Init, ApprovedIsSettled, SeenApprovedIsSettled, PendingAreDeclines
  <1>6. SettlementsAudited
    BY DEF Init, SettlementsAudited, IsSettled, RowsOf
  <1>. QED
    BY <1>1, <1>2, <1>3, <1>4, <1>5, <1>6 DEF IInv

LEMMA StepInv == IInv /\ [Next]_vars => IInv'
  <1>. SUFFICES ASSUME IInv, [Next]_vars PROVE IInv'
    OBVIOUS
  <1>. QED
    BY TypeStep, MissingStep, OwnStep, GivenBackStep, SessionStep, OnceStep, ApprovedStep,
       SeenStep, PendingStep, AuditStep DEF IInv

\* The inductive invariant holds in every reachable state.
THEOREM Invariance == Spec => []IInv
  BY InitInv, StepInv, PTL DEF Spec

(***************************************************************************)
(* Every variable keeps its type; in particular no balance that is stored  *)
(* or in memory is ever negative (settlement.py 265, under the row lock).  *)
(***************************************************************************)
THEOREM TypeCorrect == Spec => []TypeOK
  <1>1. IInv => TypeOK
    BY DEF IInv
  <1>. QED
    BY <1>1, Invariance, PTL

(***************************************************************************)
(* No transaction has two settlements, however decisions are redelivered   *)
(* (settlement.py 164 to 178, 207).                                        *)
(***************************************************************************)
THEOREM NoDoubleSettlement == Spec => []SettledOnce
  <1>1. IInv => SettledOnce
    BY DEF IInv
  <1>. QED
    BY <1>1, Invariance, PTL

(***************************************************************************)
(* The audit log tells of a settlement if and only if there is one         *)
(* (settlement.py 184 to 207).                                             *)
(***************************************************************************)
THEOREM AuditOfSettlements == Spec => []SettlementsAudited
  <1>1. IInv => SettlementsAudited
    BY DEF IInv
  <1>. QED
    BY <1>1, Invariance, PTL

(***************************************************************************)
(* Rows are owned between the deduction and the end of the database        *)
(* transaction only (settlement.py 124, 150, 207, 229).                    *)
(***************************************************************************)
THEOREM LocksReleased == Spec => []RowsGivenBack
  <1>1. IInv => RowsGivenBack
    BY DEF IInv
  <1>. QED
    BY <1>1, Invariance, PTL

(***************************************************************************)
(* What a worker is about to write is what the ledger would compute at     *)
(* that moment: the balances it read under FOR UPDATE are not stale.       *)
(***************************************************************************)
THEOREM NothingStaleEver == Spec => []NothingStale
  BY CurrentAtCommit, Invariance, PTL

-----------------------------------------------------------------------------
(***************************************************************************)
(* Settlement implements the ledger.                                       *)
(***************************************************************************)

LEMMA ImplementsInit == Init => L!Init
  BY DEF Init, L!Init

\* The instance L has its own copies of the operators of Payments and Money.
LEMMA LedgerOperators ==
  ASSUME NEW t
  PROVE  /\ L!IsSettled(settlements, t) <=> IsSettled(settlements, t)
         /\ L!SettlementRow(t) = SettlementRow(t)
         /\ L!Transferred(account, t) = Transferred(account, t)
  <1>. USE DEF L!Stored, Stored, L!Loaded, Loaded, L!ProcessingFee, ProcessingFee,
               L!MerchantCredit, MerchantCredit
  <1>1. L!IsSettled(settlements, t) <=> IsSettled(settlements, t)
    BY DEF L!IsSettled, IsSettled, L!RowsOf, RowsOf
  <1>2. L!SettlementRow(t) = SettlementRow(t)
    BY DEF L!SettlementRow, SettlementRow
  <1>3. L!Transferred(account, t) = Transferred(account, t)
    BY DEF L!Transferred, Transferred, L!Opened, Opened, L!HasRow, HasRow
  <1>. QED
    BY <1>1, <1>2, <1>3

\* A worker that does not commit changes no table of the ledger.
LEMMA ImplementsStep == IInv /\ [Next]_vars => [L!Next]_(L!vars)
  <1>. USE DEF db
  <1>. SUFFICES ASSUME IInv, [Next]_vars PROVE [L!Next]_(L!vars)
    OBVIOUS
  <1>1. CASE UNCHANGED vars
    BY <1>1 DEF vars, L!vars
  <1>2. ASSUME NEW t \in Txns, Submit(t)
        PROVE  L!Next
    BY <1>2 DEF Submit, L!Next, L!Submit
  <1>3. ASSUME NEW w \in Workers, Settled(w)
        PROVE  L!Next
    <2>1. /\ txn[w] \in Txns
          /\ status[txn[w]] # "NONE"
      BY <1>3, InCallFacts DEF Settled, SettlementDurable, InCall
    <2>2. /\ ~IsSettled(settlements, txn[w])
          /\ settlements' = Append(settlements, SettlementRow(txn[w]))
          /\ account' = Transferred(account, txn[w])
          /\ account[Payer[txn[w]]].balance >= Amount[txn[w]]
      BY <1>3, SettledRows, SettledAccounts
    <2>3. seen[w] # "APPROVED"
      BY <2>2 DEF IInv, SeenApprovedIsSettled
    <2>4. status' = [status EXCEPT ![txn[w]] = "APPROVED"]
      BY <1>3, <2>3 DEF Settled, SettlementDurable, StatusFlushed
    <2>5. L!Settle(txn[w])
      BY <2>1, <2>2, <2>4, LedgerOperators DEF L!Settle
    <2>. QED
      BY <2>1, <2>5 DEF L!Next
  <1>4. ASSUME NEW w \in Workers, Declined(w)
        PROVE  L!Next \/ UNCHANGED L!vars
    <2>1. /\ txn[w] \in Txns
          /\ status[txn[w]] # "NONE"
          /\ UNCHANGED <<account, settlements>>
          /\ status' = StatusFlushed(w, "DECLINED")
      BY <1>4, InCallFacts DEF Declined, DeclineDurable, InCall
    <2>2. CASE seen[w] = "DECLINED"
      BY <2>1, <2>2 DEF StatusFlushed, L!vars
    <2>3. CASE seen[w] # "DECLINED"
      <3>1. L!Decline(txn[w])
        BY <2>1, <2>3 DEF StatusFlushed, L!Decline
      <3>. QED
        BY <2>1, <3>1 DEF L!Next
    <2>. QED
      BY <2>2, <2>3
  <1>5. ASSUME NEW w \in Workers, Shape(w), ~Declined(w), ~Settled(w)
        PROVE  UNCHANGED L!vars
    BY <1>5 DEF Shape, Receive, Call, LogDecline, RowMissing, PayerTaken, PayeeTaken, Credit,
                RolledBack, RollbackAndError, Finish, Crash, L!vars
  <1>. QED
    BY <1>1, <1>2, <1>3, <1>4, <1>5, Shapes

(***************************************************************************)
(* Whatever the workers, their sessions, redeliveries and faults do, the   *)
(* three tables behave as the ledger says: money moves only together with  *)
(* a settlement row and the APPROVED status, in one step, once for each    *)
(* transaction, and only if the payer can pay.                             *)
(***************************************************************************)
THEOREM Refinement == Spec => ImplementsLedger
  <1>1. Spec => L!Spec
    BY ImplementsInit, ImplementsStep, Invariance, PTL DEF Spec, L!Spec
  <1>. QED
    BY <1>1 DEF ImplementsLedger

-----------------------------------------------------------------------------
(***************************************************************************)
(* What settlement inherits from the ledger it implements.                 *)
(***************************************************************************)

LP == INSTANCE LedgerProofs

\* L and LP are the same ledger.
LEMMA SameLedger == L!Spec <=> LP!Spec
  <1>1. L!Init <=> LP!Init
    BY DEF L!Init, LP!Init
  <1>2. [L!Next]_(L!vars) <=> [LP!Next]_(LP!vars)
    <2>1. \A t \in Txns : L!Transferred(account, t) = LP!Transferred(account, t)
      BY DEF L!Transferred, LP!Transferred, L!Opened, LP!Opened, L!HasRow, LP!HasRow,
             L!Stored, LP!Stored, L!Loaded, LP!Loaded, L!ProcessingFee, LP!ProcessingFee,
             L!MerchantCredit, LP!MerchantCredit
    <2>2. \A t \in Txns : L!SettlementRow(t) = LP!SettlementRow(t)
      BY DEF L!SettlementRow, LP!SettlementRow,
             L!Stored, LP!Stored, L!Loaded, LP!Loaded, L!ProcessingFee, LP!ProcessingFee,
             L!MerchantCredit, LP!MerchantCredit
    <2>3. \A t \in Txns : L!IsSettled(settlements, t) <=> LP!IsSettled(settlements, t)
      BY DEF L!IsSettled, LP!IsSettled, L!RowsOf, LP!RowsOf
    <2>. QED
      BY <2>1, <2>2, <2>3
         DEF L!Next, L!vars, LP!Next, LP!vars, L!Submit, L!Settle, L!Decline,
             LP!Submit, LP!Settle, LP!Decline
  <1>. QED
    BY <1>1, <1>2, PTL DEF L!Spec, LP!Spec

\* LP assumes of the constants what Payments does.
LEMMA LedgerAssumes ==
  /\ Opening \in [Parties -> LP!Account]
  /\ \A p \in Parties : ~LP!HasRow(Opening[p]) => Opening[p].balance = 0
  BY OpeningAssumption DEF HasRow, LP!HasRow, Account, LP!Account

\* LP states of the books what SettlementProperties does.
LEMMA SameBooks ==
  /\ LP!BooksBalance <=> BooksBalance
  /\ LP!MoneyAccountedFor <=> MoneyAccountedFor
  /\ LP!DuesStayCovered <=> DuesStayCovered
  /\ \A p : LP!Covered(p) <=> Covered(p)
  <1>1. LP!BooksBalance <=> BooksBalance
    BY DEF LP!BooksBalance, BooksBalance, LP!Replay, Replay, LP!Transferred, Transferred,
           LP!Opened, Opened, LP!HasRow, HasRow, LP!Stored, Stored, LP!Loaded, Loaded,
           LP!ProcessingFee, ProcessingFee, LP!MerchantCredit, MerchantCredit
  <1>2. LP!MoneyAccountedFor <=> MoneyAccountedFor
    BY DEF LP!MoneyAccountedFor, MoneyAccountedFor, LP!Total, Total, LP!Kept, Kept,
           LP!SumFunctionOnSet, SumFunctionOnSet, LP!FoldFunctionOnSet, FoldFunctionOnSet,
           LP!MapThenFoldSet, MapThenFoldSet
  <1>3. \A p : LP!Covered(p) <=> Covered(p)
    BY DEF LP!Covered, Covered, LP!Owed, Owed, LP!IsSettled, IsSettled, LP!RowsOf, RowsOf,
           LP!SumFunctionOnSet, SumFunctionOnSet, LP!FoldFunctionOnSet, FoldFunctionOnSet,
           LP!MapThenFoldSet, MapThenFoldSet
  <1>4. \A p : LP!Owed(settlements, p) = Owed(settlements, p)
    BY DEF LP!Owed, Owed, LP!IsSettled, IsSettled, LP!RowsOf, RowsOf,
           LP!SumFunctionOnSet, SumFunctionOnSet, LP!FoldFunctionOnSet, FoldFunctionOnSet,
           LP!MapThenFoldSet, MapThenFoldSet
  <1>5. LP!DuesStayCovered <=> DuesStayCovered
    BY <1>3, <1>4 DEF LP!DuesStayCovered, DuesStayCovered
  <1>. QED
    BY <1>1, <1>2, <1>3, <1>5

(***************************************************************************)
(* However the workers interleave, fail and are handed decisions again,    *)
(* the accounts are the opening accounts with the settlements replayed.    *)
(***************************************************************************)
THEOREM BooksAlwaysBalance == Spec => []BooksBalance
  <1>1. Spec => LP!Spec
    BY Refinement, SameLedger DEF ImplementsLedger
  <1>2. LP!Spec => []LP!LedgerInv
    BY LP!LedgerIsSafe, LedgerAssumes, PartiesAssumption, AmountAssumption
  <1>3. LP!LedgerInv => BooksBalance
    BY SameBooks DEF LP!LedgerInv
  <1>. QED
    BY <1>1, <1>2, <1>3, PTL

(***************************************************************************)
(* And no cent is made or lost, for any finite number of parties.          *)
(***************************************************************************)
THEOREM MoneyConserved ==
  ASSUME IsFiniteSet(Parties)
  PROVE  Spec => []MoneyAccountedFor
  <1>1. Spec => LP!Spec
    BY Refinement, SameLedger DEF ImplementsLedger
  <1>2. LP!Spec => []LP!MoneyAccountedFor
    <2>1. LP!IsFiniteSet(Parties)
      BY DEF LP!IsFiniteSet, IsFiniteSet
    <2>. QED
      BY <2>1, LP!LedgerKeepsMoney, LedgerAssumes, PartiesAssumption, AmountAssumption
  <1>. QED
    BY <1>1, <1>2, SameBooks, PTL

(***************************************************************************)
(* Nor is a party charged more than its transactions come to, whatever is  *)
(* delivered again and whatever fails half way (settlement.py 147, 227).   *)
(***************************************************************************)
THEOREM DuesAlwaysCovered ==
  ASSUME IsFiniteSet(Txns)
  PROVE  Spec => []DuesStayCovered
  <1>1. Spec => LP!Spec
    BY Refinement, SameLedger DEF ImplementsLedger
  <1>2. LP!Spec => []LP!DuesStayCovered
    <2>1. LP!IsFiniteSet(Txns)
      BY DEF LP!IsFiniteSet, IsFiniteSet
    <2>. QED
      BY <2>1, LP!LedgerCoversDues, LedgerAssumes, PartiesAssumption, AmountAssumption
  <1>. QED
    BY <1>1, <1>2, SameBooks, PTL

(***************************************************************************)
(* Fees of half a cent are the only cause of rows that do not add up       *)
(* (README 134): with amounts that have none, every row does, whatever     *)
(* workers and faults there are.                                           *)
(***************************************************************************)
THEOREM OnlyHalfCentsDoNotAddUp ==
  ASSUME \A t \in Txns : ~HalfCentFee(Amount[t])
  PROVE  Spec => []RowsAddUp
  <1>1. \A t \in Txns :
           SettlementRow(t).gross = SettlementRow(t).fee + SettlementRow(t).net
    <2>. SUFFICES ASSUME NEW t \in Txns
                  PROVE  Amount[t] = Stored(ProcessingFee(Amount[t]))
                                         + Stored(MerchantCredit(Amount[t]))
      BY DEF SettlementRow
    <2>1. Amount[t] \in Nat /\ ~HalfCentFee(Amount[t])
      BY AmountAssumption
    <2>. QED
      BY <2>1, FeeRounding DEF RoundingSlack
  <1>2. IInv => RowsAddUp
    BY <1>1 DEF IInv, TypeOK, Rows, RowsAddUp
  <1>. QED
    BY <1>2, Invariance, PTL

-----------------------------------------------------------------------------
(***************************************************************************)
(* Conflicts between payments.                                             *)
(***************************************************************************)

\* Nobody owns a row without its object in the session: what OwnsTouched says,
\* the other way round.
OwnedAreTouched == \A p \in Parties : lock[p] # NoOne => p \in touched[lock[p]]

LEMMA TouchedStep == ASSUME IInv, OwnedAreTouched, [Next]_vars PROVE OwnedAreTouched'
  <1>. USE DEF db, memory
  <1>1. TypeOK
    BY DEF IInv
  <1>2. CASE UNCHANGED vars
    BY <1>2 DEF OwnedAreTouched, vars
  <1>3. ASSUME NEW t \in Txns, Submit(t) PROVE OwnedAreTouched'
    BY <1>3 DEF OwnedAreTouched, Submit
  <1>4. ASSUME NEW w \in Workers, Shape(w) PROVE OwnedAreTouched'
    <2>1. CASE UNCHANGED <<lock, touched>>
      BY <2>1 DEF OwnedAreTouched
    <2>2. CASE ReleaseRows(w) /\ ExpireAll(w)
      BY <1>1, <2>2, NoOneAssumption DEF OwnedAreTouched, ReleaseRows, ExpireAll, TypeOK
    <2>3. ASSUME NEW p \in Parties, NEW object, Assign(w, p, object)
          PROVE  OwnedAreTouched'
      BY <1>1, <2>3 DEF OwnedAreTouched, Assign, TypeOK
    <2>4. CASE PayerTaken(w)
      BY <2>3, <2>4, InCallFacts DEF PayerTaken, InCall
    <2>5. CASE PayeeTaken(w)
      BY <2>3, <2>5, InCallFacts DEF PayeeTaken, Credit, InCall
    <2>. QED
      BY <1>4, <2>1, <2>2, <2>4, <2>5
         DEF Shape, Receive, Call, Return, Declined, DeclineDurable, LogDecline, RowMissing,
             Settled, SettlementDurable, RolledBack, RollbackAndError, Finish, Crash
  <1>. QED
    BY <1>2, <1>3, <1>4, Shapes

\* A worker that waits for a row and owns one is about to credit the payee,
\* and the payer's row is the only one it owns.
LEMMA WaitsHalfDone ==
  ASSUME IInv, OwnedAreTouched, NEW w \in Workers, Blocked(w),
         NEW p \in Parties, lock[p] = w
  PROVE  /\ pc[w] \in {"deducted", "openingPayee"}
         /\ p = Payer[txn[w]]
         /\ Wanted(w) = Payee[txn[w]]
  <1>1. w # NoOne
    BY NoOneAssumption
  <1>2. pc[w] \in {"deducted", "openingPayee"}
    BY <1>1 DEF IInv, RowsGivenBack, Blocked
  <1>3. touched[w] = {Payer[txn[w]]}
    BY <1>2 DEF IInv, SessionsCurrent, SessionOf
  <1>. QED
    BY <1>1, <1>2, <1>3 DEF OwnedAreTouched, Wanted

LEMMA CirclesOnly == ASSUME IInv, OwnedAreTouched PROVE OnlyCirclesDeadlock
  <1>. SUFFICES ASSUME NEW w \in Workers, Deadlocked(w)
                PROVE  \E u, v \in Workers :
                          /\ {pc[u], pc[v], pc[w]} \subseteq {"deducted", "openingPayee"}
                          /\ txn[w] \notin {txn[u], txn[v]}
                          /\ Payer[txn[u]] = Payee[txn[w]]
                          /\ Payee[txn[v]] = Payer[txn[w]]
    BY DEF OnlyCirclesDeadlock
  <1>1. PICK S \in SUBSET Workers : /\ w \in S
                                    /\ \A v \in S : Blocked(v)
                                    /\ S = {lock[Wanted(v)] : v \in S}
    BY DEF Deadlocked
  <1>2. \A v \in S : Wanted(v) \in Parties
    <2>. SUFFICES ASSUME NEW v \in S PROVE Wanted(v) \in Parties
      OBVIOUS
    <2>1. v \in Workers /\ InCall(v)
      BY <1>1 DEF Blocked, InCall
    <2>. QED
      BY <2>1, InCallFacts DEF Wanted
  <1>3. \A x \in S : \E q \in Parties : lock[q] = x
    BY <1>1, <1>2
  <1>4. \A x \in S : \A q \in Parties : lock[q] = x =>
           /\ pc[x] \in {"deducted", "openingPayee"}
           /\ q = Payer[txn[x]]
           /\ Wanted(x) = Payee[txn[x]]
    BY <1>1, WaitsHalfDone
  <1>5. PICK v \in S : lock[Wanted(v)] = w
    BY <1>1
  <1>. DEFINE u == lock[Wanted(w)]
  <1>6. u \in S
    BY <1>1
  <1>7. /\ \A x \in S : pc[x] \in {"deducted", "openingPayee"} /\ Wanted(x) = Payee[txn[x]]
        /\ Wanted(w) = Payer[txn[u]]
        /\ Wanted(v) = Payer[txn[w]]
    BY <1>1, <1>2, <1>3, <1>4, <1>5, <1>6
  <1>8. \A x \in S : lock[Payer[txn[x]]] = x
    BY <1>3, <1>4
  <1>9. u # w /\ v # w
    BY <1>1, <1>5 DEF Blocked
  <1>10. txn[u] # txn[w] /\ txn[v] # txn[w]
    BY <1>1, <1>6, <1>8, <1>9
  <1>. QED
    BY <1>1, <1>6, <1>7, <1>10

\* The invariant with the owners of rows.
LEMMA OwnedTouched == Spec => [](IInv /\ OwnedAreTouched)
  <1>1. Init => OwnedAreTouched
    BY DEF Init, OwnedAreTouched
  <1>2. IInv /\ OwnedAreTouched /\ [Next]_vars => OwnedAreTouched'
    BY TouchedStep
  <1>. QED
    BY <1>1, <1>2, Invariance, PTL DEF Spec

(***************************************************************************)
(* Only payments in a circle deadlock (settlement.py 249, 294): neither    *)
(* one payer's payments nor a redelivered transaction, whatever fails.     *)
(***************************************************************************)
THEOREM DeadlocksAreCircles == Spec => []OnlyCirclesDeadlock
  BY CirclesOnly, OwnedTouched, PTL

-----------------------------------------------------------------------------
(***************************************************************************)
(* The reasons for an ERROR.                                               *)
(***************************************************************************)

\* A call that knows its transaction and decision answers ERROR only if the
\* transaction has a settlement already.
RefusedAreSettled ==
    \A w \in Workers :
        answer[w] = "ERROR" /\ seen[w] # "NONE" => IsSettled(settlements, txn[w])

\* Nobody who is paid in one transaction pays in another.
NoCrossing == \A t, u \in Txns : t # u => Payee[t] # Payer[u]

\* Nobody is a newcomer, and nobody is short of money.
RowsThere == \A p \in Parties : HasRow(account[p])
PayersCan ==
    \A t \in Txns : IsSettled(settlements, t) \/ account[Payer[t]].balance >= Amount[t]

\* What a worker says, it says when it has answered; and it inserts no rows.
NoInserts ==
    \A w \in Workers : /\ pc[w] # "answered" => answer[w] = "NONE"
                       /\ pc[w] \notin {"openingPayer", "openingPayee"}

\* With no crossing payments nobody is the victim of a deadlock.
LEMMA NoVictims ==
  ASSUME IInv, OwnedAreTouched, NoCrossing, NEW w \in Workers
  PROVE  ~Deadlocked(w)
  <1>. SUFFICES ASSUME Deadlocked(w) PROVE FALSE
    OBVIOUS
  <1>1. PICK u \in Workers : /\ {pc[u], pc[w]} \subseteq {"deducted", "openingPayee"}
                             /\ txn[w] # txn[u]
                             /\ Payer[txn[u]] = Payee[txn[w]]
    BY CirclesOnly DEF OnlyCirclesDeadlock
  <1>2. txn[u] \in Txns /\ txn[w] \in Txns
    BY <1>1, InCallFacts DEF InCall
  <1>. QED
    BY <1>1, <1>2 DEF NoCrossing

\* The steps of a worker that are not an ERROR of a call that has begun.
Goes(w) ==
    \/ Receive(w) \/ CommitDecline(w) \/ LogDecline(w)
    \/ PayerTaken(w) \/ PayeeTaken(w) \/ CommitSettlement(w)
    \/ Finish(w) \/ Crash(w)

Refuses(w) == RolledBack(w) /\ IsSettled(settlements, txn[w])

LEMMA GoesOrRefuses ==
  ASSUME IInv, OwnedAreTouched, NoCrossing, RowsThere, PayersCan, NoInserts,
         Faults \cap {"error", "unacked"} = {},
         NEW w \in Workers, Receive(w) \/ Acquire(w) \/ Proceed(w) \/ Fault(w)
  PROVE  Goes(w) \/ Refuses(w)
  <1>1. CASE LockPayer(w)
    <2>1. pc[w] = "approving" /\ InCall(w)
      BY <1>1 DEF LockPayer, InCall
    <2>2. Payer[txn[w]] \in Parties /\ txn[w] \in Txns /\ Amount[txn[w]] \in Nat
      BY <2>1, InCallFacts
    <2>3. /\ HasRow(account[Payer[txn[w]]])
          /\ RowObject(Payer[txn[w]]) = FreshObject(Payer[txn[w]])
          /\ FreshObject(Payer[txn[w]]).balance = Loaded(account[Payer[txn[w]]].balance)
          /\ account[Payer[txn[w]]].balance \in Nat
      BY <2>2, FreshObjects DEF RowsThere, Account
    <2>4. lock[Payer[txn[w]]] = NoOne /\ Deduct(w, FreshObject(Payer[txn[w]]))
      BY <1>1, <2>3 DEF LockPayer
    <2>5. CASE IsSettled(settlements, txn[w])
      BY <2>1, <2>4, <2>5, DeductShape DEF Goes, Refuses
    <2>6. CASE account[Payer[txn[w]]].balance >= Amount[txn[w]]
      <3>1. FreshObject(Payer[txn[w]]).balance >= Loaded(Amount[txn[w]])
        BY <2>2, <2>3, <2>6, LoadedOrder
      <3>2. ~(FreshObject(Payer[txn[w]]).balance < Loaded(Amount[txn[w]]))
        BY <2>2, <2>3, <3>1 DEF Loaded
      <3>. QED
        BY <2>1, <2>3, <2>4, <2>6, <3>2 DEF Deduct, PayerTaken, Goes
    <2>. QED
      BY <2>2, <2>5, <2>6 DEF PayersCan
  <1>2. CASE LockPayee(w)
    <2>1. pc[w] = "deducted" /\ InCall(w)
      BY <1>2 DEF LockPayee, InCall
    <2>2. Payee[txn[w]] \in Parties
      BY <2>1, InCallFacts
    <2>3. HasRow(account[Payee[txn[w]]])
      BY <2>2 DEF RowsThere
    <2>. QED
      BY <1>2, <2>1, <2>2, <2>3, FreshObjects DEF LockPayee, PayeeTaken, PayeeObject, Goes
  <1>3. ~InsertPayer(w) /\ ~InsertPayee(w)
    BY DEF NoInserts, InsertPayer, InsertPayee
  <1>4. CASE Proceed(w)
    BY <1>4, NoVictims
       DEF Proceed, DeadlockVictim, RejectDuplicate, RolledBack, InCall, Goes, Refuses
  <1>5. CASE Fault(w)
    BY <1>5 DEF Fault, StatementError, UnackedDecline, UnackedSettlement, Goes
  <1>. QED
    BY <1>1, <1>2, <1>3, <1>4, <1>5 DEF Acquire, Goes

LEMMA RefusedStep ==
  ASSUME IInv, OwnedAreTouched, NoCrossing, RowsThere, PayersCan,
         Faults \cap {"error", "unacked"} = {},
         NoInserts, RefusedAreSettled, [Next]_vars
  PROVE  NoInserts' /\ RefusedAreSettled'
  <1>. USE DEF db, memory
  <1>1. TypeOK
    BY DEF IInv
  <1>2. CASE UNCHANGED vars
    BY <1>2 DEF NoInserts, RefusedAreSettled, vars
  <1>3. ASSUME NEW t \in Txns, Submit(t) PROVE NoInserts' /\ RefusedAreSettled'
    BY <1>3 DEF Submit, NoInserts, RefusedAreSettled
  <1>4. ASSUME NEW w \in Workers, Receive(w) \/ Acquire(w) \/ Proceed(w) \/ Fault(w)
        PROVE  NoInserts' /\ RefusedAreSettled'
    <2>1. Goes(w) \/ Refuses(w)
      BY <1>4, GoesOrRefuses
    <2>2. Shape(w)
      BY <2>1 DEF Goes, Refuses, Shape, CommitDecline, Declined, CommitSettlement, Settled
    <2>3. \A v \in Workers \ {w} : pc'[v] = pc[v] /\ txn'[v] = txn[v] /\ seen'[v] = seen[v]
      BY <2>2, OthersUntouched
    <2>4. \A v \in Workers \ {w} : answer'[v] = answer[v]
      BY <1>1, <2>1
         DEF TypeOK, Goes, Refuses, Receive, Call, Return, CommitDecline, LogDecline, PayerTaken,
             PayeeTaken, Credit, CommitSettlement, RolledBack, RollbackAndError, Finish, Crash
    <2>5. /\ pc'[w] # "answered" => answer'[w] = "NONE"
          /\ pc'[w] \notin {"openingPayer", "openingPayee"}
          /\ answer'[w] = "ERROR" /\ seen'[w] # "NONE"
                => answer[w] = "NONE" /\ Refuses(w) /\ txn'[w] = txn[w]
      <3>1. CASE Receive(w)
        BY <1>1, <3>1 DEF TypeOK, IInv, SeenApprovedIsSettled, NoInserts, Receive, Call, Return
      <3>2. CASE CommitDecline(w) \/ LogDecline(w)
        BY <1>1, <3>2 DEF TypeOK, NoInserts, CommitDecline, DeclineDurable, LogDecline, Return
      <3>3. CASE PayerTaken(w) \/ PayeeTaken(w)
        BY <1>1, <3>3 DEF TypeOK, NoInserts, PayerTaken, PayeeTaken, Credit
      <3>4. CASE CommitSettlement(w)
        BY <1>1, <3>4 DEF TypeOK, CommitSettlement, SettlementDurable, Return
      <3>5. CASE Refuses(w)
        BY <1>1, <3>5 DEF TypeOK, NoInserts, Refuses, RolledBack, InCall, RollbackAndError, Return
      <3>6. CASE Finish(w) \/ Crash(w)
        BY <1>1, <3>6 DEF TypeOK, Finish, Crash
      <3>. QED
        BY <2>1, <3>1, <3>2, <3>3, <3>4, <3>5, <3>6 DEF Goes
    <2>6. NoInserts'
      BY <2>3, <2>4, <2>5 DEF NoInserts
    <2>7. RefusedAreSettled'
      BY <2>2, <2>3, <2>4, <2>5, SettledForGood DEF RefusedAreSettled, Refuses
    <2>. QED
      BY <2>6, <2>7
  <1>. QED
    BY <1>2, <1>3, <1>4 DEF Next

(***************************************************************************)
(* Apart from faults of the database there are three reasons to refuse a   *)
(* transaction that has no settlement: want of money, the loss of a race   *)
(* to open an account, and a deadlock (settlement.py 265, 307, 282 and     *)
(* 315).  Where everybody can pay, has an account and either pays or is    *)
(* paid, every ERROR is about a settled transaction, however decisions     *)
(* repeat and workers die.  So the conflicts that deadlock_retry shows are *)
(* all there are.                                                          *)
(***************************************************************************)
THEOREM OnlyConflictsRefuse ==
  ASSUME IsFiniteSet(Txns), Faults \cap {"error", "unacked"} = {}, NoCrossing,
         \A p \in Parties : HasRow(Opening[p]) /\ Covered(p)
  PROVE  Spec => []RefusedAreSettled
  <1>. DEFINE Ledger == LP!LedgerInv /\ LP!DuesStayCovered /\ LP!RowsStay
  <1>1. LP!IsFiniteSet(Txns)
    BY DEF LP!IsFiniteSet, IsFiniteSet
  <1>2. Spec => []Ledger
    <2>1. Spec => LP!Spec
      BY Refinement, SameLedger DEF ImplementsLedger
    <2>2. LP!Spec => []LP!LedgerInv
      BY LP!LedgerIsSafe, LedgerAssumes, PartiesAssumption, AmountAssumption
    <2>3. LP!Spec => []LP!DuesStayCovered
      BY <1>1, LP!LedgerCoversDues, LedgerAssumes, PartiesAssumption, AmountAssumption
    <2>4. LP!Spec => []LP!RowsStay
      BY LP!LedgerKeepsRows, LedgerAssumes, PartiesAssumption, AmountAssumption
    <2>. QED
      BY <2>1, <2>2, <2>3, <2>4, PTL
  <1>3. Ledger => RowsThere /\ PayersCan
    <2>. SUFFICES ASSUME Ledger PROVE RowsThere /\ PayersCan
      OBVIOUS
    <2>1. RowsThere
      BY DEF LP!RowsStay, LP!HasRow, HasRow, RowsThere
    <2>2. LP!NobodyIsShort
      BY <1>1, SameBooks, LP!CoveredIsEnough, LedgerAssumes, PartiesAssumption,
         AmountAssumption DEF LP!LedgerInv
    <2>3. PayersCan
      BY <2>2 DEF LP!NobodyIsShort, LP!IsSettled, LP!RowsOf, IsSettled, RowsOf, PayersCan
    <2>. QED
      BY <2>1, <2>3
  <1>4. Init => NoInserts /\ RefusedAreSettled
    BY DEF Init, NoInserts, RefusedAreSettled
  <1>5. IInv /\ OwnedAreTouched /\ Ledger /\ NoInserts /\ RefusedAreSettled /\ [Next]_vars
           => NoInserts' /\ RefusedAreSettled'
    BY <1>3, RefusedStep
  <1>. HIDE DEF Ledger
  <1>. QED
    BY <1>2, <1>4, <1>5, OwnedTouched, PTL DEF Spec
=============================================================================
