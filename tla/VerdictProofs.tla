--------------------------- MODULE VerdictProofs ---------------------------
(***************************************************************************)
(* Proofs about the verdicts of module Settlement, for any workers,        *)
(* parties, amounts and faults, when the decisions delivered for a         *)
(* transaction agree.                                                      *)
(***************************************************************************)
EXTENDS SettlementProofs

\* A received message is the pair of its parts.
LEMMA Received ==
  ASSUME NEW w \in Workers, Receive(w)
  PROVE  \E t \in Txns, d \in Decisions : <<t, d>> \in Deliverable /\ Call(w, t, d)
  <1>1. PICK m \in Deliverable : Call(w, m[1], m[2])
    BY DEF Receive
  <1>2. m \in Txns \X Decisions
    BY DeliverableAssumption
  <1>3. m[1] \in Txns /\ m[2] \in Decisions /\ m = <<m[1], m[2]>>
    BY <1>2
  <1>. QED
    BY <1>1, <1>3

\* The tables change in these two steps of a worker only.
LEMMA TablesKept ==
  ASSUME NEW w \in Workers, Shape(w), ~Declined(w), ~Settled(w)
  PROVE  UNCHANGED <<status, settlements>>
  BY DEF Shape, Receive, Call, LogDecline, RowMissing, PayerTaken, PayeeTaken, Credit,
         RolledBack, RollbackAndError, Finish, Crash, db

\* A worker reports only about itself.
LEMMA AnswersUntouched ==
  ASSUME IInv, NEW w \in Workers, Shape(w), NEW v \in Workers, v # w
  PROVE  answer'[v] = answer[v]
  BY DEF Shape, Receive, Call, Declined, DeclineDurable, LogDecline, RowMissing, PayerTaken,
         PayeeTaken, Credit, Settled, SettlementDurable, RolledBack, RollbackAndError,
         Finish, Crash, Return, IInv, TypeOK

-----------------------------------------------------------------------------
(***************************************************************************)
(* A declined transaction is left alone, and nothing settled is declined.  *)
(***************************************************************************)

LEMMA DeclineStored ==
  ASSUME IInv, VerdictInv, NEW w \in Workers, Declined(w)
  PROVE  /\ txn[w] \in Txns
         /\ <<txn[w], "DECLINE">> \in Deliverable
         /\ settlements' = settlements
         /\ status'[txn[w]] = "DECLINED"
         /\ \A t \in Txns : t # txn[w] => status'[t] = status[t]
  <1>1. /\ pc[w] = "declining" /\ settlements' = settlements
        /\ status' = StatusFlushed(w, "DECLINED")
    BY DEF Declined, DeclineDurable
  <1>2. txn[w] \in Txns /\ <<txn[w], "DECLINE">> \in Deliverable
    BY <1>1 DEF VerdictInv, CallsBacked
  <1>3. seen[w] = "DECLINED" => status[txn[w]] = "DECLINED"
    BY DEF VerdictInv, WordsKept
  <1>. QED
    BY <1>1, <1>2, <1>3 DEF StatusFlushed, IInv, TypeOK

LEMMA DeclinedUnsettled ==
  ASSUME DecisionsAgree, IInv, VerdictInv, NEW w \in Workers, Declined(w)
  PROVE  txn[w] \in Txns /\ ~IsSettled(settlements, txn[w])
  <1>1. txn[w] \in Txns /\ <<txn[w], "DECLINE">> \in Deliverable
    BY DeclineStored
  <1>2. <<txn[w], "APPROVE">> \notin Deliverable
    BY <1>1 DEF DecisionsAgree
  <1>. QED
    BY <1>1, <1>2 DEF VerdictInv, TablesBacked

LEMMA ApproveStored ==
  ASSUME IInv, VerdictInv, NEW w \in Workers, Settled(w)
  PROVE  /\ txn[w] \in Txns
         /\ <<txn[w], "APPROVE">> \in Deliverable
         /\ status'[txn[w]] = "APPROVED"
         /\ \A t \in Txns : t # txn[w] => status'[t] = status[t]
  <1>1. /\ txn[w] \in Txns
        /\ ~IsSettled(settlements, txn[w])
    BY SettledRows
  <1>2. /\ pc[w] = "credited"
        /\ status' = StatusFlushed(w, "APPROVED")
    BY DEF Settled, SettlementDurable
  <1>3. <<txn[w], "APPROVE">> \in Deliverable
    BY <1>2 DEF VerdictInv, CallsBacked, InCall
  <1>4. seen[w] # "APPROVED"
    BY <1>1 DEF IInv, SeenApprovedIsSettled
  <1>. QED
    BY <1>1, <1>2, <1>3, <1>4 DEF StatusFlushed, IInv, TypeOK

LEMMA VerdictKept ==
  ASSUME DecisionsAgree, IInv, VerdictInv, [Next]_vars,
         NEW t \in Txns, status[t] \in {"APPROVED", "DECLINED"}
  PROVE  status'[t] = status[t]
  <1>1. ASSUME NEW u \in Txns, Submit(u)
        PROVE  status'[t] = status[t]
    BY <1>1 DEF Submit, IInv, TypeOK
  <1>2. ASSUME NEW w \in Workers, Declined(w)
        PROVE  status'[t] = status[t]
    <2>1. txn[w] \in Txns /\ ~IsSettled(settlements, txn[w])
      BY <1>2, DeclinedUnsettled
    <2>2. status[txn[w]] # "APPROVED"
      BY <2>1 DEF IInv, ApprovedIsSettled
    <2>. QED
      BY <1>2, <2>2, DeclineStored
  <1>3. ASSUME NEW w \in Workers, Settled(w)
        PROVE  status'[t] = status[t]
    <2>1. status[txn[w]] # "DECLINED"
      BY <1>3, ApproveStored DEF DecisionsAgree, VerdictInv, TablesBacked
    <2>. QED
      BY <1>3, <2>1, ApproveStored
  <1>. QED
    BY <1>1, <1>2, <1>3, Shapes, TablesKept DEF vars

-----------------------------------------------------------------------------
(***************************************************************************)
(* The invariant is preserved.                                             *)
(***************************************************************************)

LEMMA CallsStep == ASSUME IInv, VerdictInv, [Next]_vars PROVE CallsBacked'
  <1>. USE DEF db, memory
  <1>1. TypeOK /\ CallsBacked
    BY DEF IInv, VerdictInv
  <1>2. CASE UNCHANGED <<pc, txn>>
    BY <1>1, <1>2 DEF CallsBacked, InCall
  <1>3. ASSUME NEW w \in Workers, Shape(w)
        PROVE  CallsBacked'
    <2>1. \A v \in Workers \ {w} : pc'[v] = pc[v] /\ txn'[v] = txn[v]
      BY <1>3, OthersUntouched
    <2>2. CASE Receive(w)
      <3>1. PICK t \in Txns, d \in Decisions : <<t, d>> \in Deliverable /\ Call(w, t, d)
        BY <2>2, Received
      <3>2. /\ txn'[w] = t
            /\ \/ pc'[w] = "answered"
               \/ pc'[w] = "approving" /\ d = "APPROVE"
               \/ pc'[w] = "declining" /\ d = "DECLINE"
        BY <1>1, <3>1 DEF Call, Return, TypeOK
      <3>. QED
        BY <1>1, <2>1, <3>1, <3>2 DEF CallsBacked, InCall
    <2>3. CASE Finish(w) \/ Crash(w)
      <3>1. pc'[w] = "idle"
        BY <1>1, <2>3 DEF Finish, Crash, TypeOK
      <3>. QED
        BY <1>1, <2>1, <3>1 DEF CallsBacked, InCall
    <2>4. CASE Declined(w) \/ LogDecline(w)
      <3>1. /\ txn' = txn /\ pc[w] \in {"declining", "declined"}
            /\ pc'[w] \in {"declined", "answered"}
        BY <1>1, <2>4 DEF Declined, DeclineDurable, LogDecline, Return, TypeOK
      <3>. QED
        BY <1>1, <2>1, <3>1 DEF CallsBacked, InCall
    <2>5. CASE RowMissing(w) \/ PayerTaken(w) \/ PayeeTaken(w)
      <3>1. /\ txn' = txn
            /\ pc[w] \notin {"idle", "answered", "declining", "declined"}
            /\ pc'[w] \notin {"idle", "answered", "declining", "declined"}
        BY <1>1, <2>5 DEF RowMissing, PayerTaken, PayeeTaken, Credit, TypeOK
      <3>. QED
        BY <1>1, <2>1, <3>1 DEF CallsBacked, InCall
    <2>6. CASE Settled(w) \/ RolledBack(w)
      <3>1. txn' = txn /\ pc[w] # "idle" /\ pc'[w] = "answered"
        BY <1>1, <2>6 DEF Settled, SettlementDurable, RolledBack, RollbackAndError, InCall,
                          Return, TypeOK
      <3>. QED
        BY <1>1, <2>1, <3>1 DEF CallsBacked, InCall
    <2>. QED
      BY <1>3, <2>2, <2>3, <2>4, <2>5, <2>6 DEF Shape
  <1>. QED
    BY <1>2, <1>3, Shapes DEF vars, Submit

LEMMA TablesStep ==
  ASSUME DecisionsAgree, IInv, VerdictInv, [Next]_vars
  PROVE  TablesBacked'
  <1>1. TypeOK /\ TablesBacked
    BY DEF IInv, VerdictInv
  <1>2. CASE UNCHANGED <<status, settlements>>
    BY <1>1, <1>2 DEF TablesBacked
  <1>3. ASSUME NEW t \in Txns, Submit(t)
        PROVE  TablesBacked'
    BY <1>1, <1>3 DEF Submit, TablesBacked, TypeOK
  <1>4. ASSUME NEW w \in Workers, Declined(w)
        PROVE  TablesBacked'
    BY <1>1, <1>4, DeclineStored, DeclinedUnsettled DEF TablesBacked
  <1>5. ASSUME NEW w \in Workers, Settled(w)
        PROVE  TablesBacked'
    BY <1>1, <1>5, ApproveStored, SettledRows DEF TablesBacked
  <1>. QED
    BY <1>2, <1>3, <1>4, <1>5, Shapes, TablesKept DEF vars

LEMMA WordsStep ==
  ASSUME DecisionsAgree, IInv, VerdictInv, [Next]_vars
  PROVE  WordsKept'
  <1>. USE DEF db, memory
  <1>1. TypeOK /\ CallsBacked /\ WordsKept
    BY DEF IInv, VerdictInv
  <1>2. CASE UNCHANGED vars
    BY <1>1, <1>2 DEF WordsKept, vars
  \* A word of v is about a transaction.
  <1>3. ASSUME NEW v \in Workers
        PROVE  seen[v] = "DECLINED" \/ answer[v] # "NONE" => pc[v] # "idle"
    BY <1>1 DEF WordsKept, IInv, SeenApprovedIsSettled
  <1>4. ASSUME NEW t \in Txns, status[t] = "DECLINED"
        PROVE  status'[t] = "DECLINED"
    BY <1>4, VerdictKept
  <1>5. ASSUME NEW t \in Txns, Submit(t)
        PROVE  WordsKept'
    BY <1>1, <1>3, <1>4, <1>5 DEF Submit, WordsKept, CallsBacked
  <1>6. ASSUME NEW w \in Workers, Shape(w)
        PROVE  WordsKept'
    <2>. DEFINE Holds(v) == /\ pc[v] # "answered" => answer[v] = "NONE"
                            /\ \/ seen[v] = "DECLINED" \/ pc[v] = "declined"
                               \/ answer[v] = "DECLINED"
                               => status[txn[v]] = "DECLINED"
                            /\ answer[v] = "SETTLED" => IsSettled(settlements, txn[v])
    <2>1. ASSUME NEW v \in Workers, v # w
          PROVE  Holds(v)'
      <3>1. /\ pc'[v] = pc[v] /\ txn'[v] = txn[v] /\ seen'[v] = seen[v]
            /\ answer'[v] = answer[v]
        BY <1>6, <2>1, OthersUntouched, AnswersUntouched
      <3>2. pc[v] # "idle" => txn[v] \in Txns
        BY <1>1 DEF CallsBacked
      <3>3. Holds(v)
        BY <1>1 DEF WordsKept
      <3>4. answer[v] = "SETTLED" => IsSettled(settlements', txn[v])
        BY <1>6, <3>3, SettledForGood
      <3>. QED
        BY <1>3, <1>4, <3>1, <3>2, <3>3, <3>4
    <2>2. CASE Receive(w)
      <3>1. PICK t \in Txns, d \in Decisions : <<t, d>> \in Deliverable /\ Call(w, t, d)
        BY <2>2, Received
      <3>2. /\ pc[w] = "idle" /\ txn'[w] = t /\ UNCHANGED <<status, settlements>>
            /\ \/ pc'[w] = "answered" /\ answer'[w] = "ERROR" /\ seen'[w] = seen[w]
               \/ /\ pc'[w] \in {"approving", "declining"}
                  /\ answer'[w] = answer[w] /\ seen'[w] = status[t]
        BY <1>1, <3>1 DEF Call, Return, TypeOK
      <3>3. Holds(w)'
        BY <1>1, <1>3, <3>2 DEF WordsKept
      <3>. QED
        BY <2>1, <3>3 DEF WordsKept
    <2>3. CASE Finish(w) \/ Crash(w)
      <3>1. pc'[w] = "idle" /\ seen'[w] = "NONE" /\ answer'[w] = "NONE"
        BY <1>1, <2>3 DEF Finish, Crash, TypeOK
      <3>2. Holds(w)'
        BY <3>1
      <3>. QED
        BY <2>1, <3>2 DEF WordsKept
    <2>4. CASE Declined(w)
      <3>1. /\ txn'[w] = txn[w]
            /\ \/ pc'[w] = "declined" /\ answer'[w] = "NONE"
               \/ pc'[w] = "answered" /\ answer'[w] = "ERROR"
        BY <1>1, <2>4 DEF Declined, DeclineDurable, Return, TypeOK, WordsKept
      <3>2. Holds(w)'
        BY <2>4, <3>1, DeclineStored
      <3>. QED
        BY <2>1, <3>2 DEF WordsKept
    <2>5. CASE LogDecline(w)
      <3>1. /\ pc[w] = "declined" /\ UNCHANGED <<txn, seen, status, settlements>>
            /\ pc'[w] = "answered" /\ answer'[w] = "DECLINED"
        BY <1>1, <2>5 DEF LogDecline, Return, TypeOK
      <3>2. Holds(w)'
        BY <1>1, <3>1 DEF WordsKept
      <3>. QED
        BY <2>1, <3>2 DEF WordsKept
    <2>6. CASE RowMissing(w) \/ PayerTaken(w) \/ PayeeTaken(w)
      <3>1. /\ UNCHANGED <<txn, seen, status, settlements, answer>>
            /\ pc[w] \notin {"answered", "declined"}
            /\ pc'[w] \notin {"answered", "declined"}
        BY <1>1, <2>6 DEF RowMissing, PayerTaken, PayeeTaken, Credit, TypeOK
      <3>2. Holds(w)'
        BY <1>1, <3>1 DEF WordsKept
      <3>. QED
        BY <2>1, <3>2 DEF WordsKept
    <2>7. CASE Settled(w)
      <3>1. /\ txn'[w] = txn[w] /\ seen'[w] = seen[w]
            /\ pc'[w] = "answered" /\ answer'[w] \in {"SETTLED", "ERROR"}
        BY <1>1, <2>7 DEF Settled, SettlementDurable, Return, TypeOK
      <3>2. seen[w] = "DECLINED" => status'[txn[w]] = "DECLINED"
        BY <1>1, <1>4, <2>7, SettledRows DEF WordsKept
      <3>3. Holds(w)'
        BY <2>7, <3>1, <3>2, SettledRows
      <3>. QED
        BY <2>1, <3>3 DEF WordsKept
    <2>8. CASE RolledBack(w)
      <3>1. /\ UNCHANGED <<txn, seen, status, settlements>>
            /\ pc'[w] = "answered" /\ answer'[w] = "ERROR"
        BY <1>1, <2>8 DEF RolledBack, RollbackAndError, Return, TypeOK
      <3>2. Holds(w)'
        BY <1>1, <3>1 DEF WordsKept
      <3>. QED
        BY <2>1, <3>2 DEF WordsKept
    <2>. QED
      BY <1>6, <2>2, <2>3, <2>4, <2>5, <2>6, <2>7, <2>8 DEF Shape
  <1>. QED
    BY <1>2, <1>5, <1>6, Shapes

LEMMA VerdictInit == Init => VerdictInv
  BY DEF Init, VerdictInv, CallsBacked, TablesBacked, WordsKept, InCall, IsSettled, RowsOf

-----------------------------------------------------------------------------
(***************************************************************************)
(* The theorems.                                                           *)
(***************************************************************************)

(***************************************************************************)
(* With agreeing decisions, all the words about a transaction agree.       *)
(***************************************************************************)
THEOREM VerdictInvariance == ASSUME DecisionsAgree PROVE Spec => []VerdictInv
  <1>1. IInv /\ VerdictInv /\ [Next]_vars => VerdictInv'
    BY CallsStep, TablesStep, WordsStep DEF VerdictInv
  <1>. QED
    BY <1>1, VerdictInit, Invariance, PTL DEF Spec

(***************************************************************************)
(* Then a transaction is APPROVED exactly when it has a settlement         *)
(* (settlement.py 84, 85 and 164 to 207).                                  *)
(***************************************************************************)
THEOREM ApprovedMeansSettled == ASSUME DecisionsAgree PROVE Spec => []ApprovedIffSettled
  <1>1. IInv /\ VerdictInv => ApprovedIffSettled
    BY DEF IInv, VerdictInv, ApprovedIsSettled, TablesBacked, ApprovedIffSettled
  <1>. QED
    BY <1>1, Invariance, VerdictInvariance, PTL

(***************************************************************************)
(* Contradictory decisions are the only cause of a settlement whose        *)
(* transaction is not APPROVED (models/transaction.py 84): without them,   *)
(* no fault, retry or interleaving leads to one.                           *)
(***************************************************************************)
THEOREM OnlyContradictionsOverturn ==
  ASSUME DecisionsAgree
  PROVE  Spec => []SettlementsAreApproved
  <1>1. VerdictInv => SettlementsAreApproved
    BY DEF VerdictInv, TablesBacked, SettlementsAreApproved
  <1>. QED
    BY <1>1, VerdictInvariance, PTL

(***************************************************************************)
(* A report is what the tables say for as long as the worker stays on the  *)
(* message, whatever others do meanwhile (settlement.py 99, 217).          *)
(***************************************************************************)
THEOREM ReportsTrue == ASSUME DecisionsAgree PROVE Spec => []ReportsAreTrue
  <1>1. VerdictInv => ReportsAreTrue
    <2>. SUFFICES ASSUME VerdictInv, NEW w \in Workers, answer[w] \in {"SETTLED", "DECLINED"}
                  PROVE  /\ txn[w] \in Txns
                         /\ answer[w] = "SETTLED" => IsSettled(settlements, txn[w])
                         /\ answer[w] = "DECLINED" => status[txn[w]] = "DECLINED"
      BY DEF ReportsAreTrue, VerdictInv, TablesBacked
    <2>. QED
      BY DEF VerdictInv, WordsKept, CallsBacked
  <1>. QED
    BY <1>1, VerdictInvariance, PTL

(***************************************************************************)
(* Nothing changes a status that has left PENDING (settlement.py 84, 181). *)
(***************************************************************************)
THEOREM VerdictsAreFinal == ASSUME DecisionsAgree PROVE Spec => VerdictIsFinal
  <1>1. IInv /\ VerdictInv /\ [Next]_vars =>
          [\A t \in Txns : status[t] \in {"APPROVED", "DECLINED"} => status'[t] = status[t]]_vars
    BY VerdictKept
  <1>2. Spec => [][\A t \in Txns : status[t] \in {"APPROVED", "DECLINED"}
                                      => status'[t] = status[t]]_vars
    BY <1>1, Invariance, VerdictInvariance, PTL DEF Spec
  <1>. QED
    BY <1>2 DEF VerdictIsFinal
=============================================================================
