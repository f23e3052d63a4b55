--------------------------- MODULE ConsumerProofs ---------------------------
(***************************************************************************)
(* Proofs about module SettlementConsumer, for any number of workers, any  *)
(* decisions, any bounds and any faults.                                   *)
(***************************************************************************)
EXTENDS SettlementConsumer, TLAPS

LP == INSTANCE LedgerProofs

\* The ledger of LP is the ledger of SettlementConsumer.
LEMMA SameStep == [L!Next]_(L!vars) <=> [LP!Next]_(LP!vars)
  <1>1. \A t \in Txns : L!Transferred(account, t) = LP!Transferred(account, t)
    BY DEF L!Transferred, LP!Transferred, L!Opened, LP!Opened, L!HasRow, LP!HasRow,
           L!Stored, LP!Stored, L!Loaded, LP!Loaded, L!ProcessingFee, LP!ProcessingFee,
           L!MerchantCredit, LP!MerchantCredit
  <1>2. \A t \in Txns : L!SettlementRow(t) = LP!SettlementRow(t)
    BY DEF L!SettlementRow, LP!SettlementRow,
           L!Stored, LP!Stored, L!Loaded, LP!Loaded, L!ProcessingFee, LP!ProcessingFee,
           L!MerchantCredit, LP!MerchantCredit
  <1>3. \A t \in Txns : L!IsSettled(settlements, t) <=> LP!IsSettled(settlements, t)
    BY DEF L!IsSettled, LP!IsSettled, L!RowsOf, LP!RowsOf
  <1>. QED
    BY <1>1, <1>2, <1>3
       DEF L!Next, L!vars, LP!Next, LP!vars, L!Submit, L!Settle, L!Decline,
           LP!Submit, LP!Settle, LP!Decline

LEMMA SameLedger == L!Spec <=> LP!Spec
  <1>1. L!Init <=> LP!Init
    BY DEF L!Init, LP!Init
  <1>. QED
    BY <1>1, SameStep, PTL DEF L!Spec, LP!Spec

\* So are its types.
LEMMA SameTypes == LP!Account = Account /\ LP!Status = Status /\ LP!Rows = Rows
  <1>1. LP!Account = Account /\ LP!Status = Status
    BY DEF LP!Account, Account, LP!Status, Status
  <1>2. \A t \in Txns : LP!SettlementRow(t) = SettlementRow(t)
    BY DEF LP!SettlementRow, SettlementRow, LP!Stored, Stored, LP!Loaded, Loaded,
           LP!ProcessingFee, ProcessingFee, LP!MerchantCredit, MerchantCredit
  <1>3. LP!Rows = Rows
    BY <1>2 DEF LP!Rows, Rows
  <1>. QED
    BY <1>1, <1>3

\* LP assumes of the constants what Payments does.
LEMMA LedgerAssumes ==
  /\ Opening \in [Parties -> LP!Account]
  /\ \A p \in Parties : ~LP!HasRow(Opening[p]) => Opening[p].balance = 0
  BY OpeningAssumption, SameTypes DEF HasRow, LP!HasRow

LEMMA Tables ==
  ASSUME TypeOK, [L!Next]_(L!vars)
  PROVE  /\ account' \in [Parties -> Account]
         /\ status' \in [Txns -> Status]
         /\ settlements' \in Seq(Rows)
  <1>1. LP!TablesOK
    BY SameTypes DEF TypeOK, LP!TablesOK
  <1>2. LP!TablesOK'
    BY <1>1, LedgerAssumes, SameStep, LP!StepTables, PartiesAssumption, AmountAssumption
  <1>. QED
    BY <1>2, SameTypes DEF LP!TablesOK

-----------------------------------------------------------------------------
(***************************************************************************)
(* What a step does to the tables is a step of the ledger, or nothing.     *)
(***************************************************************************)

\* The record a worker has in hand is a decision of the partition.
LEMMA InHand ==
  ASSUME LoopInv, NEW w \in Workers, pc[w] \in {"settling", "publishing"}
  PROVE  /\ position[w] \in 1 .. Len(scores)
         /\ scores[position[w]] \in Deliverable
         /\ scores[position[w]][1] \in Txns
  <1>1. position[w] \in 1 .. Len(scores) /\ scores \in Seq(Deliverable)
    BY DEF LoopInv, TypeOK, PositionOK
  <1>2. scores[position[w]] \in Deliverable
    BY <1>1
  <1>. QED
    BY <1>1, <1>2, ScoresAssumption

LEMMA LedgerStep ==
  ASSUME LoopInv, [Next]_vars
  PROVE  [L!Next]_(L!vars)
  <1>1. ASSUME NEW t \in Txns, Submit(t) PROVE L!Next
    BY <1>1 DEF Submit, L!Next
  <1>2. ASSUME NEW w \in Workers, Settle(w) PROVE [L!Next]_(L!vars)
    <2>1. scores[position[w]][1] \in Txns
      BY <1>2, InHand DEF Settle
    <2>. QED
      BY <1>2, <2>1 DEF Settle, L!Next, L!vars, tables
  <1>3. CASE UNCHANGED tables
    BY <1>3 DEF tables, L!vars
  <1>. QED
    BY <1>1, <1>2, <1>3
       DEF Next, vars, Poll, Iterate, PublishScore, Join, Handover, AutoCommit, Fetch,
           Yield, Publish, CloseProducer, SendResult, RefuseResult, Evict, Crash,
           Interrupt, Restart

-----------------------------------------------------------------------------
(***************************************************************************)
(* The invariant, part by part.                                            *)
(***************************************************************************)

\* The type invariant without the tables.
LoopTypes ==
    /\ scores \in Seq(Deliverable)
    /\ committed \in 0 .. Len(scores)
    /\ owner \in Workers \cup {NoOne}
    /\ pc \in [Workers -> Points]
    /\ position \in [Workers -> 0 .. Len(scores)]
    /\ fetched \in [Workers -> 0 .. Len(scores)]
    /\ \A w \in Workers : position[w] <= fetched[w]
    /\ outbox \in [Workers -> SUBSET (1 .. Len(scores))]
    /\ results \subseteq 1 .. Len(scores)
    /\ processed \subseteq 1 .. Len(scores)
    /\ abandoned \subseteq 1 .. Len(scores)
    /\ losses \in 0 .. MaxLosses

LEMMA TypeStep ==
  ASSUME LoopInv, [Next]_vars
  PROVE  LoopTypes'
  <1>0. LoopTypes /\ NoOne \notin Workers /\ MaxLosses \in Nat /\ Len(scores) \in Nat
    BY NoWorkerAssumption, ScoresAssumption DEF LoopInv, TypeOK, LoopTypes
  <1>. USE <1>0
  <1>1. ASSUME NEW m \in Deliverable, PublishScore(m) PROVE LoopTypes'
    <2>1. scores' \in Seq(Deliverable) /\ Len(scores') = Len(scores) + 1
      BY <1>1 DEF PublishScore, LoopTypes
    <2>. QED
      BY <1>1, <2>1 DEF PublishScore, LoopTypes, loop
  <1>2. ASSUME NEW w \in Workers, Join(w) PROVE LoopTypes'
    BY <1>2 DEF Join, LoopTypes
  <1>3. ASSUME NEW w \in Workers, Handover(w) \/ AutoCommit(w) \/ Fetch(w) PROVE LoopTypes'
    <2>1. CASE Handover(w)
      BY <2>1 DEF Handover, LoopTypes, loop
    <2>2. CASE AutoCommit(w)
      BY <2>2 DEF AutoCommit, LoopTypes, loop
    <2>3. CASE Fetch(w)
      <3>1. PICK end \in position[w] + 1 .. Len(scores) :
               fetched' = [fetched EXCEPT ![w] = end]
        BY <2>3 DEF Fetch
      <3>2. end \in 0 .. Len(scores) /\ position[w] <= end
        BY <3>1 DEF LoopTypes
      <3>. QED
        BY <2>3, <3>1, <3>2 DEF Fetch, LoopTypes, kafka
    <2>. QED
      BY <1>3, <2>1, <2>2, <2>3
  <1>4. ASSUME NEW w \in Workers, Yield(w) PROVE LoopTypes'
    BY <1>4 DEF Yield, LoopTypes, kafka, Points
  <1>5. ASSUME NEW w \in Workers, Settle(w) \/ Publish(w) PROVE LoopTypes'
    <2>1. position[w] \in 1 .. Len(scores)
      BY <1>5, InHand DEF Settle, Publish
    <2>2. CASE Settle(w)
      BY <2>1, <2>2 DEF Settle, LoopTypes, kafka, Points
    <2>3. CASE Publish(w)
      <3>1. /\ outbox' = [outbox EXCEPT ![w] = outbox[w] \cup {position[w]}]
            /\ pc' = [pc EXCEPT ![w] = "loop"]
            /\ UNCHANGED <<kafka, position, fetched, results, processed, abandoned, losses>>
        BY <2>3 DEF Publish
      <3>2. \A v \in Workers : outbox'[v] \subseteq 1 .. Len(scores)
        BY <2>1, <3>1 DEF LoopTypes
      <3>. QED
        BY <3>1, <3>2 DEF LoopTypes, kafka, Points
    <2>. QED
      BY <1>5, <2>2, <2>3
  <1>6. ASSUME NEW w \in Workers, SendResult(w) \/ RefuseResult(w) PROVE LoopTypes'
    <2>1. PICK r \in outbox[w] :
             /\ outbox' = [outbox EXCEPT ![w] = outbox[w] \ {r}]
             /\ results' \in {results, results \cup {r}}
             /\ UNCHANGED <<kafka, loop, processed, abandoned, losses>>
      BY <1>6 DEF SendResult, RefuseResult
    <2>2. r \in 1 .. Len(scores)
      BY <2>1 DEF LoopTypes
    <2>3. \A v \in Workers : outbox'[v] \subseteq 1 .. Len(scores)
      BY <2>1 DEF LoopTypes
    <2>. QED
      BY <2>1, <2>2, <2>3 DEF LoopTypes, kafka, loop
  <1>7. ASSUME NEW w \in Workers, Evict(w) PROVE LoopTypes'
    BY <1>7 DEF Evict, LoopTypes, loop
  <1>8. ASSUME NEW w \in Workers, Crash(w) PROVE LoopTypes'
    BY <1>8 DEF Crash, Forget, LeaveGroup, LoopTypes, Points
  <1>9. ASSUME NEW w \in Workers, Interrupt(w) PROVE LoopTypes'
    <2>1. pc[w] = "settling" => position[w] \in 1 .. Len(scores)
      BY InHand
    <2>2. /\ committed' \in 0 .. Len(scores)
          /\ abandoned' \subseteq 1 .. Len(scores)
      BY <1>9, <2>1 DEF Interrupt, LoopTypes
    <2>3. /\ losses' \in 0 .. MaxLosses
          /\ owner' \in Workers \cup {NoOne}
          /\ pc' = [pc EXCEPT ![w] = "closing"]
          /\ position' = [position EXCEPT ![w] = 0]
          /\ fetched' = [fetched EXCEPT ![w] = 0]
          /\ UNCHANGED <<scores, outbox, results, processed>>
      BY <1>9 DEF Interrupt, Forget, LeaveGroup, LoopTypes
    <2>. QED
      BY <2>2, <2>3 DEF LoopTypes, Points
  <1>10. ASSUME NEW w \in Workers, CloseProducer(w) \/ Restart(w) PROVE LoopTypes'
    BY <1>10 DEF CloseProducer, Restart, LoopTypes, kafka, Points
  <1>11. CASE UNCHANGED vars \/ \E t \in Txns : Submit(t)
    BY <1>11 DEF Submit, LoopTypes, vars, kafka, loop
  <1>. QED
    BY <1>1, <1>2, <1>3, <1>4, <1>5, <1>6, <1>7, <1>8, <1>9, <1>10, <1>11
       DEF Next, Poll, Iterate

LEMMA InvInit == Init => LoopInv
  <1>. SUFFICES ASSUME Init PROVE LoopInv
    OBVIOUS
  <1>1. /\ account \in [Parties -> Account]
        /\ status \in [Txns -> Status]
        /\ settlements \in Seq(Rows)
    BY OpeningAssumption DEF Init, L!Init, Status
  <1>2. TypeOK
    BY <1>1, ScoresAssumption DEF Init, TypeOK, Points
  <1>3. Done(0)
    BY DEF Done
  <1>. QED
    BY <1>2, <1>3, NoWorkerAssumption
       DEF Init, LoopInv, CommittedAccountedFor, NoneOvertaken, PositionOK, OwnerOK

\* What a step may do to the history and the positions.
Progress ==
    /\ CommittedAccountedFor
    /\ \A i \in processed \cup abandoned : Done(i)
    /\ \A w \in Workers : PositionOK(w) /\ OwnerOK(w)

LEMMA ProgressStep ==
  ASSUME LoopInv, [Next]_vars
  PROVE  Progress'
  <1>0. /\ Progress /\ LoopTypes
        /\ NoOne \notin Workers
        /\ committed \in Nat /\ position \in [Workers -> Nat] /\ fetched \in [Workers -> Nat]
    BY NoWorkerAssumption
       DEF LoopInv, TypeOK, LoopTypes, Progress, NoneOvertaken, Done
  <1>. USE <1>0
  <1>1. CASE UNCHANGED <<committed, owner, loop, processed, abandoned>>
    BY <1>1 DEF Progress, CommittedAccountedFor, Done, PositionOK, OwnerOK, loop
  <1>2. ASSUME NEW w \in Workers, Join(w) PROVE Progress'
    BY <1>2 DEF Join, Polling, Progress, CommittedAccountedFor, Done, PositionOK, OwnerOK,
                LoopTypes
  <1>3. ASSUME NEW w \in Workers, Handover(w) \/ AutoCommit(w) PROVE Progress'
    BY <1>3 DEF Handover, AutoCommit, Polling, Progress, CommittedAccountedFor, Done,
                PositionOK, OwnerOK, loop
  <1>4. ASSUME NEW w \in Workers, Fetch(w) PROVE Progress'
    BY <1>4 DEF Fetch, Polling, Progress, CommittedAccountedFor, Done, PositionOK, OwnerOK,
                kafka, LoopTypes
  <1>5. ASSUME NEW w \in Workers, Yield(w) PROVE Progress'
    BY <1>5 DEF Yield, Progress, CommittedAccountedFor, Done, PositionOK, OwnerOK,
                kafka, LoopTypes
  <1>6. ASSUME NEW w \in Workers, Settle(w) PROVE Progress'
    <2>1. /\ processed' = processed \cup {position[w]}
          /\ pc' = [pc EXCEPT ![w] = "publishing"]
          /\ UNCHANGED <<committed, owner, position, fetched, abandoned>>
      BY <1>6 DEF Settle, kafka
    <2>2. position[w] \in Nat /\ position[w] >= 1 /\ Done(position[w] - 1)
      BY <1>6 DEF Settle, Progress, PositionOK
    <2>3. \A n : Done(n) => Done(n)'
      BY <2>1 DEF Done
    <2>4. Done(position[w])'
      BY <2>1, <2>2 DEF Done
    <2>5. CommittedAccountedFor' /\ \A i \in processed' \cup abandoned' : Done(i)'
      <3>1. \A i \in processed' \cup abandoned' : i = position[w] \/ Done(i)
        BY <2>1 DEF Progress
      <3>. QED
        BY <2>1, <2>3, <2>4, <3>1 DEF Progress, CommittedAccountedFor, Done
    <2>6. ASSUME NEW v \in Workers PROVE PositionOK(v)' /\ OwnerOK(v)'
      <3>1. CASE v = w
        BY <2>1, <2>2, <2>4, <3>1 DEF Progress, PositionOK, OwnerOK, LoopTypes
      <3>2. CASE v # w
        BY <2>1, <2>3, <3>2 DEF Progress, PositionOK, OwnerOK, LoopTypes
      <3>. QED
        BY <3>1, <3>2
    <2>. QED
      BY <2>5, <2>6 DEF Progress
  <1>7. ASSUME NEW w \in Workers, Publish(w) PROVE Progress'
    BY <1>7 DEF Publish, Progress, CommittedAccountedFor, Done, PositionOK, OwnerOK,
                kafka, LoopTypes
  <1>8. ASSUME NEW w \in Workers, Evict(w) PROVE Progress'
    BY <1>8 DEF Evict, Progress, CommittedAccountedFor, Done, PositionOK, OwnerOK, loop
  <1>9. ASSUME NEW w \in Workers, Crash(w) PROVE Progress'
    BY <1>9 DEF Crash, Forget, LeaveGroup, Progress, CommittedAccountedFor, Done,
                PositionOK, OwnerOK, LoopTypes
  <1>10. ASSUME NEW w \in Workers, Interrupt(w) PROVE Progress'
    <2>1. /\ committed' = IF owner = w THEN position[w] ELSE committed
          /\ abandoned' = IF owner = w /\ pc[w] = "settling" THEN abandoned \cup {position[w]}
                                                           ELSE abandoned
          /\ pc' = [pc EXCEPT ![w] = "closing"]
          /\ position' = [position EXCEPT ![w] = 0]
          /\ fetched' = [fetched EXCEPT ![w] = 0]
          /\ owner' = IF owner = w THEN NoOne ELSE owner
          /\ processed' = processed
      BY <1>10 DEF Interrupt, Forget, LeaveGroup
    <2>2. /\ position[w] \in Nat
          /\ pc[w] = "settling" => position[w] >= 1 /\ Done(position[w] - 1)
          /\ pc[w] # "settling" => Done(position[w])
      BY DEF Progress, PositionOK
    <2>3. \A n : Done(n) => Done(n)'
      BY <2>1 DEF Done
    <2>4. \A p : owner = w /\ p = position[w] => Done(p)'
      BY <2>1, <2>2 DEF Done
    <2>5. CommittedAccountedFor' /\ \A i \in processed' \cup abandoned' : Done(i)'
      <3>1. \A i \in processed' \cup abandoned' : (owner = w /\ i = position[w]) \/ Done(i)
        BY <2>1 DEF Progress
      <3>2. \A i \in processed' \cup abandoned' : Done(i)'
        BY <2>3, <2>4, <3>1
      <3>3. Done(committed)'
        <4>1. \A n : n = committed => Done(n)'
          BY <2>3 DEF Progress, CommittedAccountedFor, Done
        <4>. QED
          BY <2>1, <2>4, <4>1 DEF Done
      <3>. QED
        BY <3>2, <3>3 DEF CommittedAccountedFor, Done
    <2>6. ASSUME NEW v \in Workers PROVE PositionOK(v)' /\ OwnerOK(v)'
      <3>1. CASE v = w
        BY <2>1, <3>1 DEF Done, PositionOK, OwnerOK, LoopTypes
      <3>2. CASE v # w
        BY <2>1, <2>3, <3>2 DEF Progress, PositionOK, OwnerOK, LoopTypes
      <3>. QED
        BY <3>1, <3>2
    <2>. QED
      BY <2>5, <2>6 DEF Progress
  <1>11. ASSUME NEW w \in Workers, CloseProducer(w) \/ Restart(w) PROVE Progress'
    BY <1>11 DEF CloseProducer, Restart, Progress, CommittedAccountedFor, Done, PositionOK,
                 OwnerOK, kafka, LoopTypes
  <1>. QED
    BY <1>1, <1>2, <1>3, <1>4, <1>5, <1>6, <1>7, <1>8, <1>9, <1>10, <1>11
       DEF Next, vars, Poll, Iterate, Submit, PublishScore, SendResult, RefuseResult, kafka, loop

LEMMA InvStep == LoopInv /\ [Next]_vars => LoopInv'
  <1>. SUFFICES ASSUME LoopInv, [Next]_vars PROVE LoopInv'
    OBVIOUS
  <1>1. LoopTypes' /\ Progress'
    BY TypeStep, ProgressStep
  <1>2. /\ account' \in [Parties -> Account]
        /\ status' \in [Txns -> Status]
        /\ settlements' \in Seq(Rows)
    BY LedgerStep, Tables DEF LoopInv
  <1>3. TypeOK'
    BY <1>1, <1>2 DEF TypeOK, LoopTypes
  <1>. QED
    BY <1>1, <1>3 DEF LoopInv, Progress, NoneOvertaken, Done

-----------------------------------------------------------------------------
(***************************************************************************)
(* The theorems.                                                           *)
(***************************************************************************)

\* The invariant of the run loops holds in every state.
THEOREM LoopInvariance == Spec => []LoopInv
  BY InvInit, InvStep, PTL DEF Spec

(***************************************************************************)
(* Offsets and positions stay within the partition, and no balance is      *)
(* negative.                                                               *)
(***************************************************************************)
THEOREM ConsumerTypes == Spec => []TypeOK
  <1>1. LoopInv => TypeOK
    BY DEF LoopInv
  <1>. QED
    BY LoopInvariance, <1>1, PTL

(***************************************************************************)
(* No decision is skipped: what is committed was processed, or in hand     *)
(* when its worker was interrupted (settlement_consumer.py 154 to 206).    *)
(***************************************************************************)
THEOREM NothingSkipped == Spec => []CommittedAccountedFor
  <1>1. LoopInv => CommittedAccountedFor
    BY DEF LoopInv
  <1>. QED
    BY LoopInvariance, <1>1, PTL

(***************************************************************************)
(* The interrupt is the only exception: where no operator stops a worker   *)
(* with Ctrl+C, a decision whose offset is committed has been processed,   *)
(* whatever crashes, evictions and refusals there are                      *)
(* (settlement_consumer.py 180 to 193).                                    *)
(***************************************************************************)
THEOREM OnlyInterruptsLose ==
  ASSUME "interrupt" \notin Faults
  PROVE  Spec => []CommittedWereProcessed
  <1>. DEFINE None == abandoned = {}
  <1>1. Init => None
    BY DEF Init
  <1>2. None /\ [Next]_vars => None'
    BY DEF Next, vars, Poll, Iterate, Submit, PublishScore, Join, Handover, AutoCommit,
           Fetch, Yield, Settle, Publish, CloseProducer, SendResult, RefuseResult, Evict,
           Crash, Interrupt, Restart
  <1>3. LoopInv /\ None => CommittedWereProcessed
    BY DEF LoopInv, CommittedAccountedFor, CommittedWereProcessed
  <1>. HIDE DEF None
  <1>. QED
    BY <1>1, <1>2, <1>3, LoopInvariance, PTL DEF Spec

\* No decision is processed before one that came before it.
THEOREM OrderKept == Spec => []NoneOvertaken
  <1>1. LoopInv => NoneOvertaken
    BY DEF LoopInv
  <1>. QED
    BY LoopInvariance, <1>1, PTL

\* A worker that has lost its partition never moves the group back.
THEOREM OffsetsGrow == Spec => OffsetNeverGoesBack
  <1>1. LoopInv /\ [Next]_vars => [committed' >= committed]_vars
    <2>. SUFFICES ASSUME LoopInv, [Next]_vars PROVE committed' >= committed \/ UNCHANGED vars
      OBVIOUS
    <2>1. committed \in Nat /\ position \in [Workers -> Nat]
      BY DEF LoopInv, TypeOK
    <2>2. \A w \in Workers : owner = w => committed <= position[w]
      BY DEF LoopInv, OwnerOK
    <2>3. committed' = committed \/ \E w \in Workers : owner = w /\ committed' = position[w]
      BY DEF Next, vars, kafka, Poll, Iterate, Submit, PublishScore, Join, Handover, AutoCommit,
             Fetch, Yield, Settle, Publish, CloseProducer, SendResult, RefuseResult, Evict,
             Crash, Interrupt, Restart
    <2>. QED
      BY <2>1, <2>2, <2>3
  <1>. QED
    BY LoopInvariance, <1>1, PTL DEF Spec, OffsetNeverGoesBack

-----------------------------------------------------------------------------
(***************************************************************************)
(* The run loops implement Delivery.                                       *)
(***************************************************************************)

\* The record in hand is in its turn.
LEMMA HandInTurn ==
  ASSUME LoopInv, NEW w \in Workers, pc[w] = "settling"
  PROVE  position[w] \in DOMAIN scores /\ D!InTurn(position[w])
  <1>1. position[w] \in 1 .. Len(scores) /\ scores \in Seq(Deliverable)
    BY InHand DEF LoopInv, TypeOK
  <1>2. Done(position[w] - 1)
    BY DEF LoopInv, PositionOK
  <1>. QED
    BY <1>1, <1>2 DEF D!InTurn, Done

LEMMA DeliveryStep == LoopInv /\ [Next]_vars => [D!Next]_(D!vars)
  <1>. SUFFICES ASSUME LoopInv, [Next]_vars PROVE [D!Next]_(D!vars)
    OBVIOUS
  <1>1. ASSUME NEW m \in Deliverable, PublishScore(m) PROVE D!Next
    BY <1>1 DEF PublishScore, D!Publish, D!Next
  <1>2. ASSUME NEW w \in Workers, Settle(w) PROVE D!Next
    <2>1. D!Handle(position[w]) /\ position[w] \in DOMAIN scores
      BY <1>2, HandInTurn DEF Settle, D!Handle, kafka
    <2>. QED
      BY <2>1 DEF D!Next
  <1>3. ASSUME NEW w \in Workers, Interrupt(w) PROVE [D!Next]_(D!vars)
    <2>1. CASE owner = w /\ pc[w] = "settling"
      <3>1. D!Skip(position[w]) /\ position[w] \in DOMAIN scores
        BY <1>3, <2>1, HandInTurn DEF Interrupt, D!Skip
      <3>. QED
        BY <3>1 DEF D!Next
    <2>2. CASE ~(owner = w /\ pc[w] = "settling")
      BY <1>3, <2>2 DEF Interrupt, D!vars
    <2>. QED
      BY <2>1, <2>2
  <1>4. CASE UNCHANGED <<scores, processed, abandoned>>
    BY <1>4 DEF D!vars
  <1>. QED
    BY <1>1, <1>2, <1>3, <1>4
       DEF Next, vars, kafka, Poll, Iterate, Submit, Join, Handover, AutoCommit, Fetch, Yield,
           Publish, CloseProducer, SendResult, RefuseResult, Evict, Crash, Restart

(***************************************************************************)
(* Whatever is committed, lost, evicted, interrupted or restarted, the     *)
(* workers deliver each decision in its turn or skip it in its turn.       *)
(***************************************************************************)
THEOREM ConsumerDelivers == Spec => ImplementsDelivery
  <1>1. Init => D!Init
    BY DEF Init, D!Init
  <1>. QED
    BY <1>1, DeliveryStep, LoopInvariance, PTL DEF Spec, D!Spec, ImplementsDelivery

-----------------------------------------------------------------------------
(***************************************************************************)
(* The run loops leave the tables to the ledger.                           *)
(***************************************************************************)

(***************************************************************************)
(* However often the loops hand a decision to settle_transaction, before   *)
(* and after crashes and rebalances, the tables behave as Ledger says.     *)
(***************************************************************************)
THEOREM ConsumerImplementsLedger == Spec => L!Spec
  <1>1. Init => L!Init
    BY DEF Init
  <1>2. LoopInv /\ [Next]_vars => [L!Next]_(L!vars)
    BY LedgerStep
  <1>. QED
    BY <1>1, <1>2, LoopInvariance, PTL DEF Spec, L!Spec

(***************************************************************************)
(* So a decision that is read again is not settled again, and the accounts *)
(* are what the settlements make them (settlement_consumer.py 160 to 178). *)
(***************************************************************************)
THEOREM ConsumerLedgerSafe == Spec => []LP!LedgerInv
  <1>1. Spec => LP!Spec
    BY ConsumerImplementsLedger, SameLedger
  <1>2. LP!Spec => []LP!LedgerInv
    BY LP!LedgerIsSafe, LedgerAssumes, PartiesAssumption, AmountAssumption
  <1>. QED
    BY <1>1, <1>2
=============================================================================
