--------------------------- MODULE PipelineProofs ---------------------------
(***************************************************************************)
(* Proofs about module Pipeline, for any replicas, clients, transactions,  *)
(* amounts, bounds and faults.                                             *)
(***************************************************************************)
EXTENDS Pipeline, TLAPS

LP == INSTANCE LedgerProofs

-----------------------------------------------------------------------------
(***************************************************************************)
(* The ledgers of L and of LP are those of Payments.                       *)
(***************************************************************************)

LEMMA SameRows ==
  /\ \A t : L!IsSettled(settlements, t) <=> IsSettled(settlements, t)
  /\ \A t \in Txns : L!SettlementRow(t) = SettlementRow(t)
  BY DEF L!IsSettled, IsSettled, L!RowsOf, RowsOf, L!SettlementRow, SettlementRow,
         L!Stored, Stored, L!Loaded, Loaded, L!ProcessingFee, ProcessingFee,
         L!MerchantCredit, MerchantCredit

LEMMA SameStep == [L!Next]_(L!vars) <=> [LP!Next]_(LP!vars)
  <1>1. \A t \in Txns : L!Transferred(account, t) = LP!Transferred(account, t)
    BY DEF L!Transferred, LP!Transferred, L!Opened, LP!Opened, L!HasRow, LP!HasRow,
           L!Stored, LP!Stored, L!Loaded, LP!Loaded, L!ProcessingFee, LP!ProcessingFee,
           L!MerchantCredit, LP!MerchantCredit
  <1>2. \A t \in Txns : L!SettlementRow(t) = LP!SettlementRow(t)
    BY DEF L!SettlementRow, LP!SettlementRow,
           L!Stored, LP!Stored, L!Loaded, LP!Loaded, L!ProcessingFee, LP!ProcessingFee,
           L!MerchantCredit, LP!MerchantCredit
  <1>3. \A t \in Txns : L!IsSettled(settlements, t) <=> LP!IsSettled(settlements, t)
    BY DEF L!IsSettled, LP!IsSettled, L!RowsOf, LP!RowsOf
  <1>. QED
    BY <1>1, <1>2, <1>3
       DEF L!Next, L!vars, LP!Next, LP!vars, L!Submit, L!Settle, L!Decline,
           LP!Submit, LP!Settle, LP!Decline

LEMMA SameLedger == L!Spec <=> LP!Spec
  <1>1. L!Init <=> LP!Init
    BY DEF L!Init, LP!Init
  <1>. QED
    BY <1>1, SameStep, PTL DEF L!Spec, LP!Spec

LEMMA SameTypes == LP!Account = Account /\ LP!Status = Status /\ LP!Rows = Rows
  <1>1. LP!Account = Account /\ LP!Status = Status
    BY DEF LP!Account, Account, LP!Status, Status
  <1>2. \A t \in Txns : LP!SettlementRow(t) = SettlementRow(t)
    BY DEF LP!SettlementRow, SettlementRow, LP!Stored, Stored, LP!Loaded, Loaded,
           LP!ProcessingFee, ProcessingFee, LP!MerchantCredit, MerchantCredit
  <1>3. LP!Rows = Rows
    BY <1>2 DEF LP!Rows, Rows
  <1>. QED
    BY <1>1, <1>3

\* LP assumes of the constants what Payments does.
LEMMA LedgerAssumes ==
  /\ Opening \in [Parties -> LP!Account]
  /\ \A p \in Parties : ~LP!HasRow(Opening[p]) => Opening[p].balance = 0
  BY OpeningAssumption, SameTypes DEF HasRow, LP!HasRow

LEMMA Tables ==
  ASSUME TypeOK, [L!Next]_(L!vars)
  PROVE  /\ account' \in [Parties -> Account]
         /\ status' \in [Txns -> Status]
         /\ settlements' \in Seq(Rows)
  <1>1. LP!TablesOK
    BY SameTypes DEF TypeOK, LP!TablesOK
  <1>2. LP!TablesOK'
    BY <1>1, LedgerAssumes, SameStep, LP!StepTables, PartiesAssumption, AmountAssumption
  <1>. QED
    BY <1>2, SameTypes DEF LP!TablesOK

-----------------------------------------------------------------------------
(***************************************************************************)
(* A topic that grows by a record.                                         *)
(***************************************************************************)

LEMMA Grown ==
  ASSUME NEW R, NEW log \in Seq(R), NEW r \in R
  PROVE  /\ Append(log, r) \in Seq(R)
         /\ DOMAIN Append(log, r) = DOMAIN log \cup {Len(log) + 1}
         /\ Len(log) + 1 \notin DOMAIN log
         /\ \A i \in DOMAIN log : Append(log, r)[i] = log[i]
         /\ Append(log, r)[Len(log) + 1] = r
         /\ \A x : Occurs(x, Append(log, r)) <=> Occurs(x, log) \/ x = r
  <1>1. /\ Append(log, r) \in Seq(R)
        /\ Len(log) \in Nat
        /\ DOMAIN log = 1 .. Len(log)
        /\ DOMAIN Append(log, r) = 1 .. Len(log) + 1
        /\ \A i \in DOMAIN log : Append(log, r)[i] = log[i]
        /\ Append(log, r)[Len(log) + 1] = r
    OBVIOUS
  <1>2. DOMAIN Append(log, r) = DOMAIN log \cup {Len(log) + 1}
    BY <1>1
  <1>3. Len(log) + 1 \notin DOMAIN log
    BY <1>1
  <1>. QED
    BY <1>1, <1>2, <1>3 DEF Occurs

LEMMA Records ==
  ASSUME TypeOK
  PROVE  /\ \A i \in DOMAIN topic : topic[i] \in Txns
         /\ \A i \in DOMAIN scores : /\ scores[i] \in Decisions
                                     /\ scores[i][1] \in Txns
                                     /\ scores[i] = <<scores[i][1], scores[i][2]>>
         /\ \A m \in Decisions : m[1] \in Txns /\ m = <<m[1], m[2]>>
  <1>1. \A m \in Decisions : m[1] \in Txns /\ m = <<m[1], m[2]>>
    BY DEF Decisions
  <1>2. \A i \in DOMAIN topic : topic[i] \in Txns
    BY DEF TypeOK
  <1>3. \A i \in DOMAIN scores : scores[i] \in Decisions
    BY DEF TypeOK
  <1>. QED
    BY <1>1, <1>2, <1>3

-----------------------------------------------------------------------------
(***************************************************************************)
(* The kinds of step.                                                      *)
(***************************************************************************)

Elsewhere == UNCHANGED <<account, settlements, detection, scores, settlement, failed>>

\* The gateway takes no request, or a request with an id that is new.
Taken(t) == G!MayAsk(t) /\ status' = [status EXCEPT ![t] = "PENDING"]

\* What a settlement worker does to the tables with decision <<t, d>>.
Honoured(t, d) ==
    \/ d = "APPROVE" /\ L!Settle(t) /\ failed' = failed
    \/ d = "DECLINE" /\ L!Decline(t) /\ failed' = failed
    \/ UNCHANGED tables /\ failed' = failed \cup {t}

Detects ==
    /\ UNCHANGED <<tables, pc, hand, buffer, topic, answer, settlement>>
    /\ \/ \E i \in DOMAIN topic, d \in {"APPROVE", "DECLINE"} :
             /\ scored' = scored \cup {i}
             /\ outbox' = outbox \cup {<<topic[i], d>>}
             /\ UNCHANGED <<unscored, scores, failed>>
       \/ \E i \in DOMAIN topic :
             /\ unscored' = unscored \cup {i}
             /\ failed' = failed \cup {topic[i]}
             /\ UNCHANGED <<scored, outbox, scores>>
       \/ \E m \in outbox :
             /\ outbox' = outbox \ {m}
             /\ scores' = Append(scores, m)
             /\ UNCHANGED <<scored, unscored, failed>>
       \/ \E m \in outbox :
             /\ outbox' = outbox \ {m}
             /\ failed' = failed \cup {m[1]}
             /\ UNCHANGED <<scored, unscored, scores>>

Settles ==
    /\ UNCHANGED <<gateway, detection, scores>>
    /\ \E i \in DOMAIN scores :
          \/ /\ processed' = processed \cup {i}
             /\ Honoured(scores[i][1], scores[i][2])
             /\ UNCHANGED abandoned
          \/ /\ abandoned' = abandoned \cup {i}
             /\ failed' = failed \cup {scores[i][1]}
             /\ UNCHANGED <<tables, processed>>

LEMMA Kinds ==
  ASSUME [Next]_vars
  PROVE  UNCHANGED vars \/ (G!Next /\ Elsewhere) \/ Detects \/ Settles
  <1>. USE DEF tables, gateway, detection, settlement
  <1>1. CASE Gateway
    BY <1>1 DEF Gateway, Elsewhere
  <1>2. ASSUME NEW i \in DOMAIN topic, Score(i) PROVE Detects
    BY <1>2 DEF Score, F!Handle, Detects
  <1>3. ASSUME NEW i \in DOMAIN topic, SkipTransaction(i) PROVE Detects
    BY <1>3 DEF SkipTransaction, F!Skip, Detects
  <1>4. ASSUME NEW m \in outbox, SendDecision(m) PROVE Detects
    BY <1>4 DEF SendDecision, Detects
  <1>5. ASSUME NEW m \in outbox, LoseDecision(m) PROVE Detects
    BY <1>5 DEF LoseDecision, Detects
  <1>6. ASSUME NEW i \in DOMAIN scores, Settle(i) PROVE Settles
    <2>1. /\ processed' = processed \cup {i}
          /\ UNCHANGED <<scores, abandoned, gateway, detection>>
      BY <1>6 DEF Settle, S!Handle
    <2>2. Honoured(scores[i][1], scores[i][2])
      BY <1>6 DEF Settle, Honoured, Fails
    <2>. QED
      BY <2>1, <2>2 DEF Settles
  <1>7. ASSUME NEW i \in DOMAIN scores, SkipDecision(i) PROVE Settles
    BY <1>7 DEF SkipDecision, S!Skip, Settles
  <1>. QED
    BY <1>1, <1>2, <1>3, <1>4, <1>5, <1>6, <1>7 DEF Next

-----------------------------------------------------------------------------
(***************************************************************************)
(* What the gateway does to the rows and to the topic.                     *)
(***************************************************************************)

LEMMA GatewayRows ==
  ASSUME G!Next
  PROVE  UNCHANGED status \/ \E t \in Txns : Taken(t)
  BY DEF G!Next, G!Handler, G!Producer, G!Save, G!UnackedSave, G!RefuseSave, G!RowSaved, Taken,
         G!Start, G!Publish, G!RefusePublish, G!Accept, G!Reject, G!TimeOut, G!Send,
         G!SendUnacked, G!GiveUp, G!Stop, G!Crash, G!Hang, G!replicas

LEMMA GatewayTopic ==
  ASSUME G!Next
  PROVE  \/ UNCHANGED topic
         \/ /\ UNCHANGED <<status, hand, answer>>
            /\ \E r \in Replicas : \E m \in buffer[r] : topic' = Append(topic, m)
  BY DEF G!Next, G!Handler, G!Producer, G!Save, G!UnackedSave, G!RefuseSave, G!Start,
         G!Publish, G!RefusePublish, G!Accept, G!Reject, G!TimeOut, G!Send,
         G!SendUnacked, G!GiveUp, G!Stop, G!Crash, G!Hang, G!replicas

\* An id that may be taken has no row, and so is on no topic.
LEMMA TakenIsNew ==
  ASSUME PipeInv, NEW t \in Txns, G!MayAsk(t)
  PROVE  status[t] = "NONE" /\ ~Occurs(t, topic)
  <1>1. status[t] = "NONE"
    BY DEF PipeInv, IdsAreNew, G!MayAsk
  <1>. QED
    BY <1>1 DEF PipeInv, EachHasItsOrigin

-----------------------------------------------------------------------------
(***************************************************************************)
(* Each part of the pipeline does what its own module says.                *)
(***************************************************************************)

LEMMA LedgerStep ==
  ASSUME PipeInv, [Next]_vars
  PROVE  [L!Next]_(L!vars)
  <1>. USE DEF L!vars
  <1>1. CASE UNCHANGED vars
    BY <1>1 DEF vars, tables
  <1>2. CASE G!Next /\ Elsewhere
    <2>1. ASSUME NEW t \in Txns, Taken(t)
          PROVE  L!Submit(t)
      BY <1>2, <2>1, TakenIsNew DEF Taken, L!Submit, Elsewhere
    <2>. QED
      BY <1>2, <2>1, GatewayRows DEF Elsewhere, L!Next
  <1>3. CASE Detects
    BY <1>3 DEF Detects, tables
  <1>4. CASE Settles
    BY <1>4, Records DEF PipeInv, Settles, Honoured, tables, L!Next
  <1>. QED
    BY <1>1, <1>2, <1>3, <1>4, Kinds

\* No row disappears and no message does.
LEMMA NothingDisappears ==
  ASSUME PipeInv, [Next]_vars
  PROVE  /\ \A t \in Txns : status[t] # "NONE" => status'[t] # "NONE"
         /\ topic' \in Seq(Txns)
         /\ \A i \in DOMAIN topic : i \in DOMAIN topic' /\ topic'[i] = topic[i]
         /\ \A t : Occurs(t, topic) => Occurs(t, topic')
  <1>1. \A t \in Txns : status[t] # "NONE" => status'[t] # "NONE"
    BY LedgerStep DEF L!Next, L!vars, L!Submit, L!Settle, L!Decline, PipeInv, TypeOK
  <1>2. topic \in Seq(Txns)
    BY DEF PipeInv, TypeOK
  <1>3. CASE UNCHANGED topic
    BY <1>1, <1>2, <1>3
  <1>4. ASSUME NEW m \in Txns, topic' = Append(topic, m)
        PROVE  /\ topic' \in Seq(Txns)
               /\ \A i \in DOMAIN topic : i \in DOMAIN topic' /\ topic'[i] = topic[i]
               /\ \A t : Occurs(t, topic) => Occurs(t, topic')
    BY <1>2, <1>4, Grown
  <1>5. \A r \in Replicas : buffer[r] \subseteq Txns
    BY DEF PipeInv, TypeOK
  <1>6. UNCHANGED topic \/ \E m \in Txns : topic' = Append(topic, m)
    BY <1>5, Kinds, GatewayTopic DEF vars, gateway, Detects, Settles
  <1>. QED
    BY <1>1, <1>3, <1>4, <1>6

-----------------------------------------------------------------------------
(***************************************************************************)
(* The types are preserved.                                                *)
(***************************************************************************)

GatewayTypes ==
    /\ pc \in [Replicas -> G!Points]
    /\ hand \in [Replicas -> Txns \cup {NoTxn}]
    /\ buffer \in [Replicas -> SUBSET Txns]
    /\ answer \in [Txns -> G!Answers]

\* The replica that is not at rest has a request in hand.
LEMMA InHand ==
  ASSUME PipeInv, NEW r \in Replicas, pc[r] \notin {"down", "serving"}
  PROVE  hand[r] \in Txns /\ status[hand[r]] # "NONE"
  BY DEF PipeInv, HandOK, TypeOK

LEMMA GatewayTypesStep ==
  ASSUME PipeInv, G!Next
  PROVE  GatewayTypes'
  <1>. USE DEF G!replicas, G!Points, G!Answers
  <1>1. GatewayTypes
    BY DEF PipeInv, TypeOK, GatewayTypes
  <1>2. ASSUME NEW r \in Replicas, G!Start(r) \/ G!Stop(r)
        PROVE  GatewayTypes'
    BY <1>1, <1>2 DEF G!Start, G!Stop, GatewayTypes
  <1>3. ASSUME NEW r \in Replicas, NEW t \in Txns,
               G!Save(r, t) \/ G!RefuseSave(r, t) \/ G!UnackedSave(r, t)
        PROVE  GatewayTypes'
    BY <1>1, <1>3 DEF G!Save, G!RefuseSave, G!UnackedSave, G!Told, GatewayTypes
  <1>4. ASSUME NEW r \in Replicas, G!Publish(r)
        PROVE  GatewayTypes'
    <2>1. hand[r] \in Txns
      BY <1>4, InHand DEF G!Publish
    <2>. QED
      BY <1>1, <1>4, <2>1 DEF G!Publish, GatewayTypes
  <1>5. ASSUME NEW r \in Replicas,
               G!RefusePublish(r) \/ G!Accept(r) \/ G!Reject(r) \/ G!TimeOut(r)
        PROVE  GatewayTypes'
    BY <1>1, <1>5 DEF G!RefusePublish, G!Accept, G!Reject, G!TimeOut, G!Respond, G!Told,
                      GatewayTypes
  <1>6. ASSUME NEW r \in Replicas, G!Producer(r)
        PROVE  GatewayTypes'
    BY <1>1, <1>6 DEF G!Producer, G!Send, G!SendUnacked, G!GiveUp, G!Resolve, GatewayTypes
  <1>7. ASSUME NEW r \in Replicas, G!Crash(r)
        PROVE  GatewayTypes'
    BY <1>1, <1>7 DEF G!Crash, G!Told, GatewayTypes
  <1>8. ASSUME NEW t \in Txns, G!Hang(t)
        PROVE  GatewayTypes'
    BY <1>1, <1>8 DEF G!Hang, GatewayTypes
  <1>. QED
    BY <1>2, <1>3, <1>4, <1>5, <1>6, <1>7, <1>8 DEF G!Next, G!Handler

\* What is kept of the topics.
TopicTypes ==
    /\ topic \in Seq(Txns)
    /\ scored \subseteq DOMAIN topic /\ unscored \subseteq DOMAIN topic
    /\ outbox \subseteq Decisions
    /\ scores \in Seq(Decisions)
    /\ processed \subseteq DOMAIN scores /\ abandoned \subseteq DOMAIN scores
    /\ failed \subseteq Txns

LEMMA TopicTypesStep ==
  ASSUME PipeInv, [Next]_vars
  PROVE  TopicTypes'
  <1>. USE DEF detection, settlement
  <1>1. TypeOK /\ TopicTypes
    BY DEF PipeInv, TypeOK, TopicTypes
  <1>2. topic' \in Seq(Txns) /\ DOMAIN topic \subseteq DOMAIN topic'
    BY NothingDisappears
  <1>3. CASE UNCHANGED vars \/ (G!Next /\ Elsewhere)
    <2>1. UNCHANGED <<scored, unscored, outbox, scores, processed, abandoned, failed>>
      BY <1>3 DEF vars, Elsewhere
    <2>. QED
      BY <1>1, <1>2, <2>1 DEF TopicTypes
  <1>4. CASE Detects
    <2>1. \A i \in DOMAIN topic : topic[i] \in Txns
      BY <1>1, Records
    <2>2. \A m \in outbox : /\ m[1] \in Txns
                            /\ Append(scores, m) \in Seq(Decisions)
                            /\ DOMAIN scores \subseteq DOMAIN Append(scores, m)
      BY <1>1, Records, Grown DEF TopicTypes
    <2>3. \A i \in DOMAIN topic, d \in {"APPROVE", "DECLINE"} : <<topic[i], d>> \in Decisions
      BY <2>1 DEF Decisions
    <2>. QED
      BY <1>1, <1>2, <1>4, <2>1, <2>2, <2>3 DEF Detects, TopicTypes
  <1>5. CASE Settles
    <2>1. \A i \in DOMAIN scores : scores[i][1] \in Txns
      BY <1>1, Records
    <2>. QED
      BY <1>1, <1>2, <1>5, <2>1 DEF Settles, Honoured, TopicTypes
  <1>. QED
    BY <1>3, <1>4, <1>5, Kinds

LEMMA TypeStep == ASSUME PipeInv, [Next]_vars PROVE TypeOK'
  <1>1. GatewayTypes'
    <2>1. GatewayTypes
      BY DEF PipeInv, TypeOK, GatewayTypes
    <2>2. CASE UNCHANGED gateway
      BY <2>1, <2>2 DEF gateway, GatewayTypes
    <2>3. CASE UNCHANGED <<pc, hand, buffer, answer>>
      BY <2>1, <2>3 DEF GatewayTypes
    <2>. QED
      BY <2>2, <2>3, Kinds, GatewayTypesStep DEF vars, Detects, Settles
  <1>2. TopicTypes'
    BY TopicTypesStep
  <1>3. /\ account' \in [Parties -> Account]
        /\ status' \in [Txns -> Status]
        /\ settlements' \in Seq(Rows)
    BY LedgerStep, Tables DEF PipeInv
  <1>. QED
    BY <1>1, <1>2, <1>3 DEF TypeOK, GatewayTypes, TopicTypes

-----------------------------------------------------------------------------
(***************************************************************************)
(* The requests in hand, and the ids they are given.                       *)
(***************************************************************************)

LEMMA GatewayHands ==
  ASSUME PipeInv, [Next]_vars, G!Next
  PROVE  HandOK'
  <1>. USE DEF G!replicas
  <1>1. /\ TypeOK /\ HandOK
        /\ \A t \in Txns : status[t] # "NONE" => status'[t] # "NONE"
        /\ \A t : Occurs(t, topic) => Occurs(t, topic')
    BY NothingDisappears DEF PipeInv
  <1>2. ASSUME NEW r \in Replicas, G!Start(r) \/ G!Stop(r)
        PROVE  HandOK'
    BY <1>1, <1>2 DEF G!Start, G!Stop, HandOK, TypeOK
  <1>3. ASSUME NEW r \in Replicas, NEW t \in Txns, G!Save(r, t)
        PROVE  HandOK'
    BY <1>1, <1>3, NoTxnAssumption DEF G!Save, G!RowSaved, HandOK, TypeOK
  <1>4. ASSUME UNCHANGED <<pc, hand>>
        PROVE  HandOK'
    BY <1>1, <1>4 DEF HandOK, TypeOK
  <1>5. ASSUME NEW r \in Replicas, G!Publish(r)
        PROVE  HandOK'
    BY <1>1, <1>5 DEF G!Publish, HandOK, TypeOK
  <1>6. ASSUME NEW r \in Replicas,
               G!RefusePublish(r) \/ G!Accept(r) \/ G!Reject(r) \/ G!TimeOut(r)
        PROVE  HandOK'
    BY <1>1, <1>6 DEF G!RefusePublish, G!Accept, G!Reject, G!TimeOut, G!Respond, HandOK, TypeOK
  <1>7. ASSUME NEW r \in Replicas, G!Send(r)
        PROVE  HandOK'
    <2>1. PICK m \in buffer[r] : topic' = Append(topic, m) /\ G!Resolve(r, m, "acked")
      BY <1>7 DEF G!Send
    <2>2. Occurs(m, topic')
      BY <1>1, <2>1, Grown DEF TypeOK
    <2>3. UNCHANGED <<status, hand>>
      BY <1>7 DEF G!Send
    <2>. QED
      BY <1>1, <2>1, <2>2, <2>3 DEF G!Resolve, HandOK, TypeOK
  <1>8. ASSUME NEW r \in Replicas, G!GiveUp(r)
        PROVE  HandOK'
    BY <1>1, <1>8 DEF G!GiveUp, G!Resolve, HandOK, TypeOK
  <1>9. ASSUME NEW r \in Replicas, G!Crash(r)
        PROVE  HandOK'
    BY <1>1, <1>9 DEF G!Crash, HandOK, TypeOK
  <1>. QED
    BY <1>2, <1>3, <1>4, <1>5, <1>6, <1>7, <1>8, <1>9
       DEF G!Next, G!Handler, G!Producer, G!RefuseSave, G!UnackedSave, G!SendUnacked, G!Hang

LEMMA HandStep == ASSUME PipeInv, [Next]_vars PROVE HandOK'
  <1>1. CASE UNCHANGED <<pc, hand>>
    BY <1>1, NothingDisappears DEF PipeInv, HandOK, TypeOK
  <1>. QED
    BY <1>1, GatewayHands, Kinds DEF vars, gateway, Detects, Settles

LEMMA GatewayIds ==
  ASSUME PipeInv, G!Next
  PROVE  IdsAreNew'
  <1>. USE DEF G!replicas
  <1>1. TypeOK /\ HandOK /\ IdsAreNew
    BY DEF PipeInv
  <1>2. CASE UNCHANGED <<status, hand, answer>>
    BY <1>1, <1>2 DEF IdsAreNew
  <1>3. ASSUME NEW r \in Replicas, NEW t \in Txns, G!Save(r, t)
        PROVE  IdsAreNew'
    BY <1>1, <1>3, NoTxnAssumption DEF G!Save, G!RowSaved, IdsAreNew, HandOK, TypeOK
  <1>4. ASSUME NEW r \in Replicas, NEW t \in Txns, G!RefuseSave(r, t) \/ G!UnackedSave(r, t)
        PROVE  IdsAreNew'
    BY <1>1, <1>4 DEF G!RefuseSave, G!UnackedSave, G!RowSaved, G!Told, IdsAreNew, TypeOK
  <1>5. ASSUME NEW r \in Replicas,
               G!RefusePublish(r) \/ G!Accept(r) \/ G!Reject(r) \/ G!TimeOut(r)
        PROVE  IdsAreNew'
    <2>1. hand[r] \in Txns
      BY <1>5, InHand DEF G!RefusePublish, G!Accept, G!Reject, G!TimeOut
    <2>2. /\ answer'[hand[r]] # "none"
          /\ \A t \in Txns : answer'[t] = "none" => answer[t] = "none"
          /\ \A q \in Replicas : q # r => hand'[q] = hand[q]
          /\ UNCHANGED status
      BY <1>1, <1>5, <2>1
         DEF G!RefusePublish, G!Accept, G!Reject, G!TimeOut, G!Respond, G!Told, TypeOK
    <2>. QED
      BY <1>1, <2>1, <2>2 DEF IdsAreNew
  <1>6. ASSUME NEW t \in Txns, G!Hang(t)
        PROVE  IdsAreNew'
    BY <1>1, <1>6 DEF G!Hang, IdsAreNew, TypeOK
  <1>7. ASSUME NEW r \in Replicas, G!Crash(r)
        PROVE  IdsAreNew'
    <2>1. /\ hand[r] # NoTxn => hand[r] \in Txns /\ answer'[hand[r]] # "none"
          /\ \A t \in Txns : answer'[t] = "none" => answer[t] = "none"
          /\ \A q \in Replicas : q # r => hand'[q] = hand[q]
          /\ UNCHANGED status
      BY <1>1, <1>7 DEF G!Crash, G!Told, TypeOK
    <2>. QED
      BY <1>1, <2>1, NoTxnAssumption DEF IdsAreNew
  <1>. QED
    BY <1>2, <1>3, <1>4, <1>5, <1>6, <1>7
       DEF G!Next, G!Handler, G!Producer, G!Start, G!Stop, G!Publish, G!Send, G!SendUnacked,
           G!GiveUp

LEMMA IdsStep == ASSUME PipeInv, [Next]_vars PROVE IdsAreNew'
  <1>1. CASE Settles
    <2>1. \A t \in Txns : status[t] = "NONE" => status'[t] = "NONE"
      BY <1>1, Records DEF Settles, Honoured, tables, L!Settle, L!Decline, PipeInv, TypeOK
    <2>. QED
      BY <1>1, <2>1 DEF Settles, gateway, PipeInv, IdsAreNew
  <1>2. CASE UNCHANGED <<status, hand, answer>>
    BY <1>2 DEF PipeInv, IdsAreNew
  <1>. QED
    BY <1>1, <1>2, GatewayIds, Kinds DEF vars, tables, gateway, Detects

-----------------------------------------------------------------------------
(***************************************************************************)
(* The accepted requests, and the origin of each step.                     *)
(***************************************************************************)

LEMMA NewlyAccepted ==
  ASSUME PipeInv, G!Next, NEW t \in Txns, answer'[t] = "202"
  PROVE  answer[t] = "202" \/ (status[t] # "NONE" /\ Occurs(t, topic))
  <1>. USE DEF G!replicas
  <1>1. TypeOK /\ HandOK
    BY DEF PipeInv
  <1>2. ASSUME NEW r \in Replicas, G!Accept(r)
        PROVE  answer[t] = "202" \/ (status[t] # "NONE" /\ Occurs(t, topic))
    <2>1. hand[r] \in Txns /\ status[hand[r]] # "NONE" /\ Occurs(hand[r], topic)
      BY <1>1, <1>2, InHand DEF G!Accept, HandOK
    <2>. QED
      BY <1>1, <1>2, <2>1 DEF G!Accept, G!Respond, G!Told, TypeOK
  <1>3. ASSUME ~\E r \in Replicas : G!Accept(r)
        PROVE  answer[t] = "202"
    BY <1>1, <1>3
       DEF G!Next, G!Handler, G!Producer, G!Save, G!UnackedSave, G!RefuseSave, G!Start,
           G!Publish, G!RefusePublish, G!Reject, G!TimeOut, G!Send, G!SendUnacked, G!GiveUp,
           G!Stop, G!Crash, G!Hang, G!Told, G!Respond, TypeOK
  <1>. QED
    BY <1>2, <1>3

LEMMA AcceptedStep == ASSUME PipeInv, [Next]_vars PROVE AcceptedIsPublished'
  <1>1. ASSUME NEW t \in Txns, answer'[t] = "202"
        PROVE  status[t] # "NONE" /\ Occurs(t, topic)
    <2>1. answer[t] = "202" \/ (status[t] # "NONE" /\ Occurs(t, topic))
      BY <1>1, NewlyAccepted, Kinds DEF vars, gateway, Detects, Settles
    <2>. QED
      BY <2>1 DEF PipeInv, AcceptedIsPublished, G!Polled
  <1>. QED
    BY <1>1, NothingDisappears, TypeStep DEF AcceptedIsPublished, G!Polled, TypeOK, Status

LEMMA GatewayBuffers ==
  ASSUME PipeInv, G!Next, NEW t \in Txns,
         Occurs(t, topic') \/ \E r \in Replicas : t \in buffer'[r]
  PROVE  status[t] # "NONE"
  <1>1. TypeOK /\ \A r \in Replicas : buffer[r] \subseteq Txns
    BY DEF PipeInv, TypeOK
  <1>2. ASSUME NEW r \in Replicas, t \in buffer'[r], t \notin buffer[r]
        PROVE  status[t] # "NONE"
    <2>1. \E q \in Replicas : G!Publish(q)
      BY <1>1, <1>2
         DEF G!Next, G!Handler, G!Producer, G!Save, G!UnackedSave, G!RefuseSave, G!Start,
             G!RefusePublish, G!Accept, G!Reject, G!TimeOut, G!Send, G!SendUnacked,
             G!GiveUp, G!Stop, G!Crash, G!Hang, G!Resolve, G!replicas, TypeOK
    <2>2. PICK q \in Replicas : G!Publish(q)
      BY <2>1
    <2>3. status[hand[q]] # "NONE"
      BY <2>2, InHand DEF G!Publish
    <2>. QED
      BY <1>1, <1>2, <2>2, <2>3 DEF G!Publish, TypeOK
  <1>3. ASSUME Occurs(t, topic')
        PROVE  Occurs(t, topic) \/ \E r \in Replicas : t \in buffer[r]
    <2>1. CASE UNCHANGED topic
      BY <1>3, <2>1
    <2>2. ASSUME NEW r \in Replicas, NEW m \in buffer[r], topic' = Append(topic, m)
          PROVE  Occurs(t, topic) \/ t = m
      <3>1. topic \in Seq(Txns) /\ m \in Txns
        BY <1>1 DEF TypeOK
      <3>. QED
        BY <1>3, <2>2, <3>1, Grown
    <2>. QED
      BY <2>1, <2>2, GatewayTopic
  <1>. QED
    BY <1>2, <1>3 DEF PipeInv, EachHasItsOrigin

LEMMA OriginStep == ASSUME PipeInv, [Next]_vars PROVE EachHasItsOrigin'
  <1>1. TypeOK /\ EachHasItsOrigin
    BY DEF PipeInv
  <1>2. /\ \A t \in Txns : status[t] # "NONE" => status'[t] # "NONE"
        /\ \A t : Occurs(t, topic) => Occurs(t, topic')
    BY NothingDisappears
  \* The row is there before the message.
  <1>3. ASSUME NEW t \in Txns, Occurs(t, topic') \/ \E r \in Replicas : t \in buffer'[r]
        PROVE  status'[t] # "NONE"
    <2>1. CASE G!Next
      BY <1>2, <1>3, <2>1, GatewayBuffers
    <2>2. CASE UNCHANGED <<topic, buffer>>
      BY <1>1, <1>2, <1>3, <2>2 DEF EachHasItsOrigin
    <2>. QED
      BY <2>1, <2>2, Kinds DEF vars, gateway, Detects, Settles
  \* The message is there before the decision.
  <1>4. ASSUME NEW m \in Decisions, m \in outbox' \/ Occurs(m, scores')
        PROVE  Occurs(m[1], topic')
    <2>1. CASE UNCHANGED <<outbox, scores>>
      BY <1>1, <1>2, <1>4, <2>1 DEF EachHasItsOrigin
    <2>2. CASE Detects
      <3>1. ASSUME NEW i \in DOMAIN topic, NEW d \in {"APPROVE", "DECLINE"},
                   outbox' = outbox \cup {<<topic[i], d>>}, scores' = scores
            PROVE  Occurs(m[1], topic)
        BY <1>1, <1>4, <3>1 DEF EachHasItsOrigin, Occurs
      <3>2. ASSUME NEW n \in outbox, outbox' = outbox \ {n},
                   scores' = scores \/ scores' = Append(scores, n)
            PROVE  Occurs(m[1], topic)
        <4>1. n \in Decisions /\ scores \in Seq(Decisions)
          BY <1>1 DEF TypeOK
        <4>2. Occurs(m, scores') => Occurs(m, scores) \/ m = n
          <5>1. CASE scores' = scores
            BY <5>1
          <5>2. CASE scores' = Append(scores, n)
            BY <4>1, <5>2, Grown
          <5>. QED
            BY <3>2, <5>1, <5>2
        <4>. QED
          BY <1>1, <1>4, <3>2, <4>2 DEF EachHasItsOrigin
      <3>. QED
        BY <1>2, <2>1, <2>2, <3>1, <3>2 DEF Detects
    <2>. QED
      BY <2>1, <2>2, Kinds DEF vars, detection, Elsewhere, Settles
  \* The decision is there before the verdict.
  <1>5. \A m : Occurs(m, scores) => Occurs(m, scores')
    <2>1. \A m \in outbox : \A n : Occurs(n, scores) => Occurs(n, Append(scores, m))
      BY <1>1, Grown DEF TypeOK
    <2>. QED
      BY <2>1, Kinds DEF vars, Elsewhere, Detects, Settles
  <1>6. ASSUME NEW t \in Txns
        PROVE  /\ IsSettled(settlements', t) \/ status'[t] = "APPROVED"
                     => Occurs(<<t, "APPROVE">>, scores')
               /\ status'[t] = "DECLINED" => Occurs(<<t, "DECLINE">>, scores')
    <2>1. /\ IsSettled(settlements, t) \/ status[t] = "APPROVED"
                => Occurs(<<t, "APPROVE">>, scores')
          /\ status[t] = "DECLINED" => Occurs(<<t, "DECLINE">>, scores')
      BY <1>1, <1>5 DEF EachHasItsOrigin
    <2>2. CASE UNCHANGED <<status, settlements>>
      BY <2>1, <2>2
    <2>3. CASE G!Next /\ Elsewhere
      BY <1>1, <2>1, <2>3, GatewayRows DEF Elsewhere, Taken, TypeOK
    <2>4. CASE Settles
      <3>1. PICK i \in DOMAIN scores :
                   UNCHANGED tables \/ Honoured(scores[i][1], scores[i][2])
        BY <2>4 DEF Settles
      <3>. DEFINE u == scores[i][1]
      <3>2. u \in Txns /\ Occurs(<<u, scores[i][2]>>, scores) /\ scores' = scores
        BY <1>1, <2>4, Records DEF Occurs, Settles
      <3>3. CASE UNCHANGED tables
        BY <2>2, <3>3 DEF tables
      <3>4. CASE scores[i][2] = "DECLINE" /\ L!Decline(u)
        BY <1>1, <2>1, <3>2, <3>4 DEF L!Decline, TypeOK
      <3>5. CASE scores[i][2] = "APPROVE" /\ L!Settle(u)
        <4>1. SettlementRow(u) \in Rows /\ SettlementRow(u).txn = u
          BY <3>2 DEF Rows, SettlementRow
        <4>2. settlements' = Append(settlements, SettlementRow(u))
          BY <3>2, <3>5, SameRows DEF L!Settle
        <4>3. IsSettled(settlements', t) => IsSettled(settlements, t) \/ t = u
          BY <1>1, <4>1, <4>2, Grown DEF IsSettled, RowsOf, TypeOK
        <4>. QED
          BY <1>1, <2>1, <3>2, <3>5, <4>3 DEF L!Settle, TypeOK
      <3>. QED
        BY <3>1, <3>3, <3>4, <3>5 DEF Honoured
    <2>. QED
      BY <2>2, <2>3, <2>4, Kinds DEF vars, tables, Detects
  <1>. QED
    BY <1>3, <1>4, <1>6 DEF EachHasItsOrigin

-----------------------------------------------------------------------------
(***************************************************************************)
(* What is published stays under way, or fails, until it is decided.       *)
(***************************************************************************)

LEMMA UnderWayStep == ASSUME PipeInv, [Next]_vars PROVE PublishedAreUnderWay'
  <1>. USE DEF detection, settlement
  <1>1. TypeOK /\ \A t \in Txns : Occurs(t, topic) /\ status[t] = "PENDING"
                                     => UnderWay(t) \/ t \in failed
    BY DEF PipeInv, PublishedAreUnderWay
  <1>2. SUFFICES ASSUME NEW t \in Txns, Occurs(t, topic'), status'[t] = "PENDING"
                 PROVE  UnderWay(t)' \/ t \in failed'
    BY DEF PublishedAreUnderWay
  <1>3. CASE UNCHANGED vars
    BY <1>1, <1>2, <1>3 DEF vars, tables, gateway, UnderWay
  <1>4. CASE G!Next /\ Elsewhere
    <2>1. CASE UNCHANGED topic
      <3>1. status[t] = "PENDING"
        BY <1>1, <1>2, <1>4, <2>1, GatewayRows, TakenIsNew DEF Taken, TypeOK
      <3>. QED
        BY <1>1, <1>2, <1>4, <2>1, <3>1 DEF Elsewhere, UnderWay
    <2>2. ASSUME NEW r \in Replicas, NEW m \in buffer[r], topic' = Append(topic, m),
                 UNCHANGED status
          PROVE  UnderWay(t)' \/ t \in failed'
      <3>1. topic \in Seq(Txns) /\ m \in Txns
        BY <1>1 DEF TypeOK
      <3>2. /\ DOMAIN topic' = DOMAIN topic \cup {Len(topic) + 1}
            /\ Len(topic) + 1 \notin DOMAIN topic
            /\ \A i \in DOMAIN topic : topic'[i] = topic[i]
            /\ topic'[Len(topic) + 1] = m
            /\ Occurs(t, topic) \/ t = m
        BY <1>2, <2>2, <3>1, Grown
      <3>3. CASE t = m
        BY <1>1, <1>4, <3>2, <3>3 DEF Elsewhere, UnderWay, TypeOK
      <3>4. CASE Occurs(t, topic)
        <4>1. UnderWay(t) \/ t \in failed
          BY <1>1, <1>2, <2>2, <3>4
        <4>. QED
          BY <1>4, <3>2, <4>1 DEF Elsewhere, UnderWay
      <3>. QED
        BY <3>2, <3>3, <3>4
    <2>. QED
      BY <1>4, <2>1, <2>2, GatewayTopic
  <1>5. CASE Detects
    <2>1. /\ UNCHANGED <<topic, status, processed, abandoned>>
          /\ UnderWay(t) \/ t \in failed
      BY <1>1, <1>2, <1>5 DEF Detects, tables
    <2>2. ASSUME NEW i \in DOMAIN topic, NEW d \in {"APPROVE", "DECLINE"},
                 scored' = scored \cup {i}, outbox' = outbox \cup {<<topic[i], d>>},
                 UNCHANGED <<unscored, scores, failed>>
          PROVE  UnderWay(t)' \/ t \in failed'
      <3>1. <<topic[i], d>>[1] = topic[i]
        OBVIOUS
      <3>. QED
        BY <2>1, <2>2, <3>1 DEF UnderWay
    <2>3. ASSUME NEW i \in DOMAIN topic, unscored' = unscored \cup {i},
                 failed' = failed \cup {topic[i]}, UNCHANGED <<scored, outbox, scores>>
          PROVE  UnderWay(t)' \/ t \in failed'
      BY <2>1, <2>3 DEF UnderWay
    <2>4. ASSUME NEW m \in outbox, outbox' = outbox \ {m}, scores' = Append(scores, m),
                 UNCHANGED <<scored, unscored, failed>>
          PROVE  UnderWay(t)' \/ t \in failed'
      <3>1. scores \in Seq(Decisions) /\ m \in Decisions
        BY <1>1 DEF TypeOK
      <3>2. /\ DOMAIN scores' = DOMAIN scores \cup {Len(scores) + 1}
            /\ Len(scores) + 1 \notin DOMAIN scores
            /\ \A i \in DOMAIN scores : scores'[i] = scores[i]
            /\ scores'[Len(scores) + 1] = m
        BY <2>4, <3>1, Grown
      <3>3. Len(scores) + 1 \notin processed \cup abandoned
        BY <1>1, <3>2 DEF TypeOK
      <3>. QED
        BY <2>1, <2>4, <3>2, <3>3 DEF UnderWay
    <2>5. ASSUME NEW m \in outbox, outbox' = outbox \ {m}, failed' = failed \cup {m[1]},
                 UNCHANGED <<scored, unscored, scores>>
          PROVE  UnderWay(t)' \/ t \in failed'
      BY <2>1, <2>5 DEF UnderWay
    <2>. QED
      BY <1>5, <2>2, <2>3, <2>4, <2>5 DEF Detects
  <1>6. CASE Settles
    <2>1. UNCHANGED <<topic, scored, unscored, outbox, scores>>
      BY <1>6 DEF Settles, gateway
    <2>2. ASSUME NEW i \in DOMAIN scores, processed' = processed \cup {i},
                 Honoured(scores[i][1], scores[i][2]), UNCHANGED abandoned
          PROVE  UnderWay(t)' \/ t \in failed'
      <3>1. scores[i][1] \in Txns
        BY <1>1, Records
      <3>2. status[t] = "PENDING" /\ (t = scores[i][1] => t \in failed')
        BY <1>1, <1>2, <2>2, <3>1 DEF Honoured, L!Settle, L!Decline, tables, TypeOK
      <3>3. failed \subseteq failed'
        BY <2>2 DEF Honoured
      <3>4. UnderWay(t) \/ t \in failed
        BY <1>1, <1>2, <2>1, <3>2
      <3>. QED
        BY <2>1, <2>2, <3>2, <3>3, <3>4 DEF UnderWay
    <2>3. ASSUME NEW i \in DOMAIN scores, abandoned' = abandoned \cup {i},
                 failed' = failed \cup {scores[i][1]}, UNCHANGED <<tables, processed>>
          PROVE  UnderWay(t)' \/ t \in failed'
      <3>1. UnderWay(t) \/ t \in failed
        BY <1>1, <1>2, <2>1, <2>3 DEF tables
      <3>. QED
        BY <2>1, <2>3, <3>1 DEF UnderWay
    <2>. QED
      BY <1>6, <2>2, <2>3 DEF Settles
  <1>. QED
    BY <1>3, <1>4, <1>5, <1>6, Kinds

-----------------------------------------------------------------------------
(***************************************************************************)
(* The invariant, and the theorems.                                        *)
(***************************************************************************)

LEMMA InitInv == Init => PipeInv
  <1>. SUFFICES ASSUME Init PROVE PipeInv
    OBVIOUS
  <1>. USE DEF Init, L!Init, G!Init
  <1>1. TypeOK
    BY OpeningAssumption DEF TypeOK, Status, G!Points, G!Answers
  <1>2. HandOK /\ IdsAreNew /\ AcceptedIsPublished
    BY DEF HandOK, IdsAreNew, AcceptedIsPublished
  <1>3. EachHasItsOrigin /\ PublishedAreUnderWay
    BY DEF EachHasItsOrigin, PublishedAreUnderWay, Occurs, IsSettled, RowsOf
  <1>. QED
    BY <1>1, <1>2, <1>3 DEF PipeInv

(***************************************************************************)
(* Every state of the pipeline satisfies the invariant.                    *)
(***************************************************************************)
THEOREM PipelineInvariance == Spec => []PipeInv
  <1>1. PipeInv /\ [Next]_vars => PipeInv'
    BY TypeStep, HandStep, IdsStep, AcceptedStep, OriginStep, UnderWayStep DEF PipeInv
  <1>. QED
    BY <1>1, InitInv, PTL DEF Spec

(***************************************************************************)
(* The types, for every length of the topics.                              *)
(***************************************************************************)
THEOREM PipelineTypes == Spec => []TypeOK
  <1>1. PipeInv => TypeOK
    BY DEF PipeInv
  <1>. QED
    BY <1>1, PipelineInvariance, PTL

(***************************************************************************)
(* A client that is told 202 has a row and a message on the topic          *)
(* (main.py 233 to 275).                                                   *)
(***************************************************************************)
THEOREM AcceptedPublished == Spec => []AcceptedIsPublished
  <1>1. PipeInv => AcceptedIsPublished
    BY DEF PipeInv
  <1>. QED
    BY <1>1, PipelineInvariance, PTL

(***************************************************************************)
(* No message without a row, no decision without a message, no verdict or  *)
(* settlement without a decision that asks for it.                         *)
(***************************************************************************)
THEOREM OriginsExist == Spec => []EachHasItsOrigin
  <1>1. PipeInv => EachHasItsOrigin
    BY DEF PipeInv
  <1>. QED
    BY <1>1, PipelineInvariance, PTL

(***************************************************************************)
(* What a client is told when it polls never goes back to "unknown", nor   *)
(* from a verdict to PENDING (main.py 289 to 318).                         *)
(***************************************************************************)
THEOREM PollsNeverGoBack == Spec => PollsGoForward
  <1>1. ASSUME PipeInv, [Next]_vars, NEW t \in Txns
        PROVE  /\ status[t] # "NONE" => status'[t] # "NONE"
               /\ status[t] \in {"APPROVED", "DECLINED"} => status'[t] # "PENDING"
    <2>1. status \in [Txns -> Status]
      BY <1>1 DEF PipeInv, TypeOK
    <2>2. status[t] # "NONE" => status'[t] # "NONE"
      BY <1>1, NothingDisappears
    <2>3. CASE UNCHANGED status
      BY <2>2, <2>3
    <2>4. ASSUME NEW u \in Txns, Taken(u)
          PROVE  status[t] \in {"APPROVED", "DECLINED"} => status'[t] # "PENDING"
      BY <1>1, <2>1, <2>4, TakenIsNew DEF Taken
    <2>5. CASE Settles
      BY <1>1, <2>1, <2>5, Records DEF PipeInv, Settles, Honoured, L!Settle, L!Decline, tables
    <2>. QED
      BY <1>1, <2>2, <2>3, <2>4, <2>5, Kinds, GatewayRows DEF vars, tables, Detects
  <1>2. ASSUME PipeInv, [Next]_vars, NEW t \in Txns
        PROVE  /\ G!Polled(t) # "404" => (G!Polled(t))' # "404"
               /\ G!Polled(t) \in {"APPROVED", "DECLINED"} => (G!Polled(t))' # "PENDING"
    <2>1. status'[t] # "404"
      BY <1>2, TypeStep DEF TypeOK, Status
    <2>. QED
      BY <1>1, <1>2, <2>1 DEF G!Polled
  <1>3. PipeInv /\ [Next]_vars
           => [\A t \in Txns :
                  /\ G!Polled(t) # "404" => (G!Polled(t))' # "404"
                  /\ G!Polled(t) \in {"APPROVED", "DECLINED"}
                        => (G!Polled(t))' # "PENDING"]_vars
    BY <1>2
  <1>. QED
    BY <1>3, PipelineInvariance, PTL DEF Spec, PollsGoForward

(***************************************************************************)
(* An accepted transaction that is PENDING is waiting for a worker, unless *)
(* it has met an ERROR, a lost decision or an interrupt: "never lose a     *)
(* transaction" with the exceptions the code makes.                        *)
(***************************************************************************)
THEOREM NothingStranded == Spec => []AcceptedAreUnderWay
  <1>1. PipeInv => AcceptedAreUnderWay
    <2>1. ASSUME AcceptedIsPublished, PublishedAreUnderWay
          PROVE  AcceptedAreUnderWay
      BY <2>1 DEF AcceptedIsPublished, PublishedAreUnderWay, AcceptedAreUnderWay, G!Polled
    <2>. QED
      BY <2>1 DEF PipeInv
  <1>. QED
    BY <1>1, PipelineInvariance, PTL

-----------------------------------------------------------------------------
(***************************************************************************)
(* Composition: the tables behave as Ledger says, and each group of        *)
(* workers handles its topic as Delivery says.                             *)
(***************************************************************************)

LEMMA DetectionStep == PipeInv /\ [Next]_vars => [F!Next]_(F!vars)
  <1>. SUFFICES ASSUME PipeInv, [Next]_vars PROVE [F!Next]_(F!vars)
    OBVIOUS
  <1>. USE DEF F!vars, detection, gateway
  <1>1. CASE UNCHANGED vars
    BY <1>1 DEF vars
  <1>2. CASE Gateway
    <2>1. \A r \in Replicas : buffer[r] \subseteq Txns
      BY DEF PipeInv, TypeOK
    <2>. QED
      BY <1>2, <2>1, GatewayTopic DEF Gateway, F!Next, F!Publish
  <1>3. ASSUME NEW i \in DOMAIN topic, Score(i) PROVE F!Next
    BY <1>3 DEF Score, F!Next
  <1>4. ASSUME NEW i \in DOMAIN topic, SkipTransaction(i) PROVE F!Next
    BY <1>4 DEF SkipTransaction, F!Next
  <1>5. ASSUME NEW m \in outbox, SendDecision(m) \/ LoseDecision(m) PROVE UNCHANGED F!vars
    BY <1>5 DEF SendDecision, LoseDecision
  <1>6. ASSUME NEW i \in DOMAIN scores, Settle(i) \/ SkipDecision(i) PROVE UNCHANGED F!vars
    BY <1>6 DEF Settle, SkipDecision
  <1>. QED
    BY <1>1, <1>2, <1>3, <1>4, <1>5, <1>6 DEF Next

LEMMA SettlingStep == PipeInv /\ [Next]_vars => [S!Next]_(S!vars)
  <1>. SUFFICES ASSUME PipeInv, [Next]_vars PROVE [S!Next]_(S!vars)
    OBVIOUS
  <1>. USE DEF S!vars, settlement
  <1>1. CASE UNCHANGED vars \/ Gateway
    BY <1>1 DEF vars, Gateway
  <1>2. ASSUME NEW i \in DOMAIN topic, Score(i) \/ SkipTransaction(i) PROVE UNCHANGED S!vars
    BY <1>2 DEF Score, SkipTransaction
  <1>3. ASSUME NEW m \in outbox, SendDecision(m) PROVE S!Next
    <2>1. m \in Decisions
      BY DEF PipeInv, TypeOK
    <2>. QED
      BY <1>3, <2>1 DEF SendDecision, S!Next, S!Publish
  <1>4. ASSUME NEW m \in outbox, LoseDecision(m) PROVE UNCHANGED S!vars
    BY <1>4 DEF LoseDecision
  <1>5. ASSUME NEW i \in DOMAIN scores, Settle(i) PROVE S!Next
    BY <1>5 DEF Settle, S!Next
  <1>6. ASSUME NEW i \in DOMAIN scores, SkipDecision(i) PROVE S!Next
    BY <1>6 DEF SkipDecision, S!Next
  <1>. QED
    BY <1>1, <1>2, <1>3, <1>4, <1>5, <1>6 DEF Next

(***************************************************************************)
(* So what is proved of Ledger and of Delivery is true of the pipeline.    *)
(* That the rows inserted by the gateway are steps of the ledger rests on  *)
(* the ids being new (main.py 207).                                        *)
(***************************************************************************)
THEOREM PartsImplemented == Spec => L!Spec /\ F!Spec /\ S!Spec
  <1>1. Init => L!Init /\ F!Init /\ S!Init
    BY DEF Init, G!Init, F!Init, S!Init
  <1>2. PipeInv /\ [Next]_vars => [L!Next]_(L!vars)
    BY LedgerStep
  <1>. QED
    BY <1>1, <1>2, DetectionStep, SettlingStep, PipelineInvariance, PTL
       DEF Spec, L!Spec, F!Spec, S!Spec

(***************************************************************************)
(* Whatever the gateway, the topics and both groups of workers do, the     *)
(* accounts of the pipeline are those that its settlements make, no        *)
(* transaction is settled twice, and a settled one has a verdict.          *)
(***************************************************************************)
THEOREM PipelineLedgerSafe == Spec => []LP!LedgerInv
  <1>1. Spec => LP!Spec
    BY PartsImplemented, SameLedger
  <1>2. LP!Spec => []LP!LedgerInv
    BY LP!LedgerIsSafe, LedgerAssumes, PartiesAssumption, AmountAssumption
  <1>. QED
    BY <1>1, <1>2

(***************************************************************************)
(* From the request to the verdict no cent is made or lost.                *)
(***************************************************************************)
THEOREM PipelineKeepsMoney ==
  ASSUME IsFiniteSet(Parties)
  PROVE  Spec => []LP!MoneyAccountedFor
  <1>1. Spec => LP!Spec
    BY PartsImplemented, SameLedger
  <1>2. LP!IsFiniteSet(Parties)
    BY DEF LP!IsFiniteSet, IsFiniteSet
  <1>3. LP!Spec => []LP!MoneyAccountedFor
    BY <1>2, LP!LedgerKeepsMoney, LedgerAssumes, PartiesAssumption, AmountAssumption
  <1>. QED
    BY <1>1, <1>3

-----------------------------------------------------------------------------
(***************************************************************************)
(* "Never lose a transaction" (ARCHITECTURE 16): what has to be assumed    *)
(* for an accepted transaction that is PENDING to be on its way, with no   *)
(* exception.  Four things answer ERROR or lose a record without putting   *)
(* it right: faults, want of money, the payments of newcomers, and         *)
(* payments in a circle (settlement.py 122, 265, 307, 315).                *)
(***************************************************************************)

NoFaults == Faults \cap {"crash", "database", "broker", "interrupt"} = {}

\* Everybody can pay at first for all its transactions.
AllCovered == \A p \in Parties : LP!Covered(p)

\* Everybody has an account at first.
AllOpened == \A p \in Parties : HasRow(Opening[p])

\* Nobody who is paid in one transaction pays in another.
NoCrossing == \A t, u \in Txns : t # u => Payee[t] # Payer[u]

FailedAreSettled == \A t \in failed : IsSettled(settlements, t)

\* Then no payment conflicts with another.
LEMMA NoConflicts ==
  ASSUME NoCrossing, LP!RowsStay, AllOpened, NEW t \in Txns
  PROVE  ~MayDeadlock(t) /\ ~MayFindRow(t)
  <1>1. Rivals(t) \subseteq Txns
    BY DEF Rivals
  <1>2. ASSUME MayDeadlock(t) PROVE FALSE
    <2>1. PICK C \in {R \cup {t} : R \in SUBSET Rivals(t)} :
             /\ \A u \in C : Payer[u] # Payee[u]
             /\ {Payer[u] : u \in C} = {Payee[u] : u \in C}
      BY <1>2 DEF MayDeadlock
    <2>2. t \in C /\ C \subseteq Txns
      BY <1>1, <2>1
    <2>3. PICK u \in C : Payer[u] = Payee[t]
      BY <2>1, <2>2
    <2>. QED
      BY <2>1, <2>2, <2>3 DEF NoCrossing
  <1>3. \A p \in Parties : HasRow(account[p])
    BY DEF LP!RowsStay, LP!HasRow, HasRow, AllOpened
  <1>. QED
    BY <1>2, <1>3, PartiesAssumption DEF MayFindRow

LEMMA SettledStays ==
  ASSUME PipeInv, [Next]_vars, NEW t, IsSettled(settlements, t)
  PROVE  IsSettled(settlements', t)
  <1>1. settlements \in Seq(Rows)
    BY DEF PipeInv, TypeOK
  <1>2. ASSUME NEW u \in Txns, settlements' = Append(settlements, SettlementRow(u))
        PROVE  IsSettled(settlements', t)
    <2>1. SettlementRow(u) \in Rows
      BY DEF Rows
    <2>. QED
      BY <1>1, <1>2, <2>1, Grown DEF IsSettled, RowsOf
  <1>. QED
    BY <1>2, LedgerStep, SameRows DEF L!Next, L!vars, L!Submit, L!Settle, L!Decline

LEMMA FailsOnlyIfSettled ==
  ASSUME NoFaults, NoCrossing, AllOpened, PipeInv, LP!NobodyIsShort, LP!RowsStay,
         FailedAreSettled, [Next]_vars
  PROVE  FailedAreSettled'
  <1>1. \A kind \in {"crash", "database", "broker", "interrupt"} : ~G!Fault(kind)
    BY DEF NoFaults, G!Fault
  <1>2. \A t \in Txns : IsSettled(settlements, t) \/ account[Payer[t]].balance >= Amount[t]
    BY DEF LP!NobodyIsShort, LP!IsSettled, IsSettled, LP!RowsOf, RowsOf
  <1>3. ASSUME NEW i \in DOMAIN scores, Settle(i)
        PROVE  UNCHANGED failed \/ \E t \in Txns : /\ failed' = failed \cup {t}
                                                  /\ IsSettled(settlements, t)
    <2>. DEFINE t == scores[i][1]
    <2>1. t \in Txns
      BY Records DEF PipeInv
    <2>2. CASE UNCHANGED failed
      BY <2>2
    <2>3. CASE Fails(t, scores[i][2])
      <3>1. account[Payer[t]].balance \in Nat /\ Amount[t] \in Nat
        BY <2>1, PartiesAssumption, AmountAssumption DEF PipeInv, TypeOK, Account
      <3>2. IsSettled(settlements, t) \/ account[Payer[t]].balance < Amount[t]
        BY <1>1, <2>1, <2>3, NoConflicts DEF Fails
      <3>. QED
        BY <1>2, <2>1, <2>3, <3>1, <3>2 DEF Fails
    <2>. QED
      BY <1>3, <2>2, <2>3 DEF Settle
  <1>4. UNCHANGED failed \/ \E t \in Txns : /\ failed' = failed \cup {t}
                                           /\ IsSettled(settlements, t)
    BY <1>1, <1>3 DEF Next, vars, Gateway, Score, SkipTransaction, SendDecision, LoseDecision,
                      SkipDecision
  <1>. QED
    BY <1>4, SettledStays DEF FailedAreSettled

(***************************************************************************)
(* Without any of these an accepted transaction that is PENDING is always  *)
(* on its way: its message, its queued decision or its decision has yet to *)
(* be handled.                                                             *)
(***************************************************************************)
THEOREM NothingLostUndisturbed ==
  ASSUME IsFiniteSet(Txns), NoFaults, AllCovered, AllOpened, NoCrossing
  PROVE  Spec => [](\A t \in Txns :
                       answer[t] = "202" /\ G!Polled(t) = "PENDING" => UnderWay(t))
  <1>. DEFINE Kept == \A t \in Txns :
                         answer[t] = "202" /\ G!Polled(t) = "PENDING" => UnderWay(t)
              Rich == LP!LedgerInv /\ LP!DuesStayCovered /\ LP!RowsStay
  <1>1. Spec => []Rich
    <2>1. Spec => LP!Spec
      BY PartsImplemented, SameLedger
    <2>2. LP!IsFiniteSet(Txns)
      BY DEF LP!IsFiniteSet, IsFiniteSet
    <2>3. LP!Spec => []LP!DuesStayCovered
      BY <2>2, LP!LedgerCoversDues, LedgerAssumes, PartiesAssumption, AmountAssumption
    <2>4. LP!Spec => []LP!RowsStay
      BY LP!LedgerKeepsRows, LedgerAssumes, PartiesAssumption, AmountAssumption
    <2>. QED
      BY <2>1, <2>3, <2>4, PipelineLedgerSafe, PTL
  <1>2. Rich => LP!NobodyIsShort /\ LP!RowsStay
    <2>1. LP!IsFiniteSet(Txns)
      BY DEF LP!IsFiniteSet, IsFiniteSet
    <2>. QED
      BY <2>1, LP!CoveredIsEnough, LedgerAssumes, PartiesAssumption, AmountAssumption
         DEF AllCovered, LP!LedgerInv
  <1>3. Init => FailedAreSettled
    BY DEF Init, FailedAreSettled
  <1>4. PipeInv /\ Rich /\ FailedAreSettled /\ [Next]_vars => FailedAreSettled'
    BY <1>2, FailsOnlyIfSettled
  <1>5. PipeInv /\ Rich /\ FailedAreSettled => Kept
    <2>. SUFFICES ASSUME PipeInv, Rich, FailedAreSettled, NEW t \in Txns,
                         answer[t] = "202", G!Polled(t) = "PENDING"
                  PROVE  UnderWay(t)
      OBVIOUS
    <2>1. status[t] = "PENDING"
      BY DEF G!Polled
    <2>2. UnderWay(t) \/ t \in failed
      BY <2>1 DEF PipeInv, AcceptedIsPublished, PublishedAreUnderWay
    <2>3. ~IsSettled(settlements, t)
      BY <2>1 DEF LP!LedgerInv, LP!VerdictsAndSettlements, LP!IsSettled, IsSettled,
                  LP!RowsOf, RowsOf
    <2>. QED
      BY <2>2, <2>3 DEF FailedAreSettled
  <1>. HIDE DEF Kept, Rich
  <1>6. Spec => []Kept
    BY <1>1, <1>3, <1>4, <1>5, PipelineInvariance, PTL DEF Spec
  <1>. QED
    BY <1>6 DEF Kept
=============================================================================
