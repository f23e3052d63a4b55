------------------------------ MODULE Pipeline ------------------------------
(***************************************************************************)
(* A payment from the request to the verdict: the gateway, the two topics, *)
(* the fraud workers and the settlement workers.                           *)
(*                                                                         *)
(* The gateway is module Gateway.  Each group of workers is an instance of *)
(* Delivery, which SettlementConsumer implements; the run loop of the      *)
(* fraud workers has the same shape.  What a settlement does to the tables *)
(* is a step of Ledger, which Settlement implements.  The verdict of the   *)
(* fraud detector is any of the two here, each time the message is scored. *)
(* A client and a user never have two payments in one partition unless     *)
(* they have the same payer, and decisions only if they are about the same *)
(* transaction: topics with fewer partitions allow less.                   *)
(***************************************************************************)
EXTENDS Payments, FiniteSets

CONSTANTS
    NoTxn, PurchaseOf, Replicas, MaxTopic,      \* as in Gateway
    MaxScores,      \* bound: decisions up to which a message is scored again
    Faults,         \* those of Gateway, for all the processes, and "interrupt"
    MaxFaults       \* as in Gateway

ASSUME NoTxnAssumption == NoTxn \notin Txns
ASSUME BoundsAssumption == MaxTopic \in Nat /\ MaxScores \in Nat /\ MaxFaults \in Nat

VARIABLES
    account, status, settlements,       \* the tables, as in Ledger
    pc, hand, buffer, topic, answer, faults,    \* as in Gateway
    scored, unscored,       \* offsets of topic: handled and skipped
    outbox,                 \* decisions queued in the fraud workers' producers
    scores,                 \* the fraud-scores topic
    processed, abandoned,   \* offsets of scores: handled and skipped
    failed                  \* history: transactions to which an ERROR, a lost
                            \* decision or an interrupt has happened

tables     == <<account, status, settlements>>
gateway    == <<pc, hand, buffer, topic, answer>>
detection  == <<scored, unscored, outbox>>
settlement == <<processed, abandoned>>
vars       == <<tables, gateway, faults, detection, scores, settlement, failed>>

Decisions == Txns \X {"APPROVE", "DECLINE"}

G == INSTANCE Gateway
L == INSTANCE Ledger
F == INSTANCE Delivery WITH
        Records <- Txns, Partition <- Payer,
        log <- topic, done <- scored, skipped <- unscored
S == INSTANCE Delivery WITH
        Records <- Decisions, Partition <- [m \in Decisions |-> m[1]],
        log <- scores, done <- processed, skipped <- abandoned

Init ==
    /\ L!Init
    /\ G!Init
    /\ scored = {} /\ unscored = {} /\ outbox = {}
    /\ scores = <<>>
    /\ processed = {} /\ abandoned = {}
    /\ failed = {}

-----------------------------------------------------------------------------
\* WHO: the gateway, its producers and its clients.
Gateway ==
    /\ G!Next
    /\ UNCHANGED <<account, settlements, detection, scores, settlement, failed>>

-----------------------------------------------------------------------------
(***************************************************************************)
(* WHO: the fraud workers.                                                 *)
(***************************************************************************)

\* MUTANT of Score: an exception in process_transaction is only logged.
ScoreOrGiveUp(i) ==
    /\ F!Handle(i)
    /\ i \in scored => Len(scores) + Cardinality(outbox) < MaxScores
    /\ \/ \E d \in {"APPROVE", "DECLINE"} : outbox' = outbox \cup {<<topic[i], d>>}
       \/ UNCHANGED outbox
    /\ UNCHANGED <<tables, pc, hand, buffer, answer, faults, scores, settlement, failed>>

\* process_transaction decides, whatever happens to it, and
\* publish_fraud_score queues the decision.
Score(i) ==
    /\ F!Handle(i)
    /\ i \in scored => Len(scores) + Cardinality(outbox) < MaxScores
    /\ \E d \in {"APPROVE", "DECLINE"} : outbox' = outbox \cup {<<topic[i], d>>}
    /\ UNCHANGED <<tables, pc, hand, buffer, answer, faults, scores, settlement, failed>>

\* Ctrl+C before the decision of the record in hand is queued.
SkipTransaction(i) ==
    /\ G!Fault("interrupt")
    /\ i \notin scored
    /\ F!Skip(i)
    /\ failed' = failed \cup {topic[i]}
    /\ UNCHANGED <<tables, pc, hand, buffer, answer, outbox, scores, settlement>>

\* The thread of the producer.
SendDecision(m) ==
    /\ m \in outbox
    /\ outbox' = outbox \ {m}
    /\ scores' = Append(scores, m)
    /\ UNCHANGED <<tables, gateway, faults, scored, unscored, settlement, failed>>

\* The broker refuses it, with no retries, or the worker is killed.
LoseDecision(m) ==
    /\ G!Fault("broker") \/ G!Fault("crash")
    /\ m \in outbox
    /\ outbox' = outbox \ {m}
    /\ failed' = failed \cup {m[1]}
    /\ UNCHANGED <<tables, gateway, scored, unscored, scores, settlement>>

-----------------------------------------------------------------------------
(***************************************************************************)
(* WHO: the settlement workers.                                            *)
(***************************************************************************)

\* The other payments that workers may be settling while one settles t.
Rivals(t) ==
    {u \in Txns \ {t} : \E j \in DOMAIN scores :
                            scores[j] = <<u, "APPROVE">> /\ S!InTurn(j)}

\* t and rivals of it form a circle, in which each has its payer's row and
\* waits for its payee's, and PostgreSQL aborts t.
MayDeadlock(t) ==
    \E C \in {R \cup {t} : R \in SUBSET Rivals(t)} :
        /\ \A u \in C : Payer[u] # Payee[u]
        /\ \A u, v \in C : Payer[u] = Payer[v] => u = v
        /\ {Payer[u] : u \in C} = {Payee[u] : u \in C}

\* A rival inserts the row of a newcomer that t was about to insert.
MayFindRow(t) ==
    \E u \in Rivals(t) : \E p \in {Payer[t], Payee[t]} \cap {Payer[u], Payee[u]} :
        ~HasRow(account[p])

(***************************************************************************)
(* settle_transaction answers ERROR.  With no fault at all: because the    *)
(* transaction is settled already, because the payer is short of money, or *)
(* because of a conflict with another payment, which nobody tries again;   *)
(* that ERROR is placed before what the other payment commits.  Otherwise  *)
(* because a statement has failed or the connection is lost.               *)
(***************************************************************************)
Fails(t, d) ==
    /\ \/ /\ d = "APPROVE"
          /\ \/ IsSettled(settlements, t)
             \/ account[Payer[t]].balance < Amount[t]
             \/ MayDeadlock(t)
             \/ MayFindRow(t)
          /\ UNCHANGED faults
       \/ G!Fault("database")
    /\ UNCHANGED tables
    /\ failed' = failed \cup {t}

\* MUTANT of Settle: a decline is reported and not written.
SettleApproved(i) ==
    /\ S!Handle(i)
    /\ LET t == scores[i][1]
           d == scores[i][2]
       IN  \/ d = "APPROVE" /\ L!Settle(t) /\ UNCHANGED <<failed, faults>>
           \/ d = "DECLINE" /\ UNCHANGED <<tables, failed, faults>>
           \/ Fails(t, d)
    /\ UNCHANGED <<gateway, detection>>

Settle(i) ==
    /\ S!Handle(i)
    /\ LET t == scores[i][1]
           d == scores[i][2]
       IN  \/ d = "APPROVE" /\ L!Settle(t) /\ UNCHANGED <<failed, faults>>
           \/ d = "DECLINE" /\ L!Decline(t) /\ UNCHANGED <<failed, faults>>
           \/ Fails(t, d)
    /\ UNCHANGED <<gateway, detection>>

\* Ctrl+C with the decision in hand.
SkipDecision(i) ==
    /\ G!Fault("interrupt")
    /\ i \notin processed
    /\ S!Skip(i)
    /\ failed' = failed \cup {scores[i][1]}
    /\ UNCHANGED <<tables, gateway, detection>>

-----------------------------------------------------------------------------
Next ==
    \/ Gateway
    \/ \E i \in DOMAIN topic : Score(i) \/ SkipTransaction(i)
    \/ \E m \in outbox : SendDecision(m) \/ LoseDecision(m)
    \/ \E i \in DOMAIN scores : Settle(i) \/ SkipDecision(i)

Spec == Init /\ [][Next]_vars

(***************************************************************************)
(* The gateway goes on with the request it works on, and waits no longer   *)
(* than ten seconds; nothing is assumed of its producer.  The workers are  *)
(* fair as SettlementConsumer shows: some record that has had no turn gets *)
(* it.  Their producers send what is queued, or give it up.                *)
(***************************************************************************)
Fairness ==
    /\ WF_vars(/\ \E r \in Replicas :
                      G!Publish(r) \/ G!Accept(r) \/ G!Reject(r) \/ G!TimeOut(r)
               /\ UNCHANGED <<account, settlements, detection, scores, settlement, failed>>)
    /\ WF_vars(\E i \in DOMAIN topic \ (scored \cup unscored) :
                  Score(i) \/ SkipTransaction(i))
    /\ WF_vars(\E m \in outbox : SendDecision(m) \/ LoseDecision(m))
    /\ WF_vars(\E i \in DOMAIN scores \ (processed \cup abandoned) :
                  Settle(i) \/ SkipDecision(i))

FairSpec == Spec /\ Fairness

-----------------------------------------------------------------------------
Occurs(t, log) == \E i \in DOMAIN log : log[i] = t

\* Something of t has yet to be handled.
UnderWay(t) ==
    \/ \E i \in DOMAIN topic \ (scored \cup unscored) : topic[i] = t
    \/ \E m \in outbox : m[1] = t
    \/ \E i \in DOMAIN scores \ (processed \cup abandoned) : scores[i][1] = t

(***************************************************************************)
(* Every variable has its type; only what is on a topic has been handled.  *)
(***************************************************************************)
TypeOK ==
    /\ account \in [Parties -> Account]
    /\ status \in [Txns -> Status]
    /\ settlements \in Seq(Rows)
    /\ pc \in [Replicas -> G!Points]
    /\ hand \in [Replicas -> Txns \cup {NoTxn}]
    /\ buffer \in [Replicas -> SUBSET Txns]
    /\ topic \in Seq(Txns)
    /\ answer \in [Txns -> G!Answers]
    /\ scored \subseteq DOMAIN topic /\ unscored \subseteq DOMAIN topic
    /\ outbox \subseteq Decisions
    /\ scores \in Seq(Decisions)
    /\ processed \subseteq DOMAIN scores /\ abandoned \subseteq DOMAIN scores
    /\ failed \subseteq Txns

(***************************************************************************)
(* A client that was told 202 has a transaction that GET finds and that is *)
(* on the transactions topic, however the wait for the acknowledgement,    *)
(* the producer's retries and the crashes of the gateway interleave        *)
(* (main.py 233 to 275, kafka_producer.py 94 to 112).                      *)
(***************************************************************************)
AcceptedIsPublished ==
    \A t \in Txns : answer[t] = "202" => G!Polled(t) # "404" /\ Occurs(t, topic)

(***************************************************************************)
(* Each step of a payment has the one before it for its cause: the row is  *)
(* durable before the message leaves (main.py 235, 260), a decision is     *)
(* about a message, and a settlement or a verdict follows a decision.      *)
(***************************************************************************)
EachHasItsOrigin ==
    /\ \A t \in Txns :
          (Occurs(t, topic) \/ \E r \in Replicas : t \in buffer[r]) => status[t] # "NONE"
    /\ \A m \in Decisions : m \in outbox \/ Occurs(m, scores) => Occurs(m[1], topic)
    /\ \A t \in Txns :
          /\ IsSettled(settlements, t) \/ status[t] = "APPROVED"
                => Occurs(<<t, "APPROVE">>, scores)
          /\ status[t] = "DECLINED" => Occurs(<<t, "DECLINE">>, scores)

(***************************************************************************)
(* ARCHITECTURE 16, "Never lose a transaction": one that was accepted and  *)
(* is still PENDING is on one of the topics, to be handled, or queued for  *)
(* it; unless a call has answered ERROR, a producer has lost its decision  *)
(* or a worker was interrupted, which nothing in the code makes good.      *)
(***************************************************************************)
AcceptedAreUnderWay ==
    \A t \in Txns :
        answer[t] = "202" /\ G!Polled(t) = "PENDING" => UnderWay(t) \/ t \in failed

(***************************************************************************)
(* A client that polls sees "unknown", PENDING and a verdict, in this      *)
(* order: a row that was found is found again, and no request, retry or    *)
(* worker turns a verdict into PENDING (main.py 205 to 237, 303 to 312,    *)
(* settlement.py 84, 181).  The verdict itself may change.                 *)
(***************************************************************************)
PollsGoForward ==
    [][\A t \in Txns :
          /\ G!Polled(t) # "404" => (G!Polled(t))' # "404"
          /\ G!Polled(t) \in {"APPROVED", "DECLINED"} => (G!Polled(t))' # "PENDING"]_vars

(***************************************************************************)
(* Why these hold.  A request in hand has a row, and when its message is   *)
(* acknowledged it is on the topic; an id that no request has had has no   *)
(* row; and what AcceptedAreUnderWay says of the accepted is true of all   *)
(* that have been published.                                               *)
(***************************************************************************)
HandOK ==
    \A r \in Replicas :
        /\ pc[r] \in {"down", "serving"} <=> hand[r] = NoTxn
        /\ hand[r] # NoTxn => status[hand[r]] # "NONE"
        /\ pc[r] = "acked" => Occurs(hand[r], topic)

IdsAreNew ==
    \A t \in Txns :
        answer[t] = "none" /\ (\A r \in Replicas : hand[r] # t) => status[t] = "NONE"

PublishedAreUnderWay ==
    \A t \in Txns :
        Occurs(t, topic) /\ status[t] = "PENDING" => UnderWay(t) \/ t \in failed

PipeInv ==
    /\ TypeOK
    /\ HandOK
    /\ IdsAreNew
    /\ AcceptedIsPublished
    /\ EachHasItsOrigin
    /\ PublishedAreUnderWay

(***************************************************************************)
(* Every request is answered, although nothing is known of the broker:     *)
(* the wait for the acknowledgement ends (kafka_producer.py 103).          *)
(***************************************************************************)
RequestsAnswered ==
    \A t \in Txns : (\E r \in Replicas : hand[r] = t) ~> (answer[t] # "none")

(***************************************************************************)
(* A client that was told 202 and polls sees a verdict in the end, unless  *)
(* one of the things has happened that AcceptedAreUnderWay names.          *)
(***************************************************************************)
AcceptedAreDecided ==
    \A t \in Txns :
        answer[t] = "202" ~> (G!Polled(t) \in {"APPROVED", "DECLINED"} \/ t \in failed)

(***************************************************************************)
(* README 127, "UNIQUE(idempotency_key) prevents duplicate charges": when  *)
(* a client asks again after a failure, the purchase is charged once.  The *)
(* key is made by the gateway for each request (main.py 208), so the index *)
(* never sees one twice.                                                   *)
(***************************************************************************)
ChargedOnce ==
    \A t, u \in Txns :
        IsSettled(settlements, t) /\ IsSettled(settlements, u)
            /\ PurchaseOf[t] = PurchaseOf[u] => t = u
=============================================================================
