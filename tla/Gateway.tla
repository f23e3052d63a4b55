------------------------------- MODULE Gateway -------------------------------
(***************************************************************************)
(* The API gateway: create_transaction commits a row, queues a message for *)
(* the transactions topic and waits ten seconds for its acknowledgement.   *)
(*                                                                         *)
(* The handler never awaits, so each replica works on one request at a     *)
(* time.  A client that is not told 202 may ask again, for the same        *)
(* purchase; the gateway makes a new transaction of it, with a new id and  *)
(* a new idempotency key.  The producer (kafka-python 2.0.2) and the       *)
(* clients are external: a thread of the producer sends what is queued,    *)
(* in no fixed order when it retries, and appends a message again when the *)
(* acknowledgement was lost.                                               *)
(*                                                                         *)
(* KafkaProducer.connect names its own class where that of kafka-python is *)
(* meant, and so raises; it is modelled with the one it means.             *)
(***************************************************************************)
EXTENDS Naturals, Sequences, FiniteSets

CONSTANTS
    Txns,           \* transaction ids that requests may be given
    NoTxn,          \* what a replica without a request works on
    PurchaseOf,     \* what the client means to buy with the request
    Replicas,       \* the processes that serve the API
    MaxTopic,       \* bound: length of the topic up to which messages repeat
    Faults,         \* of "crash", "database", "broker", "impatience"
    MaxFaults       \* bound: how many of them happen

VARIABLES
    status,         \* Transaction.status
    pc,             \* where each replica is
    hand,           \* the transaction of the request it works on
    buffer,         \* the messages its producer has not got rid of
    topic,          \* the transactions topic
    answer,         \* what the client was told of each request
    faults          \* the number of faults so far

replicas == <<pc, hand, buffer>>
vars     == <<status, replicas, topic, answer, faults>>

\* "saved": the row is committed.  "waiting": in future.get, which returns
\* ("acked") or raises ("refused").
Points == {"down", "serving", "saved", "waiting", "acked", "refused"}

\* "lost": the client gave up, or lost its connection.
Answers == {"none", "202", "500", "lost"}

Init ==
    /\ status = [t \in Txns |-> "NONE"]
    /\ pc = [r \in Replicas |-> "down"]
    /\ hand = [r \in Replicas |-> NoTxn]
    /\ buffer = [r \in Replicas |-> {}]
    /\ topic = <<>>
    /\ answer = [t \in Txns |-> "none"]
    /\ faults = 0

Fault(kind) ==
    /\ kind \in Faults
    /\ faults < MaxFaults
    /\ faults' = faults + 1

-----------------------------------------------------------------------------
\* startup_event has created the tables and connected the producer.
Start(r) ==
    /\ pc[r] = "down"
    /\ pc' = [pc EXCEPT ![r] = "serving"]
    /\ UNCHANGED <<status, hand, buffer, topic, answer, faults>>

\* MUTANT of MayAsk: a client that asks again does so under the same id.
MayAskAgain(t) ==
    /\ answer[t] \in {"none", "500", "lost"}
    /\ \A r \in Replicas : hand[r] # t
    /\ \A u \in Txns \ {t} : PurchaseOf[u] = PurchaseOf[t] =>
          \/ answer[u] \in {"500", "lost"}
          \/ answer[u] = "none" /\ \A r \in Replicas : hand[r] # u

\* A client asks anew only when every request for the purchase has failed.
MayAsk(t) ==
    /\ answer[t] = "none"
    /\ \A r \in Replicas : hand[r] # t
    /\ \A u \in Txns \ {t} : PurchaseOf[u] = PurchaseOf[t] =>
          \/ answer[u] \in {"500", "lost"}
          \/ answer[u] = "none" /\ \A r \in Replicas : hand[r] # u

\* The client is told, if it still listens.
Told(t, what) ==
    answer' = IF answer[t] = "none" THEN [answer EXCEPT ![t] = what] ELSE answer

\* The replica is done with the request it works on.
Respond(r, what) ==
    /\ Told(hand[r], what)
    /\ pc' = [pc EXCEPT ![r] = "serving"]
    /\ hand' = [hand EXCEPT ![r] = NoTxn]

\* MUTANT of RowSaved: the session adds the row and does not commit it.
RowAdded(t) == UNCHANGED status

RowSaved(t) == status' = [status EXCEPT ![t] = "PENDING"]

Save(r, t) ==
    /\ pc[r] = "serving"
    /\ MayAsk(t)
    /\ RowSaved(t)
    /\ pc' = [pc EXCEPT ![r] = "saved"]
    /\ hand' = [hand EXCEPT ![r] = t]
    /\ UNCHANGED <<buffer, topic, answer, faults>>

\* The INSERT or the COMMIT fails.
RefuseSave(r, t) ==
    /\ Fault("database")
    /\ pc[r] = "serving"
    /\ MayAsk(t)
    /\ Told(t, "500")
    /\ UNCHANGED <<status, replicas, topic>>

\* The row is durable, and the COMMIT or the refresh after it raises.
UnackedSave(r, t) ==
    /\ Fault("database")
    /\ pc[r] = "serving"
    /\ MayAsk(t)
    /\ RowSaved(t)
    /\ Told(t, "500")
    /\ UNCHANGED <<replicas, topic>>

\* MUTANT of Publish: the answer does not wait for the acknowledgement.
PublishOnly(r) ==
    /\ pc[r] = "saved"
    /\ buffer' = [buffer EXCEPT ![r] = @ \cup {hand[r]}]
    /\ pc' = [pc EXCEPT ![r] = "acked"]
    /\ UNCHANGED <<status, hand, topic, answer, faults>>

\* send() queues the message.
Publish(r) ==
    /\ pc[r] = "saved"
    /\ buffer' = [buffer EXCEPT ![r] = @ \cup {hand[r]}]
    /\ pc' = [pc EXCEPT ![r] = "waiting"]
    /\ UNCHANGED <<status, hand, topic, answer, faults>>

\* send() raises: no metadata of the topic, or no room in the buffer.
RefusePublish(r) ==
    /\ Fault("broker")
    /\ pc[r] = "saved"
    /\ Respond(r, "500")
    /\ UNCHANGED <<status, buffer, topic>>

Accept(r) ==
    /\ pc[r] = "acked"
    /\ Respond(r, "202")
    /\ UNCHANGED <<status, buffer, topic, faults>>

\* The send has failed.
Reject(r) ==
    /\ pc[r] = "refused"
    /\ Respond(r, "500")
    /\ UNCHANGED <<status, buffer, topic, faults>>

\* MUTANT of TimeOut: the wait has no timeout.
NeverTimeOut(r) == FALSE /\ UNCHANGED vars

\* Ten seconds have passed; the message stays where it is.
TimeOut(r) ==
    /\ pc[r] = "waiting"
    /\ Respond(r, "500")
    /\ UNCHANGED <<status, buffer, topic, faults>>

-----------------------------------------------------------------------------
(***************************************************************************)
(* WHO: the thread of the producer.                                        *)
(***************************************************************************)

\* The future of message m is resolved.
Resolve(r, m, outcome) ==
    /\ buffer' = [buffer EXCEPT ![r] = @ \ {m}]
    /\ pc' = IF pc[r] = "waiting" /\ hand[r] = m THEN [pc EXCEPT ![r] = outcome] ELSE pc

Send(r) ==
    /\ \E m \in buffer[r] :
          /\ topic' = Append(topic, m)
          /\ Resolve(r, m, "acked")
    /\ UNCHANGED <<status, hand, answer, faults>>

\* The acknowledgement is lost: the message is appended and sent again.
SendUnacked(r) ==
    /\ Fault("broker")
    /\ Len(topic) < MaxTopic
    /\ \E m \in buffer[r] : topic' = Append(topic, m)
    /\ UNCHANGED <<status, replicas, answer>>

\* The retries are used up.
GiveUp(r) ==
    /\ Fault("broker")
    /\ \E m \in buffer[r] : Resolve(r, m, "refused")
    /\ UNCHANGED <<status, hand, topic, answer>>

-----------------------------------------------------------------------------
\* WHO: a client, tired of waiting.
Hang(t) ==
    /\ Fault("impatience")
    /\ answer[t] = "none"
    /\ \E r \in Replicas : hand[r] = t
    /\ answer' = [answer EXCEPT ![t] = "lost"]
    /\ UNCHANGED <<status, replicas, topic>>

\* SIGTERM: when the open request is finished, shutdown_event closes the
\* producer.  What flush cannot send in ten seconds goes with the process.
Stop(r) ==
    /\ pc[r] = "serving"
    /\ pc' = [pc EXCEPT ![r] = "down"]
    /\ buffer' = [buffer EXCEPT ![r] = {}]
    /\ UNCHANGED <<status, hand, topic, answer, faults>>

\* SIGKILL: also when a long wait has kept the health probe unanswered.
Crash(r) ==
    /\ Fault("crash")
    /\ pc[r] # "down"
    /\ pc' = [pc EXCEPT ![r] = "down"]
    /\ buffer' = [buffer EXCEPT ![r] = {}]
    /\ hand' = [hand EXCEPT ![r] = NoTxn]
    /\ IF hand[r] = NoTxn THEN UNCHANGED answer ELSE Told(hand[r], "lost")
    /\ UNCHANGED <<status, topic>>

-----------------------------------------------------------------------------
Handler(r) ==
    \/ \E t \in Txns : Save(r, t) \/ RefuseSave(r, t) \/ UnackedSave(r, t)
    \/ Publish(r) \/ RefusePublish(r)
    \/ Accept(r) \/ Reject(r) \/ TimeOut(r)

Producer(r) == Send(r) \/ SendUnacked(r) \/ GiveUp(r)

Next ==
    \/ \E r \in Replicas :
          Start(r) \/ Handler(r) \/ Producer(r) \/ Stop(r) \/ Crash(r)
    \/ \E t \in Txns : Hang(t)

Spec == Init /\ [][Next]_vars

\* get_transaction: what a client that asks for t is told.
Polled(t) == IF status[t] = "NONE" THEN "404" ELSE status[t]
=============================================================================
