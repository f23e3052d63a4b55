------------------------- MODULE SettlementConsumer -------------------------
(***************************************************************************)
(* The run loop of the settlement workers over one partition of the        *)
(* fraud-scores topic: what is fetched, when its offset is committed, when *)
(* it is settled and when the result leaves for the settlements topic.     *)
(* The database side of a call of settle_transaction is a step of Ledger,  *)
(* which module Settlement implements.                                     *)
(*                                                                         *)
(* The Kafka client (kafka-python 2.0.2) is external.  Iterating over a    *)
(* KafkaConsumer polls a batch and yields its records one by one, and      *)
(* moves the position past a record before yielding it.  Positions are     *)
(* committed by poll(), when the auto-commit timer has expired or the      *)
(* group rebalances, and by close(): never in the middle of a batch.       *)
(* KafkaProducer.send only queues a record; a thread sends it later, and   *)
(* with the default of no retries drops it if the broker refuses.          *)
(***************************************************************************)
EXTENDS Payments, FiniteSets

CONSTANTS
    Workers,        \* the settlement processes
    NoOne,          \* the owner of a partition that is assigned to nobody
    Deliverable,    \* the pairs <<transaction, decision>> that may be published
    MaxScores,      \* bound: records in the partition
    MaxLosses,      \* bound: how often the group loses a worker
    Faults          \* of "crash", "evict", "broker", "interrupt"

ASSUME NoWorkerAssumption == NoOne \notin Workers
ASSUME ScoresAssumption ==
    /\ Deliverable \subseteq Txns \X {"APPROVE", "DECLINE"}
    /\ MaxScores \in Nat
    /\ MaxLosses \in Nat

VARIABLES
    account, status, settlements,   \* the tables, as in Ledger
    scores,         \* the partition: pairs <<transaction, decision>>
    committed,      \* the group's committed offset: how many records it covers
    owner,          \* the worker to which the partition is assigned
    pc,             \* where each worker's run loop is
    position,       \* each consumer's position: records yielded so far
    fetched,        \* the end of the batch each consumer has in memory
    outbox,         \* results queued in each producer, by the decision's offset
    results,        \* the results on the settlements topic, likewise
    processed,      \* history: the offsets for which settle_transaction returned
    abandoned,      \* history: the offsets in hand when a worker was interrupted
    losses          \* crashes, evictions and interrupts so far

tables == <<account, status, settlements>>
kafka  == <<scores, committed, owner>>
loop   == <<pc, position, fetched>>
vars   == <<tables, kafka, loop, outbox, results, processed, abandoned, losses>>

L == INSTANCE Ledger

\* The partition as a topic of its own, without workers, offsets and batches.
D == INSTANCE Delivery WITH
        Records   <- Deliverable,
        Partition <- [m \in Deliverable |-> 1],
        log       <- scores,
        done      <- processed,
        skipped   <- abandoned

\* "loop": in the for statement.  "settling" and "publishing": in its body.
\* "closing": the consumer is closed, the producer not yet.
Points == {"down", "loop", "settling", "publishing", "closing"}

Init ==
    /\ L!Init
    /\ scores = <<>>
    /\ committed = 0
    /\ owner = NoOne
    /\ pc = [w \in Workers |-> "loop"]
    /\ position = [w \in Workers |-> 0]
    /\ fetched = [w \in Workers |-> 0]
    /\ outbox = [w \in Workers |-> {}]
    /\ results = {}
    /\ processed = {}
    /\ abandoned = {}
    /\ losses = 0

-----------------------------------------------------------------------------
\* WHO: the API gateway, which commits the row before it publishes.
Submit(t) ==
    /\ L!Submit(t)
    /\ UNCHANGED <<kafka, loop, outbox, results, processed, abandoned, losses>>

\* WHO: a fraud worker.  It may publish a decision again after a crash.
PublishScore(m) ==
    /\ Len(scores) < MaxScores
    /\ status[m[1]] # "NONE"
    /\ scores' = Append(scores, m)
    /\ UNCHANGED <<tables, committed, owner, loop, outbox, results, processed, abandoned, losses>>

-----------------------------------------------------------------------------
\* The worker has worked through its batch: the for statement calls poll().
Polling(w) == pc[w] = "loop" /\ position[w] = fetched[w]

\* MUTANT of Join: what the consumer has in memory is kept.
JoinKeepingBatch(w) ==
    /\ Polling(w)
    /\ owner = NoOne
    /\ owner' = w
    /\ position' = [position EXCEPT ![w] = committed]
    /\ UNCHANGED <<tables, scores, committed, pc, fetched, outbox, results,
                   processed, abandoned, losses>>

\* MUTANT of Join: auto_offset_reset='latest' and no committed offset used.
JoinAtLatest(w) ==
    /\ Polling(w)
    /\ owner = NoOne
    /\ owner' = w
    /\ position' = [position EXCEPT ![w] = Len(scores)]
    /\ fetched' = [fetched EXCEPT ![w] = Len(scores)]
    /\ UNCHANGED <<tables, scores, committed, pc, outbox, results, processed, abandoned, losses>>

\* WHO: poll().  The group assigns the free partition, to be read from the
\* committed offset; what the consumer has in memory is of no use any more.
Join(w) ==
    /\ Polling(w)
    /\ owner = NoOne
    /\ owner' = w
    /\ position' = [position EXCEPT ![w] = committed]
    /\ fetched' = [fetched EXCEPT ![w] = committed]
    /\ UNCHANGED <<tables, scores, committed, pc, outbox, results, processed, abandoned, losses>>

\* WHO: poll().  The group rebalances: the position is committed first.
Handover(w) ==
    /\ Polling(w)
    /\ owner = w
    /\ committed' = position[w]
    /\ owner' = NoOne
    /\ UNCHANGED <<tables, scores, loop, outbox, results, processed, abandoned, losses>>

\* MUTANT of AutoCommit: the timer commits in the middle of a batch.
AutoCommitInBatch(w) ==
    /\ owner = w
    /\ committed' = position[w]
    /\ UNCHANGED <<tables, scores, owner, loop, outbox, results, processed, abandoned, losses>>

\* WHO: poll().  The auto-commit timer has expired.
AutoCommit(w) ==
    /\ Polling(w)
    /\ owner = w
    /\ committed' = position[w]
    /\ UNCHANGED <<tables, scores, owner, loop, outbox, results, processed, abandoned, losses>>

\* MUTANT of Fetch: the batch is committed as soon as it is fetched.
FetchAndCommit(w) ==
    /\ Polling(w)
    /\ owner = w
    /\ \E end \in position[w] + 1 .. Len(scores) :
          /\ fetched' = [fetched EXCEPT ![w] = end]
          /\ committed' = end
    /\ UNCHANGED <<tables, scores, owner, pc, position, outbox, results,
                   processed, abandoned, losses>>

\* WHO: poll().  A batch is fetched, of max_poll_records or of any number less.
Fetch(w) ==
    /\ Polling(w)
    /\ owner = w
    /\ \E end \in position[w] + 1 .. Len(scores) : fetched' = [fetched EXCEPT ![w] = end]
    /\ UNCHANGED <<tables, kafka, pc, position, outbox, results, processed, abandoned, losses>>

\* WHO: the iterator, which moves the position and yields the record.
Yield(w) ==
    /\ pc[w] = "loop"
    /\ position[w] < fetched[w]
    /\ position' = [position EXCEPT ![w] = @ + 1]
    /\ pc' = [pc EXCEPT ![w] = "settling"]
    /\ UNCHANGED <<tables, kafka, fetched, outbox, results, processed, abandoned, losses>>

(***************************************************************************)
(* WHO: process_fraud_decision.  The call of settle_transaction does what  *)
(* Ledger allows, or nothing.  It answers SETTLED, DECLINED or ERROR; the  *)
(* loop does the same for each, so the answer is left out.                 *)
(***************************************************************************)
Settle(w) ==
    LET t == scores[position[w]][1]
        d == scores[position[w]][2]
    IN  /\ pc[w] = "settling"
        /\ \/ d = "APPROVE" /\ L!Settle(t)
           \/ d = "DECLINE" /\ L!Decline(t)
           \/ UNCHANGED tables
        /\ processed' = processed \cup {position[w]}
        /\ pc' = [pc EXCEPT ![w] = "publishing"]
        /\ UNCHANGED <<kafka, position, fetched, outbox, results, abandoned, losses>>

\* WHO: publish_settlement_result.
Publish(w) ==
    /\ pc[w] = "publishing"
    /\ outbox' = [outbox EXCEPT ![w] = @ \cup {position[w]}]
    /\ pc' = [pc EXCEPT ![w] = "loop"]
    /\ UNCHANGED <<tables, kafka, position, fetched, results, processed, abandoned, losses>>

\* WHO: the producer's thread.
SendResult(w) ==
    \E r \in outbox[w] :
        /\ outbox' = [outbox EXCEPT ![w] = @ \ {r}]
        /\ results' = results \cup {r}
        /\ UNCHANGED <<tables, kafka, loop, processed, abandoned, losses>>

-----------------------------------------------------------------------------
(***************************************************************************)
(* Faults.                                                                 *)
(***************************************************************************)

\* The broker refuses a result and the producer gives it up.
RefuseResult(w) ==
    /\ "broker" \in Faults
    /\ \E r \in outbox[w] : outbox' = [outbox EXCEPT ![w] = @ \ {r}]
    /\ UNCHANGED <<tables, kafka, loop, results, processed, abandoned, losses>>

\* A worker that has not polled for max_poll_interval_ms leaves the group.
\* It learns of it when it polls next, after the rest of its batch.
Evict(w) ==
    /\ "evict" \in Faults
    /\ losses < MaxLosses
    /\ losses' = losses + 1
    /\ owner = w
    /\ ~Polling(w)
    /\ owner' = NoOne
    /\ UNCHANGED <<tables, scores, committed, loop, outbox, results, processed, abandoned>>

\* The process forgets its positions.
Forget(w) ==
    /\ position' = [position EXCEPT ![w] = 0]
    /\ fetched' = [fetched EXCEPT ![w] = 0]

\* The group gives up a member that is gone.
LeaveGroup(w) == owner' = IF owner = w THEN NoOne ELSE owner

\* The process is killed: SIGTERM or SIGKILL, neither of which it handles.
Crash(w) ==
    /\ "crash" \in Faults
    /\ losses < MaxLosses
    /\ losses' = losses + 1
    /\ pc[w] # "down"
    /\ pc' = [pc EXCEPT ![w] = "down"]
    /\ Forget(w)
    /\ LeaveGroup(w)
    /\ outbox' = [outbox EXCEPT ![w] = {}]
    /\ UNCHANGED <<tables, scores, committed, results, processed, abandoned>>

\* MUTANT of Interrupt: close() commits although the partition was lost.
InterruptCommitting(w) ==
    /\ "interrupt" \in Faults
    /\ losses < MaxLosses
    /\ losses' = losses + 1
    /\ pc[w] \in {"loop", "settling", "publishing"}
    /\ committed' = position[w]
    /\ pc' = [pc EXCEPT ![w] = "closing"]
    /\ Forget(w)
    /\ LeaveGroup(w)
    /\ UNCHANGED <<tables, scores, outbox, results, processed, abandoned>>

\* Ctrl+C, wherever the loop is.  close() commits the position, which is past
\* the record in hand, if the worker is still in the group.
Interrupt(w) ==
    /\ "interrupt" \in Faults
    /\ losses < MaxLosses
    /\ losses' = losses + 1
    /\ pc[w] \in {"loop", "settling", "publishing"}
    /\ committed' = IF owner = w THEN position[w] ELSE committed
    /\ abandoned' = IF owner = w /\ pc[w] = "settling" THEN abandoned \cup {position[w]}
                                                     ELSE abandoned
    /\ pc' = [pc EXCEPT ![w] = "closing"]
    /\ Forget(w)
    /\ LeaveGroup(w)
    /\ UNCHANGED <<tables, scores, outbox, results, processed>>

\* close() goes on to close the producer, which first sends what is queued.
CloseProducer(w) ==
    /\ pc[w] = "closing"
    /\ outbox[w] = {}
    /\ pc' = [pc EXCEPT ![w] = "down"]
    /\ UNCHANGED <<tables, kafka, position, fetched, outbox, results,
                   processed, abandoned, losses>>

\* WHO: Kubernetes, or the operator.
Restart(w) ==
    /\ pc[w] = "down"
    /\ pc' = [pc EXCEPT ![w] = "loop"]
    /\ UNCHANGED <<tables, kafka, position, fetched, outbox, results,
                   processed, abandoned, losses>>

-----------------------------------------------------------------------------
Poll(w) == Join(w) \/ Handover(w) \/ AutoCommit(w) \/ Fetch(w)

Iterate(w) == Yield(w) \/ Settle(w) \/ Publish(w) \/ CloseProducer(w)

Next ==
    \/ \E t \in Txns : Submit(t)
    \/ \E m \in Deliverable : PublishScore(m)
    \/ \E w \in Workers :
          \/ Poll(w) \/ Iterate(w) \/ SendResult(w)
          \/ RefuseResult(w) \/ Evict(w) \/ Crash(w) \/ Interrupt(w) \/ Restart(w)

Spec == Init /\ [][Next]_vars

(***************************************************************************)
(* A process that runs goes on running (settle_transaction returns, which  *)
(* module Settlement checks), Kubernetes restarts one that has stopped,    *)
(* the group assigns a partition that is free, and the producer's thread   *)
(* sends what is queued.  Rebalances interrupt the fetching of a partition *)
(* that has records but cannot keep it off for ever, hence strong fairness.*)
(***************************************************************************)
Fairness ==
    /\ \A w \in Workers :
          /\ WF_vars(Yield(w)) /\ WF_vars(Settle(w)) /\ WF_vars(Publish(w))
          /\ WF_vars(CloseProducer(w)) /\ WF_vars(SendResult(w)) /\ WF_vars(Restart(w))
    /\ WF_vars(\E w \in Workers : Join(w))
    /\ SF_vars(\E w \in Workers : Fetch(w))

FairSpec == Spec /\ Fairness

-----------------------------------------------------------------------------
(***************************************************************************)
(* Every variable has its type; the committed offset and the positions     *)
(* stay within the partition.                                              *)
(***************************************************************************)
TypeOK ==
    /\ account \in [Parties -> Account]
    /\ status \in [Txns -> Status]
    /\ settlements \in Seq(Rows)
    /\ scores \in Seq(Deliverable)
    /\ committed \in 0 .. Len(scores)
    /\ owner \in Workers \cup {NoOne}
    /\ pc \in [Workers -> Points]
    /\ position \in [Workers -> 0 .. Len(scores)]
    /\ fetched \in [Workers -> 0 .. Len(scores)]
    /\ \A w \in Workers : position[w] <= fetched[w]
    /\ outbox \in [Workers -> SUBSET (1 .. Len(scores))]
    /\ results \subseteq 1 .. Len(scores)
    /\ processed \subseteq 1 .. Len(scores)
    /\ abandoned \subseteq 1 .. Len(scores)
    /\ losses \in 0 .. MaxLosses

(***************************************************************************)
(* A decision whose offset is committed has been processed, or was in hand *)
(* when an operator stopped its worker: no crash, eviction or rebalance    *)
(* makes the group skip one (ARCHITECTURE 878 to 882, settlement_consumer  *)
(* 160 to 178).                                                            *)
(***************************************************************************)
CommittedAccountedFor == 1 .. committed \subseteq processed \cup abandoned

(***************************************************************************)
(* No decision overtakes an earlier one of its partition: one is processed *)
(* for the first time only after all those before it.                      *)
(***************************************************************************)
NoneOvertaken == \A i \in processed : 1 .. i \subseteq processed \cup abandoned

(***************************************************************************)
(* The committed offset never goes back, although a worker that has lost   *)
(* its partition works on through its batch.                               *)
(***************************************************************************)
OffsetNeverGoesBack == [][committed' >= committed]_vars

(***************************************************************************)
(* The inductive invariant.  What makes a commit safe is not the batch but *)
(* the position: everything up to the position of a worker has had its     *)
(* turn, also when the worker has lost the partition, and while it has a   *)
(* record in hand, everything before that record.                          *)
(***************************************************************************)

\* All decisions up to n have had their turn.
Done(n) == 1 .. n \subseteq processed \cup abandoned

PositionOK(w) ==
    /\ pc[w] \in {"settling", "publishing"} => position[w] >= 1
    /\ Done(IF pc[w] = "settling" THEN position[w] - 1 ELSE position[w])
    /\ pc[w] \in {"down", "closing"} => position[w] = 0 /\ fetched[w] = 0

\* The owner of the partition has read on from the committed offset.
OwnerOK(w) ==
    owner = w => committed <= position[w] /\ pc[w] \notin {"down", "closing"}

LoopInv ==
    /\ TypeOK
    /\ CommittedAccountedFor
    /\ NoneOvertaken
    /\ \A i \in abandoned : Done(i)
    /\ \A w \in Workers : PositionOK(w) /\ OwnerOK(w)

(***************************************************************************)
(* The run loops of all the workers deliver: whatever is committed, lost,  *)
(* evicted or restarted, each step of theirs handles a decision in its     *)
(* turn, skips one in its turn, or is invisible.  The composition of the   *)
(* pipeline rests on it.                                                   *)
(***************************************************************************)
ImplementsDelivery == D!Spec

(***************************************************************************)
(* ARCHITECTURE 878 to 882: when a worker crashes another takes over and   *)
(* no decision is lost.  Every decision published is processed in the end, *)
(* or was in hand when an operator stopped a worker.                       *)
(***************************************************************************)
EveryDecisionProcessed ==
    \A i \in 1 .. MaxScores : (Len(scores) >= i) ~> (i \in processed \cup abandoned)

(***************************************************************************)
(* ARCHITECTURE 16, "Never lose a transaction": a decision whose offset is *)
(* committed has been processed.  Ctrl+C in the middle of a record makes   *)
(* close() commit past it (settlement_consumer.py 180 to 193).             *)
(***************************************************************************)
CommittedWereProcessed == 1 .. committed \subseteq processed
=============================================================================
