# Verification of the fintech payment system

TLA+ specifications of the payment system in this repository, the TLC runs that
check them on small instances, and theorems about them whose proofs TLAPS checks
for every instance. Paths below are relative to the repository root, so the
settlement service is `src/services/settlement.py`; a number after a path is a
line of that file.

## 1. The system

A payment goes through three processes that share a PostgreSQL database and talk
through Kafka topics:

    client -> API gateway -> [transactions] -> fraud worker -> [fraud-scores]
                  |                                                  |
                  v                                                  v
             PostgreSQL  <------------------------------  settlement worker -> [settlements]

| component | state it keeps | operations | hard because |
|---|---|---|---|
| API gateway (`src/api/main.py`, `src/api/kafka_producer.py`) | rows of `transactions`; messages queued in its producer | `create_transaction` commits a PENDING row, then publishes and waits at most 10 s; `get_transaction` reads the row; startup and shutdown | the commit and the publication are two steps; a message whose wait is over may still be sent; a retry of the client gets a new idempotency key |
| fraud worker (`src/services/fraud_consumer.py`, `fraud_detector.py`, `fraud_rules.py`, `fraud_ml.py`) | consumer position and offsets; per user, the last country and when it was seen, in process memory | read a transaction, fetch features from Redis, apply the rules, score, publish a decision | the rules' memory is lost by a restart or a rebalance and compares processing times; a transaction can be scored twice, with different verdicts |
| settlement service (`src/services/settlement.py`) | `user_accounts`, `settlements`, `audit_logs`, `transactions.status`; one database session for the life of the process | `settle_transaction(transaction_id, decision)`, in up to nine exchanges with the database | several workers, row locks, missing rows, deadlocks, failures between two statements, commits that are not acknowledged, decisions that come again or contradict each other |
| settlement consumer (`src/services/settlement_consumer.py`, `src/run_settlement_consumer.py`) | consumer position and offsets, results queued in its producer | poll, process one decision, publish its result, close | offsets move apart from processing; rebalances, kills and Ctrl+C in the middle of a batch |
| models, database, configuration (`src/models`, `src/database`, `src/config.py`) | - | tables with UNIQUE constraints, `autoflush=False` sessions | what the constraints and the session do by themselves is what keeps the settlement right |
| deployment (`infrastructure/k8s`, `docker-compose.yml`) | - | several replicas of the gateway and of each worker, stopped, killed and restarted | |

What makes each component correct:

* *Settlement*: money moves at most once per transaction, in full or not at all,
  never from a balance that is too small, whatever the workers' interleaving; the
  transactions table, the settlements table and the audit log tell the same story;
  every call returns and leaves no row locked.
* *Consumer*: every decision is processed at least once, none is overtaken, the
  committed offset never runs ahead of the work or goes back.
* *Fraud worker*: an honest traveller is not declined, an impossible journey is; a
  failure declines; a decision is published for every transaction.
* *Gateway*: every transaction a client was told is accepted is scored in the end;
  a payment that is submitted again is charged once; every request is answered.

## 2. Modules

| module | what it models |
|---|---|
| `Money` | the arithmetic: `DECIMAL(19,2)` columns in whole cents, values in memory in hundredths of a cent, half-up rounding on storage, the 2% fee |
| `Payments` | the rows: accounts, settlement rows, the unique index over `settlements.transaction_id`, the effect of one payment on the account table |
| `Ledger` | the abstract specification: a submitted transaction is settled at most once, in one indivisible step |
| `Settlement` | `settle_transaction` by several workers, one action per exchange with the database, with faults |
| `SettlementProperties` | what is claimed of `Settlement`, the inductive invariant, and what the documents claim and the code does not do |
| `Books` | what the tables amount to: the accounts replayed from the settlements, totals, what a party has yet to pay |
| `Sums` | induction over numbers and sums over finite sets, as lemmas |
| `BooksProofs` | how one payment changes those amounts; the rounding of the fee |
| `LedgerProofs` | proofs about `Ledger`, which the proofs of the modules that implement it or take its steps instantiate |
| `SettlementProofs`, `VerdictProofs` | the theorems and their proofs: for any decisions, and for decisions that agree |
| `MCSettlement` | instances of `Settlement` for TLC |
| `Delivery` | the abstract specification of a group of workers that reads a topic: every record has its turn, in the order of its partition, perhaps again |
| `SettlementConsumer` | the run loop over one partition of fraud-scores; composes the loop and Kafka's offsets with `Ledger`, which stands for a call of `settle_transaction` |
| `ConsumerProofs` | the theorems about it and their proofs |
| `MCSettlementConsumer` | instances of it for TLC |
| `FraudScore` | the score of a transaction as an operator over its features |
| `FraudDetector` | what a fraud worker decides: rules with their memory of each user, then the score, in a world where users travel and time passes |
| `FraudProofs` | the theorems about the two and their proofs |
| `MCFraudDetector` | instances of `FraudDetector` for TLC, and the score checked on both sides of each limit |
| `Gateway` | the API gateway with its producer, its replicas and its clients |
| `Pipeline` | the composition: a payment from the request to the verdict |
| `PipelineProofs` | the theorems about the pipeline and their proofs |
| `MCPipeline` | instances of `Pipeline` for TLC |

The modules meet at two abstract specifications:

    Settlement ---------implements--> Ledger   <--steps taken by-- SettlementConsumer, Pipeline
    SettlementConsumer -implements--> Delivery <--instantiated twice by-- Pipeline
    Gateway -------------------------------------included in--> Pipeline

`Settlement` is proved to implement `Ledger`, so what is shown of the consumer and
of the pipeline, which take steps of `Ledger`, holds over the detailed settlement
too. `SettlementConsumer` is proved to implement `Delivery`, which stands in the
pipeline for both groups of workers: the run loop of the fraud workers
(`fraud_consumer.py` 211-264) has the statements of the settlement consumer's, in
the same order and with the same settings. What a fraud worker publishes is, in
every module, a decision that may come more than once and with another verdict;
`FraudDetector` shows where such decisions come from (its `verdicts` may hold both
for one transaction).

### 2.1 Settlement

A step is one exchange with PostgreSQL. What Python computes between two
exchanges is invisible to other processes and belongs to the step before it.

| code | actions |
|---|---|
| `create_transaction` commits the row (`main.py` 233-235) | `Submit` |
| SELECT of the transaction, unknown transaction, unknown decision (66-78, 105-112) | `Call` |
| DECLINE: assign, commit (84, 85); audit entry (88-95) | `CommitDecline`; `LogDecline` |
| `_deduct_from_user`: SELECT FOR UPDATE (249-251), INSERT of a missing row (253-262), balance check and assignment (265-280) | `LockPayer`, `InsertPayer`, with `Deduct` |
| `_credit_to_merchant`: the same for the payee (294-311) | `LockPayee`, `InsertPayee`, with `Credit` |
| settlement row, status, audit entries, commit (164-207) | `CommitSettlement`, or `RejectDuplicate` when the unique index refuses |
| every `except`, `rollback` and ERROR dictionary (122-129, 146-155, 227-234) | `RollbackAndError`, inside `Deduct`, `InsertPayer`, `InsertPayee`, `RejectDuplicate`, `StatementError`, `DeadlockVictim` |
| the loop goes on to its next message | `Finish` |

The state is the four tables as committed (`account`, `status`, `settlements`,
`audit`), the owner of each row (`lock`), and per worker its place in the code
(`pc`), the transaction and the status it has loaded (`txn`, `seen`), the account
objects in its session (`touched`, `cache`), the audit objects that no flush has
sent yet (`pending`), and what it answered (`answer`).

Points where the model follows what the libraries do, and the code depends on it:

* The session lives as long as the worker (`settlement.py` 371-380), so audit
  objects added after a commit wait for a later commit and vanish with a later
  rollback. `commit()` and `rollback()` expire all objects, so no account object
  survives a call.
* `with_for_update()` does not refresh an object that the session holds. This
  happens within a call when payer and payee are the same party.
* A SELECT FOR UPDATE does not see a row that another transaction has inserted
  and not committed: the INSERT that follows waits on the unique index, and fails
  if the other one commits.
* After a statement has failed, the database transaction is aborted, and
  `_refund_to_user` (319-337) raises before it does anything. So a refund never has
  an effect, and the rollback does the work.
* The status is written only if it differs from the status loaded.

Faults, each allowed by a member of the constant `Faults`: `crash` (the process
dies and is restarted), `error` (a statement fails), `unacked` (a commit is durable
and the client sees an exception). Deadlock victims need no fault. Any worker may
be handed any decision of `Deliverable` at any time, again and again: this covers
redelivery by Kafka, two workers with the same decision, and a transaction that
was scored twice with different verdicts.

### 2.2 SettlementConsumer

`poll()` is `Join`, `Handover`, `AutoCommit`, `Fetch`; the `for` statement of `run`
yields records (`Yield`); its body is `Settle` (`process_fraud_decision`) and
`Publish`; `SendResult` is the producer's thread. Losses of a worker: `Evict` (it
has not polled in time), `Crash` (killed: neither SIGTERM nor SIGKILL is handled),
`Interrupt` (Ctrl+C: `close()` first closes the consumer, which commits its
position, then the producer), `Restart`. kafka-python moves the position past a
record before it yields it, and commits positions only in `poll()` and `close()`.
`processed` and `abandoned` are history variables.

The producer is created without `retries` (`settlement_consumer.py` 56-60), so a
result that the broker refuses is dropped (`RefuseResult`), and one still queued
dies with the process. Nobody in this repository reads the results.

### 2.3 FraudDetector

| code | actions and operators |
|---|---|
| the gateway publishes a transaction (`main.py` 239-265) | `Submit` |
| `process_transaction` (`fraud_consumer.py` 133-175), `detect_fraud` (`fraud_detector.py` 37-191) | `Process`: a worker takes a message and reaches a decision |
| `get_features_from_redis` (79-111) | `Stored`: a profile; nothing, an unreadable value or no answer (all give the defaults); a value that cannot be compared; JSON that is no dictionary |
| `check_all_rules`, `is_sanctioned_country` (`fraud_rules.py` 33-90) | `DeclineByRules` |
| `is_impossible_travel` (92-135) | `IsImpossibleTravel`; `Remember` for the three returns of False, each of which leaves the country and the time of this transaction in the dictionaries |
| tier 2 (`fraud_detector.py` 130-174), `score_transaction` (`fraud_ml.py` 42-104) | `DecideByScore`, `ScoreOf`, `Score` |
| a worker is restarted, or the dictionaries are otherwise new | `Restart` |

`Tick`, `Leave` and `Arrive` are the world: an honest user pays where he is and
needs `Travel` hours to be in another country; for a user in `robbed` anybody may
pay from anywhere. `passed` and `flagged` are history variables.

The consumer loop is abstracted to what it can do to the rules: any worker may
process any message that has waited no longer than `MaxDelay`, in any order and as
often as it likes. The topic is partitioned by user and the loop reads it in order,
so the code does less than that; what is shown of the model holds of the code. The
rules compare the times of processing (`datetime.utcnow()`), and the message's own
timestamp is never read, which is why `MaxDelay` matters.

One call of `process_transaction` is one step: a worker has one thread, and shares
its dictionaries with nobody. `STOLEN_CARDS` is an empty set that nothing fills,
and `is_extreme_amount` leads to the same return as its opposite; neither appears.

### 2.4 Delivery

Its variables are the topic (`log`, all partitions in one sequence; only the order
within a partition matters), the offsets that have been handled (`done`) and those
that were in a worker's hand when an operator stopped it (`skipped`). `Handle(i)`
is allowed when everything before `i` in its partition has had its turn, and again
whenever it likes. For `SettlementConsumer` the refinement mapping is
`log <- scores`, `done <- processed`, `skipped <- abandoned`, with one partition.

### 2.5 Gateway

| code | actions |
|---|---|
| `startup_event` (`main.py` 102-125), `connect` | `Start` |
| the row is added and committed (212-236) | `Save`; `RefuseSave` (the database refuses); `UnackedSave` (it is durable, and commit or refresh raises) |
| `send` queues the message (`kafka_producer.py` 94-100) | `Publish`; `RefusePublish` (it raises) |
| `future.get(timeout=10)` (103) | `Accept` after an acknowledgement, `Reject` after a failure, `TimeOut` |
| 202 or 500 (267-283) | `Respond`, inside these |
| the producer's thread, `retries=3`, `acks="all"` (46-52) | `Send`, `SendUnacked` (appended, acknowledgement lost, sent again), `GiveUp` |
| `shutdown_event`, `close` with its `flush` of 10 s (118-131) | `Stop` |
| killed; a client that hangs up | `Crash`; `Hang` |
| `get_transaction` | `Polled`, what it reads |

The handler is `async` and never awaits, so a replica has one request in hand
(`hand`, `pc`). `TimeOut` has no guard but the wait itself: how slow a broker may
be is not assumed. `PurchaseOf` says what a client means to buy: a client that was
not told 202 may ask again for the same purchase, and is given another id (207)
and another idempotency key (208). Faults other than slowness draw on the budget
`MaxFaults`.

`kafka_producer.py` imports kafka-python's `KafkaProducer` and then defines a class
of that name, so `connect` (46) calls its own class with arguments it does not take
and raises: as committed, the API does not start. The module models the gateway
with the producer that line means.

### 2.6 Pipeline

The variables are those of `Ledger` and `Gateway`, the topic `scores`, what is
queued in the fraud workers' producers (`outbox`) and the offsets of both
topics. `Gateway` steps are those of module `Gateway`. `Score(i)` is a `Handle` of
the first `Delivery` that queues either verdict: `process_transaction` turns every
failure into a decision. `SendDecision` and `LoseDecision` are the thread of the
producer, which has no retries (`fraud_consumer.py` 62-67). `Settle(i)` is a
`Handle` of the second `Delivery` together with a step of `Ledger`, or with none
when `settle_transaction` answers ERROR (`Fails`). That takes a fault only where a
statement fails; otherwise the transaction is settled already, the payer is short of
money, or it conflicts with a *rival*, another payment whose APPROVE is in its turn
and which another worker may therefore be settling: in a circle of payments of which
each has its payer's row and waits for its payee's (`MayDeadlock`; 249, 294), or when
the rival is the first to insert the row of a newcomer of both (`MayFindRow`; 298-307).
`Ledger` settles a payment in one step, so the ERROR of a conflict is placed before
the rival's commit; and as the rivals need not really be in hand, `Fails` allows some
ERRORs that the workers would not answer. That these are all the reasons there are is
proved of `Settlement` (`OnlyConflictsRefuse`, `DeadlocksAreCircles`).
`SkipTransaction` and `SkipDecision` are Ctrl+C with a record in hand. `failed` is a history variable: the transactions that have met an ERROR, a
lost decision or an interrupt, none of which the code makes good.

## 3. What TLC checks

| run | instance | shows |
|---|---|---|
| `settlement_tables` | 2 workers, 3 parties, 4 payments, 6 decisions, all faults; 494,644 states | the tables are right whatever is delivered and whatever fails |
| `settlement_verdicts` | 2 workers, 3 parties, 3 payments with one verdict each, all faults; 16,490 states | tables agree with verdicts and reports, only circles deadlock, and calls end |
| `consumer` | 2 workers, 2 decisions in the partition, at most 2 losses of a worker; 518,426 states | no decision is lost or overtaken |
| `fraud_rules` | 2 workers, 1 user, 3 countries, 2 messages, 6 points in time; 1,295,192 states | the rules decline no honest traveller, and remember enough |
| `pipeline` | 2 gateway replicas, a client with a payment it may turn round, a newcomer short of money, up to 2 faults of any kinds; 737,052 states | what is accepted is not lost, and requests are answered |
| `decline_audit`, `late_decline`, `rows_add_up`, `deadlock_retry`, `consumer_interrupt`, `fraud_forgets`, `client_retry` | small, no faults but the one in question | each refutes one sentence of the documents, see section 5 |

**settlement_tables.**
`BooksBalance`: the account table is the opening table with the settlements
replayed in commit order, so no update is lost or half applied.
`MoneyAccountedFor`: all balances together and what the settlements kept back, gross
minus net, make up what there was at first; the credit is rounded as a balance and
the net amount of the row alone, and the two stay the same to the cent.
`DuesStayCovered`: a party that could pay at first for all its transactions can
always pay for those that have no settlement, so no redelivery charges it twice and
no failure keeps half a payment. `SettledOnce`,
`SettlementsAudited` (both audit entries exactly for the transactions with a
settlement), `RowsGivenBack` (only a worker between deduction and commit owns
rows), `NothingStale` (what is about to be committed is what the ledger computes
from the accounts as they are now), `TypeOK` (no balance is negative), `IInv` (the
inductive invariant of the proofs) and `ImplementsLedger` (refinement).

**settlement_verdicts** assumes that the decisions for one transaction agree.
`ApprovedIffSettled`: APPROVED and having a settlement are the same.
`VerdictIsFinal`: a status leaves PENDING once. `ReportsAreTrue`: a worker that
reports SETTLED or DECLINED has the tables on its side. `VerdictInv`: the inductive
invariant of the proofs about these. `OnlyCirclesDeadlock`: the victim of a deadlock
pays somebody who pays, in another payment that is half done, and is paid in a third
one or the same; payments of one payer or to one payee never deadlock, nor does a
transaction that two workers have in hand. `CallsEnd`: every call ends.

**consumer.** `CommittedAccountedFor`: an offset is committed only when all the
decisions it covers were processed (or in the hands of a worker that an operator
interrupted). `NoneOvertaken`: first processing follows the partition's order.
`OffsetNeverGoesBack`. `LoopInv`: the inductive invariant of the proofs.
`ImplementsDelivery` (refinement). `EveryDecisionProcessed`.

**fraud_rules.** `HonestTravellersPass`: as long as journeys take longer than the
window and the waiting of messages together, a user in whose name nobody else pays
is never declined for impossible travel, also when messages are handed out again,
overtake each other or a worker forgets. `OneMemoryIsEnough`: the dictionaries, with
one transaction per user, decline exactly what a worker that remembered all it has
let pass would decline. `TypeOK` (no remembered time is in the future of the run),
`RulesInv` (the inductive invariant of the proofs). The module's ASSUMEs compare the
score with `Signs` and `AtLeastAsBad` on both sides of each of its limits, which the
theorems then state for all features.

**pipeline.** `AcceptedIsPublished`: whoever was told 202 has a row that GET finds and
a message on the topic. `EachHasItsOrigin`: no message without a row, no decision
without a message, no verdict or settlement without a decision that asks for it.
`AcceptedAreUnderWay`: an accepted transaction that is PENDING waits on a topic or
in a producer, unless it has failed in one of the ways named. `PipeInv`: the
inductive invariant of the proofs. `PollsGoForward`: a client that polls sees
"unknown", PENDING and a verdict, in this order. `RequestsAnswered`: every request ends, whatever
the broker does. `AcceptedAreDecided`: a client that was told 202 and polls sees a
verdict in the end, with the same exceptions.

*Bounds, and why they are enough.* Locks and stale reads are conflicts of two
sessions over one row, and a cycle of waits needs two workers, so two workers and
three parties give every shape of conflict: same payer, same payee, crossing
payments, a payee that is another's payer, payer and payee the same, a newcomer
whom two workers insert. Four payments with these amounts make the payers run
out of money in some orders and not in others, and two of the fees end in half a
cent; at first one party can pay for all its payments and two cannot, which is what `DuesStayCovered` tells apart. The proofs below remove the bounds for
everything but liveness. In the consumer a batch of two
records has a record in hand and one still to come, which is what tells the
position, the committed offset and the end of the batch apart; two losses allow an
eviction followed by an interrupt of the evicted worker (a commit by one who is
no longer in the group). `MaxScores` and `MaxLosses` are the only cut-offs.
In `fraud_rules` the window is 1 hour, the delay 1, and the journey 3, the least that
satisfies `HonestTravellersPass`: with a journey of 2 an honest traveller is declined.
Six points in time leave room for a journey, the window before it and the waiting
after it. Two messages make a conflict, and each may be processed again, so a
worker's sequence of passages is longer than two. Users do not interact (each has
entries of his own), so one is enough. `MaxTime` and `MaxTxns` are the only cut-offs;
the proofs have none for messages, users and workers, and any value for `MaxTime`.
In `pipeline` two requests of one client are what it takes for one to race the
message of the request it replaces, on the same replica or on the other one. The
second turns the payment round, so both may be under way and want the same two rows,
which is every kind of conflict: a circle, and a newcomer's row. Bob, who has no
account, is short of money until he is paid. Two faults are enough for every loss
followed by another, `MaxTopic` leaves room for one repetition of a message, hence
for two contradictory decisions, and with `MaxScores = 1` a message that has been
scored is scored again only when its decision was lost. With `MaxScores = 2`, where
one that was published may be scored again, and one fault (961,470 states) the
properties hold as well. Ids are not limited otherwise, and the safety
properties are proved without any of these bounds.
No run switches off the deadlock check; a `Restart` is always possible in
`fraud_rules`, so there it says nothing.

*Fairness.* `Settlement!Fairness`: a worker in a call goes on running (weak
fairness of `Proceed`), and a lock that is free again and again is granted at some
point (strong fairness of `Acquire`; PostgreSQL serves the waiters of a row in
order). Messages and faults are never obliged to occur. `SettlementConsumer!Fairness`:
weak fairness of the loop, of the producer's thread, of the restart (Kubernetes)
and of the assignment of a free partition; strong fairness of fetching, because
rebalances and auto-commits interrupt it but cannot keep it off for ever.
`Settle` may be fair there because `CallsEnd` holds. `Pipeline!Fairness`: the handler
of the gateway goes on with the request in hand, with the ten seconds of the wait
among its steps and nothing assumed of its producer or of the broker; of each group
of workers, some record that has had no turn gets one, which is what
`EveryDecisionProcessed` shows of the run loop; the fraud workers' producers send
what is queued or give it up.

## 4. What is proved

`SettlementProofs`, for any sets of workers, parties and transactions, any
natural amounts, any opening accounts, any deliverable decisions and any faults:

| theorem | statement |
|---|---|
| `Invariance` | `Spec => []IInv` |
| `TypeCorrect` | `Spec => []TypeOK`: in particular no balance is ever negative |
| `NoDoubleSettlement` | `Spec => []SettledOnce` |
| `AuditOfSettlements` | `Spec => []SettlementsAudited` |
| `LocksReleased` | `Spec => []RowsGivenBack` |
| `NothingStaleEver` | `Spec => []NothingStale` |
| `Refinement` | `Spec => L!Spec`: settlement implements the ledger |
| `BooksAlwaysBalance` | `Spec => []BooksBalance` |
| `MoneyConserved` | `Spec => []MoneyAccountedFor`, for finitely many parties |
| `DuesAlwaysCovered` | `Spec => []DuesStayCovered`, for finitely many transactions |
| `OnlyHalfCentsDoNotAddUp` | `Spec => []RowsAddUp`, if no amount has a fee of half a cent |
| `DeadlocksAreCircles` | `Spec => []OnlyCirclesDeadlock` |
| `OnlyConflictsRefuse` | an ERROR about a known transaction and decision is about one that is settled already, if no statement fails, every party has an account and could pay at first for all its transactions, and nobody pays in one transaction and is paid in another |

`VerdictProofs`, under the same assumptions and `DecisionsAgree` (no transaction is
delivered with both verdicts):

| theorem | statement |
|---|---|
| `VerdictInvariance` | `Spec => []VerdictInv` |
| `ApprovedMeansSettled` | `Spec => []ApprovedIffSettled` |
| `ReportsTrue` | `Spec => []ReportsAreTrue` |
| `VerdictsAreFinal` | `Spec => VerdictIsFinal`, an action property |
| `OnlyContradictionsOverturn` | `Spec => []SettlementsAreApproved` |

`BooksProofs` and `LedgerProofs`, for any payments and settlements tables:

| theorem | statement |
|---|---|
| `FeeRounding` | stored fee and net exceed the gross amount by one cent exactly for amounts that are 25 modulo 50 cents, and never differ otherwise |
| `ReplayLonger` | the books after one more row are the books before it with that payment's effect |
| `TransferTotal` | a payment changes the total of all accounts by what its row says was kept back, and by nothing else |
| `LedgerIsSafe` | in the ledger no balance is negative, nothing is settled twice, the books balance, and what is settled has a verdict |
| `LedgerKeepsMoney`, `LedgerCoversDues` | `Spec => []MoneyAccountedFor` and `Spec => []DuesStayCovered` for the ledger |

`ConsumerProofs`, for any workers, decisions, bounds and faults:

| theorem | statement |
|---|---|
| `LoopInvariance` | `Spec => []LoopInv` |
| `ConsumerTypes` | `Spec => []TypeOK` |
| `NothingSkipped` | `Spec => []CommittedAccountedFor` |
| `OrderKept` | `Spec => []NoneOvertaken` |
| `OffsetsGrow` | `Spec => OffsetNeverGoesBack`, an action property |
| `ConsumerDelivers` | `Spec => D!Spec`: the run loops implement `Delivery` |
| `OnlyInterruptsLose` | `Spec => []CommittedWereProcessed`, if nobody uses Ctrl+C |
| `ConsumerImplementsLedger` | `Spec => L!Spec`: however often decisions are handed over, the tables do what the ledger says |
| `ConsumerLedgerSafe` | so everything `LedgerIsSafe` says is true of them |

`PipelineProofs`, for any replicas, purchases, payments, bounds and faults:

| theorem | statement |
|---|---|
| `PipelineInvariance` | `Spec => []PipeInv` |
| `PipelineTypes` | `Spec => []TypeOK` |
| `PollsNeverGoBack` | `Spec => PollsGoForward`, an action property |
| `AcceptedPublished` | `Spec => []AcceptedIsPublished` |
| `OriginsExist` | `Spec => []EachHasItsOrigin` |
| `NothingStranded` | `Spec => []AcceptedAreUnderWay` |
| `PartsImplemented` | `Spec => L!Spec /\ F!Spec /\ S!Spec`: the composition keeps what `Ledger` and both instances of `Delivery` promise |
| `PipelineLedgerSafe`, `PipelineKeepsMoney` | so everything `LedgerIsSafe` and `LedgerKeepsMoney` say is true from the request to the verdict |
| `NothingLostUndisturbed` | without faults, and if every party has an account, could pay at first for all its transactions, and does not both pay and get paid, what is accepted and PENDING is always on its way |

`FraudProofs`, for any users, countries, workers, profiles and hours:

| theorem | statement |
|---|---|
| `RulesInvariance` | `Spec => []RulesInv` |
| `FraudTypes` | `Spec => []TypeOK` |
| `HonestPass` | `Spec => []HonestTravellersPass` |
| `MemoryIsEnough` | `Spec => []OneMemoryIsEnough` |
| `FourSignsNeeded` | the score declines only with at least four of its six warning signs |
| `ScoreIsMonotone` | a transaction that looks worse and in no respect better is not scored lower, for a user who has an average |
| `UnknownUsersPass` | the default features score 40 at most, whatever the amount: without Redis the score declines nothing |
| `OneLastingWorkerDetects` | `[]ImpossibleTravelDetected`, for one worker that is never restarted and messages that do not wait |

The theorems of `SettlementProofs` assume only the named assumptions of `Payments` and `Settlement`: payers and
payees are parties, amounts are natural numbers of cents, an account that does not
exist holds nothing, the values for "nobody" and "no transaction" are neither
workers nor transactions, and deliverable decisions are about transactions. Those
of `ConsumerProofs` and `PipelineProofs` assume the same of payments, and of their
bounds only that they are natural numbers. Theorems about a sum assume, in addition,
that what is summed over is finite, and say so: the sum of infinitely many balances
is not defined.

*The argument.* `SettledOnce`, `SettlementsAudited` and `NothingStale` are not
inductive. The heart of `IInv` is `OwnsTouched` with `SessionOf`: an account object
is in a session only while the worker owns the row, and then it holds the
committed balance changed by what this call has done so far. Since nobody else
can own the row, nobody else can change it, so the object stays current until the
commit; hence what is committed is `Transferred`, which is the refinement's
`Settle` step, and the balance check of the deduction still holds then.
`MissingIsEmpty` covers the rows inserted on the way. `SeenApprovedIsSettled` is
needed because the status is not written when the loaded status is APPROVED
already. `PendingAreDeclines` says that entries an earlier call left in the session
cannot be taken for those of a settlement. The step is proved by cases over six
shapes of a step (nothing, submitted, declined, acquired, settled, rolled back), to
which lemmas reduce all the actions, and one lemma per part of `IInv`.

What is said of the books is proved once, of `Ledger`, where a payment is one step,
and inherited: `Settlement` implements it, the run loops and the pipeline take its
steps, and each of the three instantiates `LedgerProofs` with its own tables. In the
ledger `BooksBalance` follows from `ReplayLonger`, which needs an induction over the
length of the table: the books are a recursive function, and `Sums` derives
induction over a set of numbers from the well-foundedness of `<`, with the set in
place of the operator that the provers cannot instantiate. `MoneyAccountedFor` rests
on `TransferTotal`, where the payer may be the payee and either may be new.
`DuesStayCovered` is inductive for each party alone: a settlement takes a
transaction's amount both from the payer's balance and from what he owes, because a
transaction with a row is never settled again, and a credit only adds (`OwedParts`).

Five theorems say that a finding of section 5 has no other cause. Each takes the
property that a run refutes, or what that comes to, and proves it without that run's
cause: `OnlyHalfCentsDoNotAddUp` (`rows_add_up`), `OnlyContradictionsOverturn`
(`late_decline`), `OnlyInterruptsLose` (`consumer_interrupt`),
`OneLastingWorkerDetects` (`fraud_forgets`) and `OnlyConflictsRefuse`
(`deadlock_retry`). The first three exclude the cause and nothing else; the fourth
excludes every restart and every second worker, whether or not they concern the same
user, and waiting, because the rules compare times of processing. The fifth is about
ERRORs: where no statement fails (workers may still die), everybody has an account
and could pay at first for all that names it as the payer, and nobody pays in one
transaction and is paid in another, every ERROR to a call that knows its transaction
and its decision is about one that is settled already. It excludes more than circles (every chain of payments), and
newcomers altogether.

Deadlocks rest on `OwnsTouched` and its converse `OwnedAreTouched`, which say
that the rows a worker owns are those in its session. A worker that waits and is
waited for owns a row, so it is half done: it owns its payer's row alone and wants its
payee's (`WaitsHalfDone`). In a set of workers that wait for each other this makes a
circle of payers and payees; two workers with the same transaction would own the same
row (`CirclesOnly`).

`NothingLostUndisturbed` carries `OnlyConflictsRefuse` over to the pipeline: an
accepted transaction that is PENDING is on its way *without* the exceptions of
`AcceptedAreUnderWay`, under the same assumptions on payments and without crashes,
interrupts and failures of the broker. By `DuesStayCovered` a payer who can pay for
everything is never refused for want of money, and without newcomers (`RowsStay`)
and crossing payments nothing conflicts (`NoConflicts`). With a customer who is also
a merchant, or with a new account, the exceptions are real: the code answers ERROR
without any fault, and nobody tries again.

`VerdictInv` says where a verdict comes from: a worker in the middle of a decline or
of a settlement has such a decision in hand (`CallsBacked`), and what is in the
tables was decided so (`TablesBacked`). With `DecisionsAgree` this excludes a decline
of a settled transaction, although the code does not look (lemmas
`DeclinedUnsettled`, `VerdictKept`). `WordsKept` is needed because a status that is
already DECLINED is not written again: the status the worker has loaded must still
be the one stored.

`LoopInv` shows that it is the position and not the batch that makes a commit safe:
everything up to the position of a worker has had its turn, also when the worker
has lost the partition and works on (`PositionOK`), and the owner has read on from
the committed offset (`OwnerOK`). So a commit by any consumer that may still commit
is of decisions that are done, and never backwards.

`PipeInv` adds three facts to the properties: a request in hand has a row, and when
its message is acknowledged it is on the topic (`HandOK`); an id that no request has
had has no row (`IdsAreNew`, from the ids being fresh uuids), which keeps a new
request from touching an old transaction and makes each `Save` a step of `Ledger`;
and what `AcceptedAreUnderWay` says of accepted transactions is true of all that are
published (`PublishedAreUnderWay`), also of those whose client was told 500.

The fraud theorems assume that `Nowhere` is no country, that the four kinds of
stored value differ, that hours are natural numbers, and that a profile with an
amount is a record of features. `HonestTravellersPass` is not inductive: it needs
that what is remembered is the passage of a message that was made (`MemoryIsLast`,
`PassedWereMade`), at most `MaxDelay` hours before it was processed, and that an
honest user's messages from two countries were made a journey apart
(`JourneysApart`), which in turn needs where he has been (`MessagesOfHonest`). A
conflict within the window then leaves too little time for the journey (lemma
`HonestAreNotFlagged`). `OneMemoryIsEnough` follows from `PassedIsPossible`: what
one worker has let pass is a possible journey, so of two passages within the window
of now, the last one is from the same country as the other (`LastIsEnough`).

`PollsGoForward` is a consequence of the ids being new: a row is only ever inserted
for a request that has none (`IdsAreNew`), so no request can put a status back to
PENDING, and the ledger's steps only move it on.

*Only model-checked*: liveness (`CallsEnd`, `EveryDecisionProcessed`,
`RequestsAnswered`, `AcceptedAreDecided`), because it needs fairness and ENABLED.
Every invariant and every action property that a run checks is proved, and so are
the refinements.

## 5. What the documents say and the code does not do

| run | sentence | what happens |
|---|---|---|
| `decline_audit` | `README.md` 790 "Every transaction change logged in audit_logs table" | the entry of a DECLINE is added after the commit (`settlement.py` 85-95); the rollback of the worker's next payment destroys it |
| `late_decline` | `src/models/transaction.py` 84 "Only transactions with status=APPROVED appear here." | a DECLINE after an APPROVE overwrites the status and leaves the settlement and the money where they are |
| `rows_add_up` | `README.md` 134 "gross_amount, processing_fee (2%), net_amount (what merchant receives)" | a payment of 0.75 is stored with fee 0.02 and net 0.74 |
| `deadlock_retry` | `docs/ARCHITECTURE.md` 438 "Application retries SELECT+UPDATE" | the victim of a deadlock is answered ERROR and never tried again |
| `consumer_interrupt` | `docs/ARCHITECTURE.md` 16 "Never lose a transaction" | Ctrl+C commits the offset of the decision in hand |
| `fraud_forgets` | `src/services/fraud_rules.py` 94 "Detect if user traveled impossibly fast." | a worker that is restarted between two payments from two countries approves both |
| `client_retry` | `README.md` 127 "UNIQUE(idempotency_key) prevents duplicate charges" and `docs/ARCHITECTURE.md` 885 | the gateway makes the key for each request; with a broker that takes longer than ten seconds, and no other fault, a request is answered 500 and its message sent after all, and the client that asks again pays twice |

Met on the way, and not the subject of a run: double settlement is prevented by
UNIQUE(transaction_id) on settlements, not by the idempotency key
(`docs/ARCHITECTURE.md` 881, 885); locking is pessimistic, the version is never
compared (`src/models/transaction.py` 128); account changes have no audit entries;
`old_values` always says PENDING; `fraud_detector.py` 181 declines on error "(safe
fallback)", while a failed scoring is worth 50 points and approves (`fraud_ml.py`
98-104); the defaults for unknown users, "Slightly conservative"
(`fraud_consumer.py` 117), decline nobody (`UnknownUsersPass`); the API cannot start as
committed (section 2.5); `infrastructure/k8s/fraud-detection-deployment.yaml` 43 and
`README.md` 332 run `src.run_fraud_consumer`, which is not in the repository.

## 6. Not modelled

* *Configuration, logging, metrics, health, timing*: no state that another part reads.
* *Flink, Redis features, ClickHouse, alerting*: described in `docs/`, not implemented
  here; features are inputs of the fraud score.
* *Connection pooling* (`src/database/connection.py`): a pool that is exhausted or a
  stale connection is a statement that fails, `StatementError` or `RefuseSave`.
* *What a worker does with settlement results*: nothing in this repository reads the
  `settlements` topic.
* *Records that are not JSON or lack a field*: the workers' own producers write none.
* *Startup and connection failures*: a worker that cannot connect exits before it
  touches any state modelled here.
* *Autoscaling and rolling updates*: a rolling update is a crash (SIGTERM is not
  handled) and a restart of each worker.
* *Column widths*: 17 integer digits are taken as unbounded.

## 7. Plan

1. Done: `Money`, `Payments`, `Ledger`, `Settlement` with its properties and proofs.
2. Done: `FraudScore`, `FraudDetector` with their properties and proofs.
3. Done: `SettlementConsumer` with its properties and proofs, `Delivery` and its
   refinement.
4. Done: `Gateway`, and `Pipeline`, which composes all of it, with proofs.
5. Done: what holds when decisions agree (`VerdictProofs`).
6. Done: the books (`Books`, `Sums`, `BooksProofs`): what is in the accounts, proved
   of the ledger and inherited by everything that implements it; and what the
   findings have for their only cause.
7. Left: `FraudDetector` as the source of the verdicts in the pipeline, in place of the
   choice of either one; two clients at once in one instance of the pipeline, which the
   proofs cover and TLC has not enumerated; liveness of the pipeline with the run
   loops in place of `Delivery`, whose product is too large for TLC.

## 8. Running it

    tlc -config SettlementTables.cfg MCSettlement
    tlc -config Consumer.cfg MCSettlementConsumer
    tlc -config FraudRules.cfg MCFraudDetector
    tlc -config Pipeline.cfg MCPipeline
    tlapm SettlementProofs.tla      (Sums, BooksProofs, LedgerProofs, VerdictProofs,
                                     ConsumerProofs, FraudProofs and
                                     PipelineProofs likewise)

`PROJECT.json` lists the runs, the source lines of every definition, the hazards,
the findings, and for each property a changed definition, marked MUTANT in the
modules, under which the run must fail.
