------------------------------ MODULE Delivery ------------------------------
(***************************************************************************)
(* What a consumer group promises about a topic, with no workers, offsets  *)
(* or batches: every record is handled, at least once, and for the first   *)
(* time only when those before it in its partition have been; or it is     *)
(* skipped in its turn, when an operator stops the worker that has it in   *)
(* hand.  The run loop of SettlementConsumer implements this module.       *)
(***************************************************************************)
EXTENDS Naturals, Sequences

CONSTANTS
    Records,        \* what a record of the topic may be
    Partition       \* the partition of each record

VARIABLES
    log,            \* the records of the topic, each partition in its order
    done,           \* the offsets in log that have been handled
    skipped         \* the offsets that were in hand when a worker was stopped

vars == <<log, done, skipped>>

Init ==
    /\ log = <<>>
    /\ done = {}
    /\ skipped = {}

\* All those before i in its partition have had their turn.
InTurn(i) ==
    /\ i \in DOMAIN log
    /\ \A j \in 1 .. i - 1 :
          Partition[log[j]] = Partition[log[i]] => j \in done \cup skipped

Publish(r) ==
    /\ log' = Append(log, r)
    /\ UNCHANGED <<done, skipped>>

Handle(i) ==
    /\ InTurn(i)
    /\ done' = done \cup {i}
    /\ UNCHANGED <<log, skipped>>

Skip(i) ==
    /\ InTurn(i)
    /\ skipped' = skipped \cup {i}
    /\ UNCHANGED <<log, done>>

Next ==
    \/ \E r \in Records : Publish(r)
    \/ \E i \in DOMAIN log : Handle(i) \/ Skip(i)

Spec == Init /\ [][Next]_vars
=============================================================================
