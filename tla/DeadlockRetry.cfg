SPECIFICATION FairSpec
CONSTANTS
    t1 = t1
    t2 = t2
    t3 = t3
    t4 = t4
    alice = alice
    bob = bob
    carol = carol
    Parties = {alice, bob, carol}
    Workers = {w1, w2}
    NoOne = NoOne
    NoTxn = NoTxn
    Txns = {t1, t2, t3}
    Payer <- CrossingPayer
    Payee <- CrossingPayee
    Amount <- CrossingAmount
    Opening <- AmpleOpening
    Deliverable <- AllApproved
    Faults = {}
PROPERTIES
    ConflictsAreRetried
