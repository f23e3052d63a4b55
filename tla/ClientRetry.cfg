SPECIFICATION Spec
CONSTANTS
    t1 = t1
    t2 = t2
    alice = alice
    bob = bob
    book = book
    Txns = {t1, t2}
    Parties = {alice, bob}
    Payer <- SamePayer
    Payee <- SamePayee
    Amount <- SameAmount
    Opening <- Rich
    NoTxn = NoTxn
    PurchaseOf <- MCPurchase
    Replicas = {r1}
    MaxTopic = 1
    MaxScores = 2
    Faults = {}
    MaxFaults = 0
INVARIANTS
    ChargedOnce
