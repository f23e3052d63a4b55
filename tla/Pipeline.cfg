SPECIFICATION FairSpec
CONSTANTS
    t1 = t1
    t2 = t2
    alice = alice
    bob = bob
    book = book
    Txns = {t1, t2}
    Parties = {alice, bob}
    Payer <- TurnedPayer
    Payee <- TurnedPayee
    Amount <- TurnedAmount
    Opening <- Short
    NoTxn = NoTxn
    PurchaseOf <- MCPurchase
    Replicas = {r1, r2}
    MaxTopic = 1
    MaxScores = 1
    Faults = {"crash", "database", "broker", "impatience", "interrupt"}
    MaxFaults = 2
INVARIANTS
    TypeOK
    AcceptedIsPublished
    EachHasItsOrigin
    AcceptedAreUnderWay
    PipeInv
PROPERTIES
    PollsGoForward
    RequestsAnswered
    AcceptedAreDecided
