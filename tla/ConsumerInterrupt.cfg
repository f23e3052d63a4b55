SPECIFICATION Spec
CONSTANTS
    t1 = t1
    t2 = t2
    alice = alice
    bob = bob
    Txns = {t1, t2}
    Parties = {alice, bob}
    Payer <- MCPayer
    Payee <- MCPayee
    Amount <- MCAmount
    Opening <- MCOpening
    Workers = {w1, w2}
    NoOne = NoOne
    Deliverable <- OneDecision
    MaxScores = 2
    MaxLosses = 1
    Faults = {"interrupt"}
INVARIANTS
    CommittedWereProcessed
