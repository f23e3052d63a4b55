SPECIFICATION Spec
CONSTANTS
    Users = {alice}
    Countries = {us, fr, kp}
    Sanctioned = {kp}
    Nowhere = Nowhere
    Workers = {w1, w2}
    Amounts = {3000}
    Profiles <- MCProfiles
    Nothing = Nothing
    Malformed = Malformed
    NoDictionary = NoDictionary
    Window = 1
    Travel = 3
    MaxDelay = 1
    MaxTime = 5
    MaxTxns = 2
SYMMETRY Symmetry
INVARIANTS
    TypeOK
    HonestTravellersPass
    OneMemoryIsEnough
    RulesInv
