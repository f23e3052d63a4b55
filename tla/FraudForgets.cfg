SPECIFICATION Spec
CONSTANTS
    Users = {alice}
    Countries = {us, fr, kp}
    Sanctioned = {kp}
    Nowhere = Nowhere
    Workers = {w1}
    Amounts = {3000}
    Profiles <- MCProfiles
    Nothing = Nothing
    Malformed = Malformed
    NoDictionary = NoDictionary
    Window = 1
    Travel = 3
    MaxDelay = 0
    MaxTime = 5
    MaxTxns = 2
INVARIANTS
    ImpossibleTravelDetected
