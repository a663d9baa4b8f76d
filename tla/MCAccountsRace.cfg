SPECIFICATION AccountsSpec
CONSTANTS
    user = user
    party = party
    pass = pass
    Requests = {r1, r2}
    Fields = {user, party, pass}
    KeyFields = {user, party}
    Values = {1, 2}
    Inputs <- MCInputs
    CreatesAtOnce = 2
    MayStop = FALSE
INVARIANTS
    AccountsAreDistinct
CHECK_DEADLOCK FALSE
