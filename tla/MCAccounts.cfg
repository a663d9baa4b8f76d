SPECIFICATION AccountsFairSpec
CONSTANTS
    user = user
    party = party
    pass = pass
    Requests = {r1, r2, r3}
    Fields = {user, party, pass}
    KeyFields = {user, party}
    Values = {1, 2}
    Inputs <- MCInputs
    CreatesAtOnce = 1
    MayStop = TRUE
INVARIANTS
    AccountsTypeOK
    AccountsAreDistinct
    SessionsAreOwners
PROPERTIES
    ImplementsDirectory
    AccountsGetAttributes
CHECK_DEADLOCK FALSE
