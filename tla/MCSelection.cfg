SPECIFICATION SelectionFairSpec
CONSTANTS
    m1 = m1
    m2 = m2
    p = p
    q = q
    k1 = k1
    k2 = k2
    k0 = k0
    Managers = {m1, m2}
    Pages = {p, q}
    SigningKey <- KeyOf
    Wanted <- Accepts
    Nobody = Nobody
    MaxErasures = 2
INVARIANTS ChoiceInv LeftOutForAReason
 
CHECK_DEADLOCK FALSE
