SPECIFICATION Spec
CONSTANTS
    Challenges = {"pw", "ds"}
    ChallengeType <- BothTypes
    Nonces = {n1, n2, n3}
    Workers = {w1, w2}
SYMMETRY Symmetry
INVARIANTS
    TypeOK
    SessionNeedsChallenges
    RowsAreConsistent
    FinishedOnce
    AssertionsHold
    ClientsAreJudged
PROPERTIES
    ImplementsProtocol
    RowsAreFinal
