SPECIFICATION Spec
CONSTANTS
    f = f
    c = c
    add1 = add1
    add2 = add2
    revise = revise
    select1 = select1
    select2 = select2
    sign = sign
    Handlers = {h1, h2}
    Fields = {f}
    Dictated = {f}
    Challenges = {c}
    ChallengeType <- Type
    Requests = {add1, add2, revise, select1, sign}
    Ask <- Asks
    Misbehaviours = {}
SYMMETRY Symmetry
INVARIANTS
    TypeOK
    OneAtATime
    BusyWhileServing
    TablesAreRight
    RevisedFieldsWereGranted
PROPERTY ImplementsDialogue
CHECK_DEADLOCK FALSE
