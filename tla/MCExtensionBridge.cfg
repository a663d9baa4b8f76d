SPECIFICATION FairSpec
CONSTANTS
    Handlers = {h1, h2}
    Fields = {}
    Dictated = {}
    Challenges = {}
    ChallengeType <- NoTypes
    Requests = {r1, r2}
    Ask <- Asks
    Misbehaviours = {"answers twice", "resolves badly", "throws"}
    MaxStops = 1
INVARIANTS
    BridgeInv
PROPERTIES
    CallsAreSettled
CHECK_DEADLOCK FALSE
