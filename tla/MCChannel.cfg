SPECIFICATION FairSpec
CONSTANTS
    w1 = w1
    w2 = w2
    k = k
    c1 = c1
    c2 = c2
    c3 = c3
    c4 = c4
    x1 = x1
    x2 = x2
    ShortParts = {"*", "a", "b"}
    Windows = {w1, w2}
    Channels = {c1, c2, c3, c4}
    Window <- InWindow
    WebApp <- OfWebApp
    Keys = {k}
    Anonymous = anonymous
    Document <- Documents
    Allowlist <- Lists
    Negotiating = {c1}
    DebugBuild = TRUE
    Unwritten = {FALSE, TRUE}
    PageKeys = {x1, x2}
    Spki <- Spkis
    MaxKeys = 1
    MaxReplies = 1
    NoParams = NoParams
    NoCall = NoCall
INVARIANTS
    
    
    EncryptionIsAgreed
PROPERTIES
    CreationsEnd
CHECK_DEADLOCK FALSE
