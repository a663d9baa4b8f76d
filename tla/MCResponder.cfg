SPECIFICATION FairSpec
CONSTANTS
    Types = {"Password", "OffChannelOtp", "DigitalSignature", "SecureRemotePassword"}
    Inputs = {1, 2}
    Seamless = TRUE
    MaxRetries = 1
    MaxTroubles = 1
    MaxLate = 0
    MaxSubmits = 2
INVARIANT AnswersFit
PROPERTY MessagesAreAnswered
CHECK_DEADLOCK FALSE
