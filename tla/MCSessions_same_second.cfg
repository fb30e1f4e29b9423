SPECIFICATION MCSpec
CHECK_DEADLOCK FALSE
CONSTANTS
    People = {ana, root}
    Founders = {root}
    Handlers = {h1}
    MaxCodes = 1
    MaxTokens = 2
    MaxResets = 1
    MaxSeconds = 1
    None = None
PROPERTIES
    RevokedStaysRevoked
