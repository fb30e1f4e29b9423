SPECIFICATION NoFailureSpec
CHECK_DEADLOCK FALSE
CONSTANTS
    People = {ana, root}
    Founders = {root}
    Handlers = {h1, h2}
    MaxCodes = 1
    MaxTokens = 2
    MaxResets = 1
    MaxSeconds = 0
    None = None
INVARIANTS
    SuspendedHasNoSession
