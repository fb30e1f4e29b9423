\* Two kinds of execution (crossing). Two requests cross on two accounts, with failures;
\* or requests follow one another, over two seconds. The system stops when codes and
\* tokens run out.
SPECIFICATION MCSpec
CHECK_DEADLOCK FALSE
CONSTANTS
    People = {ana, root}
    Founders = {root}
    Handlers = {h1, h2}
    MaxCodes = 1
    MaxTokens = 2
    MaxResets = 1
    MaxSeconds = 1
    None = None
SYMMETRY Interchangeable
INVARIANTS
    TypeOK
    SessionsHaveAccounts
    SessionsJustified
PROPERTIES
    CutStaysCut
    PasswordChangesOnlyByReset
    CredentialServesOnce
    OnlyUsersSuspended
