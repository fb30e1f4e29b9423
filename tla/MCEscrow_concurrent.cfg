\* Two kinds of execution (crossing). One order, two requests and a scheduler run
\* that cross, with webhooks and a fault; or two orders, or a simulated one, whose
\* requests follow one another. The system stops when every order is settled.
SPECIFICATION MCSpec
CHECK_DEADLOCK FALSE
CONSTANTS
    alice = alice
    sam = sam
    o1 = o1
    o2 = o2
    o3 = o3
    Users = {alice, sam}
    Orders = {o1, o2, o3}
    Seller <- MCSeller
    ListingType <- MCListingType
    Provider = "paydunya"
    Keys = {"paydunya"}
    Simulated = {o3}
    Handlers = {h1, h2}
    Crons = {c1}
    MaxPayouts = 2
    MaxHooks = 2
    MaxFaults = 1
    None = None
SYMMETRY Interchangeable
INVARIANTS
    TypeOK
    ReleasedHasSentPayout
    RefundedHasSentRefund
    AtMostOneRefundTransfer
    ReviewedAfterPayout
    CollectedUnlessMisled
    LedgerMatchesProvider
    IInv
    MoneyFollowsStatus
    DisputeRespected
    SerialKeepsBooks
PROPERTIES
    KeepsPromise
    StatusFlow
