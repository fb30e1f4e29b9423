\* One order, a request slot and the scheduler, two webhooks and one fault, under
\* fairness; CinetPay with its keys. MaxPayouts is never reached. The system stops
\* when the order is settled.
SPECIFICATION FairSpec
CHECK_DEADLOCK FALSE
CONSTANTS
    alice = alice
    sam = sam
    o1 = o1
    o2 = o2
    Users = {alice, sam}
    Orders = {o1}
    Seller <- MCSeller
    ListingType <- MCListingType
    Provider = "cinetpay"
    Keys = {"cinetpay"}
    Simulated = {}
    Handlers = {h1}
    Crons = {c1}
    MaxPayouts = 6
    MaxHooks = 2
    MaxFaults = 1
    None = None
INVARIANT
    PaidWasCollected
PROPERTY
    EscrowIsLeft
