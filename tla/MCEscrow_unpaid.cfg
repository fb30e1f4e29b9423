\* Checkouts at PayDunya; no keys of CinetPay, whose webhook route is open.
SPECIFICATION Spec
CHECK_DEADLOCK FALSE
CONSTANTS
    alice = alice
    sam = sam
    o1 = o1
    o2 = o2
    Users = {alice, sam}
    Orders = {o1}
    Seller <- MCSeller
    ListingType <- MCListingType
    Provider = "paydunya"
    Keys = {"paydunya"}
    Simulated = {}
    Handlers = {h1}
    Crons = {c1}
    MaxPayouts = 1
    MaxHooks = 1
    MaxFaults = 0
    None = None
INVARIANT
    PaidWasCollected
