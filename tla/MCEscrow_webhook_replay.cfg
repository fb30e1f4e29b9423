\* A second webhook after the release.
SPECIFICATION Spec
CHECK_DEADLOCK FALSE
CONSTANTS
    alice = alice
    sam = sam
    o1 = o1
    o2 = o2
    Users = {alice, sam}
    Orders = {o1}
    Seller <- MCSeller
    ListingType <- MCListingType
    Provider = "cinetpay"
    Keys = {"cinetpay"}
    Simulated = {}
    Handlers = {h1}
    Crons = {c1}
    MaxPayouts = 1
    MaxHooks = 2
    MaxFaults = 0
    None = None
INVARIANT
    EscrowHeld
