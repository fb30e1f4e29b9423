\* A second webhook while the order is disputed, and a scheduler run. No fault, and
\* one process at a time suffices.
SPECIFICATION MCSpec
CHECK_DEADLOCK FALSE
CONSTANTS
    alice = alice
    sam = sam
    o1 = o1
    o2 = o2
    o3 = o3
    Users = {alice, sam}
    Orders = {o1}
    Seller <- MCSeller
    ListingType <- MCListingType
    Provider = "cinetpay"
    Keys = {"cinetpay"}
    Simulated = {}
    Handlers = {h1}
    Crons = {c1}
    MaxPayouts = 1
    MaxHooks = 2
    MaxFaults = 0
    None = None
PROPERTY
    DisputeKeepsSchedulerAway
