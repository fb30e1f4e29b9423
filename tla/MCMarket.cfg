\* The listings of a subscribed seller against what its subscription covers.
SPECIFICATION MarketSpec
SYMMETRY Symmetry
CONSTANTS
    None = None
    Reason = Reason
    NoPayable = NoPayable
    seller = seller
    listing1 = listing1
    listing2 = listing2
    shop1 = shop1
    Payables = {shop1}
    KindOf <- MCKindOf
    Payers = {seller}
    Payer <- MCPayer
    Provider = "cinetpay"
    Keys = {"cinetpay"}
    Simulated = {}
    Jobs = {j1}
    MaxHooks = 1
    BaseListings = 1
    Quantity <- MCQuantity
    Listings = {listing1, listing2}
    Seller <- MCSeller
    Types = {"bien", "espace"}
    Titles = {"robe"}
    Descriptions = {"neuf"}
    Prohibited = {}
    Requests = {r1}
    MaxCapacity = 1
INVARIANTS
    MaxListingsHeld
CHECK_DEADLOCK FALSE
