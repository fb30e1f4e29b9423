\* Every component on a small instance, two requests at a time.
SPECIFICATION MarketplaceSpec
SYMMETRY Symmetry
CONSTANTS
    None = None
    Reason = Reason
    Nobody = Nobody
    NoFile = NoFile
    NoPayable = NoPayable
    listing = listing
    seller = seller
    photo1 = photo1
    photo2 = photo2
    video1 = video1
    booking1 = booking1
    shop1 = shop1
    slot1 = slot1
    Listings = {listing}
    Sellers = {seller}
    Seller <- MCSeller
    Types = {"bien", "espace"}
    Titles = {"robe", "chanvre"}
    Descriptions = {"neuf", "indien"}
    Prohibited <- MCProhibited
    Requests = {r1, r2}
    MaxCapacity = 1
    Albums = {listing}
    Files = {photo1, photo2, video1}
    Album <- MCAlbum
    Kind <- MCKind
    MaxOf <- MCMaxOf
    Uploaders = {r1, r2}
    MaxMessages = 2
    Calls = {r1, r2}
    Devices = {d1}
    Payables = {booking1, shop1, slot1}
    KindOf <- MCKindOf
    Payers = {seller}
    Payer <- MCPayer
    Provider = "paydunya"
    Keys = {"paydunya"}
    Simulated = {booking1}
    Jobs = {r1, r2}
    MaxHooks = 3
    BaseListings = 1
    Quantity <- MCQuantity
INVARIANTS
    TypeOK
    ComponentsTypeOK
    CleanText
    ActiveHasNoReason
    RowHasFile
    NoOrphanFile
    QuotaKept
    PositionsDistinct
    DeletedLeavesWithItsPost
    AuthorNotNotified
    PaidWasPaid
    AcceptedIsMarked
    SlotRestsOnSubscription
PROPERTIES
    PublicOnlyAfterReview
    DeletedTextKept
    BadgeOnlyByNewMessage
CHECK_DEADLOCK FALSE
