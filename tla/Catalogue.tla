------------------------------ MODULE Catalogue ------------------------------
(***************************************************************************)
(* The listings of TROUVE TOUT and their moderation (src/src/listings,     *)
(* src/src/admin): a seller creates, edits and closes a listing, a         *)
(* moderator approves, rejects or restores it.                             *)
(*                                                                         *)
(* Every handler reads the row, judges what it read, and writes with a     *)
(* second await whose WHERE clause names the id alone.  An arrival is the  *)
(* read with its guards; between it and the write the request keeps its    *)
(* body only, so a write can rest on a row that has changed.  A request    *)
(* whose guards fail changes nothing and is not modelled.                  *)
(***************************************************************************)
EXTENDS Naturals, FiniteSets

CONSTANTS
    Listings,      \* ids a listing can get
    Sellers,       \* accounts that sell
    Seller,        \* Seller[l]: who creates listing l
    Types,         \* listing types, "espace" among them
    Titles,        \* titles and
    Descriptions,  \* descriptions, of which
    Prohibited,    \* these pairs, side by side, name a prohibited item
    Requests,      \* concurrent HTTP requests
    MaxCapacity,   \* listings a subscription with its extra slots covers (a bound)
    Reason,        \* the motive of a rejection, when one is given
    None           \* no listing, no text, a field absent from a body

ASSUME CatalogueAssumption ==
    /\ Seller \in [Listings -> Sellers]
    /\ Prohibited \subseteq Titles \X Descriptions
    /\ None \notin Listings \cup Types \cup Titles \cup Descriptions
    /\ MaxCapacity \in Nat

VARIABLES
    listingStatus,  \* Listing.status, "absent" before the row exists
    type,           \* Listing.type
    title,          \* Listing.title
    description,    \* Listing.description
    withReason,     \* listings whose rejectionReason is set
    capacity,       \* active listings the seller's subscriptions cover now, 0 without one
    promo,          \* is the launch promotion running?
    req,            \* what each request is about to write
    raced           \* listings on which two requests have overlapped (history)

rows == <<listingStatus, type, title, description, withReason>>
quota == <<capacity, promo>>
catalogueVars == <<rows, quota, req, raced>>

ListingStatus == {"draft", "active", "closed", "rejected"}
Idle == [op |-> "idle", listing |-> None, body |-> None]
Body == [title : Titles \cup {None}, description : Descriptions \cup {None},
         type : Types \cup {None}]

FullBody == [title : Titles, description : Descriptions, type : Types]

Clean(t, d) == <<t, d>> \notin Prohibited
Given(new, old) == IF new = None THEN old ELSE new
CleanWith(b, l) == Clean(Given(b.title, title[l]), Given(b.description, description[l]))

\* What the search and the public page of a seller show.
Public == {l \in Listings : listingStatus[l] = "active"}

\* The listings counted against a seller's subscription.
Counted(s) == {l \in Public : Seller[l] = s /\ type[l] # "espace"}

\* assertShopQuota.
HasRoom(s) == promo \/ Cardinality(Counted(s)) < capacity[s]

Init ==
    /\ listingStatus = [l \in Listings |-> "absent"]
    /\ type = [l \in Listings |-> None]
    /\ title = [l \in Listings |-> None]
    /\ description = [l \in Listings |-> None]
    /\ withReason = {}
    /\ capacity = [s \in Sellers |-> 0]
    /\ promo = FALSE
    /\ req = [r \in Requests |-> Idle]
    /\ raced = {}

-----------------------------------------------------------------------------
(* Arrivals: the read of a handler and its guards.                         *)

Begin(r, operation, l, b) ==
    /\ req[r] = Idle
    /\ req' = [req EXCEPT ![r] = [op |-> operation, listing |-> l, body |-> b]]
    /\ raced' = IF \E s \in Requests : req[s].listing = l THEN raced \cup {l} ELSE raced
    /\ UNCHANGED <<rows, quota>>

\* POST /listings: the text, then the quota unless the listing is an "espace".
Create(r, l, b) ==
    /\ listingStatus[l] = "absent" /\ \A s \in Requests : req[s].listing # l
    /\ b \in FullBody
    /\ Clean(b.title, b.description)
    /\ b.type = "espace" \/ HasRoom(Seller[l])
    /\ Begin(r, "create", l, b)

\* Mutation of Update: only what the body brings is judged.
UpdateJudgingBody(r, l, b) ==
    /\ listingStatus[l] # "absent"
    /\ Clean(b.title, b.description)
    /\ Begin(r, "update", l, b)

\* PATCH /listings/:id by its seller: the text it would have after the edit.
Update(r, l, b) ==
    /\ listingStatus[l] # "absent"
    /\ b.title # None \/ b.description # None => CleanWith(b, l)
    /\ Begin(r, "update", l, b)

\* DELETE /listings/:id by its seller.
Close(r, l) ==
    /\ listingStatus[l] # "absent"
    /\ Begin(r, "close", l, None)

\* POST /admin/listings/:id/reject and /takedown, from any status.
Reject(r, l, reason) ==
    /\ listingStatus[l] # "absent"
    /\ Begin(r, "reject", l, reason)

\* POST /admin/listings/:id/restore, for a rejected listing.
Restore(r, l) ==
    /\ listingStatus[l] = "rejected"
    /\ Begin(r, "restore", l, None)

\* Mutation of Approve: the status is not checked.
ApproveAny(r, l) ==
    /\ listingStatus[l] # "absent"
    /\ Begin(r, "approve", l, None)

\* POST /admin/listings/:id/approve, for a draft.
Approve(r, l) ==
    /\ listingStatus[l] = "draft"
    /\ Begin(r, "approve", l, None)

-----------------------------------------------------------------------------
(* Writes.                                                                 *)

Write(r, operation) ==
    /\ req[r].op = operation
    /\ req' = [req EXCEPT ![r] = Idle]
    /\ UNCHANGED <<quota, raced>>

SetStatus(r, operation, s) ==
    /\ Write(r, operation)
    /\ listingStatus' = [listingStatus EXCEPT ![req[r].listing] = s]
    /\ UNCHANGED <<type, title, description>>

\* Mutation of WriteFields: a field absent from the body is emptied.
WriteFieldsNull(l, b) ==
    /\ title' = [title EXCEPT ![l] = b.title]
    /\ description' = [description EXCEPT ![l] = b.description]
    /\ type' = [type EXCEPT ![l] = b.type]

\* Fields absent from the body keep the value the row has by then.
WriteFields(l, b) ==
    /\ title' = [title EXCEPT ![l] = Given(b.title, @)]
    /\ description' = [description EXCEPT ![l] = Given(b.description, @)]
    /\ type' = [type EXCEPT ![l] = Given(b.type, @)]

\* listing.create: pre-moderation, a listing starts as a draft.
WriteCreate(r) ==
    /\ Write(r, "create")
    /\ WriteFields(req[r].listing, req[r].body)
    /\ listingStatus' = [listingStatus EXCEPT ![req[r].listing] = "draft"]
    /\ UNCHANGED withReason

WriteUpdate(r) ==
    /\ Write(r, "update")
    /\ WriteFields(req[r].listing, req[r].body)
    /\ UNCHANGED <<listingStatus, withReason>>

WriteClose(r) ==
    /\ SetStatus(r, "close", "closed")
    /\ UNCHANGED withReason

WriteReject(r) ==
    /\ SetStatus(r, "reject", "rejected")
    /\ withReason' = IF req[r].body = None THEN withReason \ {req[r].listing}
                                            ELSE withReason \cup {req[r].listing}

\* Mutation of WriteRestore: the motive of the rejection stays.
WriteRestoreKeepingReason(r) ==
    /\ SetStatus(r, "restore", "active")
    /\ UNCHANGED withReason

WriteRestore(r) ==
    /\ SetStatus(r, "restore", "active")
    /\ withReason' = withReason \ {req[r].listing}

WriteApprove(r) ==
    /\ SetStatus(r, "approve", "active")
    /\ UNCHANGED withReason

\* The category is unknown, or the database fails, before the write.
Throws(r) ==
    /\ req[r] # Idle
    /\ req' = [req EXCEPT ![r] = Idle]
    /\ UNCHANGED <<rows, quota, raced>>

-----------------------------------------------------------------------------
(* The quota a seller is judged by: the subscriptions are another module's *)
(* business, here they may cover any number of listings at any time.       *)

CapacityChanges(s) ==
    /\ \E n \in 0 .. MaxCapacity : n # capacity[s] /\ capacity' = [capacity EXCEPT ![s] = n]
    /\ UNCHANGED <<rows, promo, req, raced>>

\* The clock passes LAUNCH_DATE, or the end of the promotion.
PromoSwitches ==
    /\ promo' = ~promo
    /\ UNCHANGED <<rows, capacity, req, raced>>

-----------------------------------------------------------------------------
SellerRequest(r, l) ==
    \/ \E b \in Body : Create(r, l, b) \/ Update(r, l, b)
    \/ Close(r, l)

ModeratorRequest(r, l) ==
    \/ \E reason \in {None, Reason} : Reject(r, l, reason)
    \/ Restore(r, l)
    \/ Approve(r, l)

Handle(r) ==
    \/ \E l \in Listings : SellerRequest(r, l) \/ ModeratorRequest(r, l)
    \/ WriteCreate(r) \/ WriteUpdate(r) \/ WriteClose(r)
    \/ WriteReject(r) \/ WriteRestore(r) \/ WriteApprove(r)
    \/ Throws(r)

Quota == PromoSwitches \/ \E s \in Sellers : CapacityChanges(s)

Next == Quota \/ \E r \in Requests : Handle(r)

Spec == Init /\ [][Next]_catalogueVars

-----------------------------------------------------------------------------
(* Properties.                                                             *)

\* Every variable has its type, a request edits or moderates a listing that
\* exists, and a listing that exists has all its fields.
TypeOK ==
    /\ listingStatus \in [Listings -> ListingStatus \cup {"absent"}]
    /\ type \in [Listings -> Types \cup {None}]
    /\ title \in [Listings -> Titles \cup {None}]
    /\ description \in [Listings -> Descriptions \cup {None}]
    /\ withReason \subseteq Listings
    /\ capacity \in [Sellers -> 0 .. MaxCapacity]
    /\ promo \in BOOLEAN
    /\ req \in [Requests -> {Idle}
                  \cup [op : {"create"}, listing : Listings, body : FullBody]
                  \cup [op : {"update"}, listing : Listings, body : Body]
                  \cup [op : {"close", "restore", "approve"}, listing : Listings, body : {None}]
                  \cup [op : {"reject"}, listing : Listings, body : {None, Reason}]]
    /\ raced \subseteq Listings
    /\ \A r \in Requests : req[r].op \notin {"idle", "create"} => listingStatus[req[r].listing] # "absent"
    /\ \A l \in Listings : listingStatus[l] # "absent" =>
          title[l] # None /\ description[l] # None /\ type[l] # None

\* The title and the description of a listing never name a prohibited item
\* between them, however they were edited one at a time, unless two requests
\* overlapped on it (findProhibited judges the field that is not edited as
\* it was read).
CleanText == \A l \in Listings \ raced : Clean(title[l], description[l])

\* A listing on line carries no motive of rejection, "effacé si l'annonce est
\* republiée", unless two requests overlapped on it.
ActiveHasNoReason == Public \cap withReason \subseteq raced

\* A listing comes on line only from the moderators' queue or from among the
\* rejected ones: what its seller has closed, no approval brings back, unless
\* two requests overlapped on it.
PublicOnlyAfterReview ==
    [][\A l \in Public' \ (Public \cup raced) : listingStatus[l] \in {"draft", "rejected"}]_catalogueVars

-----------------------------------------------------------------------------
(* The inductive invariant: a request alone on its listing still knows the *)
(* row it read.                                                            *)

Alone ==
    \A r, s \in Requests :
       req[r].listing = req[s].listing /\ req[r].listing \notin raced \cup {None} => r = s

Judged(r) ==
    LET l == req[r].listing IN
    /\ req[r].op = "create" => listingStatus[l] = "absent"
    /\ req[r].op \in {"create", "update"} => CleanWith(req[r].body, l)
    /\ req[r].op = "restore" => listingStatus[l] = "rejected"
    /\ req[r].op = "approve" => listingStatus[l] = "draft"

StillJudged == \A r \in Requests : req[r].listing \notin raced \cup {None} => Judged(r)

DraftHasNoReason ==
    \A l \in withReason \ raced : listingStatus[l] \notin {"absent", "draft", "active"}

IInv == TypeOK /\ CleanText /\ Alone /\ StillJudged /\ DraftHasNoReason

=============================================================================
