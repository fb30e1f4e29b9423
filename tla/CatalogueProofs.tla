--------------------------- MODULE CatalogueProofs ---------------------------
(***************************************************************************)
(* What holds of the catalogue for any number of listings, sellers and     *)
(* concurrent requests.  The argument is IInv: a request that is alone on  *)
(* its listing writes to the row it has judged.                            *)
(***************************************************************************)
EXTENDS Catalogue, TLAPS

(* A request has the shape of its operation.                               *)
LEMMA RequestShape ==
    ASSUME TypeOK, NEW r \in Requests
    PROVE  /\ req[r] # Idle => req[r].listing \in Listings
           /\ req[r].op = "create" => req[r].body \in FullBody
           /\ req[r].op \in {"create", "update"} => req[r].body \in Body
           /\ req[r].op # "idle" => req[r] # Idle
           /\ req[r] = Idle => req[r].listing = None /\ req[r].op = "idle"
  BY DEF TypeOK, Idle, FullBody, Body

(* An arrival keeps the types.                                             *)
LEMMA BeginTypeOK ==
    ASSUME TypeOK, NEW r \in Requests, NEW l \in Listings, NEW operation, NEW b,
           Begin(r, operation, l, b),
           \/ operation = "create" /\ b \in FullBody
           \/ operation = "update" /\ b \in Body
           \/ operation \in {"close", "restore", "approve"} /\ b = None
           \/ operation = "reject" /\ b \in {None, Reason},
           operation = "create" \/ listingStatus[l] # "absent"
    PROVE  TypeOK'
  BY DEF TypeOK, Begin, rows, quota

LEMMA WriteTypeOK ==
    ASSUME TypeOK, NEW r \in Requests, NEW operation, Write(r, operation)
    PROVE  /\ req' \in [Requests -> {Idle}
                  \cup [op : {"create"}, listing : Listings, body : FullBody]
                  \cup [op : {"update"}, listing : Listings, body : Body]
                  \cup [op : {"close", "restore", "approve"}, listing : Listings, body : {None}]
                  \cup [op : {"reject"}, listing : Listings, body : {None, Reason}]]
           /\ capacity' \in [Sellers -> 0 .. MaxCapacity]
           /\ promo' \in BOOLEAN
           /\ raced' \subseteq Listings
           /\ \A s \in Requests : req'[s].op \notin {"idle", "create"} =>
                 req'[s] = req[s] /\ listingStatus[req[s].listing] # "absent" /\ req[s].listing \in Listings
<1>1. UNCHANGED <<capacity, promo, raced>> /\ req' = [req EXCEPT ![r] = Idle]
  BY DEF Write, quota
<1>2. \A s \in Requests : req'[s].op # "idle" => req'[s] = req[s]
  BY <1>1 DEF TypeOK, Idle
<1>3. \A s \in Requests : req[s].op # "idle" => req[s].listing \in Listings
  BY RequestShape
<1>4. \A s \in Requests : req'[s].op \notin {"idle", "create"} =>
         req'[s] = req[s] /\ listingStatus[req[s].listing] # "absent" /\ req[s].listing \in Listings
  BY <1>2, <1>3 DEF TypeOK
<1> QED
  BY <1>1, <1>4 DEF TypeOK

LEMMA FieldsTypeOK ==
    ASSUME TypeOK, NEW l \in Listings, NEW b \in Body, WriteFields(l, b)
    PROVE  /\ \A m \in Listings : (listingStatus[m] # "absent" \/ (m = l /\ b \in FullBody)) =>
                 title'[m] # None /\ description'[m] # None /\ type'[m] # None
           /\ type' \in [Listings -> Types \cup {None}]
           /\ title' \in [Listings -> Titles \cup {None}]
           /\ description' \in [Listings -> Descriptions \cup {None}]
<1>1. \A old : Given(b.title, old) \in {b.title, old} /\ (old # None \/ b \in FullBody => Given(b.title, old) # None)
  BY CatalogueAssumption DEF Given, FullBody
<1>2. \A old : Given(b.description, old) \in {b.description, old} /\ (old # None \/ b \in FullBody => Given(b.description, old) # None)
  BY CatalogueAssumption DEF Given, FullBody
<1>3. \A old : Given(b.type, old) \in {b.type, old} /\ (old # None \/ b \in FullBody => Given(b.type, old) # None)
  BY CatalogueAssumption DEF Given, FullBody
<1>4. b.title \in Titles \cup {None} /\ b.description \in Descriptions \cup {None} /\ b.type \in Types \cup {None}
  BY DEF Body
<1> QED
  BY <1>1, <1>2, <1>3, <1>4 DEF TypeOK, WriteFields

LEMMA NextTypeOK == TypeOK /\ [Next]_catalogueVars => TypeOK'
<1> SUFFICES ASSUME TypeOK, [Next]_catalogueVars PROVE TypeOK'
  OBVIOUS
<1>1. ASSUME NEW r \in Requests, NEW l \in Listings, SellerRequest(r, l) PROVE TypeOK'
  <2>1. ASSUME NEW b \in Body, Create(r, l, b) PROVE TypeOK'
    BY <2>1, BeginTypeOK DEF Create
  <2>2. ASSUME NEW b \in Body, Update(r, l, b) PROVE TypeOK'
    BY <2>2, BeginTypeOK DEF Update
  <2>3. CASE Close(r, l)
    BY <2>3, BeginTypeOK DEF Close
  <2> QED
    BY <1>1, <2>1, <2>2, <2>3 DEF SellerRequest
<1>2. ASSUME NEW r \in Requests, NEW l \in Listings, ModeratorRequest(r, l) PROVE TypeOK'
  <2>1. ASSUME NEW reason \in {None, Reason}, Reject(r, l, reason) PROVE TypeOK'
    BY <2>1, BeginTypeOK DEF Reject
  <2>2. CASE Restore(r, l)
    BY <2>2, BeginTypeOK DEF Restore
  <2>3. CASE Approve(r, l)
    BY <2>3, BeginTypeOK DEF Approve
  <2> QED
    BY <1>2, <2>1, <2>2, <2>3 DEF ModeratorRequest
<1>3. ASSUME NEW r \in Requests, WriteCreate(r) PROVE TypeOK'
  <2> DEFINE l == req[r].listing
  <2>1. l \in Listings /\ req[r].body \in Body /\ req[r].body \in FullBody
    BY <1>3, RequestShape DEF WriteCreate, Write
  <2>2. Write(r, "create") /\ WriteFields(l, req[r].body)
    BY <1>3 DEF WriteCreate
  <2>3. /\ listingStatus' \in [Listings -> ListingStatus \cup {"absent"}]
        /\ \A m \in Listings : listingStatus[m] # "absent" => listingStatus'[m] # "absent"
        /\ \A m \in Listings : listingStatus'[m] # "absent" => listingStatus[m] # "absent" \/ m = l
        /\ withReason' = withReason
    BY <1>3, <2>1 DEF TypeOK, WriteCreate, ListingStatus
  <2> QED
    BY <2>1, <2>2, <2>3, WriteTypeOK, FieldsTypeOK DEF TypeOK
<1>4. ASSUME NEW r \in Requests, WriteUpdate(r) PROVE TypeOK'
  <2>1. req[r].listing \in Listings /\ req[r].body \in Body
    BY <1>4, RequestShape DEF WriteUpdate, Write
  <2>2. Write(r, "update") /\ WriteFields(req[r].listing, req[r].body) /\ UNCHANGED <<listingStatus, withReason>>
    BY <1>4 DEF WriteUpdate
  <2> QED
    BY <2>1, <2>2, WriteTypeOK, FieldsTypeOK DEF TypeOK
<1>5. ASSUME NEW r \in Requests, WriteClose(r) \/ WriteReject(r) \/ WriteRestore(r) \/ WriteApprove(r)
      PROVE TypeOK'
  <2> DEFINE l == req[r].listing
  <2>1. PICK operation \in {"close", "reject", "restore", "approve"} :
           \E s \in {"closed", "rejected", "active"} : SetStatus(r, operation, s)
    BY <1>5 DEF WriteClose, WriteReject, WriteRestore, WriteApprove
  <2>2. Write(r, operation) /\ req[r].op = operation
    BY <2>1 DEF SetStatus, Write
  <2>3. l \in Listings
    BY <2>2, RequestShape
  <2>4. listingStatus[l] # "absent"
    BY <2>2 DEF TypeOK
  <2>5. /\ listingStatus' \in [Listings -> ListingStatus \cup {"absent"}]
        /\ \A m \in Listings : listingStatus'[m] # "absent" <=> listingStatus[m] # "absent"
        /\ UNCHANGED <<type, title, description>>
    BY <2>1, <2>3, <2>4 DEF TypeOK, SetStatus, ListingStatus
  <2>6. withReason' \subseteq Listings
    BY <1>5, <2>3 DEF TypeOK, WriteClose, WriteReject, WriteRestore, WriteApprove
  <2> QED
    BY <2>2, <2>5, <2>6, WriteTypeOK DEF TypeOK
<1>6. ASSUME NEW r \in Requests, Throws(r) PROVE TypeOK'
  <2>1. UNCHANGED <<rows, quota, raced>> /\ req' = [req EXCEPT ![r] = Idle]
    BY <1>6 DEF Throws
  <2>2. \A s \in Requests : req'[s].op # "idle" => req'[s] = req[s]
    BY <2>1 DEF TypeOK, Idle
  <2> QED
    BY <2>1, <2>2 DEF TypeOK, rows, quota
<1>7. ASSUME Quota PROVE TypeOK'
  <2>1. UNCHANGED <<rows, req, raced>>
    BY <1>7 DEF Quota, PromoSwitches, CapacityChanges
  <2>2. capacity' \in [Sellers -> 0 .. MaxCapacity]
    BY <1>7 DEF TypeOK, Quota, PromoSwitches, CapacityChanges
  <2>3. promo' \in BOOLEAN
    BY <1>7, Zenon DEF TypeOK, Quota, PromoSwitches, CapacityChanges
  <2> QED
    BY <2>1, <2>2, <2>3 DEF TypeOK, rows
<1>8. CASE UNCHANGED catalogueVars
  BY <1>8 DEF TypeOK, catalogueVars, rows, quota
<1> QED
  BY <1>1, <1>2, <1>3, <1>4, <1>5, <1>6, <1>7, <1>8 DEF Next, Handle

LEMMA InitTypeOK == Init => TypeOK
<1> SUFFICES ASSUME Init PROVE TypeOK
  OBVIOUS
<1>1. req \in [Requests -> {Idle}]
  BY DEF Init
<1>2. capacity \in [Sellers -> 0 .. MaxCapacity]
  BY CatalogueAssumption DEF Init
<1>3. \A r \in Requests : req[r].op = "idle"
  BY DEF Init, Idle
<1> QED
  BY <1>1, <1>2, <1>3 DEF Init, TypeOK

(* TypeOK holds of every execution.                                        *)
THEOREM TypeCorrect == Spec => []TypeOK
<1> QED
  BY InitTypeOK, NextTypeOK, PTL DEF Spec

-----------------------------------------------------------------------------
(* Two requests on one listing mark it, so a request on an unmarked one is *)
(* alone.                                                                  *)

LEMMA BeginAlone ==
    ASSUME TypeOK, Alone, NEW r \in Requests, NEW l \in Listings, NEW operation, NEW b,
           Begin(r, operation, l, b)
    PROVE  /\ Alone'
           /\ raced \subseteq raced'
           /\ l \notin raced' => \A s \in Requests : req[s].listing # l
           /\ req'[r] = [op |-> operation, listing |-> l, body |-> b]
           /\ \A s \in Requests \ {r} : req'[s] = req[s]
<1>1. /\ req'[r] = [op |-> operation, listing |-> l, body |-> b]
      /\ \A s \in Requests \ {r} : req'[s] = req[s]
  BY DEF TypeOK, Begin
<1>2. raced \subseteq raced' /\ (l \notin raced' => \A s \in Requests : req[s].listing # l)
  BY DEF Begin
<1>3. Alone'
  <2> SUFFICES ASSUME NEW s \in Requests, NEW t \in Requests,
                      req'[s].listing = req'[t].listing, req'[s].listing \notin raced' \cup {None},
                      s # t
               PROVE  FALSE
    BY DEF Alone
  <2>1. req'[r].listing = l
    BY <1>1
  <2>2. s # r /\ t # r
    BY <1>1, <1>2, <2>1
  <2> QED
    BY <1>1, <1>2, <2>2 DEF Alone
<1> QED
  BY <1>1, <1>2, <1>3

(* A request that begins has judged the row it read, and leaves the rows   *)
(* alone.                                                                  *)
LEMMA BeginIInv ==
    ASSUME IInv, TypeOK', NEW r \in Requests, NEW l \in Listings, NEW operation, NEW b,
           Begin(r, operation, l, b), Judged(r)'
    PROVE  IInv'
<1>1. UNCHANGED rows
  BY DEF Begin
<1>2. Alone' /\ raced \subseteq raced' /\ \A s \in Requests \ {r} : req'[s] = req[s]
  BY BeginAlone DEF IInv
<1>3. StillJudged'
  BY <1>1, <1>2 DEF IInv, StillJudged, Judged, CleanWith, rows
<1>4. CleanText' /\ DraftHasNoReason'
  BY <1>1, <1>2 DEF IInv, CleanText, DraftHasNoReason, rows
<1> QED
  BY <1>2, <1>3, <1>4 DEF IInv

(* A request that ends leaves the others alone on their listings, and its  *)
(* own listing, if unmarked, without any request.                          *)
LEMMA WriteAlone ==
    ASSUME TypeOK, Alone, NEW r \in Requests, NEW operation, Write(r, operation),
           operation # "idle"
    PROVE  /\ Alone'
           /\ raced' = raced
           /\ req[r].listing \in Listings
           /\ \A s \in Requests :
                 /\ req'[s].listing # None => s # r /\ req'[s] = req[s]
                 /\ req[r].listing \notin raced => req'[s].listing # req[r].listing
<1>1. req[r] # Idle /\ req[r].listing \in Listings /\ req[r].listing # None
  BY RequestShape, CatalogueAssumption DEF Write
<1> QED
  BY <1>1 DEF TypeOK, Alone, Write, Idle

(* What a write of listing l says of the requests on the other listings.   *)
LEMMA OthersStillJudged ==
    ASSUME StillJudged, NEW l \in Listings, raced' = raced,
           \A s \in Requests :
              /\ req'[s].listing # None => req'[s] = req[s]
              /\ l \notin raced => req'[s].listing # l,
           \A m \in Listings \ {l} :
              /\ listingStatus'[m] = listingStatus[m]
              /\ title'[m] = title[m] /\ description'[m] = description[m],
           TypeOK, TypeOK'
    PROVE  StillJudged'
<1> SUFFICES ASSUME NEW s \in Requests, req'[s].listing \notin raced' \cup {None}
             PROVE  Judged(s)'
  BY DEF StillJudged
<1>1. req'[s] = req[s] /\ req[s].listing \in Listings \ {l}
  <2>1. req'[s] = req[s] /\ req[s].listing # l
    OBVIOUS
  <2>2. req[s].listing \in Listings
    BY <2>1, RequestShape
  <2> QED
    BY <2>1, <2>2
<1>2. Judged(s)
  BY <1>1 DEF StillJudged
<1> QED
  BY <1>1, <1>2 DEF Judged, CleanWith

LEMMA NextIInv == IInv /\ [Next]_catalogueVars => IInv'
<1> SUFFICES ASSUME IInv, [Next]_catalogueVars PROVE IInv'
  OBVIOUS
<1>0. TypeOK /\ TypeOK'
  BY NextTypeOK DEF IInv
<1>1. ASSUME NEW r \in Requests, NEW l \in Listings, NEW b \in Body, Create(r, l, b) PROVE IInv'
  <2>1. Begin(r, "create", l, b) /\ UNCHANGED rows
    BY <1>1 DEF Create, Begin
  <2>2. req'[r] = [op |-> "create", listing |-> l, body |-> b]
    BY <1>0, <2>1 DEF Begin, TypeOK
  <2>3. Judged(r)'
    <3>1. b.title # None /\ b.description # None
      BY <1>1, CatalogueAssumption DEF Create, FullBody
    <3> QED
      BY <1>1, <2>1, <2>2, <3>1 DEF Create, Judged, CleanWith, Given, rows
  <2> QED
    BY <1>0, <2>1, <2>3, BeginIInv
<1>2. ASSUME NEW r \in Requests, NEW l \in Listings, NEW b \in Body, Update(r, l, b) PROVE IInv'
  <2>1. Begin(r, "update", l, b) /\ UNCHANGED rows
    BY <1>2 DEF Update, Begin
  <2>2. /\ req'[r] = [op |-> "update", listing |-> l, body |-> b]
        /\ raced \subseteq raced'
    BY <1>0, <2>1, BeginAlone DEF IInv
  <2>3. CASE l \in raced'
    <3>1. StillJudged'
      BY <1>0, <2>1, <2>2, <2>3, BeginAlone DEF IInv, StillJudged, Judged, CleanWith, rows
    <3> QED
      BY <1>0, <2>1, <2>2, <3>1, BeginAlone DEF IInv, CleanText, DraftHasNoReason, rows
  <2>4. CASE l \notin raced'
    <3>1. CleanWith(b, l)
      <4>1. Clean(title[l], description[l])
        BY <2>2, <2>4 DEF IInv, CleanText
      <4> QED
        BY <1>2, <4>1 DEF Update, CleanWith, Given
    <3>2. Judged(r)'
      BY <2>1, <2>2, <3>1 DEF Judged, CleanWith, rows
    <3> QED
      BY <1>0, <2>1, <3>2, BeginIInv
  <2> QED
    BY <2>3, <2>4
<1>3. ASSUME NEW r \in Requests, NEW l \in Listings, Close(r, l) PROVE IInv'
  <2>1. Begin(r, "close", l, None)
    BY <1>3 DEF Close
  <2>2. Judged(r)'
    BY <1>0, <2>1 DEF Begin, TypeOK, Judged
  <2> QED
    BY <1>0, <2>1, <2>2, BeginIInv
<1>4. ASSUME NEW r \in Requests, NEW l \in Listings, ModeratorRequest(r, l) PROVE IInv'
  <2>1. ASSUME NEW reason \in {None, Reason}, Reject(r, l, reason) PROVE IInv'
    <3>1. Begin(r, "reject", l, reason)
      BY <2>1 DEF Reject
    <3>2. Judged(r)'
      BY <1>0, <3>1 DEF Begin, TypeOK, Judged
    <3> QED
      BY <1>0, <3>1, <3>2, BeginIInv
  <2>2. CASE Restore(r, l)
    <3>1. Begin(r, "restore", l, None)
      BY <2>2 DEF Restore
    <3>2. Judged(r)'
      BY <1>0, <2>2, <3>1 DEF Restore, Begin, TypeOK, Judged, rows
    <3> QED
      BY <1>0, <3>1, <3>2, BeginIInv
  <2>3. CASE Approve(r, l)
    <3>1. Begin(r, "approve", l, None)
      BY <2>3 DEF Approve
    <3>2. Judged(r)'
      BY <1>0, <2>3, <3>1 DEF Approve, Begin, TypeOK, Judged, rows
    <3> QED
      BY <1>0, <3>1, <3>2, BeginIInv
  <2> QED
    BY <1>4, <2>1, <2>2, <2>3 DEF ModeratorRequest
<1>5. ASSUME NEW r \in Requests, WriteCreate(r) PROVE IInv'
  <2> DEFINE l == req[r].listing
  <2>1. Write(r, "create") /\ WriteFields(l, req[r].body) /\ l \in Listings
    BY <1>0, <1>5, WriteAlone DEF IInv, WriteCreate
  <2>2. Alone' /\ StillJudged'
    BY <1>0, <1>5, <2>1, WriteAlone, OthersStillJudged DEF IInv, WriteCreate, WriteFields, TypeOK
  <2>3. l \notin raced => Judged(r)
    BY <2>1, CatalogueAssumption DEF IInv, StillJudged
  <2>4. CleanText' /\ DraftHasNoReason'
    BY <1>0, <1>5, <2>1, <2>3
       DEF IInv, TypeOK, WriteCreate, WriteFields, Write, Judged, CleanWith, CleanText, DraftHasNoReason
  <2> QED
    BY <1>0, <2>2, <2>4 DEF IInv
<1>6. ASSUME NEW r \in Requests, WriteUpdate(r) PROVE IInv'
  <2> DEFINE l == req[r].listing
  <2>1. Write(r, "update") /\ WriteFields(l, req[r].body) /\ l \in Listings
    BY <1>0, <1>6, WriteAlone DEF IInv, WriteUpdate
  <2>2. Alone' /\ StillJudged'
    BY <1>0, <1>6, <2>1, WriteAlone, OthersStillJudged DEF IInv, WriteUpdate, WriteFields, TypeOK
  <2>3. l \notin raced => Judged(r)
    BY <2>1, CatalogueAssumption DEF IInv, StillJudged
  <2>4. CleanText' /\ DraftHasNoReason'
    BY <1>0, <1>6, <2>1, <2>3
       DEF IInv, TypeOK, WriteUpdate, WriteFields, Write, Judged, CleanWith, CleanText, DraftHasNoReason
  <2> QED
    BY <1>0, <2>2, <2>4 DEF IInv
<1>7. ASSUME NEW r \in Requests, WriteClose(r) \/ WriteReject(r) \/ WriteRestore(r) \/ WriteApprove(r)
      PROVE IInv'
  <2> DEFINE l == req[r].listing
  <2>1. PICK operation \in {"close", "reject", "restore", "approve"} :
           \E s \in {"closed", "rejected", "active"} : SetStatus(r, operation, s)
    BY <1>7 DEF WriteClose, WriteReject, WriteRestore, WriteApprove
  <2>2. Write(r, operation) /\ UNCHANGED <<title, description>> /\ l \in Listings /\ operation # "idle"
    BY <1>0, <2>1, WriteAlone DEF IInv, SetStatus
  <2>3. Alone' /\ StillJudged'
    BY <1>0, <2>1, <2>2, WriteAlone, OthersStillJudged DEF IInv, SetStatus, TypeOK
  <2>4. CleanText'
    BY <2>2 DEF IInv, CleanText, Write
  <2>5. l \notin raced => Judged(r)
    BY <2>2, CatalogueAssumption DEF IInv, StillJudged
  <2>6. DraftHasNoReason'
    BY <1>0, <1>7, <2>2, <2>5
       DEF IInv, TypeOK, DraftHasNoReason, Judged, WriteClose, WriteReject, WriteRestore, WriteApprove,
           SetStatus, Write
  <2> QED
    BY <1>0, <2>3, <2>4, <2>6 DEF IInv
<1>8. ASSUME NEW r \in Requests, Throws(r) PROVE IInv'
  <2>1. Alone' /\ StillJudged'
    BY <1>0, <1>8, CatalogueAssumption
       DEF IInv, TypeOK, Throws, rows, Alone, StillJudged, Judged, CleanWith, Idle
  <2> QED
    BY <1>0, <1>8, <2>1 DEF IInv, Throws, rows, CleanText, DraftHasNoReason
<1>9. ASSUME Quota \/ UNCHANGED catalogueVars PROVE IInv'
  <2>1. UNCHANGED <<rows, req, raced>>
    BY <1>9 DEF Quota, PromoSwitches, CapacityChanges, catalogueVars
  <2> QED
    BY <1>0, <2>1
       DEF IInv, rows, Alone, StillJudged, Judged, CleanWith, CleanText, DraftHasNoReason
<1> QED
  BY <1>1, <1>2, <1>3, <1>4, <1>5, <1>6, <1>7, <1>8, <1>9 DEF Next, Handle, SellerRequest

THEOREM Invariance == Spec => []IInv
<1>1. Init => IInv
  <2>1. ASSUME Init PROVE IInv
    <3>1. TypeOK
      BY <2>1, InitTypeOK
    <3>2. Alone /\ StillJudged
      BY <2>1 DEF Init, Alone, StillJudged, Idle
    <3>3. CleanText /\ DraftHasNoReason
      <4>1. <<None, None>> \notin Titles \X Descriptions
        BY CatalogueAssumption
      <4> QED
        BY <2>1, <4>1, CatalogueAssumption DEF Init, CleanText, Clean, DraftHasNoReason
    <3> QED
      BY <3>1, <3>2, <3>3 DEF IInv
  <2> QED
    BY <2>1
<1> QED
  BY <1>1, NextIInv, PTL DEF Spec

-----------------------------------------------------------------------------
(* The text of a listing stays clean however its fields are edited one at  *)
(* a time, if no two requests overlap on it.                               *)
THEOREM TextStaysClean == Spec => []CleanText
<1>1. IInv => CleanText
  BY DEF IInv
<1> QED
  BY <1>1, Invariance, PTL

(* No listing on line carries the motive of an earlier rejection, if no    *)
(* two requests overlapped on it.                                          *)
THEOREM ReasonErased == Spec => []ActiveHasNoReason
<1>1. IInv => ActiveHasNoReason
  BY DEF IInv, DraftHasNoReason, ActiveHasNoReason, Public, TypeOK
<1> QED
  BY <1>1, Invariance, PTL

(* Nothing but a moderator's decision about a draft or a rejected listing  *)
(* brings a listing on line, if no two requests overlapped on it.          *)
THEOREM ReviewedFirst == Spec => PublicOnlyAfterReview
<1> DEFINE Reviewed == \A l \in Public' \ (Public \cup raced) : listingStatus[l] \in {"draft", "rejected"}
<1>1. IInv /\ [Next]_catalogueVars => [Reviewed]_catalogueVars
  <2> SUFFICES ASSUME IInv, Next, NEW l \in Public' \ (Public \cup raced)
               PROVE  listingStatus[l] \in {"draft", "rejected"}
    OBVIOUS
  <2>1. listingStatus'[l] = "active" /\ listingStatus[l] # "active" /\ l \in Listings \ raced
    BY DEF Public
  <2>2. PICK r \in Requests : WriteRestore(r) \/ WriteApprove(r)
    BY <2>1 DEF IInv, TypeOK, Next, Handle, SellerRequest, ModeratorRequest, Create, Update, Close,
                Reject, Restore, Approve, Begin, WriteCreate, WriteUpdate, WriteClose, WriteReject,
                SetStatus, Throws, Quota, PromoSwitches, CapacityChanges, rows
  <2>3. req[r].listing = l /\ req[r].op \in {"restore", "approve"}
    BY <2>1, <2>2 DEF IInv, TypeOK, WriteRestore, WriteApprove, SetStatus, Write
  <2> QED
    BY <2>1, <2>3, CatalogueAssumption DEF IInv, StillJudged, Judged
<1> QED
  BY <1>1, Invariance, PTL DEF Spec, PublicOnlyAfterReview

=============================================================================
