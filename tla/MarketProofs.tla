------------------------------ MODULE MarketProofs -----------------------------
(***************************************************************************)
(* Theorems about Market, for any sellers, listings and subscriptions: it  *)
(* is an execution of Payables, and one of Catalogue with the capacity     *)
(* that the paid rows cover.  What is proved of the catalogue for a        *)
(* capacity that changes at any time holds for the real one.               *)
(***************************************************************************)
EXTENDS Market, PayablesProofs

-----------------------------------------------------------------------------
(* A step of Payables changes the capacity of one payer at most, so it is  *)
(* a CapacityChanges of the catalogue, or nothing to it.                   *)

\* A subscription or a slot that counts.
Runs(p) == payable[p] = "paid" /\ p \notin ended

\* A step of Payables decides of one row at most whether it counts.
LEMMA OneRowStep ==
    ASSUME PayableInv, PayableNext
    PROVE  \/ \A q \in Payables : Runs(q)' = Runs(q)
           \/ \E p \in Payables : \A q \in Payables \ {p} : Runs(q)' = Runs(q)
<1> USE DEF PayableInv
<1>1. ASSUME NEW r \in Jobs, NEW p \in Payables, NEW via \in Providers,
             Order(r, p) \/ ReceiveWebhook(r, p, via)
      PROVE  \A q \in Payables : Runs(q)' = Runs(q)
  BY <1>1, RowCreated DEF Order, Book, Subscribe, SubscribeExtra, ReceiveWebhook, NewRow, Runs
<1>2. ASSUME NEW r \in Jobs, CreateSlot(r)
      PROVE  \A q \in Payables : Runs(q)' = Runs(q)
  <2>1. job[r].row \in Payables /\ payable[job[r].row] = "absent"
    BY <1>2 DEF CreateSlot, Step, PayableTypeOK, SlotAwaited
  <2> QED
    BY <1>2, <2>1, RowCreated DEF CreateSlot, Runs
<1>3. ASSUME NEW r \in Jobs,
             \/ InitCheckout(r) \/ RecordInitiated(r) \/ CheckStatus(r)
             \/ RecordVerified(r) \/ JobFails(r)
      PROVE  \A q \in Payables : Runs(q)' = Runs(q)
  BY <1>3 DEF InitCheckout, RecordInitiated, CheckStatus, RecordVerified, JobFails, Runs
<1>4. ASSUME NEW r \in Jobs, MarkPaid(r)
      PROVE  \/ \A q \in Payables : Runs(q)' = Runs(q)
             \/ \E p \in Payables : \A q \in Payables \ {p} : Runs(q)' = Runs(q)
  <2>1. \A p, q \in Payables : job[r].ref = OwnRef(p) /\ job[r].ref = OwnRef(q) => p = q
    BY OneReference
  <2>2. /\ payable' = [q \in Payables |-> IF job[r].ref = OwnRef(q) THEN "paid" ELSE payable[q]]
        /\ UNCHANGED ended
    BY <1>4 DEF MarkPaid
  <2>3. CASE \E p \in Payables : job[r].ref = OwnRef(p)
    <3>1. PICK p \in Payables : job[r].ref = OwnRef(p)
      BY <2>3
    <3>2. \A q \in Payables \ {p} : payable'[q] = payable[q]
      BY <2>1, <2>2, <3>1
    <3> QED
      BY <2>2, <3>2 DEF Runs
  <2>4. CASE \A p \in Payables : job[r].ref # OwnRef(p)
    BY <2>2, <2>4 DEF Runs
  <2> QED
    BY <2>3, <2>4
<1>5. ASSUME NEW p \in Payables, CustomerPays(p) \/ TermEnds(p)
      PROVE  \A q \in Payables \ {p} : Runs(q)' = Runs(q)
  BY <1>5 DEF CustomerPays, TermEnds, Runs
<1> HIDE DEF PayableInv, Runs
<1>6. CASE \E p \in Payables : CustomerPays(p) \/ TermEnds(p)
  BY <1>5, <1>6
<1>7. CASE \E r \in Jobs : MarkPaid(r)
  BY <1>4, <1>7
<1>8. CASE \E r \in Jobs : CreateSlot(r)
  BY <1>2, <1>8
<1>9. CASE \E r \in Jobs : \/ InitCheckout(r) \/ RecordInitiated(r) \/ CheckStatus(r)
                           \/ RecordVerified(r) \/ JobFails(r)
  BY <1>3, <1>9
<1>10. CASE \E r \in Jobs : \E p \in Payables :
               Order(r, p) \/ \E via \in Providers : ReceiveWebhook(r, p, via)
  <2>1. PICK r \in Jobs, p \in Payables :
               Order(r, p) \/ \E via \in Providers : ReceiveWebhook(r, p, via)
    BY <1>10
  <2>2. PICK via \in Providers : Order(r, p) \/ ReceiveWebhook(r, p, via)
    BY <2>1 DEF Providers
  <2> QED
    BY <1>1, <2>2
<1> QED
  BY <1>6, <1>7, <1>8, <1>9, <1>10 DEF PayableNext

\* What a payer's subscriptions cover depends on which of its rows count.
LEMMA CapacityDepends ==
    ASSUME NEW s \in Payers, \A q \in Payables : Payer[q] = s => Runs(q)' = Runs(q)
    PROVE  Capacity(s)' = Capacity(s)
<1>1. \A kind : Running(s, kind)' = Running(s, kind)
  BY DEF Running, Runs
<1> QED
  BY <1>1 DEF Capacity

\* So one payer's capacity changes at most.
LEMMA OnePayerStep ==
    ASSUME PayableInv, PayableNext, NEW s \in Payers, Capacity(s)' # Capacity(s)
    PROVE  \A t \in Payers : t # s => Capacity(t)' = Capacity(t)
<1>1. PICK p \in Payables : \A q \in Payables \ {p} : Runs(q)' = Runs(q)
  BY OneRowStep, CapacityDepends
<1>2. \A t \in Payers : Payer[p] # t => Capacity(t)' = Capacity(t)
  BY <1>1, CapacityDepends
<1> QED
  BY <1>2

-----------------------------------------------------------------------------
(* The catalogue of Market is Catalogue.                                   *)

\* MaxCapacity, the bound that Catalogue gives a capacity, is large enough.
MaxCapacityEnough ==
    MaxCapacity \in Nat /\ \A slots \in SUBSET Payables : Covered(slots) \in 0 .. MaxCapacity

\* Nobody has a subscription at first.
LEMMA ShelfInitially == MarketInit => Shelf!Init
<1> SUFFICES ASSUME MarketInit PROVE Shelf!Init
  OBVIOUS
<1>1. \A s \in Payers : Capacity(s) = 0
  BY DEF MarketInit, PayableInit, Capacity, Running
<1> QED
  BY <1>1 DEF MarketInit, Shelf!Init

\* A step of Market is one of the catalogue or leaves it alone.
LEMMA ShelfStep ==
    ASSUME MaxCapacityEnough, PayableInv, [MarketNext]_marketVars
    PROVE  [Shelf!Next]_Shelf!catalogueVars
<1>1. CASE UNCHANGED payableVars /\ \E r \in Requests : Shelf!Handle(r)
  BY <1>1 DEF Shelf!Next
<1>2. CASE UNCHANGED marketVars
  <2>1. \A s \in Payers : Capacity(s)' = Capacity(s)
    BY <1>2, CapacityDepends DEF marketVars, payableVars, Runs
  <2> QED
    BY <1>2, <2>1 DEF marketVars, shelfVars, Shelf!catalogueVars, Shelf!rows, Shelf!quota
<1>3. CASE PayableNext /\ UNCHANGED shelfVars
  <2>1. CASE \A s \in Payers : Capacity(s)' = Capacity(s)
    BY <1>3, <2>1 DEF shelfVars, Shelf!catalogueVars, Shelf!rows, Shelf!quota
  <2>2. ASSUME NEW s \in Payers, Capacity(s)' # Capacity(s) PROVE Shelf!CapacityChanges(s)
    <3>1. \A t \in Payers : t # s => Capacity(t)' = Capacity(t)
      BY <1>3, <2>2, OnePayerStep
    <3>2. Capacity(s)' \in 0 .. MaxCapacity
      <4>1. Running(s, "shop_extra")' \in SUBSET Payables
        BY DEF Running
      <4> QED
        BY <4>1 DEF Capacity, MaxCapacityEnough
    <3> QED
      BY <1>3, <2>2, <3>1, <3>2 DEF shelfVars, Shelf!CapacityChanges, Shelf!rows
  <2> QED
    BY <2>1, <2>2 DEF Shelf!Next, Shelf!Quota
<1> QED
  BY <1>1, <1>2, <1>3 DEF MarketNext

-----------------------------------------------------------------------------
\* The bookings and subscriptions of Market are those of Payables: no request
\* about a listing touches them.
THEOREM MarketPays == MarketSpec => PayableSpec
<1>1. MarketInit => PayableInit
  BY DEF MarketInit
<1>2. [MarketNext]_marketVars => [PayableNext]_payableVars
  BY DEF MarketNext, marketVars
<1> QED
  BY <1>1, <1>2, PTL DEF MarketSpec, PayableSpec

\* The listings of Market are those of Catalogue, judged by what is paid and
\* has not ended: a payment, a term that ends, a webhook change the capacity of
\* one seller at most, at any moment between the read of a request and its
\* write, and nothing else of the catalogue.
THEOREM MarketImplementsCatalogue ==
    ASSUME MaxCapacityEnough
    PROVE  MarketSpec => Shelf!Spec
<1>1. PayableInv /\ [MarketNext]_marketVars => [Shelf!Next]_Shelf!catalogueVars
  BY ShelfStep
<1> QED
  BY <1>1, ShelfInitially, MarketPays, PayableInvariance, PTL DEF MarketSpec, Shelf!Spec

=============================================================================
