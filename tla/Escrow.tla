------------------------------- MODULE Escrow -------------------------------
(***************************************************************************)
(* The escrow of TROUVE TOUT: orders, the collect of their price, payout,  *)
(* dispute, refund, automatic release and review (src/src/orders,          *)
(* src/src/payments, src/src/admin, src/src/reviews).                      *)
(*                                                                         *)
(* The backend opens no database transaction and takes no lock: a request  *)
(* is a sequence of awaits, each one call of Prisma (atomic in PostgreSQL) *)
(* or of a payment provider.  A process is a request slot (Handlers) or a  *)
(* run of the hourly scheduler (Crons); its pc names the await it is about *)
(* to perform, and processes interleave at every await.  The first read of *)
(* a request and its guards are one step; a request whose guards fail      *)
(* changes nothing and is not modelled.                                    *)
(***************************************************************************)
EXTENDS Naturals, FiniteSets

CONSTANTS
    Users,        \* accounts
    Orders,       \* ids an order can get; each is for one listing
    Seller,       \* Seller[o]: who sells the listing of order o
    ListingType,  \* ListingType[o]: "bien", "service", "emploi" or "espace"
    Provider,     \* PAYMENT_DEFAULT_PROVIDER, where checkouts are opened
    Keys,         \* providers whose keys are configured when webhooks come
    Simulated,    \* orders created while Provider had no keys
    Handlers,     \* concurrent HTTP requests and webhooks
    Crons,        \* concurrent runs of OrdersEscrowScheduler
    MaxPayouts,   \* payout rows (a bound)
    MaxHooks,     \* webhooks that name an order (a bound)
    MaxFaults,    \* failed calls, crashes and provider errors (a bound)
    None          \* no user, no order, no payout

Processes == Handlers \cup Crons
Providers == {"cinetpay", "paydunya"}

\* Payout rows are numbered in the order of their creation.
Payouts == 1 .. MaxPayouts

ASSUME EscrowAssumption ==
    /\ Seller \in [Orders -> Users]
    /\ ListingType \in [Orders -> {"bien", "service", "emploi", "espace"}]
    /\ Provider \in Providers /\ Keys \subseteq Providers
    /\ Simulated \subseteq Orders
    /\ Handlers \cap Crons = {}
    /\ None \notin Users \cup Orders \cup Nat
    /\ MaxPayouts \in Nat /\ MaxHooks \in Nat /\ MaxFaults \in Nat

VARIABLES
    (* the database *)
    status,        \* Order.status, "absent" before order.create
    buyer,         \* Order.buyerId
    deadline,      \* Order.autoReleaseAt: "none", "running" or "past"
    events,        \* PaymentEvent rows that name an order, by rawStatus
    payoutOrder,   \* Payout.orderId, None when the row does not exist
    payoutStatus,  \* Payout.status, "absent" when the row does not exist
    refundStatus,  \* status of the only Refund row an order can have
    reviewed,      \* orders with a Review row
    (* the payment provider *)
    collect,       \* checkout of an order: "none", "open" or "paid"
    paidOut,       \* payout rows whose transfer reached the seller
    refundsMade,   \* transfers made to the buyer of an order
    hooks,         \* webhooks that named an order
    (* the processes *)
    pc,            \* the await a process is about to perform
    target,        \* the order it works on
    row,           \* the payout row it works on
    todo,          \* due orders a scheduler run has still to release
    asked,         \* the provider it asks, and about which order's checkout
    faults         \* faults so far

orderVars    == <<status, buyer, deadline>>
payoutVars   == <<payoutOrder, payoutStatus, paidOut>>
refundVars   == <<refundStatus, refundsMade>>
collectVars  == <<events, collect, hooks>>
processVars  == <<pc, target, row, todo, asked>>
vars == <<orderVars, payoutVars, refundVars, collectVars, processVars, reviewed, faults>>

OrderStatus  == {"pending", "paid_escrow", "released", "refunded", "disputed"}
PayoutStatus == {"queued", "sent", "failed"}
Checks       == [via : Providers, about : Orders]
NoCheck      == [via |-> "none", about |-> None]
RawStatus    == {"INITIATED", "SIMULATED_AUTO_CONFIRMED", "ACCEPTED", "REFUSED"}
PcValues     == {"idle",
                 "initCheckout", "recordInitiated", "markPaid",
                 "checkStatus", "recordAccepted", "recordRefused",
                 "createPayout", "transfer", "markSent", "markFailed", "release",
                 "dispute", "review",
                 "createRefund", "refundTransfer", "refundSent", "refundFailed",
                 "closeRefunded"}

Init ==
    /\ status = [o \in Orders |-> "absent"]
    /\ buyer = [o \in Orders |-> None]
    /\ deadline = [o \in Orders |-> "none"]
    /\ events = [o \in Orders |-> {}]
    /\ payoutOrder = [p \in Payouts |-> None]
    /\ payoutStatus = [p \in Payouts |-> "absent"]
    /\ refundStatus = [o \in Orders |-> "absent"]
    /\ reviewed = {}
    /\ collect = [o \in Orders |-> "none"]
    /\ paidOut = {}
    /\ refundsMade = [o \in Orders |-> 0]
    /\ hooks = [o \in Orders |-> 0]
    /\ pc = [r \in Processes |-> "idle"]
    /\ target = [r \in Processes |-> None]
    /\ row = [r \in Processes |-> None]
    /\ todo = [r \in Processes |-> {}]
    /\ asked = [r \in Processes |-> NoCheck]
    /\ faults = 0

-----------------------------------------------------------------------------
(* Control flow of a process.                                              *)

\* A request about order o arrives and stops before its await s.
Enter(r, o, s) ==
    /\ r \in Handlers
    /\ pc[r] = "idle"
    /\ pc' = [pc EXCEPT ![r] = s]
    /\ target' = [target EXCEPT ![r] = o]
    /\ UNCHANGED <<row, todo>>

Begin(r, o, s) == Enter(r, o, s) /\ UNCHANGED asked

\* Process r performs its await s and goes on to the await t.
Move(r, s, t) ==
    /\ pc[r] = s
    /\ pc' = [pc EXCEPT ![r] = t]
    /\ UNCHANGED <<target, row, todo>>

Step(r, s, t) == Move(r, s, t) /\ UNCHANGED asked

\* Process r is done with its order, after the await s: a request is
\* answered, a scheduler run takes the next due order of its snapshot.
Finish(r, s) ==
    /\ pc[r] = s
    /\ row' = [row EXCEPT ![r] = None]
    /\ UNCHANGED asked
    /\ \/ /\ todo[r] = {}
          /\ pc' = [pc EXCEPT ![r] = "idle"]
          /\ target' = [target EXCEPT ![r] = None]
          /\ UNCHANGED todo
       \/ \E o \in todo[r] :
             /\ pc' = [pc EXCEPT ![r] = "createPayout"]
             /\ target' = [target EXCEPT ![r] = o]
             /\ todo' = [todo EXCEPT ![r] = @ \ {o}]

\* An exception ends the request, or the whole scheduler run.
Abandon(r) ==
    /\ pc' = [pc EXCEPT ![r] = "idle"]
    /\ target' = [target EXCEPT ![r] = None]
    /\ row' = [row EXCEPT ![r] = None]
    /\ todo' = [todo EXCEPT ![r] = {}]
    /\ asked' = [asked EXCEPT ![r] = NoCheck]

SetStatus(o, s) ==
    /\ status' = [status EXCEPT ![o] = s]
    /\ UNCHANGED <<buyer, deadline>>

Fault == faults < MaxFaults /\ faults' = faults + 1

-----------------------------------------------------------------------------
(* POST /orders and the collect of the price.                              *)

\* OrdersService.create up to order.create.  The listing's status is not read.
CreateOrder(r, o, u) ==
    /\ status[o] = "absent"
    /\ ListingType[o] \in {"bien", "service"}
    /\ Seller[o] # u
    /\ status' = [status EXCEPT ![o] = "pending"]
    /\ buyer' = [buyer EXCEPT ![o] = u]
    /\ UNCHANGED deadline
    /\ Begin(r, o, "initCheckout")
    /\ UNCHANGED <<payoutVars, refundVars, collectVars, reviewed, faults>>

\* initCheckout: without keys nothing is called, with keys the provider opens
\* a payment page.
InitCheckout(r) ==
    LET o == target[r] IN
    /\ Step(r, "initCheckout", "recordInitiated")
    /\ collect' = IF o \in Simulated THEN collect
                  ELSE [collect EXCEPT ![o] = "open"]
    /\ UNCHANGED <<orderVars, payoutVars, refundVars, events, hooks, reviewed, faults>>

\* initiateCollect records the checkout; a simulated one goes on to
\* markPayablePaid, a real one answers the payment page.
RecordInitiated(r) ==
    LET o == target[r] IN
    /\ \/ /\ Step(r, "recordInitiated", "markPaid")
          /\ o \in Simulated
          /\ events' = [events EXCEPT ![o] = @ \cup {"SIMULATED_AUTO_CONFIRMED"}]
       \/ /\ Finish(r, "recordInitiated")
          /\ o \notin Simulated
          /\ events' = [events EXCEPT ![o] = @ \cup {"INITIATED"}]
    /\ UNCHANGED <<orderVars, payoutVars, refundVars, collect, hooks, reviewed, faults>>

\* Mutation of MarkPaid: autoReleaseAt is forgotten.
MarkPaidNoDeadline(r) ==
    /\ Finish(r, "markPaid")
    /\ SetStatus(target[r], "paid_escrow")
    /\ UNCHANGED <<payoutVars, refundVars, collectVars, reviewed, faults>>

\* markPayablePaid for an order: whatever its status, it becomes paid_escrow
\* and its release deadline starts again.
MarkPaid(r) ==
    LET o == target[r] IN
    /\ Finish(r, "markPaid")
    /\ status' = [status EXCEPT ![o] = "paid_escrow"]
    /\ deadline' = [deadline EXCEPT ![o] = "running"]
    /\ UNCHANGED <<buyer, payoutVars, refundVars, collectVars, reviewed, faults>>

\* The buyer pays on the provider's page.
CustomerPays(o) ==
    /\ collect[o] = "open"
    /\ collect' = [collect EXCEPT ![o] = "paid"]
    /\ UNCHANGED <<orderVars, payoutVars, refundVars, events, hooks, processVars, reviewed, faults>>

\* POST /webhooks/cinetpay and /webhooks/paydunya are public: a call may come
\* at any time, several times, and name any order o as its reference.  On the
\* first route the status asked for is that of the reference; on the second,
\* open only to bodies with the hash of the master key, it is that of the token
\* in the body, whose order t nothing compares with o.  No row is read before.
\* A reference that names no order ends in an event that names none.
ReceiveWebhook(r, o, via, t) ==
    /\ via = "cinetpay" => t = o
    /\ via = "paydunya" => "paydunya" \in Keys
    /\ status[o] # "absent"
    /\ hooks[o] < MaxHooks
    /\ hooks' = [hooks EXCEPT ![o] = @ + 1]
    /\ Enter(r, o, "checkStatus")
    /\ asked' = [asked EXCEPT ![r] = [via |-> via, about |-> t]]
    /\ UNCHANGED <<orderVars, payoutVars, refundVars, events, collect, reviewed, faults>>

\* What checkStatus answers: without keys CinetPay is not called and the answer
\* is ACCEPTED; a provider knows the checkouts it opened.
SaysPaid(check) ==
    \/ check.via = "cinetpay" /\ "cinetpay" \notin Keys
    \/ check.via = Provider /\ collect[check.about] = "paid"

\* Mutation of CheckStatus: the webhook is believed.
CheckStatusSkipped(r) ==
    /\ Move(r, "checkStatus", "recordAccepted")
    /\ asked' = [asked EXCEPT ![r] = NoCheck]
    /\ UNCHANGED <<orderVars, payoutVars, refundVars, collectVars, reviewed, faults>>

\* checkStatus asks the provider.
CheckStatus(r) ==
    /\ Move(r, "checkStatus", IF SaysPaid(asked[r]) THEN "recordAccepted" ELSE "recordRefused")
    /\ asked' = [asked EXCEPT ![r] = NoCheck]
    /\ UNCHANGED <<orderVars, payoutVars, refundVars, collectVars, reviewed, faults>>

\* applyVerifiedCollect records the answer under the reference, and marks its
\* order paid only when the answer said so.
RecordVerified(r) ==
    LET o == target[r] IN
    /\ \/ /\ Step(r, "recordAccepted", "markPaid")
          /\ events' = [events EXCEPT ![o] = @ \cup {"ACCEPTED"}]
       \/ /\ Finish(r, "recordRefused")
          /\ events' = [events EXCEPT ![o] = @ \cup {"REFUSED"}]
    /\ UNCHANGED <<orderVars, payoutVars, refundVars, collect, hooks, reviewed, faults>>

-----------------------------------------------------------------------------
(* Release of the escrow.                                                  *)

\* Mutation of ConfirmReceipt: the status is not checked.
ConfirmReceiptAnyStatus(r, o, u) ==
    /\ buyer[o] = u
    /\ Begin(r, o, "createPayout")
    /\ UNCHANGED <<orderVars, payoutVars, refundVars, collectVars, reviewed, faults>>

\* POST /orders/:id/confirm-receipt: its reads and guards.
ConfirmReceipt(r, o, u) ==
    /\ buyer[o] = u
    /\ status[o] = "paid_escrow"
    /\ Begin(r, o, "createPayout")
    /\ UNCHANGED <<orderVars, payoutVars, refundVars, collectVars, reviewed, faults>>

\* Mutation of AdminReleaseEscrow: any order that exists can be released.
AdminReleaseAnyStatus(r, o) ==
    /\ status[o] # "absent"
    /\ Begin(r, o, "createPayout")
    /\ UNCHANGED <<orderVars, payoutVars, refundVars, collectVars, reviewed, faults>>

\* POST /admin/orders/:id/release: its read and guard.
AdminReleaseEscrow(r, o) ==
    /\ status[o] \in {"paid_escrow", "disputed"}
    /\ Begin(r, o, "createPayout")
    /\ UNCHANGED <<orderVars, payoutVars, refundVars, collectVars, reviewed, faults>>

\* Mutation of DueOrders: the status filter forgets the disputes.
DueOrDisputed == {o \in Orders : status[o] \in {"paid_escrow", "disputed"} /\ deadline[o] = "past"}

DueOrders == {o \in Orders : status[o] = "paid_escrow" /\ deadline[o] = "past"}

\* The hourly tick: one findMany takes the due orders, and the loop starts
\* with any of them.  Nothing prevents a run from starting during another.
ReleaseExpiredEscrows(c) ==
    /\ pc[c] = "idle"
    /\ \E o \in DueOrders :
          /\ target' = [target EXCEPT ![c] = o]
          /\ todo' = [todo EXCEPT ![c] = DueOrders \ {o}]
    /\ pc' = [pc EXCEPT ![c] = "createPayout"]
    /\ UNCHANGED <<row, asked, orderVars, payoutVars, refundVars, collectVars, reviewed, faults>>

\* payoutToSeller creates the payout row, queued.
CreatePayout(r, p) ==
    /\ pc[r] = "createPayout"
    /\ payoutStatus[p] = "absent"
    /\ \A q \in Payouts : q < p => payoutStatus[q] # "absent"
    /\ payoutStatus' = [payoutStatus EXCEPT ![p] = "queued"]
    /\ payoutOrder' = [payoutOrder EXCEPT ![p] = target[r]]
    /\ pc' = [pc EXCEPT ![r] = "transfer"]
    /\ row' = [row EXCEPT ![r] = p]
    /\ UNCHANGED <<paidOut, target, todo, asked, orderVars, refundVars, collectVars, reviewed, faults>>

\* The provider transfers the net amount and answers.
TransferOk(r) ==
    /\ Step(r, "transfer", "markSent")
    /\ paidOut' = paidOut \cup {row[r]}
    /\ UNCHANGED <<payoutOrder, payoutStatus, orderVars, refundVars, collectVars, reviewed, faults>>

\* Mutation of TransferThrows: the catch block marks the row sent.
TransferThrowsSwallowed(r) ==
    /\ Fault
    /\ Step(r, "transfer", "markSent")
    /\ UNCHANGED <<payoutVars, orderVars, refundVars, collectVars, reviewed>>

\* The call throws: the transfer was refused, or it was made and the answer
\* was lost.  The catch block cannot tell.
TransferThrows(r) ==
    /\ Fault
    /\ Step(r, "transfer", "markFailed")
    /\ \/ UNCHANGED paidOut
       \/ paidOut' = paidOut \cup {row[r]}
    /\ UNCHANGED <<payoutOrder, payoutStatus, orderVars, refundVars, collectVars, reviewed>>

\* Mutation of MarkSent: the row goes straight to confirmed.
MarkSentConfirmed(r) ==
    /\ Step(r, "markSent", "release")
    /\ payoutStatus' = [payoutStatus EXCEPT ![row[r]] = "confirmed"]
    /\ UNCHANGED <<payoutOrder, paidOut, orderVars, refundVars, collectVars, reviewed, faults>>

\* Mutation of MarkSent: the order is not updated afterwards.
MarkSentOnly(r) ==
    /\ Finish(r, "markSent")
    /\ payoutStatus' = [payoutStatus EXCEPT ![row[r]] = "sent"]
    /\ UNCHANGED <<payoutOrder, paidOut, orderVars, refundVars, collectVars, reviewed, faults>>

\* payout.update to sent; the caller goes on to order.update.
MarkSent(r) ==
    /\ Step(r, "markSent", "release")
    /\ payoutStatus' = [payoutStatus EXCEPT ![row[r]] = "sent"]
    /\ UNCHANGED <<payoutOrder, paidOut, orderVars, refundVars, collectVars, reviewed, faults>>

\* Mutation of MarkFailed: the caller does not look at the payout's status.
MarkFailedReleases(r) ==
    /\ Step(r, "markFailed", "release")
    /\ payoutStatus' = [payoutStatus EXCEPT ![row[r]] = "failed"]
    /\ UNCHANGED <<payoutOrder, paidOut, orderVars, refundVars, collectVars, reviewed, faults>>

\* payout.update to failed: releaseEscrow returns null and leaves the order
\* alone; a request answers an error, a scheduler run counts it and goes on.
MarkFailed(r) ==
    /\ Finish(r, "markFailed")
    /\ payoutStatus' = [payoutStatus EXCEPT ![row[r]] = "failed"]
    /\ UNCHANGED <<payoutOrder, paidOut, orderVars, refundVars, collectVars, reviewed, faults>>

\* order.update to released, whatever the status has become meanwhile.
Release(r) ==
    /\ Finish(r, "release")
    /\ SetStatus(target[r], "released")
    /\ UNCHANGED <<payoutVars, refundVars, collectVars, reviewed, faults>>

-----------------------------------------------------------------------------
(* Dispute, refund and review.                                             *)

\* POST /orders/:id/dispute: its read and guards.
OpenDispute(r, o, u) ==
    /\ buyer[o] = u
    /\ status[o] = "paid_escrow"
    /\ Begin(r, o, "dispute")
    /\ UNCHANGED <<orderVars, payoutVars, refundVars, collectVars, reviewed, faults>>

\* order.update to disputed; autoReleaseAt keeps its value.
MarkDisputed(r) ==
    /\ Finish(r, "dispute")
    /\ SetStatus(target[r], "disputed")
    /\ UNCHANGED <<payoutVars, refundVars, collectVars, reviewed, faults>>

\* POST /admin/orders/:id/refund: its read and guard.
RefundOrder(r, o) ==
    /\ status[o] \in {"disputed", "paid_escrow"}
    /\ Begin(r, o, "createRefund")
    /\ UNCHANGED <<orderVars, payoutVars, refundVars, collectVars, reviewed, faults>>

\* Mutation of CreateRefund: Refund.orderId is not unique.
CreateRefundAgain(r) ==
    /\ Step(r, "createRefund", "refundTransfer")
    /\ refundStatus' = [refundStatus EXCEPT ![target[r]] = "queued"]
    /\ UNCHANGED <<refundsMade, orderVars, payoutVars, collectVars, reviewed, faults>>

\* refundToBuyer creates the refund row; orderId is unique, so a second row,
\* whatever became of the first, is a constraint error.
CreateRefund(r) ==
    LET o == target[r] IN
    /\ \/ /\ Step(r, "createRefund", "refundTransfer")
          /\ refundStatus[o] = "absent"
          /\ refundStatus' = [refundStatus EXCEPT ![o] = "queued"]
       \/ /\ pc[r] = "createRefund"
          /\ refundStatus[o] # "absent"
          /\ UNCHANGED refundStatus
          /\ Abandon(r)
    /\ UNCHANGED <<refundsMade, orderVars, payoutVars, collectVars, reviewed, faults>>

RefundTransferOk(r) ==
    /\ Step(r, "refundTransfer", "refundSent")
    /\ refundsMade' = [refundsMade EXCEPT ![target[r]] = @ + 1]
    /\ UNCHANGED <<refundStatus, orderVars, payoutVars, collectVars, reviewed, faults>>

\* As TransferThrows, towards the buyer.
RefundTransferThrows(r) ==
    /\ Fault
    /\ Step(r, "refundTransfer", "refundFailed")
    /\ \/ UNCHANGED refundsMade
       \/ refundsMade' = [refundsMade EXCEPT ![target[r]] = @ + 1]
    /\ UNCHANGED <<refundStatus, orderVars, payoutVars, collectVars, reviewed>>

RefundSent(r) ==
    /\ Step(r, "refundSent", "closeRefunded")
    /\ refundStatus' = [refundStatus EXCEPT ![target[r]] = "sent"]
    /\ UNCHANGED <<refundsMade, orderVars, payoutVars, collectVars, reviewed, faults>>

\* Mutation of RefundFailed: refundOrder does not look at the refund's status.
RefundFailedCloses(r) ==
    /\ Step(r, "refundFailed", "closeRefunded")
    /\ refundStatus' = [refundStatus EXCEPT ![target[r]] = "failed"]
    /\ UNCHANGED <<refundsMade, orderVars, payoutVars, collectVars, reviewed, faults>>

\* refundOrder throws and leaves the order alone.
RefundFailed(r) ==
    /\ Finish(r, "refundFailed")
    /\ refundStatus' = [refundStatus EXCEPT ![target[r]] = "failed"]
    /\ UNCHANGED <<refundsMade, orderVars, payoutVars, collectVars, reviewed, faults>>

\* order.update to refunded, whatever the status has become meanwhile.
CloseRefunded(r) ==
    /\ Finish(r, "closeRefunded")
    /\ SetStatus(target[r], "refunded")
    /\ UNCHANGED <<payoutVars, refundVars, collectVars, reviewed, faults>>

\* Mutation of CreateReview: an order still in escrow can be reviewed.
CreateReviewEarly(r, o, u) ==
    /\ buyer[o] = u
    /\ status[o] \in {"paid_escrow", "released"}
    /\ Begin(r, o, "review")
    /\ UNCHANGED <<orderVars, payoutVars, refundVars, collectVars, reviewed, faults>>

\* POST /orders/:id/review: its read and guards.
CreateReview(r, o, u) ==
    /\ buyer[o] = u
    /\ status[o] = "released"
    /\ Begin(r, o, "review")
    /\ UNCHANGED <<orderVars, payoutVars, refundVars, collectVars, reviewed, faults>>

\* review.create; orderId is unique, a second review is a constraint error.
RecordReview(r) ==
    /\ Finish(r, "review")
    /\ reviewed' = reviewed \cup {target[r]}
    /\ UNCHANGED <<orderVars, payoutVars, refundVars, collectVars, faults>>

-----------------------------------------------------------------------------
(* Time and failures.                                                      *)

\* autoReleaseAt passes.
DeadlinePasses(o) ==
    /\ deadline[o] = "running"
    /\ deadline' = [deadline EXCEPT ![o] = "past"]
    /\ UNCHANGED <<status, buyer, payoutVars, refundVars, collectVars, processVars, reviewed, faults>>

\* An await outside the try blocks throws.  A call that took effect and whose
\* answer is lost is that call's step followed by this one.
Throws(r) ==
    /\ pc[r] \notin {"idle", "transfer", "refundTransfer"}
    /\ Fault
    /\ Abandon(r)
    /\ UNCHANGED <<orderVars, payoutVars, refundVars, collectVars, reviewed>>

\* The server restarts: rows survive, every request and run is lost.
Crash ==
    /\ Fault
    /\ \E r \in Processes : pc[r] # "idle"
    /\ pc' = [r \in Processes |-> "idle"]
    /\ target' = [r \in Processes |-> None]
    /\ row' = [r \in Processes |-> None]
    /\ todo' = [r \in Processes |-> {}]
    /\ asked' = [r \in Processes |-> NoCheck]
    /\ UNCHANGED <<orderVars, payoutVars, refundVars, collectVars, reviewed>>

-----------------------------------------------------------------------------

\* A request arrives.
Arrival ==
    \E r \in Handlers, o \in Orders :
       \/ \E via \in Providers, t \in Orders : ReceiveWebhook(r, o, via, t)
       \/ AdminReleaseEscrow(r, o)
       \/ RefundOrder(r, o)
       \/ \E u \in Users :
             \/ CreateOrder(r, o, u)
             \/ ConfirmReceipt(r, o, u)
             \/ OpenDispute(r, o, u)
             \/ CreateReview(r, o, u)

\* Process r performs the await it stands before, and gets an answer.
CollectStep(r) ==
    \/ InitCheckout(r) \/ RecordInitiated(r) \/ MarkPaid(r)
    \/ CheckStatus(r) \/ RecordVerified(r)

PayoutStep(r) ==
    \/ \E p \in Payouts : CreatePayout(r, p)
    \/ TransferOk(r) \/ MarkSent(r) \/ MarkFailed(r) \/ Release(r)

RefundStep(r) ==
    \/ CreateRefund(r) \/ RefundTransferOk(r)
    \/ RefundSent(r) \/ RefundFailed(r) \/ CloseRefunded(r)

Advance(r) ==
    \/ CollectStep(r) \/ PayoutStep(r) \/ RefundStep(r)
    \/ MarkDisputed(r) \/ RecordReview(r)

Failure ==
    \/ Crash
    \/ \E r \in Processes : Throws(r) \/ TransferThrows(r) \/ RefundTransferThrows(r)

World == \E o \in Orders : CustomerPays(o) \/ DeadlinePasses(o)

Next ==
    \/ Arrival
    \/ \E c \in Crons : ReleaseExpiredEscrows(c)
    \/ \E r \in Processes : Advance(r)
    \/ Failure
    \/ World

Spec == Init /\ [][Next]_vars

\* The event loop runs every request to its end, time passes and the
\* scheduler ticks every hour.  Nothing makes customers, moderators or the
\* provider act.
Fairness ==
    /\ \A r \in Processes : WF_vars(Advance(r))
    /\ \A c \in Crons : WF_vars(ReleaseExpiredEscrows(c))
    /\ \A o \in Orders : WF_vars(DeadlinePasses(o))

FairSpec == Spec /\ Fairness

\* No request is being served and no scheduler run is under way.
Quiet == \A r \in Processes : pc[r] = "idle"

-----------------------------------------------------------------------------
(* Properties.                                                             *)

DatabaseTypeOK ==
    /\ status \in [Orders -> OrderStatus \cup {"absent"}]
    /\ buyer \in [Orders -> Users \cup {None}]
    /\ deadline \in [Orders -> {"none", "running", "past"}]
    /\ events \in [Orders -> SUBSET RawStatus]
    /\ payoutOrder \in [Payouts -> Orders \cup {None}]
    /\ payoutStatus \in [Payouts -> PayoutStatus \cup {"absent"}]
    /\ refundStatus \in [Orders -> PayoutStatus \cup {"absent"}]
    /\ reviewed \in SUBSET Orders

ProviderTypeOK ==
    /\ collect \in [Orders -> {"none", "open", "paid"}]
    /\ paidOut \in SUBSET Payouts
    /\ refundsMade \in [Orders -> Nat]
    /\ hooks \in [Orders -> 0 .. MaxHooks]

ProcessTypeOK ==
    /\ pc \in [Processes -> PcValues]
    /\ target \in [Processes -> Orders \cup {None}]
    /\ row \in [Processes -> Payouts \cup {None}]
    /\ todo \in [Processes -> SUBSET Orders]
    /\ asked \in [Processes -> Checks \cup {NoCheck}]

TypeOK == DatabaseTypeOK /\ ProviderTypeOK /\ ProcessTypeOK /\ faults \in 0 .. MaxFaults

\* The order has been through markPayablePaid.
Paid(o) == status[o] \notin {"absent", "pending"}

\* Payout rows of order o the backend believes transferred.
SentPayouts(o) == {p \in Payouts : payoutOrder[p] = o /\ payoutStatus[p] = "sent"}

\* What is on record when markPayablePaid acts.
Recorded(o) ==
    \/ o \in Simulated /\ "SIMULATED_AUTO_CONFIRMED" \in events[o]
    \/ "ACCEPTED" \in events[o]

\* The price came in, or the checkout was simulated and is on record as such.
Collected(o) ==
    \/ collect[o] = "paid"
    \/ o \in Simulated /\ "SIMULATED_AUTO_CONFIRMED" \in events[o]

(* An order is released only once a payout of it was accepted by the       *)
(* provider and recorded as sent (README: never released when the payout   *)
(* fails), whoever released it and however the requests interleaved.       *)
ReleasedHasSentPayout ==
    \A o \in Orders : status[o] = "released" => SentPayouts(o) # {}

(* An order is refunded only once its refund row is sent, and the buyer    *)
(* got the money exactly once.                                             *)
RefundedHasSentRefund ==
    \A o \in Orders :
       status[o] = "refunded" => refundStatus[o] = "sent" /\ refundsMade[o] = 1

(* Concurrent and retried refunds of an order never transfer twice, even   *)
(* when the first attempt was marked failed or its request died.           *)
AtMostOneRefundTransfer == \A o \in Orders : refundsMade[o] <= 1

(* A review exists only for a sale that was paid out, although a late      *)
(* webhook may since have taken the order out of "released".               *)
ReviewedAfterPayout == \A o \in reviewed : SentPayouts(o) # {}

(* "on rappelle systématiquement l'endpoint de vérification du prestataire *)
(* avant de faire passer quoi que ce soit en payé": an order marked paid   *)
(* was paid at the provider, or ordered in simulation.                     *)
PaidWasCollected == \A o \in Orders : Paid(o) => Collected(o)

(* A row says sent only if the money moved.  Without any failed call, the  *)
(* converse holds up to the request still in flight, and no payout stays   *)
(* queued once its request is over.                                        *)
LedgerMatchesProvider ==
    \A p \in Payouts :
       /\ payoutStatus[p] = "sent" => p \in paidOut
       /\ faults = 0 /\ payoutStatus[p] = "queued" => \E r \in Processes : row[r] = p
       /\ faults = 0 /\ p \in paidOut /\ payoutStatus[p] # "sent" =>
             \E r \in Processes : row[r] = p /\ pc[r] = "markSent"

(* Money leaves the platform at most once per order.  The code keeps this  *)
(* only when requests do not overlap, none fails and no webhook is         *)
(* repeated.                                                               *)
AtMostOneDisbursement ==
    \A o \in Orders :
       Cardinality({p \in paidOut : payoutOrder[p] = o}) + refundsMade[o] <= 1

(* "argent encaissé, séquestré en attente de confirmation acheteur": when  *)
(* no request is in flight, an order in paid_escrow has neither been paid  *)
(* out nor refunded.                                                       *)
EscrowHeld ==
    Quiet =>
       \A o \in Orders :
          status[o] = "paid_escrow" => SentPayouts(o) = {} /\ refundStatus[o] # "sent"

\* How one step may change the status of order o.
StatusStep(o) ==
    /\ status[o] = "absent" => status'[o] \in {"absent", "pending"}
    /\ status[o] = "pending" => status'[o] \in {"pending", "paid_escrow"}
    /\ Paid(o) => Paid(o)'

(* An order never jumps over paid_escrow and never goes back before it:    *)
(* whatever stale request writes the status, the order was paid before.    *)
StatusFlow ==
    [][\A o \in Orders : StatusStep(o)]_vars

(* "aucune libération automatique tant que la modération n'a pas tranché": *)
(* a scheduler run never takes an order out of "disputed".                 *)
NoAutomaticReleaseWhileDisputed ==
    [][\A c \in Crons, o \in Orders :
          pc[c] = "release" /\ target[c] = o /\ pc'[c] # "release" /\ status[o] = "disputed"
             => status'[o] # "released"]_vars

(* A paid order does not stay in escrow for ever (the reason               *)
(* OrdersEscrowScheduler exists), in spite of failed payouts, crashes, a   *)
(* run that dies half way and a webhook that starts the deadline again, if *)
(* failures and webhooks stop at some point.                               *)
EscrowIsLeft ==
    \A o \in Orders : (status[o] = "paid_escrow") ~> (status[o] # "paid_escrow")

-----------------------------------------------------------------------------
(* The inductive invariant: what each await may rely on.                   *)

Paying    == {"transfer", "markSent", "markFailed", "release"}
Refunding == {"refundTransfer", "refundSent", "refundFailed"}
AfterPaid == {"createPayout", "dispute", "review", "createRefund", "closeRefunded"}
                \cup Paying \cup Refunding

\* A process has an order while it is active and a payout row while it pays.
ControlInv ==
    \A r \in Processes :
       /\ pc[r] = "idle" <=> target[r] = None
       /\ pc[r] \in Paying <=> row[r] # None

\* What a process read stays true enough for the writes that follow.
StageInv ==
    \A r \in Processes :
       /\ pc[r] # "idle" => status[target[r]] # "absent"
       /\ pc[r] \in AfterPaid => Paid(target[r])
       /\ \A o \in todo[r] : Paid(o)
       /\ pc[r] = "initCheckout" => collect[target[r]] = "none"
       /\ pc[r] = "checkStatus" =>
             /\ asked[r] \in Checks
             /\ asked[r].via = "cinetpay" => asked[r].about = target[r]
       /\ pc[r] = "markPaid" => Recorded(target[r])

CollectInv ==
    /\ \A o \in Orders : Paid(o) => Recorded(o)
    /\ \A o \in Orders : collect[o] # "none" => status[o] # "absent"
    /\ \A r, s \in Processes :
          pc[r] = "initCheckout" /\ pc[s] = "initCheckout" /\ target[r] = target[s] => r = s

\* A payout row belongs to one process, which knows what became of it.
PayoutInv ==
    /\ \A r \in Processes : pc[r] \in Paying =>
          /\ payoutOrder[row[r]] = target[r]
          /\ payoutStatus[row[r]] = (IF pc[r] = "release" THEN "sent" ELSE "queued")
          /\ pc[r] \in {"markSent", "release"} => row[r] \in paidOut
    /\ \A r, s \in Processes : row[r] = row[s] /\ row[r] # None => r = s
    /\ \A p \in paidOut : payoutStatus[p] # "absent"
    /\ LedgerMatchesProvider

\* The refund row of an order belongs to one process.
RefundInv ==
    /\ \A r \in Processes :
          /\ pc[r] \in Refunding => refundStatus[target[r]] = "queued"
          /\ pc[r] = "refundTransfer" => refundsMade[target[r]] = 0
          /\ pc[r] = "refundSent" => refundsMade[target[r]] = 1
          /\ pc[r] = "closeRefunded" => refundStatus[target[r]] = "sent"
    /\ \A r, s \in Processes :
          pc[r] \in Refunding /\ pc[s] \in Refunding /\ target[r] = target[s] => r = s
    /\ \A o \in Orders :
          /\ refundStatus[o] = "absent" => refundsMade[o] = 0
          /\ refundStatus[o] = "sent" => refundsMade[o] = 1
    /\ AtMostOneRefundTransfer
    /\ RefundedHasSentRefund

\* What was sold is paid out.
SaleInv ==
    /\ \A r \in Processes : pc[r] = "review" => SentPayouts(target[r]) # {}
    /\ ReleasedHasSentPayout
    /\ ReviewedAfterPayout

IInv ==
    /\ ControlInv /\ StageInv /\ CollectInv
    /\ PayoutInv /\ RefundInv /\ SaleInv

=============================================================================
