------------------------------- MODULE Payables -------------------------------
(***************************************************************************)
(* What is paid at once, without escrow: bookings, shop subscriptions and  *)
(* the extra slots of a shop (src/src/bookings, src/src/shop-subscriptions *)
(* and the collect of src/src/payments).  Each is a row created unpaid, a  *)
(* checkout at the provider, and a webhook or, without provider keys, the  *)
(* same request that marks the row paid.                                   *)
(*                                                                         *)
(* The checkout carries a reference, "<kind>_<id>", that the webhook       *)
(* brings back and decodeRef takes apart; here it is a sequence of words.  *)
(* A webhook of PayDunya brings a token besides, which names the checkout. *)
(***************************************************************************)
EXTENDS Naturals, FiniteSets, Sequences, SequencesExt, FiniteSetsExt

CONSTANTS
    Payables,     \* ids of the rows
    KindOf,       \* KindOf[p]: "booking", "shop" or "shop_extra"
    Payers,       \* accounts
    Payer,        \* Payer[p]: who orders p
    Provider,     \* PAYMENT_DEFAULT_PROVIDER, where checkouts are opened
    Keys,         \* providers whose keys are configured when webhooks come
    Simulated,    \* rows ordered while Provider had no keys
    Jobs,         \* concurrent HTTP requests and webhooks
    MaxHooks,     \* webhooks (a bound)
    BaseListings, \* SHOP_MAX_LISTINGS, listings a subscription covers
    Quantity,     \* Quantity[p]: listings the extra slots p cover
    NoPayable     \* no row

Providers == {"cinetpay", "paydunya"}

ASSUME PayableAssumption ==
    /\ Provider \in Providers /\ Keys \subseteq Providers
    /\ KindOf \in [Payables -> {"booking", "shop", "shop_extra"}]
    /\ Payer \in [Payables -> Payers]
    /\ NoPayable \notin Payables
    /\ MaxHooks \in Nat

VARIABLES
    payable,   \* status of a row: "absent", "unpaid" (pending, expired) or "paid" (confirmed, active)
    ended,     \* shop rows whose endDate has passed
    checkout,  \* "none", "open" or "paid", at the provider
    accepted,  \* references of the PaymentEvents that say "paid"
    hooksSent, \* webhooks so far
    job,       \* what each request is doing (NoJob)
    unmarked,  \* rows whose marking as paid has failed (history)
    misled     \* unpaid rows an answer not about them called paid (history)

payableVars == <<payable, ended, checkout, accepted, hooksSent, job, unmarked, misled>>

NoRef == [kind |-> "none", id |-> <<>>]

\* The next await; the row it orders, or whose checkout the webhook is about;
\* the route and the reference of a webhook; that reference once decoded.
NoJob == [at |-> "idle", row |-> NoPayable, via |-> "none", says |-> <<>>, ref |-> NoRef]

PayableInit ==
    /\ payable = [p \in Payables |-> "absent"]
    /\ ended = {}
    /\ checkout = [p \in Payables |-> "none"]
    /\ accepted = {}
    /\ hooksSent = 0
    /\ job = [r \in Jobs |-> NoJob]
    /\ unmarked = {} /\ misled = {}

-----------------------------------------------------------------------------
(* References.                                                             *)

Words == [order |-> <<"order">>, booking |-> <<"booking">>,
          shop_extra |-> <<"shop", "extra">>, shop |-> <<"shop">>]

EncodeRef(p) == Append(Words[KindOf[p]], p)

\* The token of a PayDunya checkout, which no alternative fits.
TokenOf(p) == <<"token", p>>

\* Mutation of Alternatives: "shop" is tried before "shop_extra".
AlternativesShopFirst == <<"order", "booking", "shop", "shop_extra">>

\* The alternatives of the pattern of decodeRef, in the order it tries them.
Alternatives == <<"order", "booking", "shop_extra", "shop">>

\* The first alternative that leaves something for the id, if there is one.
DecodeRef(ref) ==
    LET fits == {i \in 1 .. 4 : IsStrictPrefix(Words[Alternatives[i]], ref)}
        k == Alternatives[CHOOSE i \in fits : \A j \in fits : i <= j] IN
    IF fits = {} THEN NoRef
    ELSE [kind |-> k, id |-> SubSeq(ref, Len(Words[k]) + 1, Len(ref))]

\* The reference names row p.
OwnRef(p) == [kind |-> KindOf[p], id |-> <<p>>]

-----------------------------------------------------------------------------
(* What a seller's subscriptions cover, as status and assertShopQuota      *)
(* compute it: a base, and above it the extra slots that run.              *)

Running(s, kind) ==
    {p \in Payables \ ended : Payer[p] = s /\ KindOf[p] = kind /\ payable[p] = "paid"}

Covered(slots) == BaseListings + MapThenSumSet(LAMBDA p : Quantity[p], slots)

Capacity(s) == IF Running(s, "shop") = {} THEN 0 ELSE Covered(Running(s, "shop_extra"))

-----------------------------------------------------------------------------
(* The requests.                                                           *)

Take(r, p, s) ==
    /\ job[r] = NoJob
    /\ job' = [job EXCEPT ![r] = [NoJob EXCEPT !.at = s, !.row = p]]

Step(r, s, t) == job[r].at = s /\ job' = [job EXCEPT ![r].at = t]

Finish(r, s) == job[r].at = s /\ job' = [job EXCEPT ![r] = NoJob]

NewRow(p) == payable[p] = "absent" /\ \A r \in Jobs : job[r].row # p

CreateRow(p) == payable' = [payable EXCEPT ![p] = "unpaid"]

\* POST /bookings, for a listing of type "espace", and POST /shop/subscribe:
\* the row is created, no row of Payables is read.
Book(r, p) ==
    /\ KindOf[p] = "booking" /\ NewRow(p)
    /\ CreateRow(p)
    /\ Take(r, p, "initCheckout")
    /\ UNCHANGED <<ended, checkout, accepted, hooksSent, unmarked, misled>>

Subscribe(r, p) ==
    /\ KindOf[p] = "shop" /\ NewRow(p)
    /\ CreateRow(p)
    /\ Take(r, p, "initCheckout")
    /\ UNCHANGED <<ended, checkout, accepted, hooksSent, unmarked, misled>>

\* Mutation of SubscribeExtra: any subscription row will do.
SubscribeExtraUnpaid(r, p) ==
    /\ KindOf[p] = "shop_extra" /\ NewRow(p)
    /\ \E q \in Payables : KindOf[q] = "shop" /\ Payer[q] = Payer[p] /\ payable[q] # "absent"
    /\ Take(r, p, "createSlot")
    /\ UNCHANGED <<payable, ended, checkout, accepted, hooksSent, unmarked, misled>>

\* POST /shop/subscribe-extra: no capacity is sold without a subscription.
SubscribeExtra(r, p) ==
    /\ KindOf[p] = "shop_extra" /\ NewRow(p)
    /\ Running(Payer[p], "shop") # {}
    /\ Take(r, p, "createSlot")
    /\ UNCHANGED <<payable, ended, checkout, accepted, hooksSent, unmarked, misled>>

CreateSlot(r) ==
    /\ Step(r, "createSlot", "initCheckout")
    /\ CreateRow(job[r].row)
    /\ UNCHANGED <<ended, checkout, accepted, hooksSent, unmarked, misled>>

\* The provider opens a checkout; without keys there is no call.
InitCheckout(r) ==
    /\ Step(r, "initCheckout", "recordInitiated")
    /\ checkout' = IF job[r].row \in Simulated THEN checkout
                   ELSE [checkout EXCEPT ![job[r].row] = "open"]
    /\ UNCHANGED <<payable, ended, accepted, hooksSent, unmarked, misled>>

\* The PaymentEvent row; a simulated checkout is paid by the same request.
RecordInitiated(r) ==
    LET p == job[r].row IN
    /\ \/ /\ p \in Simulated
          /\ job[r].at = "recordInitiated"
          /\ job' = [job EXCEPT ![r].at = "markPaid", ![r].ref = OwnRef(p)]
          /\ accepted' = accepted \cup {EncodeRef(p)}
       \/ /\ p \notin Simulated
          /\ Finish(r, "recordInitiated")
          /\ UNCHANGED accepted
    /\ UNCHANGED <<payable, ended, checkout, hooksSent, unmarked, misled>>

\* The references a webhook about the checkout of p may bring.  CinetPay's is
\* what checkStatus will ask about.  PayDunya's is custom_data, which nothing
\* compares with the token, or the token where there is none.
References(via, p) ==
    IF via = "cinetpay" THEN {EncodeRef(p)}
    ELSE {EncodeRef(q) : q \in {q \in Payables : payable[q] # "absent"}} \cup {TokenOf(p)}

\* POST /webhooks/cinetpay and /webhooks/paydunya, public, at any time and
\* several times; the second asks for the hash of the master key.
ReceiveWebhook(r, p, via) ==
    /\ via = "paydunya" => "paydunya" \in Keys
    /\ payable[p] # "absent"
    /\ hooksSent < MaxHooks /\ hooksSent' = hooksSent + 1
    /\ job[r] = NoJob
    /\ \E ref \in References(via, p) :
          job' = [job EXCEPT ![r] = [NoJob EXCEPT !.at = "checkStatus", !.row = p,
                                                  !.via = via, !.says = ref]]
    /\ UNCHANGED <<payable, ended, checkout, accepted, unmarked, misled>>

\* What checkStatus answers: without keys CinetPay is not called and the answer
\* is ACCEPTED; a provider knows the checkouts it opened.
SaysPaid(via, p) ==
    \/ via = "cinetpay" /\ "cinetpay" \notin Keys
    \/ via = Provider /\ checkout[p] = "paid"

\* Mutation of CheckStatus: the webhook is believed.
CheckStatusSkipped(r) ==
    /\ Step(r, "checkStatus", "recordAccepted")
    /\ UNCHANGED <<payable, ended, checkout, accepted, hooksSent, unmarked, misled>>

\* The provider is asked about the very checkout of row q.
AsksAbout(r, q) == job[r].via = Provider /\ Provider \in Keys /\ job[r].row = q

\* checkStatus asks the provider.
CheckStatus(r) ==
    LET paid == SaysPaid(job[r].via, job[r].row) IN
    /\ Step(r, "checkStatus", IF paid THEN "recordAccepted" ELSE "recordRefused")
    /\ misled' = misled \cup {q \in Payables : /\ paid /\ ~AsksAbout(r, q) /\ checkout[q] # "paid"
                                              /\ job[r].says = EncodeRef(q)}
    /\ UNCHANGED <<payable, ended, checkout, accepted, hooksSent, unmarked>>

\* applyVerifiedCollect records the answer under the reference, then decodes it;
\* what decodes to nothing is answered and changes no row.
RecordVerified(r) ==
    /\ \/ /\ job[r].at = "recordAccepted"
          /\ accepted' = accepted \cup {job[r].says}
          /\ LET ref == DecodeRef(job[r].says) IN
             job' = IF ref = NoRef THEN [job EXCEPT ![r] = NoJob]
                    ELSE [job EXCEPT ![r].at = "markPaid", ![r].ref = ref]
       \/ /\ Finish(r, "recordRefused")
          /\ UNCHANGED accepted
    /\ UNCHANGED <<payable, ended, checkout, hooksSent, unmarked, misled>>

\* markPayablePaid updates the row of that table and id, or throws.
MarkPaid(r) ==
    /\ Finish(r, "markPaid")
    /\ payable' = [p \in Payables |-> IF job[r].ref = OwnRef(p) THEN "paid" ELSE payable[p]]
    /\ UNCHANGED <<ended, checkout, accepted, hooksSent, unmarked, misled>>

\* An await throws, or the process stops.
JobFails(r) ==
    /\ job[r] # NoJob
    /\ job' = [job EXCEPT ![r] = NoJob]
    /\ unmarked' = unmarked \cup {p \in Payables : job[r].at = "markPaid" /\ job[r].ref = OwnRef(p)}
    /\ UNCHANGED <<payable, ended, checkout, accepted, hooksSent, misled>>

CustomerPays(p) ==
    /\ checkout[p] = "open"
    /\ checkout' = [checkout EXCEPT ![p] = "paid"]
    /\ UNCHANGED <<payable, ended, accepted, hooksSent, job, unmarked, misled>>

\* endDate was fixed when the row was created, paid or not.
TermEnds(p) ==
    /\ KindOf[p] # "booking" /\ payable[p] # "absent" /\ p \notin ended
    /\ ended' = ended \cup {p}
    /\ UNCHANGED <<payable, checkout, accepted, hooksSent, job, unmarked, misled>>

Order(r, p) == Book(r, p) \/ Subscribe(r, p) \/ SubscribeExtra(r, p)

PayableNext ==
    \/ \E r \in Jobs :
          \/ \E p \in Payables : Order(r, p) \/ \E via \in Providers : ReceiveWebhook(r, p, via)
          \/ CreateSlot(r) \/ InitCheckout(r) \/ RecordInitiated(r)
          \/ CheckStatus(r) \/ RecordVerified(r) \/ MarkPaid(r) \/ JobFails(r)
    \/ \E p \in Payables : CustomerPays(p) \/ TermEnds(p)

PayableSpec == PayableInit /\ [][PayableNext]_payableVars

-----------------------------------------------------------------------------
(* Properties.                                                             *)

PayableTypeOK ==
    /\ payable \in [Payables -> {"absent", "unpaid", "paid"}]
    /\ ended \subseteq {p \in Payables : KindOf[p] # "booking"}
    /\ checkout \in [Payables -> {"none", "open", "paid"}]
    /\ accepted \subseteq {EncodeRef(p) : p \in Payables} \cup {TokenOf(p) : p \in Payables}
    /\ unmarked \subseteq Payables /\ misled \subseteq Payables
    /\ hooksSent \in 0 .. MaxHooks
    /\ \A r \in Jobs :
          /\ job[r].at \in {"idle", "createSlot", "initCheckout", "recordInitiated",
                            "checkStatus", "recordAccepted", "recordRefused", "markPaid"}
          /\ job[r].at # "idle" => job[r].row \in Payables

\* A booking is confirmed, a subscription or a slot is active, only once the
\* customer has paid its own checkout, or in simulation, whatever webhooks come
\* and in whatever order; but for a row that checkStatus called paid without any
\* call, or because the token that came with its reference was another's.
PaidWasPaid ==
    \A p \in Payables \ misled : payable[p] = "paid" => checkout[p] = "paid" \/ p \in Simulated

\* An event that says "paid" under the reference of a row has that row marked:
\* the reference of each kind comes back to its own table and row.  Only a
\* failure between the event and the update leaves it unpaid, until another
\* webhook.  (An event recorded under a token marks nothing at all.)
AcceptedIsMarked ==
    \A p \in Payables : EncodeRef(p) \in accepted =>
       \/ payable[p] = "paid" \/ p \in unmarked
       \/ \E r \in Jobs : job[r].at = "markPaid" /\ job[r].ref = OwnRef(p)

\* No extra capacity is ever ordered by a seller who has not had a paid
\* subscription: "on ne vend pas de capacité supplémentaire seule".
SlotRestsOnSubscription ==
    \A p \in Payables : KindOf[p] = "shop_extra" /\ payable[p] # "absent" =>
       \E q \in Payables : KindOf[q] = "shop" /\ Payer[q] = Payer[p] /\ payable[q] = "paid"

=============================================================================
