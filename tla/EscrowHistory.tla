---------------------------- MODULE EscrowHistory ----------------------------
(***************************************************************************)
(* The escrow with history variables, which constrain no step of Escrow:   *)
(* the orders whose handling was disturbed, those accepted on an answer    *)
(* that was not about their own payment, and the open disputes.  They      *)
(* separate what the code promises for every order from what it promises   *)
(* only while the requests about an order follow one another and their     *)
(* outcome is known.                                                       *)
(***************************************************************************)
EXTENDS Escrow

VARIABLES
    disturbed,   \* orders whose handling was disturbed
    misled,      \* unpaid orders for which checkStatus answered "paid"
    contested    \* orders disputed, and neither released nor refunded since

hvars == <<vars, disturbed, misled, contested>>

Closed == {"released", "refunded"}

\* Process r works on order o, or holds it in its snapshot of due orders.
WorksOn(r, o) == target[r] = o \/ o \in todo[r]

\* The awaits between a transfer and the status that says so.
Spending == {"markSent", "release", "refundSent", "closeRefunded"}

\* Two processes work on one order.
Overlapped(o) == \E r, s \in Processes : r # s /\ WorksOn(r, o) /\ WorksOn(s, o)

\* The money moved and the answer was lost: the catch block takes it for a
\* failure.
Misjudged(o) ==
    \E r \in Processes :
       /\ target[r] = o
       /\ \/ pc[r] = "markFailed" /\ row[r] \in paidOut
          \/ pc[r] = "refundFailed" /\ refundsMade[o] # 0

\* The process dies after the transfer and before the status says so.
DiesSpending(o) ==
    /\ faults' # faults
    /\ \E r \in Processes : target[r] = o /\ pc[r] \in Spending /\ pc'[r] = "idle"

\* A webhook names an order that is closed or disputed.
LateWebhook(o) == status[o] \in Closed \cup {"disputed"} /\ hooks'[o] # hooks[o]

Disturbs(o) == Overlapped(o)' \/ Misjudged(o)' \/ DiesSpending(o) \/ LateWebhook(o)

\* The provider is asked about the very checkout of order o.
AsksAbout(check, o) == check = [via |-> Provider, about |-> o] /\ Provider \in Keys

\* An answer about another checkout, or without any call, is taken for that
\* about order o, whose price did not come in.
Misleads(o) ==
    /\ ~Collected(o)
    /\ \E r \in Processes :
          /\ target[r] = o /\ ~AsksAbout(asked[r], o)
          /\ pc[r] = "checkStatus" /\ pc'[r] = "recordAccepted"

Remember ==
    /\ disturbed' = disturbed \cup {o \in Orders : Disturbs(o)}
    /\ misled' = misled \cup {o \in Orders : Misleads(o)}
    /\ contested' = {o \in Orders : \/ status'[o] = "disputed"
                                    \/ o \in contested /\ status'[o] \notin Closed}

HInit == Init /\ disturbed = {} /\ misled = {} /\ contested = {}

HNext == Next /\ Remember

HSpec == HInit /\ [][HNext]_hvars

\* Requests and scheduler runs follow one another, nothing fails and no
\* webhook comes for an order that is closed or disputed.
Serial ==
    /\ \/ Quiet /\ (Arrival \/ \E c \in Crons : ReleaseExpiredEscrows(c))
       \/ \E r \in Processes : Advance(r)
       \/ World
    /\ \A o \in Orders : ~LateWebhook(o)
    /\ Remember

SerialSpec == HInit /\ [][Serial]_hvars

-----------------------------------------------------------------------------
(* Properties.                                                             *)

\* Payouts of order o that reached the seller.
Transferred(o) == {p \in paidOut : payoutOrder[p] = o}

Disbursements(o) == Cardinality(Transferred(o)) + refundsMade[o]

(* Whatever goes on around it, an order that was not disturbed has been    *)
(* paid out exactly once, to one party, when its status says so or is      *)
(* about to, and not at all before.                                        *)
MoneyFollowsStatus ==
    \A o \in Orders \ disturbed :
       Disbursements(o) =
          IF status[o] \in Closed \/ \E r \in Processes : target[r] = o /\ pc[r] \in Spending
          THEN 1 ELSE 0

(* "on rappelle systématiquement l'endpoint de vérification du prestataire *)
(* avant de faire passer quoi que ce soit en payé": whatever webhooks      *)
(* come, fail and cross, an order whose price did not come in is marked    *)
(* paid only when the answer accepted for it was not about its own         *)
(* checkout.                                                               *)
CollectedUnlessMisled == \A o \in Orders \ misled : Paid(o) => Collected(o)

(* "aucune libération automatique tant que la modération n'a pas tranché": *)
(* an order that was not disturbed stays disputed until it is released or  *)
(* refunded, and no scheduler run ever works on it.                        *)
DisputeRespected ==
    \A o \in contested \ disturbed :
       status[o] = "disputed" /\ \A c \in Crons : ~WorksOn(c, o)

(* The same of every order, as far as it depends on the scheduler's read:  *)
(* no run takes up an order whose dispute is not settled.                  *)
DisputeKeepsSchedulerAway ==
    [][\A c \in Crons, o \in contested : WorksOn(c, o)' => WorksOn(c, o)]_hvars

-----------------------------------------------------------------------------
(* The escrow implements EscrowPromise.                                    *)

InPlace    == {o \in Orders : Collected(o)}
SellerPaid == [o \in Orders |-> Cardinality(Transferred(o))]
BuyerPaid  == {o \in Orders : refundsMade[o] # 0}
Says(s) ==
    IF s \in {"absent", "pending"} THEN "nothing"
    ELSE IF s = "paid_escrow" THEN "held" ELSE s

Promise == INSTANCE EscrowPromise
    WITH paid <- InPlace, mistaken <- misled, toSeller <- SellerPaid, toBuyer <- BuyerPaid,
         told <- [o \in Orders |-> Says(status[o])], troubled <- disturbed

(* Every step is one the promise allows: pay the seller of an order whose  *)
(* price came in or refund its buyer, once each and never both unless the  *)
(* order was disturbed before, and say only what has happened; an order    *)
(* whose price did not come in is treated so only once an answer that was  *)
(* not about it was accepted.                                              *)
KeepsPromise == Promise!PromiseSpec

-----------------------------------------------------------------------------
(* The inductive invariant of an order that was not disturbed.             *)

Collecting == {"initCheckout", "recordInitiated", "checkStatus",
               "recordAccepted", "recordRefused", "markPaid"}
Releasing  == {"createPayout"} \cup Paying
Repaying   == {"createRefund", "closeRefunded"} \cup Refunding

\* Only one process works on it.
OneWorker(o) == \A r, s \in Processes : WorksOn(r, o) /\ WorksOn(s, o) => r = s

\* What process r has read of order o is still so.
StillRead(r, o) ==
    /\ target[r] = o =>
          /\ pc[r] \in Collecting => status[o] \notin Closed \cup {"disputed"}
          /\ pc[r] \in Releasing \cup Repaying => status[o] \in {"paid_escrow", "disputed"}
          /\ pc[r] = "dispute" => status[o] = "paid_escrow"
          /\ r \in Crons => status[o] = "paid_escrow"
    /\ o \in todo[r] => target[r] # o /\ status[o] = "paid_escrow"

\* The price goes once, to one party, and the status says it as soon as the
\* process that sent it is done.
Spent(o) == Transferred(o) # {} \/ refundsMade[o] # 0

SpentOnce(o) ==
    /\ \A p, q \in Transferred(o) : p = q
    /\ Transferred(o) # {} => refundsMade[o] = 0
    /\ Spent(o) => \/ status[o] \in Closed
                   \/ \E r \in Processes : target[r] = o /\ pc[r] \in Spending

OrderInv(o) ==
    /\ OneWorker(o)
    /\ \A r \in Processes : StillRead(r, o)
    /\ SpentOnce(o)

\* The scheduler only releases, and only a run of it has a snapshot.
SnapshotInv ==
    \A r \in Processes :
       /\ pc[r] \notin Releasing => todo[r] = {}
       /\ r \in Crons => pc[r] \in Releasing \cup {"idle"}

\* What an accepted answer means.
VouchedInv ==
    \A r \in Processes :
       pc[r] \in {"recordAccepted", "markPaid"} => Collected(target[r]) \/ target[r] \in misled

CalmInv == SnapshotInv /\ \A o \in Orders \ disturbed : OrderInv(o)

=============================================================================
