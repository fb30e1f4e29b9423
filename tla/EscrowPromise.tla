---------------------------- MODULE EscrowPromise ----------------------------
(***************************************************************************)
(* What the escrow promises, without requests, rows or webhooks: for each  *)
(* order, whether its price was collected, who received it since, and what *)
(* its status says.  Money moves before the status says so.  An order      *)
(* whose price never came in may be taken for paid by mistake, and one in  *)
(* trouble may be paid out although its price is gone; any other has its   *)
(* price held until one party gets it, once.                               *)
(***************************************************************************)
EXTENDS Naturals

CONSTANT Orders

VARIABLES
    paid,      \* orders whose price came in
    mistaken,  \* orders taken for paid that were not
    toSeller,  \* how often the seller of an order was paid
    toBuyer,   \* orders whose buyer got the money back
    told,      \* what the status of an order says
    troubled   \* orders in trouble

promiseVars == <<paid, mistaken, toSeller, toBuyer, told, troubled>>

PromiseInit ==
    /\ paid = {} /\ mistaken = {}
    /\ toSeller = [o \in Orders |-> 0]
    /\ toBuyer = {}
    /\ told = [o \in Orders |-> "nothing"]
    /\ troubled = {}

Collect(o) ==
    /\ paid' = paid \cup {o}
    /\ UNCHANGED <<toSeller, toBuyer, told>>

Believed == paid \cup mistaken

\* The price is believed to be there and nobody has received it yet.
Held(o) == o \in Believed /\ toSeller[o] = 0 /\ o \notin toBuyer

PaySeller(o) ==
    /\ o \in Believed
    /\ Held(o) \/ o \in troubled
    /\ toSeller' = [toSeller EXCEPT ![o] = @ + 1]
    /\ UNCHANGED <<paid, toBuyer, told>>

\* In trouble or not, the buyer is refunded once.
PayBuyer(o) ==
    /\ o \in Believed \ toBuyer
    /\ Held(o) \/ o \in troubled
    /\ toBuyer' = toBuyer \cup {o}
    /\ UNCHANGED <<paid, toSeller, told>>

Tell(o) ==
    /\ \/ told' = [told EXCEPT ![o] = "released"] /\ toSeller[o] # 0
       \/ told' = [told EXCEPT ![o] = "refunded"] /\ o \in toBuyer
       \/ /\ \E s \in {"held", "disputed"} : told' = [told EXCEPT ![o] = s]
          /\ o \in Believed
          /\ Held(o) \/ o \in troubled
    /\ UNCHANGED <<paid, toSeller, toBuyer>>

\* Trouble comes at any time and stays, and so do mistakes about orders whose
\* price did not come in.
PromiseNext ==
    /\ \/ UNCHANGED <<paid, toSeller, toBuyer, told>>
       \/ \E o \in Orders : Collect(o) \/ PaySeller(o) \/ PayBuyer(o) \/ Tell(o)
    /\ mistaken \subseteq mistaken' /\ mistaken' \cap paid \subseteq mistaken
    /\ troubled \subseteq troubled'

PromiseSpec == PromiseInit /\ [][PromiseNext]_promiseVars

=============================================================================
