-------------------------------- MODULE Market --------------------------------
(***************************************************************************)
(* The catalogue and the subscriptions together, once the launch promotion *)
(* is over: the capacity a seller's listings are judged by is what its     *)
(* paid subscription and extra slots cover at that moment.                 *)
(***************************************************************************)
EXTENDS Payables

CONSTANTS
    Listings, Seller, Types, Titles, Descriptions, Prohibited, Requests, MaxCapacity, Reason, None

VARIABLES listingStatus, type, title, description, withReason, promo, req, raced

Shelf == INSTANCE Catalogue WITH
            Sellers <- Payers,
            capacity <- [s \in Payers |-> Capacity(s)]

shelfVars == <<listingStatus, type, title, description, withReason, promo, req, raced>>
marketVars == <<payableVars, shelfVars>>

MarketInit == PayableInit /\ Shelf!Init

MarketNext ==
    \/ PayableNext /\ UNCHANGED shelfVars
    \/ UNCHANGED payableVars /\ \E r \in Requests : Shelf!Handle(r)

MarketSpec == MarketInit /\ [][MarketNext]_marketVars

\* What the schema says of ShopSubscription, "jusqu'à 10 annonces actives hors
\* annonces espace": while a subscription runs, the seller has at most as many
\* listings on line as it covers.  Neither approval nor restoration counts them.
MaxListingsHeld ==
    \A s \in Payers : Capacity(s) > 0 => Cardinality(Shelf!Counted(s)) <= Capacity(s)

=============================================================================
