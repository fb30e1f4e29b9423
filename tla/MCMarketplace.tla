---------------------------- MODULE MCMarketplace ----------------------------
(***************************************************************************)
(* Small instances of four components that share no state: the catalogue,  *)
(* a conversation, the media of a listing, and the bookings and            *)
(* subscriptions.  An execution picks one of them and runs it alone, so    *)
(* their state spaces add up instead of multiplying.                       *)
(***************************************************************************)
EXTENDS Catalogue, Media, Conversations, Payables, TLC

CONSTANTS listing, seller, photo1, photo2, video1, booking1, shop1, slot1

VARIABLE component  \* the component that runs

MCSeller == [l \in Listings |-> seller]
MCProhibited == {<<"chanvre", "indien">>}
MCAlbum == [f \in Files |-> listing]
MCKind == [f \in Files |-> IF f = video1 THEN "video" ELSE "photo"]
MCMaxOf == [photo |-> 1, video |-> 1]
MCKindOf == (booking1 :> "booking") @@ (shop1 :> "shop") @@ (slot1 :> "shop_extra")
MCPayer == [p \in Payables |-> seller]
MCQuantity == [p \in Payables |-> 1]
Symmetry == Permutations(Requests) \cup Permutations({photo1, photo2})

MarketplaceVars == <<catalogueVars, mediaVars, conversationVars, payableVars, component>>

MarketplaceInit ==
    /\ Init /\ MediaInit /\ ConversationInit /\ PayableInit
    /\ component \in {"catalogue", "media", "conversation", "payables"}

MarketplaceNext ==
    /\ \/ /\ component = "catalogue" /\ Next
          /\ UNCHANGED <<mediaVars, conversationVars, payableVars>>
       \/ /\ component = "media" /\ MediaNext
          /\ UNCHANGED <<catalogueVars, conversationVars, payableVars>>
       \/ /\ component = "conversation" /\ ConversationNext
          /\ UNCHANGED <<catalogueVars, mediaVars, payableVars>>
       \/ /\ component = "payables" /\ PayableNext
          /\ UNCHANGED <<catalogueVars, mediaVars, conversationVars>>
    /\ UNCHANGED component

\* The variables of Media, Conversations and Payables have their types.
ComponentsTypeOK == MediaTypeOK /\ ConversationTypeOK /\ PayableTypeOK

MarketplaceSpec == MarketplaceInit /\ [][MarketplaceNext]_MarketplaceVars

=============================================================================
