------------------------------- MODULE MCMarket -------------------------------
(***************************************************************************)
(* One seller with one subscription that covers one listing, two listings. *)
(***************************************************************************)
EXTENDS Market, TLC

CONSTANTS seller, listing1, listing2, shop1

MCSeller == [l \in Listings |-> seller]
MCKindOf == shop1 :> "shop"
MCPayer == shop1 :> seller
MCQuantity == shop1 :> 0
Symmetry == Permutations(Listings)

=============================================================================
