------------------------------ MODULE MCEscrow ------------------------------
(***************************************************************************)
(* Small instances of Escrow for TLC.                                      *)
(***************************************************************************)
EXTENDS Escrow, TLC

CONSTANTS alice, sam, o1, o2   \* a buyer, a seller, two orders

\* Sam sells everything, so Alice is the only possible buyer.
MCSeller == [o \in Orders |-> sam]
MCListingType == [o \in Orders |-> IF o = o1 THEN "bien" ELSE "service"]

Interchangeable == Permutations(Handlers) \cup Permutations(Crons)

=============================================================================
