--------------------------- MODULE MCEscrowHistory ---------------------------
(***************************************************************************)
(* Small instances of EscrowHistory for TLC.  An execution is one of two   *)
(* kinds, so that their state spaces add up instead of multiplying: either *)
(* requests, runs and failures cross on the order o1, or they follow one   *)
(* another on o1 and o2, or on the simulated order o3.                     *)
(***************************************************************************)
EXTENDS MCEscrow, EscrowHistory

CONSTANT o3  \* an order in simulation

VARIABLE crossing  \* which of the two

mcvars == <<hvars, crossing>>

MCInit == HInit /\ crossing \in BOOLEAN

Ordered == {o \in Orders : status[o] # "absent"}

MCNext ==
    /\ \/ /\ crossing /\ Next
          /\ Ordered' \subseteq {o1}
          /\ Remember
       \/ /\ ~crossing /\ Serial
          /\ Ordered' \subseteq {o1, o2} \/ Ordered' \subseteq {o3}
    /\ \A r \in Processes : asked'[r].about \in Ordered' \cup {None}
    /\ UNCHANGED crossing

MCSpec == MCInit /\ [][MCNext]_mcvars

(* Money leaves the platform at most once per order, and an order in       *)
(* escrow has neither been paid out nor refunded: true of every order, but *)
(* only while requests follow one another, none fails and no webhook comes *)
(* for an order that is closed or disputed.                                *)
SerialKeepsBooks == ~crossing => AtMostOneDisbursement /\ EscrowHeld

=============================================================================
