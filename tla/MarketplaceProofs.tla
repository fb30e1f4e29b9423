--------------------------- MODULE MarketplaceProofs ---------------------------
(***************************************************************************)
(* Theorems about the execution that MCMarketplace checks, for any values  *)
(* of the constants: whichever component it picks, it is an execution of   *)
(* each of them, so what is proved of a component holds of it.             *)
(***************************************************************************)
EXTENDS MCMarketplace, MediaProofs, ConversationsProofs, PayablesProofs

\* The other components stutter while one runs.
THEOREM MarketplaceRunsComponents ==
    MarketplaceSpec => Spec /\ MediaSpec /\ ConversationSpec /\ PayableSpec
<1>1. MarketplaceInit => Init /\ MediaInit /\ ConversationInit /\ PayableInit
  BY DEF MarketplaceInit
<1>2. [MarketplaceNext]_MarketplaceVars =>
         /\ [Next]_catalogueVars /\ [MediaNext]_mediaVars
         /\ [ConversationNext]_conversationVars /\ [PayableNext]_payableVars
  BY DEF MarketplaceNext, MarketplaceVars
<1> QED
  BY <1>1, <1>2, PTL DEF MarketplaceSpec, Spec, MediaSpec, ConversationSpec, PayableSpec

\* The variables of every component keep their types.
THEOREM ComponentsTypeCorrect == MarketplaceSpec => []ComponentsTypeOK
<1>1. PayableInv => PayableTypeOK
  BY DEF PayableInv
<1>2. MediaTypeOK /\ ConversationTypeOK /\ PayableTypeOK => ComponentsTypeOK
  BY DEF ComponentsTypeOK
<1> QED
  BY <1>1, <1>2, MarketplaceRunsComponents, MediaInvariance, ConversationTypeCorrect,
     PayableInvariance, PTL
=============================================================================
