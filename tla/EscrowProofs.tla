----------------------------- MODULE EscrowProofs -----------------------------
(***************************************************************************)
(* Theorems about Escrow and EscrowHistory, for any users, orders and      *)
(* processes and any bounds.                                               *)
(*                                                                         *)
(* First what holds whatever overlaps, fails or is repeated: TypeOK and    *)
(* IInv are inductive together, and each safety property is a conjunct of  *)
(* IInv or follows from it in one step. Each part of the invariant has a   *)
(* lemma of its own, with a step for every kind of action: the arrival of  *)
(* a request, a tick of the scheduler, an await of the collect, of the     *)
(* payout or of the refund, the two remaining awaits, a failure, a step of *)
(* the outside world and a stutter. An action that disturbs the part gets  *)
(* a step of its own.                                                      *)
(*                                                                         *)
(* Then the price of an order that was not disturbed, while any number of  *)
(* requests and scheduler runs overlap on the others: the price is held    *)
(* until it goes to one party, once, and the status says where it is. When *)
(* no two requests overlap and nothing fails, no order is disturbed, and   *)
(* the same holds for all of them.                                         *)
(***************************************************************************)
EXTENDS EscrowHistory, FiniteSetTheorems, TLAPS

-----------------------------------------------------------------------------
(* The control-flow operators keep the process variables well typed.       *)

LEMMA BeginType ==
    ASSUME ProcessTypeOK, NEW r, NEW o \in Orders, NEW s \in PcValues, Begin(r, o, s)
    PROVE  ProcessTypeOK'
BY DEF ProcessTypeOK, Begin, Enter, Processes

LEMMA StepType ==
    ASSUME ProcessTypeOK, NEW r, NEW s, NEW t \in PcValues, Step(r, s, t)
    PROVE  ProcessTypeOK'
BY DEF ProcessTypeOK, Step, Move

LEMMA FinishType ==
    ASSUME ProcessTypeOK, NEW r \in Processes, NEW s, Finish(r, s)
    PROVE  ProcessTypeOK'
BY DEF ProcessTypeOK, Finish, PcValues

LEMMA AbandonType ==
    ASSUME ProcessTypeOK, NEW r, Abandon(r)
    PROVE  ProcessTypeOK'
BY DEF ProcessTypeOK, Abandon, PcValues

(* An active process works on an order, a paying one on a payout row.      *)
LEMMA ActiveHasOrder ==
    ASSUME ProcessTypeOK, ControlInv, NEW r \in Processes
    PROVE  /\ pc[r] # "idle" => target[r] \in Orders
           /\ pc[r] \in Paying => row[r] \in Payouts
BY DEF ProcessTypeOK, ControlInv

LEMMA NoneIsNoRow == None \notin Payouts
BY EscrowAssumption DEF Payouts

-----------------------------------------------------------------------------
(* Type correctness.                                                       *)

LEMMA TypePreserved ==
    ASSUME TypeOK, ControlInv, [Next]_vars
    PROVE  TypeOK'
<1> USE EscrowAssumption, ActiveHasOrder
    DEF TypeOK, DatabaseTypeOK, ProviderTypeOK, OrderStatus, PayoutStatus, RawStatus,
        orderVars, payoutVars, refundVars, collectVars
<1>1. ASSUME NEW r \in Handlers, NEW o \in Orders, NEW u \in Users, CreateOrder(r, o, u)
     PROVE  TypeOK'
  <2>1. ProcessTypeOK'
    BY <1>1, BeginType DEF CreateOrder, PcValues
  <2> QED
    BY <1>1, <2>1 DEF CreateOrder
<1>2. ASSUME NEW r \in Handlers, NEW o \in Orders, NEW via \in Providers, NEW t \in Orders,
            ReceiveWebhook(r, o, via, t)
     PROVE  TypeOK'
  <2>1. ProcessTypeOK'
    BY <1>2 DEF ReceiveWebhook, Enter, PcValues, ProcessTypeOK, Processes, Checks
  <2> QED
    BY <1>2, <2>1 DEF ReceiveWebhook
<1>3. ASSUME NEW r \in Handlers, NEW o \in Orders, AdminReleaseEscrow(r, o)
     PROVE  TypeOK'
  <2>1. ProcessTypeOK'
    BY <1>3, BeginType DEF AdminReleaseEscrow, PcValues
  <2> QED
    BY <1>3, <2>1 DEF AdminReleaseEscrow
<1>4. ASSUME NEW r \in Handlers, NEW o \in Orders, RefundOrder(r, o)
     PROVE  TypeOK'
  <2>1. ProcessTypeOK'
    BY <1>4, BeginType DEF RefundOrder, PcValues
  <2> QED
    BY <1>4, <2>1 DEF RefundOrder
<1>5. ASSUME NEW r \in Handlers, NEW o \in Orders, NEW u \in Users, ConfirmReceipt(r, o, u)
     PROVE  TypeOK'
  <2>1. ProcessTypeOK'
    BY <1>5, BeginType DEF ConfirmReceipt, PcValues
  <2> QED
    BY <1>5, <2>1 DEF ConfirmReceipt
<1>6. ASSUME NEW r \in Handlers, NEW o \in Orders, NEW u \in Users, OpenDispute(r, o, u)
     PROVE  TypeOK'
  <2>1. ProcessTypeOK'
    BY <1>6, BeginType DEF OpenDispute, PcValues
  <2> QED
    BY <1>6, <2>1 DEF OpenDispute
<1>7. ASSUME NEW r \in Handlers, NEW o \in Orders, NEW u \in Users, CreateReview(r, o, u)
     PROVE  TypeOK'
  <2>1. ProcessTypeOK'
    BY <1>7, BeginType DEF CreateReview, PcValues
  <2> QED
    BY <1>7, <2>1 DEF CreateReview
<1>8. ASSUME NEW c \in Crons, ReleaseExpiredEscrows(c)
     PROVE  TypeOK'
  <2>1. ProcessTypeOK'
    BY <1>8 DEF ReleaseExpiredEscrows, PcValues, ProcessTypeOK, DueOrders,
       Processes
  <2> QED
    BY <1>8, <2>1 DEF ReleaseExpiredEscrows
<1>9. ASSUME NEW r \in Processes, InitCheckout(r)
     PROVE  TypeOK'
  <2>1. ProcessTypeOK'
    BY <1>9, StepType DEF InitCheckout, PcValues
  <2> QED
    BY <1>9, <2>1 DEF InitCheckout, Step, Move
<1>10. ASSUME NEW r \in Processes, RecordInitiated(r)
     PROVE  TypeOK'
  <2>1. ProcessTypeOK'
    BY <1>10, StepType, FinishType DEF RecordInitiated, PcValues
  <2> QED
    BY <1>10, <2>1 DEF RecordInitiated, Step, Move, Finish
<1>11. ASSUME NEW r \in Processes, MarkPaid(r)
     PROVE  TypeOK'
  <2>1. ProcessTypeOK'
    BY <1>11, FinishType DEF MarkPaid, PcValues
  <2> QED
    BY <1>11, <2>1 DEF MarkPaid, SetStatus
<1>12. ASSUME NEW r \in Processes, CheckStatus(r)
     PROVE  TypeOK'
  <2>1. ProcessTypeOK'
    BY <1>12 DEF CheckStatus, Move, PcValues, ProcessTypeOK
  <2> QED
    BY <1>12, <2>1 DEF CheckStatus
<1>13. ASSUME NEW r \in Processes, RecordVerified(r)
     PROVE  TypeOK'
  <2>1. ProcessTypeOK'
    BY <1>13, StepType, FinishType DEF RecordVerified, PcValues
  <2> QED
    BY <1>13, <2>1 DEF RecordVerified
<1>14. ASSUME NEW r \in Processes, NEW p \in Payouts, CreatePayout(r, p)
     PROVE  TypeOK'
  <2>1. ProcessTypeOK'
    BY <1>14 DEF CreatePayout, PcValues, ProcessTypeOK
  <2> QED
    BY <1>14, <2>1 DEF CreatePayout
<1>15. ASSUME NEW r \in Processes, TransferOk(r)
     PROVE  TypeOK'
  <2>1. ProcessTypeOK'
    BY <1>15, StepType DEF TransferOk, PcValues
  <2> QED
    BY <1>15, <2>1 DEF TransferOk, Step, Move, Paying
<1>16. ASSUME NEW r \in Processes, MarkSent(r)
     PROVE  TypeOK'
  <2>1. ProcessTypeOK'
    BY <1>16, StepType DEF MarkSent, PcValues
  <2> QED
    BY <1>16, <2>1 DEF MarkSent
<1>17. ASSUME NEW r \in Processes, MarkFailed(r)
     PROVE  TypeOK'
  <2>1. ProcessTypeOK'
    BY <1>17, FinishType DEF MarkFailed, PcValues
  <2> QED
    BY <1>17, <2>1 DEF MarkFailed
<1>18. ASSUME NEW r \in Processes, Release(r)
     PROVE  TypeOK'
  <2>1. ProcessTypeOK'
    BY <1>18, FinishType DEF Release, PcValues
  <2> QED
    BY <1>18, <2>1 DEF Release, SetStatus
<1>19. ASSUME NEW r \in Processes, CreateRefund(r)
     PROVE  TypeOK'
  <2>1. ProcessTypeOK'
    BY <1>19, StepType, AbandonType DEF CreateRefund, PcValues
  <2> QED
    BY <1>19, <2>1 DEF CreateRefund
<1>20. ASSUME NEW r \in Processes, RefundTransferOk(r)
     PROVE  TypeOK'
  <2>1. ProcessTypeOK'
    BY <1>20, StepType DEF RefundTransferOk, PcValues
  <2> QED
    BY <1>20, <2>1 DEF RefundTransferOk, Step, Move
<1>21. ASSUME NEW r \in Processes, RefundSent(r)
     PROVE  TypeOK'
  <2>1. ProcessTypeOK'
    BY <1>21, StepType DEF RefundSent, PcValues
  <2> QED
    BY <1>21, <2>1 DEF RefundSent
<1>22. ASSUME NEW r \in Processes, RefundFailed(r)
     PROVE  TypeOK'
  <2>1. ProcessTypeOK'
    BY <1>22, FinishType DEF RefundFailed, PcValues
  <2> QED
    BY <1>22, <2>1 DEF RefundFailed
<1>23. ASSUME NEW r \in Processes, CloseRefunded(r)
     PROVE  TypeOK'
  <2>1. ProcessTypeOK'
    BY <1>23, FinishType DEF CloseRefunded, PcValues
  <2> QED
    BY <1>23, <2>1 DEF CloseRefunded, SetStatus
<1>24. ASSUME NEW r \in Processes, MarkDisputed(r)
     PROVE  TypeOK'
  <2>1. ProcessTypeOK'
    BY <1>24, FinishType DEF MarkDisputed, PcValues
  <2> QED
    BY <1>24, <2>1 DEF MarkDisputed, SetStatus
<1>25. ASSUME NEW r \in Processes, RecordReview(r)
     PROVE  TypeOK'
  <2>1. ProcessTypeOK'
    BY <1>25, FinishType DEF RecordReview, PcValues
  <2> QED
    BY <1>25, <2>1 DEF RecordReview, Finish
<1>26. ASSUME NEW r \in Processes, TransferThrows(r)
     PROVE  TypeOK'
  <2>1. ProcessTypeOK'
    BY <1>26, StepType DEF TransferThrows, PcValues
  <2> QED
    BY <1>26, <2>1 DEF TransferThrows, Step, Move, Paying, Fault
<1>27. ASSUME NEW r \in Processes, RefundTransferThrows(r)
     PROVE  TypeOK'
  <2>1. ProcessTypeOK'
    BY <1>27, StepType DEF RefundTransferThrows, PcValues
  <2> QED
    BY <1>27, <2>1 DEF RefundTransferThrows, Step, Move, Fault
<1>28. ASSUME NEW r \in Processes, Throws(r)
     PROVE  TypeOK'
  <2>1. ProcessTypeOK'
    BY <1>28, AbandonType DEF Throws, PcValues
  <2> QED
    BY <1>28, <2>1 DEF Throws, Fault
<1>29. ASSUME Crash
     PROVE  TypeOK'
  <2>1. ProcessTypeOK'
    BY <1>29 DEF Crash, PcValues, ProcessTypeOK
  <2> QED
    BY <1>29, <2>1 DEF Crash, Fault
<1>30. ASSUME World PROVE TypeOK'
  BY <1>30 DEF World, CustomerPays, DeadlinePasses, processVars, ProcessTypeOK
<1>31. ASSUME UNCHANGED vars PROVE TypeOK'
  BY <1>31 DEF vars, processVars, ProcessTypeOK
<1> QED
  BY <1>1, <1>2, <1>3, <1>4, <1>5, <1>6, <1>7, <1>8, <1>9, <1>10, <1>11, <1>12,
     <1>13, <1>14, <1>15, <1>16, <1>17, <1>18, <1>19, <1>20, <1>21, <1>22,
     <1>23, <1>24, <1>25, <1>26, <1>27, <1>28, <1>29, <1>30, <1>31 DEF Next,
     Arrival, Advance, CollectStep, PayoutStep, RefundStep, Failure

-----------------------------------------------------------------------------
(* Active processes have an order, paying ones a payout row.               *)
LEMMA ControlPreserved ==
    ASSUME TypeOK, TypeOK', ControlInv, [Next]_vars
    PROVE  ControlInv'
<1> USE EscrowAssumption
    DEF ControlInv, Paying, TypeOK, DatabaseTypeOK, ProviderTypeOK,
        ProcessTypeOK, Processes, Step, Move, Begin, Enter, Finish, Abandon, SetStatus,
        Fault, orderVars, payoutVars, refundVars, collectVars, processVars
<1>1. ASSUME Arrival PROVE ControlInv'
  BY <1>1 DEF Arrival, CreateOrder, ReceiveWebhook, ConfirmReceipt,
     AdminReleaseEscrow, OpenDispute, RefundOrder, CreateReview
<1>2. ASSUME \E c \in Crons : ReleaseExpiredEscrows(c) PROVE ControlInv'
  BY <1>2 DEF ReleaseExpiredEscrows, DueOrders
<1>3. ASSUME NEW r \in Processes, CollectStep(r) PROVE ControlInv'
  BY <1>3 DEF CollectStep, InitCheckout, RecordInitiated, MarkPaid,
     CheckStatus, RecordVerified
<1>4. ASSUME NEW r \in Processes, PayoutStep(r) PROVE ControlInv'
  <2>1. ASSUME NEW p \in Payouts, CreatePayout(r, p) PROVE ControlInv'
    BY <2>1, NoneIsNoRow DEF CreatePayout
  <2>2. CASE TransferOk(r)
    BY <2>2 DEF TransferOk
  <2>3. CASE MarkSent(r)
    BY <2>3 DEF MarkSent
  <2>4. CASE MarkFailed(r)
    BY <2>4 DEF MarkFailed
  <2>5. CASE Release(r)
    BY <2>5 DEF Release
  <2> QED
    BY <1>4, <2>1, <2>2, <2>3, <2>4, <2>5 DEF PayoutStep
<1>5. ASSUME NEW r \in Processes, RefundStep(r) PROVE ControlInv'
  BY <1>5 DEF RefundStep, CreateRefund, RefundTransferOk, RefundSent,
     RefundFailed, CloseRefunded
<1>6. ASSUME NEW r \in Processes, MarkDisputed(r) PROVE ControlInv'
  BY <1>6, SMTT(60) DEF MarkDisputed
<1>7. ASSUME NEW r \in Processes, RecordReview(r) PROVE ControlInv'
  BY <1>7, SMTT(60) DEF RecordReview
<1>8. ASSUME Failure PROVE ControlInv'
  BY <1>8 DEF Failure, Crash, Throws, TransferThrows, RefundTransferThrows
<1>9. ASSUME World PROVE ControlInv'
  BY <1>9 DEF World, CustomerPays, DeadlinePasses
<1>10. ASSUME UNCHANGED vars PROVE ControlInv'
  BY <1>10 DEF vars
<1> QED
  BY <1>1, <1>2, <1>3, <1>4, <1>5, <1>6, <1>7, <1>8, <1>9, <1>10 DEF Next,
     Advance

(* Once paid, an order stays paid, so what a request read stays true.      *)
LEMMA StagePreserved ==
    ASSUME TypeOK, TypeOK', IInv, ControlInv', [Next]_vars
    PROVE  StageInv'
<1> USE EscrowAssumption
    DEF IInv, ControlInv, StageInv, CollectInv, Paid, Recorded, AfterPaid,
        Paying, Refunding, TypeOK, DatabaseTypeOK, ProviderTypeOK,
        ProcessTypeOK, Processes, Step, Move, Begin, Enter, Finish, Abandon, SetStatus,
        Fault, orderVars, payoutVars, refundVars, collectVars, processVars
<1>1. ASSUME Arrival PROVE StageInv'
  <2>1. ASSUME NEW r \in Handlers, NEW o \in Orders, NEW via \in Providers, NEW t \in Orders,
              ReceiveWebhook(r, o, via, t)
       PROVE  StageInv'
    BY <2>1 DEF ReceiveWebhook, Checks
  <2>2. ASSUME NEW r \in Handlers, NEW o \in Orders, NEW u \in Users, CreateOrder(r, o, u)
       PROVE  StageInv'
    BY <2>2 DEF CreateOrder
  <2>3. ASSUME NEW r \in Handlers, NEW o \in Orders,
               \/ AdminReleaseEscrow(r, o) \/ RefundOrder(r, o)
               \/ \E u \in Users : ConfirmReceipt(r, o, u) \/ OpenDispute(r, o, u) \/ CreateReview(r, o, u)
       PROVE  StageInv'
    BY <2>3 DEF ConfirmReceipt, AdminReleaseEscrow, OpenDispute, RefundOrder, CreateReview
  <2> QED
    BY <1>1, <2>1, <2>2, <2>3 DEF Arrival
<1>2. ASSUME \E c \in Crons : ReleaseExpiredEscrows(c) PROVE StageInv'
  BY <1>2 DEF ReleaseExpiredEscrows, DueOrders
<1>3. ASSUME NEW r \in Processes, CollectStep(r) PROVE StageInv'
  <2>1. CASE InitCheckout(r)
    BY <2>1 DEF InitCheckout
  <2>2. CASE RecordInitiated(r)
    BY <2>2, SMTT(60) DEF RecordInitiated
  <2>3. CASE MarkPaid(r)
    BY <2>3 DEF MarkPaid
  <2>4. CASE CheckStatus(r)
    BY <2>4 DEF CheckStatus
  <2>5. CASE RecordVerified(r)
    BY <2>5 DEF RecordVerified
  <2> QED
    BY <1>3, <2>1, <2>2, <2>3, <2>4, <2>5 DEF CollectStep
<1>4. ASSUME NEW r \in Processes, PayoutStep(r) PROVE StageInv'
  <2>1. ASSUME NEW p \in Payouts, CreatePayout(r, p) PROVE StageInv'
    BY <2>1 DEF CreatePayout
  <2>2. CASE TransferOk(r)
    BY <2>2 DEF TransferOk
  <2>3. CASE MarkSent(r)
    BY <2>3 DEF MarkSent
  <2>4. CASE MarkFailed(r)
    BY <2>4 DEF MarkFailed
  <2>5. CASE Release(r)
    BY <2>5 DEF Release
  <2> QED
    BY <1>4, <2>1, <2>2, <2>3, <2>4, <2>5 DEF PayoutStep
<1>5. ASSUME NEW r \in Processes, RefundStep(r) PROVE StageInv'
  <2>1. CASE CreateRefund(r)
    BY <2>1 DEF CreateRefund
  <2>2. CASE RefundTransferOk(r)
    BY <2>2 DEF RefundTransferOk
  <2>3. CASE RefundSent(r)
    BY <2>3 DEF RefundSent
  <2>4. CASE RefundFailed(r)
    BY <2>4 DEF RefundFailed
  <2>5. CASE CloseRefunded(r)
    BY <2>5, SMTT(60) DEF CloseRefunded
  <2> QED
    BY <1>5, <2>1, <2>2, <2>3, <2>4, <2>5 DEF RefundStep
<1>6. ASSUME NEW r \in Processes, MarkDisputed(r) PROVE StageInv'
  BY <1>6, SMTT(60) DEF MarkDisputed
<1>7. ASSUME NEW r \in Processes, RecordReview(r) PROVE StageInv'
  BY <1>7, SMTT(60) DEF RecordReview
<1>8. ASSUME Failure PROVE StageInv'
  <2>1. ASSUME Crash PROVE StageInv'
    BY <2>1 DEF Crash
  <2>2. ASSUME NEW r \in Processes, Throws(r) PROVE StageInv'
    BY <2>2 DEF Throws
  <2>3. ASSUME NEW r \in Processes, TransferThrows(r) PROVE StageInv'
    BY <2>3 DEF TransferThrows
  <2>4. ASSUME NEW r \in Processes, RefundTransferThrows(r) PROVE StageInv'
    BY <2>4 DEF RefundTransferThrows
  <2> QED
    BY <1>8, <2>1, <2>2, <2>3, <2>4 DEF Failure
<1>9. ASSUME World PROVE StageInv'
  BY <1>9 DEF World, CustomerPays, DeadlinePasses
<1>10. ASSUME UNCHANGED vars PROVE StageInv'
  BY <1>10 DEF vars
<1> QED
  BY <1>1, <1>2, <1>3, <1>4, <1>5, <1>6, <1>7, <1>8, <1>9, <1>10 DEF Next,
     Advance

(* Only markPayablePaid makes an order paid, and it stands on a record.    *)
LEMMA CollectPreserved ==
    ASSUME TypeOK, TypeOK', IInv, ControlInv', [Next]_vars
    PROVE  CollectInv'
<1> USE EscrowAssumption
    DEF IInv, ControlInv, StageInv, CollectInv, Paid,
        Recorded, AfterPaid, Paying, Refunding, TypeOK, DatabaseTypeOK,
        ProviderTypeOK, ProcessTypeOK, Processes, Step, Move, Begin, Enter, Finish, Abandon,
        SetStatus, Fault, orderVars, payoutVars, refundVars, collectVars,
        processVars
<1>1. ASSUME Arrival PROVE CollectInv'
  <2>1. ASSUME NEW r \in Handlers, NEW o \in Orders, NEW u \in Users, CreateOrder(r, o, u)
       PROVE  CollectInv'
    BY <2>1 DEF CreateOrder
  <2>2. ASSUME NEW r \in Handlers, NEW o \in Orders, NEW via \in Providers, NEW t \in Orders,
              ReceiveWebhook(r, o, via, t)
       PROVE  CollectInv'
    BY <2>2 DEF ReceiveWebhook
  <2>3. ASSUME NEW r \in Handlers, NEW o \in Orders, NEW u \in Users, ConfirmReceipt(r, o, u)
       PROVE  CollectInv'
    BY <2>3 DEF ConfirmReceipt
  <2>4. ASSUME NEW r \in Handlers, NEW o \in Orders, AdminReleaseEscrow(r, o)
       PROVE  CollectInv'
    BY <2>4 DEF AdminReleaseEscrow
  <2>5. ASSUME NEW r \in Handlers, NEW o \in Orders, NEW u \in Users, OpenDispute(r, o, u)
       PROVE  CollectInv'
    BY <2>5 DEF OpenDispute
  <2>6. ASSUME NEW r \in Handlers, NEW o \in Orders, RefundOrder(r, o)
       PROVE  CollectInv'
    BY <2>6 DEF RefundOrder
  <2>7. ASSUME NEW r \in Handlers, NEW o \in Orders, NEW u \in Users, CreateReview(r, o, u)
       PROVE  CollectInv'
    BY <2>7 DEF CreateReview
  <2> QED
    BY <1>1, <2>1, <2>2, <2>3, <2>4, <2>5, <2>6, <2>7 DEF Arrival
<1>2. ASSUME \E c \in Crons : ReleaseExpiredEscrows(c) PROVE CollectInv'
  BY <1>2 DEF ReleaseExpiredEscrows, DueOrders
<1>3. ASSUME NEW r \in Processes, CollectStep(r) PROVE CollectInv'
  <2>1. CASE InitCheckout(r)
    BY <2>1 DEF InitCheckout
  <2>2. CASE RecordInitiated(r)
    BY <2>2 DEF RecordInitiated
  <2>3. CASE MarkPaid(r)
    BY <2>3 DEF MarkPaid
  <2>4. CASE CheckStatus(r)
    BY <2>4 DEF CheckStatus
  <2>5. CASE RecordVerified(r)
    BY <2>5, SMTT(60) DEF RecordVerified
  <2> QED
    BY <1>3, <2>1, <2>2, <2>3, <2>4, <2>5 DEF CollectStep
<1>4. ASSUME NEW r \in Processes, PayoutStep(r) PROVE CollectInv'
  <2>1. ASSUME NEW p \in Payouts, CreatePayout(r, p) PROVE CollectInv'
    BY <2>1 DEF CreatePayout
  <2>2. CASE TransferOk(r)
    BY <2>2 DEF TransferOk
  <2>3. CASE MarkSent(r)
    BY <2>3 DEF MarkSent
  <2>4. CASE MarkFailed(r)
    BY <2>4 DEF MarkFailed
  <2>5. CASE Release(r)
    BY <2>5 DEF Release
  <2> QED
    BY <1>4, <2>1, <2>2, <2>3, <2>4, <2>5 DEF PayoutStep
<1>5. ASSUME NEW r \in Processes, RefundStep(r) PROVE CollectInv'
  <2>1. CASE CreateRefund(r)
    BY <2>1 DEF CreateRefund
  <2>2. CASE RefundTransferOk(r)
    BY <2>2 DEF RefundTransferOk
  <2>3. CASE RefundSent(r)
    BY <2>3 DEF RefundSent
  <2>4. CASE RefundFailed(r)
    BY <2>4 DEF RefundFailed
  <2>5. CASE CloseRefunded(r)
    BY <2>5, SMTT(60) DEF CloseRefunded
  <2> QED
    BY <1>5, <2>1, <2>2, <2>3, <2>4, <2>5 DEF RefundStep
<1>6. ASSUME NEW r \in Processes, MarkDisputed(r) PROVE CollectInv'
  BY <1>6, SMTT(60) DEF MarkDisputed
<1>7. ASSUME NEW r \in Processes, RecordReview(r) PROVE CollectInv'
  BY <1>7, SMTT(60) DEF RecordReview
<1>8. ASSUME Failure PROVE CollectInv'
  <2>1. ASSUME Crash PROVE CollectInv'
    BY <2>1 DEF Crash
  <2>2. ASSUME NEW r \in Processes, Throws(r) PROVE CollectInv'
    BY <2>2 DEF Throws
  <2>3. ASSUME NEW r \in Processes, TransferThrows(r) PROVE CollectInv'
    BY <2>3 DEF TransferThrows
  <2>4. ASSUME NEW r \in Processes, RefundTransferThrows(r) PROVE CollectInv'
    BY <2>4 DEF RefundTransferThrows
  <2> QED
    BY <1>8, <2>1, <2>2, <2>3, <2>4 DEF Failure
<1>9. ASSUME World PROVE CollectInv'
  BY <1>9 DEF World, CustomerPays, DeadlinePasses
<1>10. ASSUME UNCHANGED vars PROVE CollectInv'
  BY <1>10 DEF vars
<1> QED
  BY <1>1, <1>2, <1>3, <1>4, <1>5, <1>6, <1>7, <1>8, <1>9, <1>10 DEF Next,
     Advance

(* A payout row is written only by the process that created it.            *)
LEMMA PayoutPreserved ==
    ASSUME TypeOK, TypeOK', IInv, ControlInv', [Next]_vars
    PROVE  PayoutInv'
<1> USE EscrowAssumption
    DEF IInv, ControlInv, PayoutInv, LedgerMatchesProvider, Paying, TypeOK,
        DatabaseTypeOK, ProviderTypeOK, ProcessTypeOK, Processes, Step, Move, Begin, Enter,
        Finish, Abandon, SetStatus, Fault, orderVars, payoutVars, refundVars,
        collectVars, processVars
<1>1. ASSUME Arrival PROVE PayoutInv'
  BY <1>1 DEF Arrival, CreateOrder, ReceiveWebhook, ConfirmReceipt,
     AdminReleaseEscrow, OpenDispute, RefundOrder, CreateReview
<1>2. ASSUME \E c \in Crons : ReleaseExpiredEscrows(c) PROVE PayoutInv'
  BY <1>2 DEF ReleaseExpiredEscrows, DueOrders
<1>3. ASSUME NEW r \in Processes, CollectStep(r) PROVE PayoutInv'
  BY <1>3 DEF CollectStep, InitCheckout, RecordInitiated, MarkPaid,
     CheckStatus, RecordVerified
<1>4. ASSUME NEW r \in Processes, PayoutStep(r) PROVE PayoutInv'
  <2>1. ASSUME NEW p \in Payouts, CreatePayout(r, p) PROVE PayoutInv'
    BY <2>1, NoneIsNoRow DEF CreatePayout
  <2>2. CASE TransferOk(r)
    BY <2>2 DEF TransferOk
  <2>3. CASE MarkSent(r)
    BY <2>3 DEF MarkSent
  <2>4. CASE MarkFailed(r)
    BY <2>4 DEF MarkFailed
  <2>5. CASE Release(r)
    BY <2>5 DEF Release
  <2> QED
    BY <1>4, <2>1, <2>2, <2>3, <2>4, <2>5 DEF PayoutStep
<1>5. ASSUME NEW r \in Processes, RefundStep(r) PROVE PayoutInv'
  BY <1>5 DEF RefundStep, CreateRefund, RefundTransferOk, RefundSent,
     RefundFailed, CloseRefunded
<1>6. ASSUME NEW r \in Processes, MarkDisputed(r) PROVE PayoutInv'
  BY <1>6, SMTT(60) DEF MarkDisputed
<1>7. ASSUME NEW r \in Processes, RecordReview(r) PROVE PayoutInv'
  BY <1>7, SMTT(60) DEF RecordReview
<1>8. ASSUME Failure PROVE PayoutInv'
  <2>1. ASSUME Crash PROVE PayoutInv'
    BY <2>1 DEF Crash
  <2>2. ASSUME NEW r \in Processes, Throws(r) PROVE PayoutInv'
    BY <2>2 DEF Throws
  <2>3. ASSUME NEW r \in Processes, TransferThrows(r) PROVE PayoutInv'
    BY <2>3 DEF TransferThrows
  <2>4. ASSUME NEW r \in Processes, RefundTransferThrows(r) PROVE PayoutInv'
    BY <2>4 DEF RefundTransferThrows
  <2> QED
    BY <1>8, <2>1, <2>2, <2>3, <2>4 DEF Failure
<1>9. ASSUME World PROVE PayoutInv'
  BY <1>9 DEF World, CustomerPays, DeadlinePasses
<1>10. ASSUME UNCHANGED vars PROVE PayoutInv'
  BY <1>10 DEF vars
<1> QED
  BY <1>1, <1>2, <1>3, <1>4, <1>5, <1>6, <1>7, <1>8, <1>9, <1>10 DEF Next,
     Advance

(* The unique refund row serializes the refunds of an order.               *)
LEMMA RefundPreserved ==
    ASSUME TypeOK, TypeOK', IInv, ControlInv', [Next]_vars
    PROVE  RefundInv'
<1> USE EscrowAssumption
    DEF IInv, ControlInv, RefundInv, AtMostOneRefundTransfer,
        RefundedHasSentRefund, Refunding, TypeOK, DatabaseTypeOK,
        ProviderTypeOK, ProcessTypeOK, Processes, Step, Move, Begin, Enter, Finish, Abandon,
        SetStatus, Fault, orderVars, payoutVars, refundVars, collectVars,
        processVars
<1>1. ASSUME Arrival PROVE RefundInv'
  BY <1>1 DEF Arrival, CreateOrder, ReceiveWebhook, ConfirmReceipt,
     AdminReleaseEscrow, OpenDispute, RefundOrder, CreateReview
<1>2. ASSUME \E c \in Crons : ReleaseExpiredEscrows(c) PROVE RefundInv'
  BY <1>2 DEF ReleaseExpiredEscrows, DueOrders
<1>3. ASSUME NEW r \in Processes, CollectStep(r) PROVE RefundInv'
  BY <1>3 DEF CollectStep, InitCheckout, RecordInitiated, MarkPaid,
     CheckStatus, RecordVerified
<1>4. ASSUME NEW r \in Processes, PayoutStep(r) PROVE RefundInv'
  <2>1. ASSUME NEW p \in Payouts, CreatePayout(r, p) PROVE RefundInv'
    BY <2>1 DEF CreatePayout
  <2>2. CASE TransferOk(r)
    BY <2>2 DEF TransferOk
  <2>3. CASE MarkSent(r)
    BY <2>3 DEF MarkSent
  <2>4. CASE MarkFailed(r)
    BY <2>4 DEF MarkFailed
  <2>5. CASE Release(r)
    BY <2>5 DEF Release
  <2> QED
    BY <1>4, <2>1, <2>2, <2>3, <2>4, <2>5 DEF PayoutStep
<1>5. ASSUME NEW r \in Processes, RefundStep(r) PROVE RefundInv'
  <2>1. CASE CreateRefund(r)
    BY <2>1 DEF CreateRefund
  <2>2. CASE RefundTransferOk(r)
    BY <2>2 DEF RefundTransferOk
  <2>3. CASE RefundSent(r)
    BY <2>3 DEF RefundSent
  <2>4. CASE RefundFailed(r)
    BY <2>4 DEF RefundFailed
  <2>5. CASE CloseRefunded(r)
    BY <2>5, SMTT(60) DEF CloseRefunded
  <2> QED
    BY <1>5, <2>1, <2>2, <2>3, <2>4, <2>5 DEF RefundStep
<1>6. ASSUME NEW r \in Processes, MarkDisputed(r) PROVE RefundInv'
  BY <1>6, SMTT(60) DEF MarkDisputed
<1>7. ASSUME NEW r \in Processes, RecordReview(r) PROVE RefundInv'
  BY <1>7, SMTT(60) DEF RecordReview
<1>8. ASSUME Failure PROVE RefundInv'
  <2>1. ASSUME Crash PROVE RefundInv'
    BY <2>1 DEF Crash
  <2>2. ASSUME NEW r \in Processes, Throws(r) PROVE RefundInv'
    BY <2>2 DEF Throws
  <2>3. ASSUME NEW r \in Processes, TransferThrows(r) PROVE RefundInv'
    BY <2>3 DEF TransferThrows
  <2>4. ASSUME NEW r \in Processes, RefundTransferThrows(r) PROVE RefundInv'
    BY <2>4 DEF RefundTransferThrows
  <2> QED
    BY <1>8, <2>1, <2>2, <2>3, <2>4 DEF Failure
<1>9. ASSUME World PROVE RefundInv'
  BY <1>9 DEF World, CustomerPays, DeadlinePasses
<1>10. ASSUME UNCHANGED vars PROVE RefundInv'
  BY <1>10 DEF vars
<1> QED
  BY <1>1, <1>2, <1>3, <1>4, <1>5, <1>6, <1>7, <1>8, <1>9, <1>10 DEF Next,
     Advance

(* A sent payout row never changes again.                                  *)
LEMMA SalePreserved ==
    ASSUME TypeOK, TypeOK', IInv, ControlInv', [Next]_vars
    PROVE  SaleInv'
<1> USE EscrowAssumption
    DEF IInv, ControlInv, PayoutInv, SaleInv, ReleasedHasSentPayout,
        ReviewedAfterPayout, SentPayouts, Paying, TypeOK, DatabaseTypeOK,
        ProviderTypeOK, ProcessTypeOK, Processes, Step, Move, Begin, Enter, Finish, Abandon,
        SetStatus, Fault, orderVars, payoutVars, refundVars, collectVars,
        processVars
<1>1. ASSUME Arrival PROVE SaleInv'
  BY <1>1 DEF Arrival, CreateOrder, ReceiveWebhook, ConfirmReceipt,
     AdminReleaseEscrow, OpenDispute, RefundOrder, CreateReview
<1>2. ASSUME \E c \in Crons : ReleaseExpiredEscrows(c) PROVE SaleInv'
  BY <1>2 DEF ReleaseExpiredEscrows, DueOrders
<1>3. ASSUME NEW r \in Processes, CollectStep(r) PROVE SaleInv'
  BY <1>3 DEF CollectStep, InitCheckout, RecordInitiated, MarkPaid,
     CheckStatus, RecordVerified
<1>4. ASSUME NEW r \in Processes, PayoutStep(r) PROVE SaleInv'
  <2>1. ASSUME NEW p \in Payouts, CreatePayout(r, p) PROVE SaleInv'
    BY <2>1 DEF CreatePayout
  <2>2. CASE TransferOk(r)
    BY <2>2 DEF TransferOk
  <2>3. CASE MarkSent(r)
    BY <2>3 DEF MarkSent
  <2>4. CASE MarkFailed(r)
    BY <2>4 DEF MarkFailed
  <2>5. CASE Release(r)
    BY <2>5 DEF Release
  <2> QED
    BY <1>4, <2>1, <2>2, <2>3, <2>4, <2>5 DEF PayoutStep
<1>5. ASSUME NEW r \in Processes, RefundStep(r) PROVE SaleInv'
  <2>1. CASE CreateRefund(r)
    BY <2>1 DEF CreateRefund
  <2>2. CASE RefundTransferOk(r)
    BY <2>2 DEF RefundTransferOk
  <2>3. CASE RefundSent(r)
    BY <2>3 DEF RefundSent
  <2>4. CASE RefundFailed(r)
    BY <2>4 DEF RefundFailed
  <2>5. CASE CloseRefunded(r)
    BY <2>5, SMTT(60) DEF CloseRefunded
  <2> QED
    BY <1>5, <2>1, <2>2, <2>3, <2>4, <2>5 DEF RefundStep
<1>6. ASSUME NEW r \in Processes, MarkDisputed(r) PROVE SaleInv'
  BY <1>6, SMTT(60) DEF MarkDisputed
<1>7. ASSUME NEW r \in Processes, RecordReview(r) PROVE SaleInv'
  BY <1>7, SMTT(60) DEF RecordReview
<1>8. ASSUME Failure PROVE SaleInv'
  BY <1>8 DEF Failure, Crash, Throws, TransferThrows, RefundTransferThrows
<1>9. ASSUME World PROVE SaleInv'
  BY <1>9 DEF World, CustomerPays, DeadlinePasses
<1>10. ASSUME UNCHANGED vars PROVE SaleInv'
  BY <1>10 DEF vars
<1> QED
  BY <1>1, <1>2, <1>3, <1>4, <1>5, <1>6, <1>7, <1>8, <1>9, <1>10 DEF Next,
     Advance

-----------------------------------------------------------------------------
LEMMA InitInv == Init => TypeOK /\ IInv
BY EscrowAssumption DEF Init, TypeOK, DatabaseTypeOK, ProviderTypeOK, ProcessTypeOK,
   PcValues, IInv, ControlInv, StageInv, CollectInv, PayoutInv, RefundInv, SaleInv,
   LedgerMatchesProvider, AtMostOneRefundTransfer,
   RefundedHasSentRefund, ReleasedHasSentPayout, ReviewedAfterPayout,
   Paid, Paying, Refunding, AfterPaid

LEMMA NextInv == TypeOK /\ IInv /\ [Next]_vars => TypeOK' /\ IInv'
<1> SUFFICES ASSUME TypeOK, IInv, [Next]_vars
             PROVE  TypeOK' /\ IInv'
  OBVIOUS
<1>1. TypeOK'
  BY TypePreserved DEF IInv
<1>2. ControlInv'
  BY <1>1, ControlPreserved DEF IInv
<1>3. StageInv' /\ CollectInv' /\ PayoutInv' /\ RefundInv' /\ SaleInv'
  BY <1>1, <1>2, StagePreserved, CollectPreserved, PayoutPreserved, RefundPreserved,
     SalePreserved
<1> QED
  BY <1>1, <1>2, <1>3 DEF IInv

(* The inductive invariant holds in every reachable state: between any two *)
(* awaits of any request, what the code read earlier still supports the    *)
(* write it is about to make.                                              *)
THEOREM Invariance == Spec => [](TypeOK /\ IInv)
BY InitInv, NextInv, PTL DEF Spec

(* Every variable keeps its type.                                          *)
THEOREM TypeCorrect == Spec => []TypeOK
BY Invariance, PTL

-----------------------------------------------------------------------------
(* releaseEscrow writes "released" only after a payout was marked sent, and *)
(* a sent payout row is never rewritten.                                   *)
THEOREM ReleaseSafety == Spec => []ReleasedHasSentPayout
<1>1. IInv => ReleasedHasSentPayout
  BY DEF IInv, SaleInv
<1> QED
  BY <1>1, Invariance, PTL

(* Only sales that were paid out are reviewed.                             *)
THEOREM ReviewSafety == Spec => []ReviewedAfterPayout
<1>1. IInv => ReviewedAfterPayout
  BY DEF IInv, SaleInv
<1> QED
  BY <1>1, Invariance, PTL

(* A refunded order's buyer has the money, once.                           *)
THEOREM RefundSafety == Spec => []RefundedHasSentRefund
<1>1. IInv => RefundedHasSentRefund
  BY DEF IInv, RefundInv
<1> QED
  BY <1>1, Invariance, PTL

(* The unique Refund.orderId prevents a second transfer to the buyer.      *)
THEOREM RefundOnce == Spec => []AtMostOneRefundTransfer
<1>1. IInv => AtMostOneRefundTransfer
  BY DEF IInv, RefundInv
<1> QED
  BY <1>1, Invariance, PTL

(* Payout rows and the provider's transfers agree.                         *)
THEOREM LedgerSafety == Spec => []LedgerMatchesProvider
<1>1. IInv => LedgerMatchesProvider
  BY DEF IInv, PayoutInv
<1> QED
  BY <1>1, Invariance, PTL

(* No step takes an order past paid_escrow without the collect, nor back   *)
(* before it.                                                              *)
THEOREM StatusFlowSafety == Spec => StatusFlow
<1>1. TypeOK /\ IInv /\ [Next]_vars => [\A o \in Orders : StatusStep(o)]_vars
  <2> SUFFICES ASSUME TypeOK, IInv, [Next]_vars, NEW o \in Orders
               PROVE  StatusStep(o)
    OBVIOUS
  <2> USE EscrowAssumption, ActiveHasOrder
      DEF TypeOK, DatabaseTypeOK, IInv, StageInv, StatusStep, Paid, AfterPaid, Paying, Refunding,
          Step, Move, Begin, Enter, Finish, SetStatus, orderVars
  <2>1. ASSUME Arrival PROVE StatusStep(o)
    BY <2>1 DEF Arrival, CreateOrder, ReceiveWebhook, ConfirmReceipt,
       AdminReleaseEscrow, OpenDispute, RefundOrder, CreateReview
  <2>2. ASSUME \E c \in Crons : ReleaseExpiredEscrows(c) PROVE StatusStep(o)
    BY <2>2 DEF ReleaseExpiredEscrows, DueOrders
  <2>3. ASSUME NEW r \in Processes, CollectStep(r) PROVE StatusStep(o)
    BY <2>3 DEF CollectStep, InitCheckout, RecordInitiated, MarkPaid,
       CheckStatus, RecordVerified
  <2>4. ASSUME NEW r \in Processes, PayoutStep(r) PROVE StatusStep(o)
    BY <2>4 DEF PayoutStep, CreatePayout, TransferOk, MarkSent, MarkFailed,
       Release
  <2>5. ASSUME NEW r \in Processes, RefundStep(r) PROVE StatusStep(o)
    BY <2>5 DEF RefundStep, CreateRefund, RefundTransferOk, RefundSent,
       RefundFailed, CloseRefunded
  <2>6. ASSUME NEW r \in Processes, MarkDisputed(r) PROVE StatusStep(o)
    BY <2>6 DEF MarkDisputed
  <2>7. ASSUME NEW r \in Processes, RecordReview(r) PROVE StatusStep(o)
    BY <2>7 DEF RecordReview
  <2>8. ASSUME Failure PROVE StatusStep(o)
    BY <2>8 DEF Failure, Crash, Throws, TransferThrows, RefundTransferThrows
  <2>9. ASSUME World PROVE StatusStep(o)
    BY <2>9 DEF World, CustomerPays, DeadlinePasses
  <2>10. ASSUME UNCHANGED vars PROVE StatusStep(o)
    BY <2>10 DEF vars
  <2> QED
    BY <2>1, <2>2, <2>3, <2>4, <2>5, <2>6, <2>7, <2>8, <2>9, <2>10 DEF Next,
       Advance
<1> QED
  BY <1>1, Invariance, PTL DEF Spec, StatusFlow

-----------------------------------------------------------------------------
(* An order that was not disturbed.                                        *)
(*                                                                         *)
(* OrderInv is about one order: a step concerns it, and then the process   *)
(* that makes the step is the only one that works on it, or leaves its     *)
(* status and its money alone.                                             *)

\* The other processes stay as they are.
OthersWait(r) ==
    \A q \in Processes : q # r => pc'[q] = pc[q] /\ target'[q] = target[q] /\ todo'[q] = todo[q]

\* The status and the money of order o stay as they are.
Unspent(o) ==
    /\ status'[o] = status[o]
    /\ refundsMade'[o] = refundsMade[o]
    /\ Transferred(o)' = Transferred(o)

-----------------------------------------------------------------------------
(* How a process moves.                                                    *)

LEMMA Arrived ==
    ASSUME TypeOK, ControlInv, SnapshotInv, NEW r \in Handlers, NEW x \in Orders, NEW s, Enter(r, x, s)
    PROVE  /\ r \in Processes /\ r \notin Crons /\ OthersWait(r)
           /\ pc[r] = "idle" /\ target[r] = None /\ todo[r] = {}
           /\ pc'[r] = s /\ target'[r] = x /\ todo'[r] = {}
<1>1. r \in Processes /\ r \notin Crons
  BY EscrowAssumption DEF Processes
<1>2. pc[r] = "idle" /\ target[r] = None /\ todo[r] = {}
  BY <1>1 DEF Enter, ControlInv, SnapshotInv, Releasing, Paying
<1> QED
  BY <1>1, <1>2 DEF TypeOK, ProcessTypeOK, Enter, OthersWait

LEMMA WentOn ==
    ASSUME TypeOK, NEW r \in Processes, NEW s, NEW t, Move(r, s, t)
    PROVE  /\ OthersWait(r) /\ pc[r] = s /\ pc'[r] = t
           /\ target'[r] = target[r] /\ todo'[r] = todo[r]
BY DEF TypeOK, ProcessTypeOK, Move, OthersWait

\* A process is over, or takes the next order of its snapshot.
LEMMA Finished ==
    ASSUME TypeOK, NEW r \in Processes, NEW s, Finish(r, s)
    PROVE  /\ OthersWait(r) /\ pc[r] = s
           /\ \/ pc'[r] = "idle" /\ target'[r] = None /\ todo'[r] = {}
              \/ /\ pc'[r] = "createPayout" /\ target'[r] \in todo[r]
                 /\ todo'[r] = todo[r] \ {target'[r]}
BY DEF TypeOK, ProcessTypeOK, Finish, OthersWait

LEMMA Ended ==
    ASSUME TypeOK, NEW r \in Processes, Abandon(r)
    PROVE  OthersWait(r) /\ pc'[r] = "idle" /\ target'[r] = None /\ todo'[r] = {}
BY DEF TypeOK, ProcessTypeOK, Abandon, OthersWait

LEMMA OrderIsNotNone == \A o \in Orders : o # None
BY EscrowAssumption

-----------------------------------------------------------------------------
(* What a step must show of one order.                                     *)

\* The step leaves the status and the money of the order alone.
LEMMA Elsewhere ==
    ASSUME NEW o \in Orders, NEW r \in Processes, OrderInv(o), ~Overlapped(o)', OthersWait(r),
           Unspent(o), StillRead(r, o)',
           target[r] = o /\ pc[r] \in Spending => target'[r] = o /\ pc'[r] \in Spending
    PROVE  OrderInv(o)'
<1>1. OneWorker(o)'
  BY DEF OneWorker, Overlapped
<1>2. ASSUME NEW q \in Processes, q # r PROVE StillRead(q, o)'
  <2>1. pc'[q] = pc[q] /\ target'[q] = target[q] /\ todo'[q] = todo[q] /\ status'[o] = status[o]
    BY <1>2 DEF OthersWait, Unspent
  <2> QED
    BY <2>1 DEF OrderInv, StillRead
<1>3. SpentOnce(o)'
  <2>1. \A q \in Processes : target[q] = o /\ pc[q] \in Spending
                                => target'[q] = o /\ pc'[q] \in Spending
    BY DEF OthersWait
  <2> QED
    BY <2>1 DEF OrderInv, SpentOnce, Spent, Unspent
<1> QED
  BY <1>1, <1>2, <1>3 DEF OrderInv

\* The step is made by the only process that works on the order.
LEMMA Here ==
    ASSUME NEW o \in Orders, NEW r \in Processes, OrderInv(o), ~Overlapped(o)', OthersWait(r),
           target[r] = o, StillRead(r, o)', SpentOnce(o)'
    PROVE  OrderInv(o)'
<1>1. OneWorker(o)'
  BY DEF OneWorker, Overlapped
<1>2. ASSUME NEW q \in Processes, q # r PROVE StillRead(q, o)'
  <2>1. target'[q] # o /\ o \notin todo'[q]
    BY <1>2 DEF OrderInv, OneWorker, WorksOn, OthersWait
  <2> QED
    BY <2>1 DEF StillRead
<1> QED
  BY <1>1, <1>2 DEF OrderInv

\* Nothing was sent for an order that is not closed, before its process sends it.
LEMMA NotSpentYet ==
    ASSUME NEW o \in Orders, NEW r \in Processes, OrderInv(o), target[r] = o,
           pc[r] \notin Spending, status[o] \notin Closed
    PROVE  ~Spent(o)
BY DEF OrderInv, SpentOnce, OneWorker, WorksOn

\* A process that is over has read nothing.
LEMMA NothingRead ==
    ASSUME NEW o \in Orders, NEW r \in Processes, target'[r] = None, todo'[r] = {}
    PROVE  StillRead(r, o)'
BY OrderIsNotNone DEF StillRead

\* The process goes on to another await of the same kind.
LEMMA GoesOn ==
    ASSUME TypeOK, NEW o \in Orders, NEW r \in Processes, OrderInv(o), ~Overlapped(o)',
           NEW s, NEW t, Move(r, s, t), Unspent(o),
           \/ {s, t} \subseteq Collecting
           \/ {s, t} \subseteq Releasing
           \/ {s, t} \subseteq Repaying,
           s \in Spending => t \in Spending
    PROVE  OrderInv(o)'
<1>1. /\ OthersWait(r) /\ pc[r] = s /\ pc'[r] = t /\ target'[r] = target[r]
      /\ todo'[r] = todo[r] /\ status'[o] = status[o]
  BY WentOn DEF Unspent
<1>2. StillRead(r, o)
  BY DEF OrderInv
<1>3. StillRead(r, o)'
  BY <1>1, <1>2 DEF StillRead, Collecting, Releasing, Repaying, Paying, Refunding
<1> QED
  BY <1>1, <1>3, Elsewhere

\* The process is done with its order, which need not be o.
LEMMA NextRead ==
    ASSUME TypeOK, NEW o \in Orders, NEW r \in Processes, StillRead(r, o), NEW s, Finish(r, s),
           target[r] # o => status'[o] = status[o]
    PROVE  StillRead(r, o)'
<1>1. CASE target'[r] = None /\ todo'[r] = {}
  BY <1>1, NothingRead
<1>2. CASE pc'[r] = "createPayout" /\ target'[r] \in todo[r] /\ todo'[r] = todo[r] \ {target'[r]}
  BY <1>2 DEF StillRead, Collecting, Releasing, Repaying, Paying, Refunding
<1> QED
  BY <1>1, <1>2, Finished

LEMMA Finishes ==
    ASSUME TypeOK, NEW o \in Orders, NEW r \in Processes, OrderInv(o), ~Overlapped(o)',
           NEW s, Finish(r, s), s \in Spending => target[r] # o, Unspent(o)
    PROVE  OrderInv(o)'
<1>1. StillRead(r, o)'
  BY NextRead DEF OrderInv, Unspent
<1> QED
  BY <1>1, Finished, Elsewhere

\* The last await of a process writes the status of its order.
LEMMA FinishesTelling ==
    ASSUME TypeOK, NEW o \in Orders, NEW r \in Processes, target[r] \in Orders,
           OrderInv(o), ~Overlapped(o)',
           NEW s, Finish(r, s), NEW t, status' = [status EXCEPT ![target[r]] = t],
           UNCHANGED <<refundsMade, payoutOrder, paidOut>>,
           target[r] = o => t \in Closed \/ ~Spent(o)
    PROVE  OrderInv(o)'
<1>1. Transferred(o)' = Transferred(o) /\ refundsMade'[o] = refundsMade[o]
  BY DEF Transferred
<1>2. CASE target[r] # o
  BY <1>1, <1>2, Finishes DEF Unspent, TypeOK, DatabaseTypeOK
<1>3. CASE target[r] = o
  <2>1. StillRead(r, o)'
    BY <1>3, NextRead DEF OrderInv
  <2>2. SpentOnce(o)'
    BY <1>1, <1>3 DEF OrderInv, SpentOnce, Spent, TypeOK, DatabaseTypeOK
  <2> QED
    BY <1>3, <2>1, <2>2, Finished, Here
<1> QED
  BY <1>2, <1>3

\* A request arrives about order x, with a status that its first await needs.
LEMMA Arrives ==
    ASSUME TypeOK, ControlInv, SnapshotInv, NEW o \in Orders, OrderInv(o), ~Overlapped(o)',
           NEW r \in Handlers, NEW x \in Orders, NEW s, Enter(r, x, s), Unspent(o),
           x = o => /\ s \in Collecting => status[o] \notin Closed \cup {"disputed"}
                    /\ s \in Releasing \cup Repaying => status[o] \in {"paid_escrow", "disputed"}
                    /\ s = "dispute" => status[o] = "paid_escrow"
    PROVE  OrderInv(o)'
<1>1. /\ r \in Processes /\ r \notin Crons /\ OthersWait(r) /\ target[r] = None /\ pc'[r] = s
      /\ target'[r] = x /\ todo'[r] = {}
  BY Arrived
<1>2. StillRead(r, o)'
  BY <1>1 DEF StillRead, Unspent
<1> QED
  BY <1>1, <1>2, OrderIsNotNone, Elsewhere

-----------------------------------------------------------------------------
(* The actions, for one order.                                             *)

LEMMA ArrivalCalm ==
    ASSUME TypeOK, IInv, SnapshotInv, NEW o \in Orders, OrderInv(o), ~Overlapped(o)',
           ~LateWebhook(o), Arrival
    PROVE  OrderInv(o)'
<1> USE DEF orderVars, payoutVars, refundVars, collectVars, Unspent, Transferred, IInv, Begin
<1>1. ASSUME NEW r \in Handlers, NEW x \in Orders, NEW u \in Users, CreateOrder(r, x, u)
      PROVE  OrderInv(o)'
  <2>1. status[x] = "absent" /\ status' = [status EXCEPT ![x] = "pending"] /\ Begin(r, x, "initCheckout")
    BY <1>1 DEF CreateOrder
  <2>2. /\ r \in Processes /\ r \notin Crons /\ OthersWait(r) /\ target[r] = None
        /\ pc'[r] = "initCheckout" /\ target'[r] = x /\ todo'[r] = {}
    BY <2>1, Arrived
  <2>3. CASE x # o
    BY <1>1, <2>1, <2>3, Arrives DEF CreateOrder, TypeOK, DatabaseTypeOK
  <2>4. CASE x = o
    <3>1. ~\E q \in Processes : WorksOn(q, o)
      <4>1. \A q \in Processes : target[q] # o
        BY <2>1, <2>4, OrderIsNotNone DEF StageInv, ControlInv
      <4>2. \A q \in Processes : o \notin todo[q]
        BY <2>1, <2>4 DEF StageInv, Paid
      <4> QED
        BY <4>1, <4>2 DEF WorksOn
    <3>2. ~Spent(o)
      BY <2>1, <2>4, <3>1 DEF OrderInv, SpentOnce, Closed, WorksOn
    <3>3. SpentOnce(o)'
      BY <1>1, <3>2 DEF CreateOrder, SpentOnce, Spent
    <3>4. \A q \in Processes : StillRead(q, o)'
      <4>1. StillRead(r, o)'
        BY <2>1, <2>2, <2>4 DEF StillRead, Collecting, Releasing, Repaying, Paying, Refunding, Closed,
           TypeOK, DatabaseTypeOK
      <4>2. ASSUME NEW q \in Processes, q # r PROVE StillRead(q, o)'
        BY <2>2, <3>1, <4>2 DEF OthersWait, WorksOn, StillRead
      <4> QED
        BY <4>1, <4>2
    <3> QED
      BY <3>3, <3>4 DEF OrderInv, OneWorker, Overlapped
  <2> QED
    BY <2>3, <2>4
<1>2. ASSUME NEW r \in Handlers, NEW x \in Orders, NEW via \in Providers, NEW t \in Orders,
             ReceiveWebhook(r, x, via, t)
      PROVE  OrderInv(o)'
  <2>1. x = o => status[o] \notin Closed \cup {"disputed"}
    BY <1>2 DEF LateWebhook, ReceiveWebhook, TypeOK, ProviderTypeOK
  <2> QED
    BY <1>2, <2>1, Arrives DEF ReceiveWebhook, Releasing, Repaying, Paying, Refunding
<1>3. ASSUME NEW r \in Handlers, NEW x \in Orders,
             \/ AdminReleaseEscrow(r, x) \/ RefundOrder(r, x)
             \/ \E u \in Users : ConfirmReceipt(r, x, u)
      PROVE  OrderInv(o)'
  <2>1. /\ Unspent(o) /\ status[x] \in {"paid_escrow", "disputed"}
        /\ Begin(r, x, "createPayout") \/ Begin(r, x, "createRefund")
    BY <1>3 DEF AdminReleaseEscrow, RefundOrder, ConfirmReceipt
  <2> QED
    BY <2>1, Arrives DEF Collecting
<1>4. ASSUME NEW r \in Handlers, NEW x \in Orders, NEW u \in Users, OpenDispute(r, x, u)
      PROVE  OrderInv(o)'
  BY <1>4, Arrives DEF OpenDispute, Collecting, Releasing, Repaying, Paying, Refunding
<1>5. ASSUME NEW r \in Handlers, NEW x \in Orders, NEW u \in Users, CreateReview(r, x, u)
      PROVE  OrderInv(o)'
  BY <1>5, Arrives DEF CreateReview, Collecting, Releasing, Repaying, Paying, Refunding
<1> QED
  BY <1>1, <1>2, <1>3, <1>4, <1>5 DEF Arrival

LEMMA TickCalm ==
    ASSUME TypeOK, IInv, SnapshotInv, NEW o \in Orders, OrderInv(o), ~Overlapped(o)',
           NEW c \in Crons, ReleaseExpiredEscrows(c)
    PROVE  OrderInv(o)'
<1>1. PICK x \in DueOrders :
         target' = [target EXCEPT ![c] = x] /\ todo' = [todo EXCEPT ![c] = DueOrders \ {x}]
  BY DEF ReleaseExpiredEscrows
<1>2. /\ c \in Processes /\ OthersWait(c) /\ pc'[c] = "createPayout" /\ target'[c] = x
      /\ todo'[c] = DueOrders \ {x} /\ target[c] = None
  BY <1>1 DEF ReleaseExpiredEscrows, TypeOK, ProcessTypeOK, OthersWait, Processes, IInv, ControlInv
<1>3. Unspent(o)
  BY DEF ReleaseExpiredEscrows, orderVars, payoutVars, refundVars, Unspent, Transferred
<1>4. StillRead(c, o)'
  BY <1>2, <1>3 DEF StillRead, Unspent, DueOrders, Collecting, Closed
<1> QED
  BY <1>2, <1>3, <1>4, OrderIsNotNone, Elsewhere

LEMMA CollectCalm ==
    ASSUME TypeOK, IInv, NEW o \in Orders, OrderInv(o), ~Overlapped(o)',
           NEW r \in Processes, CollectStep(r)
    PROVE  OrderInv(o)'
<1> USE DEF orderVars, payoutVars, refundVars, collectVars, Step
<1>1. CASE MarkPaid(r)
  <2>1. Finish(r, "markPaid") /\ pc[r] = "markPaid" /\ target[r] \in Orders
    BY <1>1, ActiveHasOrder DEF MarkPaid, Finish, IInv, TypeOK
  <2>2. target[r] = o => ~Spent(o)
    <3>1. target[r] = o => status[o] \notin Closed
      BY <2>1 DEF OrderInv, StillRead, Collecting
    <3> QED
      BY <2>1, <3>1, NotSpentYet DEF Spending
  <2> QED
    BY <1>1, <2>1, <2>2, FinishesTelling DEF MarkPaid
<1>2. CASE ~MarkPaid(r)
  <2>1. Unspent(o)
    BY <1>2 DEF CollectStep, InitCheckout, RecordInitiated, CheckStatus, RecordVerified, Unspent,
       Transferred
  <2>2. CASE \E s, t \in Collecting : Move(r, s, t)
    BY <2>1, <2>2, GoesOn DEF Collecting, Spending
  <2>3. CASE \E s \in Collecting : Finish(r, s)
    BY <2>1, <2>3, Finishes DEF Collecting, Spending
  <2> QED
    BY <1>2, <2>2, <2>3 DEF CollectStep, InitCheckout, RecordInitiated, CheckStatus, RecordVerified,
       Collecting
<1> QED
  BY <1>1, <1>2

\* Money reaches the seller: nobody had received anything.
LEMMA SellerIsPaid ==
    ASSUME TypeOK, IInv, NEW o \in Orders, OrderInv(o), ~Overlapped(o)',
           NEW r \in Processes, Step(r, "transfer", "markSent"),
           UNCHANGED <<status, refundsMade, payoutOrder>>, paidOut' = paidOut \cup {row[r]}
    PROVE  OrderInv(o)'
<1>1. /\ OthersWait(r) /\ pc[r] = "transfer" /\ pc'[r] = "markSent"
      /\ target'[r] = target[r] /\ todo'[r] = todo[r]
  BY WentOn DEF Step
<1>2. payoutOrder[row[r]] = target[r]
  BY <1>1 DEF IInv, PayoutInv, Paying
<1>3. CASE target[r] # o
  <2>1. Unspent(o)
    BY <1>2, <1>3 DEF Unspent, Transferred
  <2> QED
    BY <2>1, GoesOn DEF Step, Releasing, Paying, Spending
<1>4. CASE target[r] = o
  <2>1. StillRead(r, o)
    BY DEF OrderInv
  <2>2. ~Spent(o)
    BY <1>1, <1>4, <2>1, NotSpentYet DEF StillRead, Releasing, Paying, Spending, Closed
  <2>3. Transferred(o)' = {row[r]} /\ refundsMade'[o] = 0
    BY <1>2, <1>4, <2>2 DEF Transferred, Spent
  <2>4. StillRead(r, o)'
    BY <1>1, <2>1 DEF StillRead, Releasing, Paying, Collecting, Repaying, Refunding
  <2>5. SpentOnce(o)'
    BY <1>1, <1>4, <2>3 DEF SpentOnce, Spending
  <2> QED
    BY <1>1, <1>4, <2>4, <2>5, Here
<1> QED
  BY <1>3, <1>4

\* The buyer is refunded: nobody had received anything.
LEMMA BuyerIsRepaid ==
    ASSUME TypeOK, IInv, NEW o \in Orders, OrderInv(o), ~Overlapped(o)',
           NEW r \in Processes, Step(r, "refundTransfer", "refundSent"),
           UNCHANGED <<status, payoutOrder, paidOut>>,
           refundsMade' = [refundsMade EXCEPT ![target[r]] = @ + 1]
    PROVE  OrderInv(o)'
<1>1. /\ OthersWait(r) /\ pc[r] = "refundTransfer" /\ pc'[r] = "refundSent"
      /\ target'[r] = target[r] /\ todo'[r] = todo[r]
  BY WentOn DEF Step
<1>2. Transferred(o)' = Transferred(o)
  BY DEF Transferred
<1>3. CASE target[r] # o
  <2>1. Unspent(o)
    BY <1>2, <1>3 DEF Unspent, TypeOK, ProviderTypeOK
  <2> QED
    BY <2>1, GoesOn DEF Step, Repaying, Refunding, Spending
<1>4. CASE target[r] = o
  <2>1. StillRead(r, o)
    BY DEF OrderInv
  <2>2. ~Spent(o)
    BY <1>1, <1>4, <2>1, NotSpentYet DEF StillRead, Repaying, Refunding, Spending, Closed
  <2>3. StillRead(r, o)'
    BY <1>1, <2>1 DEF StillRead, Releasing, Paying, Collecting, Repaying, Refunding
  <2>4. SpentOnce(o)'
    BY <1>1, <1>2, <1>4, <2>2 DEF SpentOnce, Spent, Spending
  <2> QED
    BY <1>1, <1>4, <2>3, <2>4, Here
<1> QED
  BY <1>3, <1>4

LEMMA PayoutCalm ==
    ASSUME TypeOK, IInv, NEW o \in Orders, OrderInv(o), ~Overlapped(o)',
           NEW r \in Processes, PayoutStep(r)
    PROVE  OrderInv(o)'
<1> USE DEF orderVars, payoutVars, refundVars, collectVars, Step
<1>1. ASSUME NEW p \in Payouts, CreatePayout(r, p) PROVE OrderInv(o)'
  <2>1. /\ OthersWait(r) /\ pc[r] = "createPayout" /\ pc'[r] = "transfer"
        /\ target'[r] = target[r] /\ todo'[r] = todo[r]
    BY <1>1 DEF CreatePayout, OthersWait, TypeOK, ProcessTypeOK
  <2>2. Unspent(o)
    BY <1>1 DEF CreatePayout, Unspent, Transferred, IInv, PayoutInv, TypeOK, DatabaseTypeOK,
       ProviderTypeOK
  <2>3. StillRead(r, o)'
    BY <2>1, <2>2 DEF Unspent, OrderInv, StillRead, Collecting, Releasing, Paying, Repaying, Refunding
  <2> QED
    BY <2>1, <2>2, <2>3, Elsewhere DEF Spending
<1>2. CASE TransferOk(r)
  BY <1>2, SellerIsPaid DEF TransferOk
<1>3. CASE MarkSent(r)
  BY <1>3, GoesOn DEF MarkSent, Releasing, Paying, Spending, Unspent, Transferred
<1>4. CASE MarkFailed(r)
  BY <1>4, Finishes DEF MarkFailed, Spending, Unspent, Transferred
<1>5. CASE Release(r)
  <2>1. target[r] \in Orders
    BY <1>5, ActiveHasOrder DEF Release, Finish, IInv, TypeOK
  <2> QED
    BY <1>5, <2>1, FinishesTelling DEF Release, SetStatus, Closed
<1> QED
  BY <1>1, <1>2, <1>3, <1>4, <1>5 DEF PayoutStep

LEMMA RefundCalm ==
    ASSUME TypeOK, IInv, NEW o \in Orders, OrderInv(o), ~Overlapped(o)',
           NEW r \in Processes, RefundStep(r)
    PROVE  OrderInv(o)'
<1> USE DEF orderVars, payoutVars, refundVars, collectVars, Step
<1>1. CASE CreateRefund(r)
  <2>1. Unspent(o)
    BY <1>1 DEF CreateRefund, Unspent, Transferred
  <2>2. CASE Step(r, "createRefund", "refundTransfer")
    BY <2>1, <2>2, GoesOn DEF Repaying, Refunding, Spending
  <2>3. CASE pc[r] = "createRefund" /\ Abandon(r)
    BY <2>1, <2>3, Ended, NothingRead, Elsewhere DEF Spending
  <2> QED
    BY <1>1, <2>2, <2>3 DEF CreateRefund
<1>2. CASE RefundTransferOk(r)
  BY <1>2, BuyerIsRepaid DEF RefundTransferOk
<1>3. CASE RefundSent(r)
  BY <1>3, GoesOn DEF RefundSent, Repaying, Refunding, Spending, Unspent, Transferred
<1>4. CASE RefundFailed(r)
  BY <1>4, Finishes DEF RefundFailed, Spending, Unspent, Transferred
<1>5. CASE CloseRefunded(r)
  <2>1. target[r] \in Orders
    BY <1>5, ActiveHasOrder DEF CloseRefunded, Finish, IInv, TypeOK
  <2> QED
    BY <1>5, <2>1, FinishesTelling DEF CloseRefunded, SetStatus, Closed
<1> QED
  BY <1>1, <1>2, <1>3, <1>4, <1>5 DEF RefundStep

LEMMA DisputeCalm ==
    ASSUME TypeOK, IInv, NEW o \in Orders, OrderInv(o), ~Overlapped(o)',
           NEW r \in Processes, MarkDisputed(r)
    PROVE  OrderInv(o)'
<1>1. pc[r] = "dispute" /\ target[r] \in Orders
  BY ActiveHasOrder DEF MarkDisputed, Finish, IInv, TypeOK
<1>2. target[r] = o => ~Spent(o)
  <2>1. target[r] = o => status[o] \notin Closed
    BY <1>1 DEF OrderInv, StillRead, Closed
  <2> QED
    BY <1>1, <2>1, NotSpentYet DEF Spending
<1> QED
  BY <1>1, <1>2, FinishesTelling DEF MarkDisputed, SetStatus, payoutVars, refundVars

\* A failure whose outcome is known leaves the order as it was.
LEMMA FailureCalm ==
    ASSUME TypeOK, IInv, TypeOK', NEW o \in Orders, OrderInv(o), ~Overlapped(o)', ~Misjudged(o)',
           ~DiesSpending(o), Failure
    PROVE  OrderInv(o)'
<1> USE DEF orderVars, payoutVars, refundVars, collectVars, Step
<1>1. faults' # faults
  BY DEF Failure, Crash, Throws, TransferThrows, RefundTransferThrows, Fault, TypeOK
<1>2. CASE Crash
  <2>1. Unspent(o)
    BY <1>2 DEF Crash, Unspent, Transferred
  <2>2. \A q \in Processes : pc'[q] = "idle" /\ target'[q] = None /\ todo'[q] = {}
    BY <1>2 DEF Crash
  <2>3. SpentOnce(o)'
    BY <1>1, <2>1, <2>2 DEF OrderInv, SpentOnce, Spent, Unspent, DiesSpending
  <2>4. \A q \in Processes : StillRead(q, o)'
    BY <2>2, NothingRead
  <2> QED
    BY <2>3, <2>4 DEF OrderInv, OneWorker, Overlapped
<1>3. ASSUME NEW r \in Processes, Throws(r) PROVE OrderInv(o)'
  <2>1. Unspent(o)
    BY <1>3 DEF Throws, Unspent, Transferred
  <2>2. OthersWait(r) /\ pc'[r] = "idle" /\ StillRead(r, o)'
    BY <1>3, Ended, NothingRead DEF Throws
  <2>3. ~(target[r] = o /\ pc[r] \in Spending)
    BY <1>1, <2>2 DEF DiesSpending
  <2> QED
    BY <2>1, <2>2, <2>3, Elsewhere
<1>4. ASSUME NEW r \in Processes, TransferThrows(r) PROVE OrderInv(o)'
  <2>1. Step(r, "transfer", "markFailed") /\ row' = row /\ UNCHANGED <<status, refundsMade, payoutOrder>>
    BY <1>4 DEF TransferThrows, Step, Move
  <2>2. Unspent(o)
    <3>1. CASE UNCHANGED paidOut
      BY <2>1, <3>1 DEF Unspent, Transferred
    <3>2. CASE paidOut' = paidOut \cup {row[r]}
      <4>1. pc[r] = "transfer" /\ pc'[r] = "markFailed" /\ target'[r] = target[r]
        BY <2>1, WentOn
      <4>2. target[r] # o
        BY <2>1, <3>2, <4>1 DEF Misjudged
      <4>3. payoutOrder[row[r]] # o
        BY <4>1, <4>2 DEF IInv, PayoutInv, Paying
      <4> QED
        BY <2>1, <3>2, <4>3 DEF Unspent, Transferred
    <3> QED
      BY <1>4, <3>1, <3>2 DEF TransferThrows
  <2> QED
    BY <2>1, <2>2, GoesOn DEF Releasing, Paying, Spending
<1>5. ASSUME NEW r \in Processes, RefundTransferThrows(r) PROVE OrderInv(o)'
  <2>1. Step(r, "refundTransfer", "refundFailed") /\ UNCHANGED <<status, payoutOrder, paidOut>>
    BY <1>5 DEF RefundTransferThrows
  <2>2. Unspent(o)
    <3>1. CASE UNCHANGED refundsMade
      BY <2>1, <3>1 DEF Unspent, Transferred
    <3>2. CASE refundsMade' = [refundsMade EXCEPT ![target[r]] = @ + 1]
      <4>1. pc'[r] = "refundFailed" /\ target'[r] = target[r]
        BY <2>1, WentOn
      <4>2. target[r] = o => refundsMade'[o] # 0
        BY <3>2 DEF TypeOK, ProviderTypeOK
      <4>3. target[r] # o
        BY <4>1, <4>2 DEF Misjudged
      <4> QED
        BY <2>1, <3>2, <4>3 DEF Unspent, Transferred, TypeOK, ProviderTypeOK
    <3> QED
      BY <1>5, <3>1, <3>2 DEF RefundTransferThrows
  <2> QED
    BY <2>1, <2>2, GoesOn DEF Repaying, Refunding, Spending
<1> QED
  BY <1>2, <1>3, <1>4, <1>5 DEF Failure

\* Nothing that the order depends on changes.
LEMMA StillCalm ==
    ASSUME NEW o \in Orders, OrderInv(o), UNCHANGED <<status, payoutOrder, paidOut, refundsMade, processVars>>
    PROVE  OrderInv(o)'
<1>1. Transferred(o)' = Transferred(o)
  BY DEF Transferred
<1> QED
  BY <1>1 DEF OrderInv, OneWorker, WorksOn, StillRead, SpentOnce, Spent, processVars

LEMMA OrderCalm ==
    ASSUME TypeOK, IInv, SnapshotInv, TypeOK', Next, NEW o \in Orders, OrderInv(o), ~Disturbs(o)
    PROVE  OrderInv(o)'
<1>1. ~Overlapped(o)' /\ ~Misjudged(o)' /\ ~DiesSpending(o) /\ ~LateWebhook(o)
  BY DEF Disturbs
<1>2. ASSUME NEW r \in Processes, Advance(r) PROVE OrderInv(o)'
  <2>1. CASE RecordReview(r)
    BY <1>1, <2>1, Finishes
       DEF RecordReview, Spending, Unspent, Transferred, orderVars, payoutVars, refundVars
  <2> QED
    BY <1>1, <1>2, <2>1, CollectCalm, PayoutCalm, RefundCalm, DisputeCalm DEF Advance
<1>3. CASE World
  BY <1>3, StillCalm DEF World, CustomerPays, DeadlinePasses, orderVars, payoutVars, refundVars
<1> QED
  BY <1>1, <1>2, <1>3, ArrivalCalm, TickCalm, FailureCalm DEF Next

-----------------------------------------------------------------------------
(* The snapshot of a scheduler run.                                        *)

LEMMA SnapshotStep ==
    ASSUME TypeOK, IInv, SnapshotInv, [Next]_vars
    PROVE  SnapshotInv'
<1> USE DEF SnapshotInv, Releasing, Paying, Begin, Step
<1>1. ASSUME NEW r \in Processes, OthersWait(r), pc'[r] \notin Releasing => todo'[r] = {},
             r \in Crons => pc'[r] \in Releasing \cup {"idle"}
      PROVE  SnapshotInv'
  BY <1>1 DEF OthersWait
<1>2. ASSUME NEW r \in Handlers, NEW x \in Orders, NEW s, Enter(r, x, s) PROVE SnapshotInv'
  BY <1>1, <1>2, Arrived DEF IInv
<1>3. ASSUME NEW r \in Processes, NEW s, NEW t, Move(r, s, t), s \in Releasing => t \in Releasing,
             r \in Crons => s \in Releasing
      PROVE  SnapshotInv'
  BY <1>1, <1>3, WentOn
<1>4. ASSUME NEW r \in Processes, NEW s, Finish(r, s) PROVE SnapshotInv'
  BY <1>1, <1>4, Finished
<1>5. ASSUME NEW r \in Processes, Abandon(r) PROVE SnapshotInv'
  BY <1>1, <1>5, Ended
<1>6. CASE Arrival
  BY <1>2, <1>6 DEF Arrival, CreateOrder, ReceiveWebhook, AdminReleaseEscrow, RefundOrder, ConfirmReceipt,
     OpenDispute, CreateReview
<1>7. ASSUME NEW c \in Crons, ReleaseExpiredEscrows(c) PROVE SnapshotInv'
  <2>1. c \in Processes /\ pc'[c] = "createPayout" /\ OthersWait(c)
    BY <1>7 DEF Processes, ReleaseExpiredEscrows, OthersWait, TypeOK, ProcessTypeOK
  <2> QED
    BY <1>1, <2>1
<1>8. ASSUME NEW r \in Processes, CollectStep(r) PROVE SnapshotInv'
  <2>1. r \notin Crons
    BY <1>8 DEF CollectStep, InitCheckout, RecordInitiated, MarkPaid, CheckStatus, RecordVerified,
       Step, Move, Finish
  <2> QED
    BY <1>3, <1>4, <1>8, <2>1 DEF CollectStep, InitCheckout, RecordInitiated, MarkPaid, CheckStatus,
       RecordVerified
<1>9. ASSUME NEW r \in Processes, PayoutStep(r) PROVE SnapshotInv'
  <2>1. ASSUME NEW p \in Payouts, CreatePayout(r, p) PROVE SnapshotInv'
    <3>1. OthersWait(r) /\ pc'[r] = "transfer"
      BY <2>1 DEF CreatePayout, OthersWait, TypeOK, ProcessTypeOK
    <3> QED
      BY <1>1, <3>1
  <2> QED
    BY <1>3, <1>4, <1>9, <2>1 DEF PayoutStep, TransferOk, MarkSent, MarkFailed, Release
<1>10. ASSUME NEW r \in Processes, RefundStep(r) PROVE SnapshotInv'
  <2>1. r \notin Crons
    BY <1>10 DEF RefundStep, CreateRefund, RefundTransferOk, RefundSent, RefundFailed, CloseRefunded,
       Step, Move, Finish
  <2> QED
    BY <1>3, <1>4, <1>5, <1>10, <2>1 DEF RefundStep, CreateRefund, RefundTransferOk, RefundSent,
       RefundFailed, CloseRefunded
<1>11. ASSUME NEW r \in Processes, MarkDisputed(r) \/ RecordReview(r) PROVE SnapshotInv'
  BY <1>4, <1>11 DEF MarkDisputed, RecordReview
<1>12. ASSUME Failure PROVE SnapshotInv'
  <2>1. CASE Crash
    BY <2>1 DEF Crash
  <2>2. ASSUME NEW r \in Processes, RefundTransferThrows(r) PROVE SnapshotInv'
    <3>1. r \notin Crons
      BY <2>2 DEF RefundTransferThrows, Step, Move
    <3> QED
      BY <1>3, <2>2, <3>1 DEF RefundTransferThrows
  <2>3. ASSUME NEW r \in Processes, TransferThrows(r) PROVE SnapshotInv'
    BY <1>3, <2>3 DEF TransferThrows
  <2> QED
    BY <1>5, <1>12, <2>1, <2>2, <2>3 DEF Failure, Throws
<1>13. CASE UNCHANGED processVars
  BY <1>13 DEF processVars
<1> QED
  BY <1>6, <1>7, <1>8, <1>9, <1>10, <1>11, <1>12, <1>13
     DEF Next, Advance, World, CustomerPays, DeadlinePasses, vars

-----------------------------------------------------------------------------
(* The invariant.                                                          *)

LEMMA CalmInitially == HInit => CalmInv
BY OrderIsNotNone DEF HInit, Init, CalmInv, SnapshotInv, OrderInv, OneWorker, WorksOn, StillRead, SpentOnce,
   Spent, Transferred, Releasing, Paying

LEMMA HistoryIsNext == [HNext]_hvars => [Next]_vars
BY DEF HNext, hvars

LEMMA CalmStep == TypeOK /\ IInv /\ CalmInv /\ [HNext]_hvars => (TypeOK /\ IInv /\ CalmInv)'
<1> SUFFICES ASSUME TypeOK, IInv, CalmInv, [HNext]_hvars PROVE (TypeOK /\ IInv /\ CalmInv)'
  OBVIOUS
<1>1. TypeOK' /\ IInv' /\ SnapshotInv'
  BY HistoryIsNext, NextInv, SnapshotStep DEF CalmInv
<1>2. ASSUME HNext, NEW o \in Orders, o \notin disturbed' PROVE OrderInv(o)'
  <2>1. o \notin disturbed /\ ~Disturbs(o)
    BY <1>2 DEF HNext, Remember
  <2> QED
    BY <1>1, <1>2, <2>1, OrderCalm DEF CalmInv, HNext
<1>3. ASSUME UNCHANGED hvars, NEW o \in Orders, o \notin disturbed' PROVE OrderInv(o)'
  BY <1>3, StillCalm DEF CalmInv, hvars, vars, orderVars, payoutVars, refundVars
<1> QED
  BY <1>1, <1>2, <1>3 DEF CalmInv

(* Whatever overlaps and fails elsewhere, what a process has read of an    *)
(* order that was not disturbed is still so when it writes, and the order  *)
(* was paid out to nobody before its status says so, but by that process.  *)
THEOREM CalmInvariance == HSpec => [](TypeOK /\ IInv /\ CalmInv)
<1>1. HInit => TypeOK /\ IInv
  BY InitInv DEF HInit
<1> QED
  BY <1>1, CalmInitially, CalmStep, PTL DEF HSpec

-----------------------------------------------------------------------------
(* Money and status.                                                       *)

\* The transfers of an order can be counted.
LEMMA TransfersCounted ==
    ASSUME TypeOK, NEW o \in Orders
    PROVE  /\ IsFiniteSet(Transferred(o)) /\ Cardinality(Transferred(o)) \in Nat
           /\ Cardinality(Transferred(o)) = 0 <=> Transferred(o) = {}
<1>1. MaxPayouts \in Nat /\ Transferred(o) \subseteq 1 .. MaxPayouts
  BY EscrowAssumption DEF Transferred, TypeOK, ProviderTypeOK, Payouts
<1>2. IsFiniteSet(Transferred(o))
  BY <1>1, FS_Interval, FS_Subset, 1 \in Int, MaxPayouts \in Int
<1> QED
  BY <1>2, FS_EmptySet, FS_CardinalityType

(* An order that was not disturbed is paid out exactly when its status     *)
(* says so, or is about to.                                                *)
THEOREM BooksBalance == HSpec => []MoneyFollowsStatus
<1>1. TypeOK /\ IInv /\ CalmInv => MoneyFollowsStatus
  <2> SUFFICES ASSUME TypeOK, IInv, CalmInv, NEW o \in Orders \ disturbed
               PROVE  Disbursements(o) =
                        IF status[o] \in Closed \/ \E r \in Processes : target[r] = o /\ pc[r] \in Spending
                        THEN 1 ELSE 0
    BY DEF MoneyFollowsStatus
  <2>1. SpentOnce(o)
    BY DEF CalmInv, OrderInv
  <2>2. refundsMade[o] \in Nat /\ refundsMade[o] <= 1
    BY DEF TypeOK, ProviderTypeOK, IInv, RefundInv, AtMostOneRefundTransfer
  <2>3. CASE ~Spent(o)
    <3>1. Disbursements(o) = 0
      BY <2>2, <2>3, TransfersCounted DEF Disbursements, Spent
    <3>2. status[o] \notin Closed
      BY <2>2, <2>3 DEF Closed, Spent, Transferred, IInv, SaleInv, ReleasedHasSentPayout, SentPayouts,
         PayoutInv, LedgerMatchesProvider, RefundInv, RefundedHasSentRefund
    <3>3. ASSUME NEW r \in Processes, target[r] = o, pc[r] \in Spending PROVE FALSE
      <4>1. CASE pc[r] \in {"markSent", "release"}
        <5>1. row[r] \in paidOut /\ payoutOrder[row[r]] = o
          BY <3>3, <4>1 DEF IInv, PayoutInv, Paying
        <5> QED
          BY <2>3, <5>1 DEF Spent, Transferred
      <4>2. CASE pc[r] \in {"refundSent", "closeRefunded"}
        BY <2>3, <3>3, <4>2 DEF Spent, IInv, RefundInv
      <4> QED
        BY <3>3, <4>1, <4>2 DEF Spending
    <3> QED
      BY <3>1, <3>2, <3>3
  <2>4. CASE Spent(o)
    <3>1. Disbursements(o) = 1
      <4>1. CASE Transferred(o) = {}
        BY <2>2, <2>4, <4>1, FS_EmptySet DEF Spent, Disbursements
      <4>2. ASSUME NEW p \in Transferred(o) PROVE Disbursements(o) = 1
        <5>1. Transferred(o) = {p} /\ refundsMade[o] = 0
          BY <2>1, <4>2 DEF SpentOnce
        <5>2. Cardinality({p}) = 1
          BY FS_Singleton
        <5> QED
          BY <5>1, <5>2 DEF Disbursements
      <4> QED
        BY <4>1, <4>2
    <3> QED
      BY <2>1, <2>4, <3>1 DEF SpentOnce
  <2> QED
    BY <2>3, <2>4
<1> QED
  BY <1>1, CalmInvariance, PTL

\* An open dispute ends with a release or a refund.
LEMMA DisputeStands ==
    ASSUME TypeOK, IInv, NEW o \in Orders, OrderInv(o), status[o] = "disputed", [Next]_vars
    PROVE  status'[o] \in Closed \cup {"disputed"}
<1> USE ActiveHasOrder
    DEF TypeOK, DatabaseTypeOK, IInv, Closed, Finish, SetStatus, orderVars
<1>1. ASSUME NEW r \in Processes, MarkPaid(r) PROVE status'[o] = "disputed"
  <2>1. target[r] # o
    BY <1>1 DEF MarkPaid, OrderInv, StillRead, Collecting
  <2> QED
    BY <1>1, <2>1 DEF MarkPaid
<1>2. ASSUME NEW r \in Processes, Release(r) \/ MarkDisputed(r) \/ CloseRefunded(r)
      PROVE  status'[o] \in Closed \cup {"disputed"}
  BY <1>2 DEF Release, MarkDisputed, CloseRefunded
<1>3. ASSUME Arrival PROVE status'[o] = "disputed"
  BY <1>3 DEF Arrival, CreateOrder, ReceiveWebhook, ConfirmReceipt, AdminReleaseEscrow,
     OpenDispute, RefundOrder, CreateReview
<1>4. CASE status' = status
  BY <1>4
<1> QED
  BY <1>1, <1>2, <1>3, <1>4
     DEF Next, ReleaseExpiredEscrows,
         Advance, CollectStep, InitCheckout, RecordInitiated, CheckStatus, RecordVerified,
         PayoutStep, CreatePayout, TransferOk, MarkSent, MarkFailed,
         RefundStep, CreateRefund, RefundTransferOk, RefundSent, RefundFailed,
         RecordReview, Failure, Crash, Throws, TransferThrows, RefundTransferThrows,
         World, CustomerPays, DeadlinePasses, vars

ContestedInv == contested \subseteq Orders /\ \A o \in contested \ disturbed : status[o] = "disputed"

(* An order that was not disturbed stays disputed until it is released or  *)
(* refunded, and no scheduler run works on it meanwhile.                   *)
THEOREM DisputesHold == HSpec => []DisputeRespected
<1>1. HInit => ContestedInv
  BY DEF HInit, ContestedInv
<1>2. TypeOK /\ IInv /\ CalmInv /\ ContestedInv /\ [HNext]_hvars => ContestedInv'
  <2> SUFFICES ASSUME TypeOK, IInv, CalmInv, ContestedInv, [HNext]_hvars
               PROVE  ContestedInv'
    OBVIOUS
  <2>1. CASE UNCHANGED hvars
    BY <2>1 DEF ContestedInv, hvars, vars, orderVars
  <2>2. CASE HNext
    <3> SUFFICES ASSUME NEW o \in Orders, o \notin disturbed', o \in contested, status'[o] \notin Closed
                 PROVE  status'[o] = "disputed"
      BY <2>2 DEF HNext, Remember, ContestedInv
    <3>1. o \notin disturbed /\ status[o] = "disputed" /\ OrderInv(o)
      BY <2>2 DEF HNext, Remember, ContestedInv, CalmInv
    <3> QED
      BY <2>2, <3>1, DisputeStands DEF HNext
  <2> QED
    BY <2>1, <2>2
<1>3. CalmInv /\ ContestedInv => DisputeRespected
  <2> SUFFICES ASSUME CalmInv, ContestedInv, NEW o \in contested \ disturbed, NEW c \in Crons
               PROVE  status[o] = "disputed" /\ ~WorksOn(c, o)
    BY DEF DisputeRespected, ContestedInv
  <2>1. c \in Processes /\ o \in Orders /\ status[o] = "disputed"
    BY DEF Processes, ContestedInv
  <2>2. StillRead(c, o)
    BY <2>1 DEF CalmInv, OrderInv
  <2> QED
    BY <2>1, <2>2 DEF StillRead, WorksOn
<1> QED
  BY <1>1, <1>2, <1>3, CalmInvariance, PTL DEF HSpec

-----------------------------------------------------------------------------
(* What stands behind an order that is marked paid.                        *)

\* What came in stays.
LEMMA CollectedStays ==
    ASSUME TypeOK, IInv, [Next]_vars, NEW o \in Orders, Collected(o)
    PROVE  Collected(o)'
<1> USE DEF Collected, TypeOK, DatabaseTypeOK, ProviderTypeOK, collectVars
<1>1. ASSUME NEW r \in Processes, InitCheckout(r) PROVE Collected(o)'
  <2>1. pc[r] = "initCheckout" /\ collect[target[r]] = "none"
    BY <1>1 DEF InitCheckout, Step, Move, IInv, StageInv
  <2> QED
    BY <1>1, <2>1 DEF InitCheckout
<1>2. ASSUME NEW r \in Processes, RecordInitiated(r) \/ RecordVerified(r) PROVE Collected(o)'
  BY <1>2 DEF RecordInitiated, RecordVerified
<1>3. ASSUME NEW q \in Orders, CustomerPays(q) PROVE Collected(o)'
  BY <1>3 DEF CustomerPays
<1>4. CASE UNCHANGED <<events, collect>>
  BY <1>4
<1> QED
  BY <1>1, <1>2, <1>3, <1>4
     DEF Next, Arrival, CreateOrder, ReceiveWebhook, ConfirmReceipt, AdminReleaseEscrow,
         OpenDispute, RefundOrder, CreateReview, ReleaseExpiredEscrows,
         Advance, CollectStep, MarkPaid, CheckStatus,
         PayoutStep, CreatePayout, TransferOk, MarkSent, MarkFailed, Release,
         RefundStep, CreateRefund, RefundTransferOk, RefundSent, RefundFailed, CloseRefunded,
         MarkDisputed, RecordReview, Failure, Crash, Throws, TransferThrows, RefundTransferThrows,
         World, DeadlinePasses, vars

\* A process about to mark an order paid was there before, or has just got
\* the provider's answer, or the simulated checkout.
LEMMA WaysToMark ==
    ASSUME TypeOK, [Next]_vars, NEW r \in Processes, pc'[r] \in {"recordAccepted", "markPaid"}
    PROVE  /\ target'[r] = target[r]
           /\ \/ pc[r] \in {"recordAccepted", "markPaid"}
              \/ CheckStatus(r)
              \/ RecordInitiated(r) /\ target[r] \in Simulated
<1> USE DEF TypeOK, ProcessTypeOK, Step, Move, Begin, Enter, Finish, Abandon
<1>1. ASSUME Arrival PROVE target'[r] = target[r] /\ pc'[r] = pc[r]
  BY <1>1 DEF Arrival, CreateOrder, ReceiveWebhook, ConfirmReceipt, AdminReleaseEscrow,
     OpenDispute, RefundOrder, CreateReview
<1>2. ASSUME NEW c \in Crons, ReleaseExpiredEscrows(c) PROVE target'[r] = target[r] /\ pc'[r] = pc[r]
  BY <1>2 DEF ReleaseExpiredEscrows
<1>3. ASSUME NEW q \in Processes, q # r, Advance(q) PROVE target'[r] = target[r] /\ pc'[r] = pc[r]
  BY <1>3 DEF Advance, CollectStep, InitCheckout, RecordInitiated, MarkPaid, CheckStatus, RecordVerified,
     PayoutStep, CreatePayout, TransferOk, MarkSent, MarkFailed, Release,
     RefundStep, CreateRefund, RefundTransferOk, RefundSent, RefundFailed, CloseRefunded,
     MarkDisputed, RecordReview
<1>4. ASSUME Advance(r)
      PROVE  /\ target'[r] = target[r]
             /\ \/ pc[r] \in {"recordAccepted", "markPaid"}
                \/ CheckStatus(r)
                \/ RecordInitiated(r) /\ target[r] \in Simulated
  <2>1. CASE CheckStatus(r)
    BY <2>1 DEF CheckStatus
  <2>2. CASE RecordInitiated(r)
    BY <2>2 DEF RecordInitiated
  <2> QED
    BY <1>4, <2>1, <2>2 DEF Advance, CollectStep, InitCheckout, MarkPaid, RecordVerified,
       PayoutStep, CreatePayout, TransferOk, MarkSent, MarkFailed, Release,
       RefundStep, CreateRefund, RefundTransferOk, RefundSent, RefundFailed, CloseRefunded,
       MarkDisputed, RecordReview
<1>5. ASSUME Failure PROVE target'[r] = target[r] /\ pc'[r] = pc[r]
  BY <1>5 DEF Failure, Crash, Throws, TransferThrows, RefundTransferThrows
<1>6. CASE UNCHANGED processVars
  BY <1>6 DEF processVars
<1> QED
  BY <1>1, <1>2, <1>3, <1>4, <1>5, <1>6 DEF Next, World, CustomerPays, DeadlinePasses, vars

\* Only markPayablePaid takes an order out of pending.
LEMMA WayToPaid ==
    ASSUME TypeOK, IInv, [Next]_vars, NEW o \in Orders, ~Paid(o), Paid(o)'
    PROVE  \E r \in Processes : pc[r] = "markPaid" /\ target[r] = o
<1> USE ActiveHasOrder
    DEF TypeOK, DatabaseTypeOK, IInv, StageInv, Paid, AfterPaid, Paying, Step, Move, Finish, SetStatus, orderVars
<1>1. ASSUME NEW r \in Processes, MarkPaid(r) PROVE pc[r] = "markPaid" /\ target[r] = o
  BY <1>1 DEF MarkPaid
<1>2. ASSUME NEW r \in Processes, Release(r) \/ MarkDisputed(r) \/ CloseRefunded(r) PROVE FALSE
  BY <1>2 DEF Release, MarkDisputed, CloseRefunded
<1>3. ASSUME Arrival PROVE FALSE
  BY <1>3 DEF Arrival, CreateOrder, ReceiveWebhook, ConfirmReceipt, AdminReleaseEscrow,
     OpenDispute, RefundOrder, CreateReview
<1>4. CASE status' = status
  BY <1>4
<1> QED
  BY <1>1, <1>2, <1>3, <1>4
     DEF Next, ReleaseExpiredEscrows,
         Advance, CollectStep, InitCheckout, RecordInitiated, CheckStatus, RecordVerified,
         PayoutStep, CreatePayout, TransferOk, MarkSent, MarkFailed,
         RefundStep, CreateRefund, RefundTransferOk, RefundSent, RefundFailed,
         RecordReview, Failure, Crash, Throws, TransferThrows, RefundTransferThrows,
         World, CustomerPays, DeadlinePasses, vars

\* A simulated checkout on record counts as collected.
LEMMA SimulatedIsCollected ==
    ASSUME TypeOK, NEW r \in Processes, NEW o \in Orders, target[r] = o, RecordInitiated(r), o \in Simulated
    PROVE  Collected(o)'
<1>1. events' = [events EXCEPT ![o] = @ \cup {"SIMULATED_AUTO_CONFIRMED"}]
  BY DEF RecordInitiated
<1> QED
  BY <1>1 DEF Collected, TypeOK, DatabaseTypeOK

Vouched == VouchedInv /\ CollectedUnlessMisled

LEMMA VouchedStep ==
    ASSUME TypeOK, IInv, Vouched, [HNext]_hvars
    PROVE  Vouched'
<1>1. [Next]_vars /\ misled \subseteq misled'
  BY DEF HNext, Remember, hvars
<1>2. ASSUME NEW o \in Orders, Collected(o) \/ o \in misled PROVE Collected(o)' \/ o \in misled'
  BY <1>1, <1>2, CollectedStays
<1>3. VouchedInv'
  <2> SUFFICES ASSUME NEW r \in Processes, pc'[r] \in {"recordAccepted", "markPaid"}
               PROVE  Collected(target[r])' \/ target'[r] \in misled'
    BY DEF VouchedInv
  <2>1. /\ target'[r] = target[r]
        /\ \/ pc[r] \in {"recordAccepted", "markPaid"}
           \/ CheckStatus(r)
           \/ RecordInitiated(r) /\ target[r] \in Simulated
    BY <1>1, WaysToMark
  <2>2. PICK o \in Orders : target[r] = o
    BY <2>1, ActiveHasOrder DEF TypeOK, IInv, CheckStatus, RecordInitiated, Move, Step, Finish
  <2> SUFFICES Collected(o)' \/ o \in misled'
    BY <2>1, <2>2
  <2>3. CASE pc[r] \in {"recordAccepted", "markPaid"}
    BY <1>2, <2>2, <2>3 DEF Vouched, VouchedInv
  <2>4. CASE CheckStatus(r)
    <3>1. pc[r] = "checkStatus" /\ pc'[r] = "recordAccepted" /\ SaysPaid(asked[r])
      BY <2>4 DEF CheckStatus, Move, TypeOK, ProcessTypeOK
    <3>2. CASE AsksAbout(asked[r], o)
      <4>1. collect[o] = "paid"
        BY <3>1, <3>2 DEF AsksAbout, SaysPaid
      <4> QED
        BY <1>2, <4>1 DEF Collected
    <3>3. CASE ~AsksAbout(asked[r], o)
      <4>1. Collected(o) \/ Misleads(o)
        BY <2>2, <3>1, <3>3 DEF Misleads
      <4>2. HNext
        BY <3>1 DEF hvars, vars, processVars
      <4> QED
        BY <1>2, <4>1, <4>2 DEF HNext, Remember
    <3> QED
      BY <3>2, <3>3
  <2>5. CASE RecordInitiated(r) /\ target[r] \in Simulated
    BY <2>2, <2>5, SimulatedIsCollected
  <2> QED
    BY <2>1, <2>3, <2>4, <2>5
<1>4. CollectedUnlessMisled'
  <2> SUFFICES ASSUME NEW o \in Orders, Paid(o)' PROVE Collected(o)' \/ o \in misled'
    BY DEF CollectedUnlessMisled
  <2>1. CASE Paid(o)
    BY <1>2, <2>1 DEF Vouched, CollectedUnlessMisled
  <2>2. CASE ~Paid(o)
    BY <1>1, <1>2, <2>2, WayToPaid DEF Vouched, VouchedInv
  <2> QED
    BY <2>1, <2>2
<1> QED
  BY <1>3, <1>4 DEF Vouched

(* A webhook that is about to mark an order paid was answered by the        *)
(* provider about that order, or the order is one of the misled.           *)
THEOREM VouchedInvariance == HSpec => [](TypeOK /\ IInv /\ CalmInv /\ Vouched)
<1>1. HInit => Vouched
  BY DEF HInit, Init, Vouched, VouchedInv, CollectedUnlessMisled, Paid
<1> QED
  BY <1>1, CalmInvariance, VouchedStep, PTL DEF HSpec

(* An order that is marked paid was paid at the provider or simulated, but *)
(* for those accepted on an answer that was not about their own checkout:  *)
(* that of a provider which was not called, or about the token of another. *)
THEOREM PaymentSafety == HSpec => []CollectedUnlessMisled
<1>1. Vouched => CollectedUnlessMisled
  BY DEF Vouched
<1> QED
  BY <1>1, VouchedInvariance, PTL

\* A process about to mark an order paid has its price.
OwnAnswers ==
    \A r \in Processes : pc[r] \in {"recordAccepted", "markPaid"} => Collected(target[r])

(* With CinetPay as the provider and its keys configured, every order      *)
(* marked paid was paid there or simulated: that route asks about the      *)
(* order it marks, and the other provider knows none of the checkouts.     *)
THEOREM OwnAnswersSuffice ==
    ASSUME Provider = "cinetpay", "cinetpay" \in Keys
    PROVE  Spec => []PaidWasCollected
<1>1. Init => OwnAnswers /\ PaidWasCollected
  BY DEF Init, OwnAnswers, PaidWasCollected, Paid
<1>2. TypeOK /\ IInv /\ OwnAnswers /\ PaidWasCollected /\ [Next]_vars
         => OwnAnswers' /\ PaidWasCollected'
  <2> SUFFICES ASSUME TypeOK, IInv, OwnAnswers, PaidWasCollected, [Next]_vars
               PROVE  OwnAnswers' /\ PaidWasCollected'
    OBVIOUS
  <2>1. ASSUME NEW r \in Processes, pc'[r] \in {"recordAccepted", "markPaid"}
        PROVE  Collected(target[r])'
    <3>1. /\ target'[r] = target[r]
          /\ \/ pc[r] \in {"recordAccepted", "markPaid"}
             \/ CheckStatus(r)
             \/ RecordInitiated(r) /\ target[r] \in Simulated
      BY <2>1, WaysToMark
    <3>2. PICK o \in Orders : target[r] = o
      BY <3>1, ActiveHasOrder DEF TypeOK, IInv, CheckStatus, RecordInitiated, Move, Step, Finish
    <3> SUFFICES Collected(o)'
      BY <3>1, <3>2
    <3>3. CASE pc[r] \in {"recordAccepted", "markPaid"}
      BY <3>2, <3>3, CollectedStays DEF OwnAnswers
    <3>4. CASE CheckStatus(r)
      <4>1. pc[r] = "checkStatus" /\ SaysPaid(asked[r])
        BY <2>1, <3>4 DEF CheckStatus, Move, TypeOK, ProcessTypeOK
      <4>2. asked[r].via = "cinetpay" /\ collect[asked[r].about] = "paid"
        BY <4>1 DEF SaysPaid
      <4>3. asked[r].about = o
        BY <3>2, <4>1, <4>2 DEF IInv, StageInv
      <4> QED
        BY <4>2, <4>3, CollectedStays DEF Collected
    <3>5. CASE RecordInitiated(r) /\ target[r] \in Simulated
      BY <3>2, <3>5, SimulatedIsCollected
    <3> QED
      BY <3>1, <3>3, <3>4, <3>5
  <2>2. ASSUME NEW o \in Orders, Paid(o)' PROVE Collected(o)'
    <3>1. CASE Paid(o)
      BY <3>1, CollectedStays DEF PaidWasCollected
    <3>2. CASE ~Paid(o)
      BY <2>2, <3>2, WayToPaid, CollectedStays DEF OwnAnswers
    <3> QED
      BY <3>1, <3>2
  <2> QED
    BY <2>1, <2>2 DEF OwnAnswers, PaidWasCollected
<1> QED
  BY <1>1, <1>2, Invariance, PTL DEF Spec

-----------------------------------------------------------------------------
(* EscrowHistory implements EscrowPromise.                                 *)

Told == [o \in Orders |-> Says(status[o])]

\* A step of the promise, whatever troubles come with it.
Promised ==
    \/ \E o \in Orders : Promise!Collect(o) \/ Promise!PaySeller(o) \/ Promise!PayBuyer(o) \/ Promise!Tell(o)
    \/ UNCHANGED <<InPlace, SellerPaid, BuyerPaid, Told>>

LEMMA InitPromise == HInit => Promise!PromiseInit
<1> SUFFICES ASSUME HInit PROVE Promise!PromiseInit
  OBVIOUS
<1>1. SellerPaid = [o \in Orders |-> 0]
  BY FS_EmptySet DEF HInit, Init, SellerPaid, Transferred
<1> QED
  BY <1>1 DEF HInit, Init, Promise!PromiseInit, InPlace, Collected, BuyerPaid, Says

\* Before its process sends it, the price of an order is held, unless the
\* order was disturbed.
LEMMA HeldUnlessDisturbed ==
    ASSUME TypeOK, IInv, CalmInv, Vouched, NEW r \in Processes, NEW o \in Orders, target[r] = o,
           pc[r] \in {"transfer", "refundTransfer", "dispute", "markPaid"}
    PROVE  o \in Promise!Believed /\ (Promise!Held(o) \/ o \in disturbed)
<1>1. o \in Promise!Believed
  BY DEF IInv, StageInv, Vouched, VouchedInv, CollectedUnlessMisled, AfterPaid, Paying, Refunding,
     InPlace, Promise!Believed
<1>2. ASSUME o \notin disturbed PROVE Promise!Held(o)
  <2>1. OrderInv(o) /\ StillRead(r, o)
    BY <1>2 DEF CalmInv, OrderInv
  <2>2. ~Spent(o)
    BY <2>1, NotSpentYet DEF StillRead, Collecting, Releasing, Repaying, Paying, Refunding, Spending, Closed
  <2>3. SellerPaid[o] = 0 /\ o \notin BuyerPaid
    BY <2>2, TransfersCounted DEF Spent, SellerPaid, BuyerPaid
  <2> QED
    BY <1>1, <2>3 DEF Promise!Held
<1> QED
  BY <1>1, <1>2

\* A step that leaves the provider's side alone and writes
\* one status that the promise lets it say.
LEMMA SayingStep ==
    ASSUME TypeOK, NEW o \in Orders, NEW s \in OrderStatus,
           status' = [status EXCEPT ![o] = s],
           UNCHANGED <<payoutVars, refundsMade, collectVars>>,
           s \in {"paid_escrow", "disputed"} => o \in Promise!Believed /\ (Promise!Held(o) \/ o \in disturbed),
           s = "released" => SellerPaid[o] # 0,
           s = "refunded" => o \in BuyerPaid,
           s # "pending"
    PROVE  Promised
<1>1. Told' = [Told EXCEPT ![o] = Says(s)]
  BY DEF Told, TypeOK, DatabaseTypeOK
<1>2. InPlace' = InPlace /\ SellerPaid' = SellerPaid /\ BuyerPaid' = BuyerPaid
  BY DEF InPlace, Collected, SellerPaid, Transferred, BuyerPaid, payoutVars, collectVars
<1>3. Promise!Tell(o)
  BY <1>1, <1>2 DEF Promise!Tell, Told, Says, OrderStatus
<1> QED
  BY <1>3 DEF Promised

\* What the promise sees of the state.
Seen == <<status, payoutOrder, paidOut, refundsMade, events, collect>>

LEMMA UnseenStep ==
    ASSUME UNCHANGED Seen
    PROVE  Promised
BY DEF Seen, Promised, Told, InPlace, Collected, SellerPaid, Transferred, BuyerPaid, Says

\* The price of one order comes in.
LEMMA ConfirmingStep ==
    ASSUME NEW o \in Orders, UNCHANGED <<status, payoutOrder, paidOut, refundsMade>>,
           \A q \in Orders : Collected(q) => Collected(q)',
           \A q \in Orders \ {o} : Collected(q)' => Collected(q)
    PROVE  Promised
<1>1. SellerPaid' = SellerPaid /\ BuyerPaid' = BuyerPaid /\ Told' = Told
  BY DEF SellerPaid, Transferred, BuyerPaid, Told
<1>2. InPlace' = InPlace \/ InPlace' = InPlace \cup {o}
  BY DEF InPlace
<1>3. CASE InPlace' = InPlace
  BY <1>1, <1>3 DEF Promised
<1>4. CASE InPlace' = InPlace \cup {o}
  BY <1>1, <1>4 DEF Promised, Promise!Collect, Told
<1> QED
  BY <1>2, <1>3, <1>4

\* A payout row reaches the seller, for the first time or again.
LEMMA SellingStep ==
    ASSUME TypeOK, IInv, CalmInv, Vouched, NEW r \in Processes, pc[r] = "transfer",
           UNCHANGED <<status, payoutOrder, refundsMade, events, collect>>,
           paidOut' = paidOut \cup {row[r]}
    PROVE  Promised
<1>1. PICK o \in Orders : target[r] = o /\ payoutOrder[row[r]] = o
  BY ActiveHasOrder DEF TypeOK, IInv, PayoutInv, Paying
<1>2. CASE row[r] \in paidOut
  BY <1>2, UnseenStep DEF Seen
<1>3. CASE row[r] \notin paidOut
  <2>1. Transferred(o)' = Transferred(o) \cup {row[r]} /\ row[r] \notin Transferred(o)
    BY <1>1, <1>3 DEF Transferred
  <2>2. Cardinality(Transferred(o)') = Cardinality(Transferred(o)) + 1
    BY <1>1, <2>1, TransfersCounted, FS_AddElement
  <2>3. \A q \in Orders \ {o} : Transferred(q)' = Transferred(q)
    BY <1>1 DEF Transferred
  <2>4. SellerPaid' = [SellerPaid EXCEPT ![o] = @ + 1]
    BY <1>1, <2>2, <2>3 DEF SellerPaid
  <2>5. InPlace' = InPlace /\ BuyerPaid' = BuyerPaid /\ Told' = Told
    BY DEF InPlace, Collected, BuyerPaid, Told
  <2>6. o \in Promise!Believed /\ (Promise!Held(o) \/ o \in disturbed)
    BY <1>1, HeldUnlessDisturbed
  <2>7. Promise!PaySeller(o)
    BY <2>4, <2>5, <2>6 DEF Promise!PaySeller, Told
  <2> QED
    BY <1>1, <2>7 DEF Promised
<1> QED
  BY <1>2, <1>3

LEMMA RepayingStep ==
    ASSUME TypeOK, IInv, CalmInv, Vouched, NEW r \in Processes, pc[r] = "refundTransfer",
           UNCHANGED <<status, payoutOrder, paidOut, events, collect>>,
           refundsMade' = [refundsMade EXCEPT ![target[r]] = @ + 1]
    PROVE  Promised
<1>1. PICK o \in Orders : target[r] = o /\ refundsMade[o] = 0
  BY ActiveHasOrder DEF TypeOK, IInv, RefundInv
<1>2. BuyerPaid' = BuyerPaid \cup {o} /\ o \notin BuyerPaid
  BY <1>1 DEF BuyerPaid, TypeOK, ProviderTypeOK
<1>3. InPlace' = InPlace /\ SellerPaid' = SellerPaid /\ Told' = Told
  BY DEF InPlace, Collected, SellerPaid, Transferred, Told
<1>4. o \in Promise!Believed /\ (Promise!Held(o) \/ o \in disturbed)
  BY <1>1, HeldUnlessDisturbed
<1>5. Promise!PayBuyer(o)
  BY <1>2, <1>3, <1>4 DEF Promise!PayBuyer, Told
<1> QED
  BY <1>1, <1>5 DEF Promised

LEMMA NextPromise ==
    ASSUME TypeOK, IInv, CalmInv, Vouched, [Next]_vars
    PROVE  Promised
<1> USE ActiveHasOrder DEF IInv, Step, Move, Begin, Enter, Finish, Abandon, SetStatus,
        orderVars, payoutVars, refundVars, collectVars, Seen
<1>1. ASSUME Arrival PROVE Promised
  <2>1. ASSUME NEW r \in Handlers, NEW o \in Orders, NEW u \in Users, CreateOrder(r, o, u)
        PROVE  Promised
    <3>1. Told' = Told
      BY <2>1 DEF CreateOrder, Told, Says, TypeOK, DatabaseTypeOK
    <3> QED
      BY <2>1, <3>1 DEF CreateOrder, Promised, InPlace, Collected, SellerPaid, Transferred, BuyerPaid
  <2>2. CASE UNCHANGED Seen
    BY <2>2, UnseenStep
  <2> QED
    BY <1>1, <2>1, <2>2 DEF Arrival, ReceiveWebhook, ConfirmReceipt, AdminReleaseEscrow,
       OpenDispute, RefundOrder, CreateReview
<1>2. ASSUME \E c \in Crons : ReleaseExpiredEscrows(c) PROVE Promised
  BY <1>2, UnseenStep DEF ReleaseExpiredEscrows
<1>3. ASSUME NEW r \in Processes, CollectStep(r) PROVE Promised
  <2> DEFINE o == target[r]
  <2>1. CASE MarkPaid(r)
    <3>1. o \in Orders /\ pc[r] = "markPaid"
      BY <2>1 DEF MarkPaid, TypeOK
    <3> QED
      BY <2>1, <3>1, HeldUnlessDisturbed, SayingStep DEF MarkPaid, OrderStatus
  <2>2. CASE InitCheckout(r)
    <3>1. o \in Orders /\ collect[o] = "none"
      BY <2>2 DEF InitCheckout, StageInv, TypeOK
    <3> QED
      BY <2>2, <3>1, ConfirmingStep DEF InitCheckout, Collected, TypeOK, ProviderTypeOK
  <2>3. CASE RecordInitiated(r) \/ RecordVerified(r)
    <3>1. o \in Orders
      BY <2>3 DEF RecordInitiated, RecordVerified, TypeOK
    <3> QED
      BY <2>3, <3>1, ConfirmingStep DEF RecordInitiated, RecordVerified, Collected, TypeOK,
         DatabaseTypeOK
  <2>4. CASE CheckStatus(r)
    BY <2>4, UnseenStep DEF CheckStatus
  <2> QED
    BY <1>3, <2>1, <2>2, <2>3, <2>4 DEF CollectStep
<1>4. ASSUME NEW r \in Processes, PayoutStep(r) PROVE Promised
  <2>1. ASSUME NEW p \in Payouts, CreatePayout(r, p) PROVE Promised
    <3>1. \A o \in Orders : Transferred(o)' = Transferred(o)
      BY <2>1 DEF CreatePayout, Transferred, PayoutInv, TypeOK, DatabaseTypeOK, ProviderTypeOK
    <3>2. SellerPaid' = SellerPaid
      BY <3>1 DEF SellerPaid
    <3> QED
      BY <2>1, <3>2 DEF CreatePayout, Promised, InPlace, Collected, BuyerPaid, Told
  <2>2. CASE TransferOk(r)
    BY <2>2, SellingStep DEF TransferOk
  <2>3. CASE MarkSent(r) \/ MarkFailed(r)
    BY <2>3, UnseenStep DEF MarkSent, MarkFailed
  <2>4. CASE Release(r)
    <3>1. target[r] \in Orders /\ row[r] \in Transferred(target[r])
      BY <2>4 DEF Release, PayoutInv, Paying, Transferred, TypeOK
    <3>2. SellerPaid[target[r]] # 0
      BY <3>1, TransfersCounted DEF SellerPaid
    <3> QED
      BY <2>4, <3>1, <3>2, SayingStep DEF Release, OrderStatus
  <2> QED
    BY <1>4, <2>1, <2>2, <2>3, <2>4 DEF PayoutStep
<1>5. ASSUME NEW r \in Processes, RefundStep(r) PROVE Promised
  <2>1. CASE RefundTransferOk(r)
    BY <2>1, RepayingStep DEF RefundTransferOk
  <2>2. CASE CreateRefund(r) \/ RefundSent(r) \/ RefundFailed(r)
    BY <2>2, UnseenStep DEF CreateRefund, RefundSent, RefundFailed
  <2>3. CASE CloseRefunded(r)
    <3>1. target[r] \in Orders /\ target[r] \in BuyerPaid
      BY <2>3 DEF CloseRefunded, RefundInv, BuyerPaid, TypeOK
    <3> QED
      BY <2>3, <3>1, SayingStep DEF CloseRefunded, OrderStatus
  <2> QED
    BY <1>5, <2>1, <2>2, <2>3 DEF RefundStep
<1>6. ASSUME NEW r \in Processes, MarkDisputed(r) PROVE Promised
  <2>1. target[r] \in Orders /\ pc[r] = "dispute"
    BY <1>6 DEF MarkDisputed, TypeOK
  <2> QED
    BY <1>6, <2>1, HeldUnlessDisturbed, SayingStep DEF MarkDisputed, OrderStatus
<1>7. ASSUME NEW r \in Processes, RecordReview(r) PROVE Promised
  BY <1>7, UnseenStep DEF RecordReview
<1>8. ASSUME Failure PROVE Promised
  <2>1. ASSUME NEW r \in Processes, TransferThrows(r) PROVE Promised
    <3>1. CASE UNCHANGED paidOut
      BY <2>1, <3>1, UnseenStep DEF TransferThrows
    <3>2. CASE paidOut' = paidOut \cup {row[r]}
      BY <2>1, <3>2, SellingStep DEF TransferThrows
    <3> QED
      BY <2>1, <3>1, <3>2 DEF TransferThrows
  <2>2. ASSUME NEW r \in Processes, RefundTransferThrows(r) PROVE Promised
    <3>1. CASE UNCHANGED refundsMade
      BY <2>2, <3>1, UnseenStep DEF RefundTransferThrows
    <3>2. CASE refundsMade' = [refundsMade EXCEPT ![target[r]] = @ + 1]
      BY <2>2, <3>2, RepayingStep DEF RefundTransferThrows
    <3> QED
      BY <2>2, <3>1, <3>2 DEF RefundTransferThrows
  <2> QED
    BY <1>8, <2>1, <2>2, UnseenStep DEF Failure, Crash, Throws
<1>9. ASSUME World PROVE Promised
  <2>1. ASSUME NEW o \in Orders, CustomerPays(o) PROVE Promised
    BY <2>1, ConfirmingStep DEF CustomerPays, Collected, TypeOK, ProviderTypeOK
  <2> QED
    BY <1>9, <2>1, UnseenStep DEF World, DeadlinePasses
<1>10. ASSUME UNCHANGED vars PROVE Promised
  BY <1>10, UnseenStep DEF vars
<1> QED
  BY <1>1, <1>2, <1>3, <1>4, <1>5, <1>6, <1>7, <1>8, <1>9, <1>10 DEF Next, Advance

(* Every behaviour of the escrow, with its overlapping requests, failures  *)
(* and repeated webhooks, is a behaviour of the promise: money goes only   *)
(* where the price came in or an answer that was not about it was          *)
(* accepted, the buyer is refunded once, the status says only what has     *)
(* happened, and the price of an order goes once and is held until then,   *)
(* unless that order was disturbed before.                                 *)
THEOREM PromiseKept == HSpec => KeepsPromise
<1>1. TypeOK /\ IInv /\ CalmInv /\ Vouched /\ [HNext]_hvars => [Promise!PromiseNext]_Promise!promiseVars
  <2> SUFFICES ASSUME TypeOK, IInv, CalmInv, Vouched, [HNext]_hvars
               PROVE  Promise!PromiseNext
    OBVIOUS
  <2>1. Promised
    BY HistoryIsNext, NextPromise
  <2>2. disturbed \subseteq disturbed' /\ misled \subseteq misled' /\ misled' \cap InPlace \subseteq misled
    BY DEF HNext, Remember, Misleads, InPlace, hvars
  <2> QED
    BY <2>1, <2>2 DEF Promised, Promise!PromiseNext, Told
<1> QED
  BY <1>1, InitPromise, VouchedInvariance, PTL DEF HSpec, KeepsPromise, Promise!PromiseSpec

-----------------------------------------------------------------------------
(* Requests and runs that follow one another disturb no order.             *)

OneAtATime == \A r, s \in Processes : pc[r] # "idle" /\ pc[s] # "idle" => r = s

SerialInv ==
    /\ OneAtATime
    /\ \A r \in Processes : pc[r] \notin {"markFailed", "refundFailed"}
    /\ disturbed = {}

LEMMA SerialIsNext == [Serial]_hvars => [HNext]_hvars
BY DEF Serial, HNext, Next

\* The one process under way moves, or one starts while none is.
LEMMA SerialMoves ==
    ASSUME TypeOK, SerialInv, [Serial]_hvars
    PROVE  OneAtATime' /\ \A q \in Processes : pc'[q] \notin {"markFailed", "refundFailed"}
<1> USE DEF SerialInv, OneAtATime
<1>1. ASSUME NEW r \in Processes, Quiet \/ pc[r] # "idle",
             \A q \in Processes : q # r => pc'[q] = pc[q],
             pc'[r] \notin {"markFailed", "refundFailed"}
      PROVE  OneAtATime' /\ \A q \in Processes : pc'[q] \notin {"markFailed", "refundFailed"}
  BY <1>1 DEF Quiet
<1>2. CASE Quiet /\ Arrival
  <2>1. ASSUME NEW r \in Handlers, NEW o \in Orders, NEW s, s \in PcValues \ {"markFailed", "refundFailed"},
               Enter(r, o, s)
        PROVE  OneAtATime' /\ \A q \in Processes : pc'[q] \notin {"markFailed", "refundFailed"}
    <3>1. r \in Processes /\ pc'[r] = s /\ \A q \in Processes : q # r => pc'[q] = pc[q]
      BY <2>1 DEF Enter, Processes, TypeOK, ProcessTypeOK
    <3> QED
      BY <1>1, <1>2, <2>1, <3>1
  <2> QED
    BY <1>2, <2>1 DEF Arrival, CreateOrder, ReceiveWebhook, AdminReleaseEscrow, RefundOrder, ConfirmReceipt,
       OpenDispute, CreateReview, PcValues, Begin
<1>3. ASSUME Quiet, NEW c \in Crons, ReleaseExpiredEscrows(c)
      PROVE  OneAtATime' /\ \A q \in Processes : pc'[q] \notin {"markFailed", "refundFailed"}
  <2>1. c \in Processes /\ pc'[c] = "createPayout" /\ \A q \in Processes : q # c => pc'[q] = pc[q]
    BY <1>3 DEF ReleaseExpiredEscrows, Processes, TypeOK, ProcessTypeOK
  <2> QED
    BY <1>1, <1>3, <2>1
<1>4. ASSUME NEW r \in Processes, Advance(r)
      PROVE  OneAtATime' /\ \A q \in Processes : pc'[q] \notin {"markFailed", "refundFailed"}
  <2>1. pc[r] # "idle" /\ \A q \in Processes : q # r => pc'[q] = pc[q]
    BY <1>4 DEF Advance, CollectStep, InitCheckout, RecordInitiated, MarkPaid, CheckStatus, RecordVerified,
       PayoutStep, CreatePayout, TransferOk, MarkSent, MarkFailed, Release,
       RefundStep, CreateRefund, RefundTransferOk, RefundSent, RefundFailed, CloseRefunded,
       MarkDisputed, RecordReview, Step, Move, Finish, Abandon, TypeOK, ProcessTypeOK
  <2>2. pc'[r] \notin {"markFailed", "refundFailed"}
    BY <1>4 DEF Advance, CollectStep, InitCheckout, RecordInitiated, MarkPaid, CheckStatus, RecordVerified,
       PayoutStep, CreatePayout, TransferOk, MarkSent, MarkFailed, Release,
       RefundStep, CreateRefund, RefundTransferOk, RefundSent, RefundFailed, CloseRefunded,
       MarkDisputed, RecordReview, Step, Move, Finish, Abandon, TypeOK, ProcessTypeOK
  <2> QED
    BY <1>1, <2>1, <2>2
<1>5. CASE pc' = pc
  BY <1>5
<1> QED
  BY <1>2, <1>3, <1>4, <1>5
     DEF Serial, World, CustomerPays, DeadlinePasses, processVars, hvars, vars

LEMMA SerialStep ==
    ASSUME TypeOK, IInv, CalmInv, SerialInv, [Serial]_hvars
    PROVE  (TypeOK /\ IInv /\ CalmInv /\ SerialInv)'
<1>1. (TypeOK /\ IInv /\ CalmInv)'
  BY SerialIsNext, CalmStep
<1>2. OneAtATime' /\ \A q \in Processes : pc'[q] \notin {"markFailed", "refundFailed"}
  BY SerialMoves
<1>3. ASSUME Serial, NEW o \in Orders PROVE ~Disturbs(o)
  <2>1. ~Overlapped(o)'
    <3>1. \A q \in Processes : target'[q] = o \/ o \in todo'[q] => pc'[q] # "idle"
      BY <1>1, OrderIsNotNone DEF IInv, ControlInv, CalmInv, SnapshotInv, Releasing, Paying
    <3> QED
      BY <1>2, <3>1 DEF Overlapped, WorksOn, OneAtATime
  <2>2. ~Misjudged(o)'
    BY <1>2 DEF Misjudged
  <2>3. ~DiesSpending(o)
    <3>1. faults' = faults
      BY <1>3 DEF Serial, Arrival, CreateOrder, ReceiveWebhook, AdminReleaseEscrow, RefundOrder,
         ConfirmReceipt, OpenDispute, CreateReview, ReleaseExpiredEscrows,
         Advance, CollectStep, InitCheckout, RecordInitiated, MarkPaid, CheckStatus, RecordVerified,
         PayoutStep, CreatePayout, TransferOk, MarkSent, MarkFailed, Release,
         RefundStep, CreateRefund, RefundTransferOk, RefundSent, RefundFailed, CloseRefunded,
         MarkDisputed, RecordReview, World, CustomerPays, DeadlinePasses
    <3> QED
      BY <3>1 DEF DiesSpending
  <2> QED
    BY <1>3, <2>1, <2>2, <2>3 DEF Serial, Disturbs
<1>4. disturbed' = {}
  BY <1>3 DEF SerialInv, Serial, Remember, hvars
<1> QED
  BY <1>1, <1>2, <1>4 DEF SerialInv

\* While requests and runs follow one another and nothing fails, no order is
\* disturbed.
THEOREM NothingDisturbed == SerialSpec => [](TypeOK /\ IInv /\ CalmInv /\ SerialInv)
<1>1. HInit => TypeOK /\ IInv /\ CalmInv /\ SerialInv
  BY InitInv, CalmInitially DEF HInit, Init, SerialInv, OneAtATime
<1> QED
  BY <1>1, SerialStep, PTL DEF SerialSpec

LEMMA SerialIsHistory == SerialSpec => HSpec
BY SerialIsNext, PTL DEF SerialSpec, HSpec

(* The price of an order leaves the platform at most once.                 *)
THEOREM DisbursedOnce == SerialSpec => []AtMostOneDisbursement
<1>1. MoneyFollowsStatus /\ SerialInv => AtMostOneDisbursement
  BY DEF MoneyFollowsStatus, SerialInv, AtMostOneDisbursement, Disbursements, Transferred
<1> QED
  BY <1>1, SerialIsHistory, BooksBalance, NothingDisturbed, PTL

(* Between two requests the price of an order in escrow is with the        *)
(* platform.                                                               *)
THEOREM PriceIsHeld == SerialSpec => []EscrowHeld
<1>1. TypeOK /\ IInv /\ CalmInv /\ SerialInv => EscrowHeld
  <2> SUFFICES ASSUME TypeOK, IInv, CalmInv, SerialInv, Quiet, NEW o \in Orders, status[o] = "paid_escrow"
               PROVE  SentPayouts(o) = {} /\ refundStatus[o] # "sent"
    BY DEF EscrowHeld
  <2>1. ~Spent(o)
    BY DEF CalmInv, SerialInv, OrderInv, SpentOnce, Quiet, Spending, Closed
  <2>2. SentPayouts(o) = {}
    BY <2>1 DEF Spent, Transferred, SentPayouts, IInv, PayoutInv, LedgerMatchesProvider
  <2>3. refundStatus[o] # "sent"
    BY <2>1 DEF Spent, IInv, RefundInv
  <2> QED
    BY <2>2, <2>3
<1> QED
  BY <1>1, NothingDisturbed, PTL

(* A scheduler run releases no order that a buyer has disputed.            *)
THEOREM DisputeStopsRelease == SerialSpec => NoAutomaticReleaseWhileDisputed
<1>1. ASSUME CalmInv, SerialInv, NEW c \in Crons, NEW o \in Orders, pc[c] = "release", target[c] = o
      PROVE  status[o] # "disputed"
  BY <1>1 DEF CalmInv, SerialInv, OrderInv, StillRead, Processes
<1>2. TypeOK /\ IInv /\ CalmInv /\ SerialInv =>
        [\A c \in Crons, o \in Orders :
            pc[c] = "release" /\ target[c] = o /\ pc'[c] # "release" /\ status[o] = "disputed"
               => status'[o] # "released"]_vars
  BY <1>1
<1> QED
  BY <1>2, NothingDisturbed, PTL DEF NoAutomaticReleaseWhileDisputed

=============================================================================
