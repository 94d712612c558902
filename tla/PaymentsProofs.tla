--------------------------- MODULE PaymentsProofs ----------------------------
(***************************************************************************)
(* Proofs about Payments for any number of requests, payments, bursaries,  *)
(* students, classes and terms: the inductive invariant IInv of            *)
(* PaymentsInv is preserved by every database call of every request, and   *)
(* the safety properties follow.                                           *)
(***************************************************************************)
EXTENDS PaymentsInv, TLAPS

\* The initial tables are typed and no request is under way.
LEMMA TypeInit == Init => IType
BY NoneAssumption, NumberAssumption
   DEF Init, FeeInit, IType, TypeOK, FeeTypeOK, PayTypeOK, RequestOK, RowsOK, PaymentRow, BursaryRow, LedgerRow, Request, Locals, NoRequest, SyncPcs, PaymentPcs

\* Every database call writes rows of the right shape, for a payment that was
\* created and a student and term that the request looked up.
LEMMA TypeStep == IType /\ [Next]_vars => IType'
<1> SUFFICES ASSUME IType, [Next]_vars PROVE IType'
  OBVIOUS
<1> USE DEF IType, TypeOK
<1>1. ASSUME NEW w \in Workers, SumPayments(w), UNCHANGED payVars
      PROVE  IType'
  <2>1. req' \in [Workers -> Request]
    BY <1>1 DEF FeeTypeOK, Request, SumPayments, SuccessfulPayments
  <2>2. pc' \in [Workers -> {"idle"} \union SyncPcs \union PaymentPcs]
    BY <1>1 DEF FeeTypeOK, PayTypeOK, RequestOK, Goto, SyncPcs, PaymentPcs, SumPayments, SuccessfulPayments
  <2>3. RequestOK'
    BY <1>1, NoneAssumption DEF FeeTypeOK, PayTypeOK, PaymentRow, BursaryRow, Request, RequestOK, RowsOK, tables, Goto, Locals, NoRequest, SyncPcs, PaymentPcs, SumPayments, SuccessfulPayments
  <2>4. RowsOK'
    BY <1>1 DEF RowsOK, tables, payVars, SumPayments, SuccessfulPayments
  <2> QED
    BY <1>1, <2>1, <2>2, <2>3, <2>4 DEF FeeTypeOK, PayTypeOK, tables, payVars, feeVars, SumPayments, SuccessfulPayments
<1>2. ASSUME NEW w \in Workers, SumBursaries(w), UNCHANGED payVars
      PROVE  IType'
  <2>1. req' \in [Workers -> Request]
    BY <1>2 DEF FeeTypeOK, Request, SumBursaries, ApprovedBursaries
  <2>2. pc' \in [Workers -> {"idle"} \union SyncPcs \union PaymentPcs]
    BY <1>2 DEF FeeTypeOK, PayTypeOK, RequestOK, Goto, SyncPcs, PaymentPcs, SumBursaries, ApprovedBursaries
  <2>3. RequestOK'
    BY <1>2, NoneAssumption DEF FeeTypeOK, PayTypeOK, PaymentRow, BursaryRow, Request, RequestOK, RowsOK, tables, Goto, Locals, NoRequest, SyncPcs, PaymentPcs, SumBursaries, ApprovedBursaries
  <2>4. RowsOK'
    BY <1>2 DEF RowsOK, tables, payVars, SumBursaries, ApprovedBursaries
  <2> QED
    BY <1>2, <2>1, <2>2, <2>3, <2>4 DEF FeeTypeOK, PayTypeOK, tables, payVars, feeVars, SumBursaries, ApprovedBursaries
<1>3. ASSUME NEW w \in Workers, FindClass(w), UNCHANGED payVars
      PROVE  IType'
  <2>1. req' \in [Workers -> Request]
    <3>1. classOf[req[w].student] \in Classes \union {None}
      BY <1>3 DEF FeeTypeOK, RequestOK, SyncPcs, FindClass
    <3> QED
      BY <1>3, <3>1 DEF FeeTypeOK, Request, FindClass
  <2>2. pc' \in [Workers -> {"idle"} \union SyncPcs \union PaymentPcs]
    BY <1>3 DEF FeeTypeOK, PayTypeOK, RequestOK, Goto, SyncPcs, PaymentPcs, FindClass
  <2>3. RequestOK'
    BY <1>3, NoneAssumption DEF FeeTypeOK, PayTypeOK, PaymentRow, BursaryRow, Request, RequestOK, RowsOK, tables, Goto, Locals, NoRequest, SyncPcs, PaymentPcs, FindClass
  <2>4. RowsOK'
    BY <1>3 DEF RowsOK, tables, payVars, FindClass
  <2> QED
    BY <1>3, <2>1, <2>2, <2>3, <2>4 DEF FeeTypeOK, PayTypeOK, tables, payVars, feeVars, FindClass
<1>4. ASSUME NEW w \in Workers, FindFee(w), UNCHANGED payVars
      PROVE  IType'
  <2>1. req' \in [Workers -> Request]
    <3>1. req[w].class \in Classes /\ req[w].term \in Terms
      BY <1>4 DEF RequestOK, SyncPcs, FindFee
    <3>2. feeStructure[req[w].class][req[w].term] \in Fees \union {None}
      BY <3>1 DEF FeeTypeOK
    <3> DEFINE fee == feeStructure[req[w].class][req[w].term]
               owed == IF fee = None THEN 0 ELSE fee
    <3>3. owed \in Fees \union {0}
      BY <3>2
    <3>4. req' = [req EXCEPT ![w].owed = owed]
      BY <1>4 DEF FindFee
    <3> HIDE DEF owed
    <3> QED
      BY <3>3, <3>4 DEF FeeTypeOK, Request
  <2>2. pc' \in [Workers -> {"idle"} \union SyncPcs \union PaymentPcs]
    BY <1>4 DEF FeeTypeOK, PayTypeOK, RequestOK, Goto, SyncPcs, PaymentPcs, FindFee
  <2>3. RequestOK'
    BY <1>4, NoneAssumption DEF FeeTypeOK, PayTypeOK, PaymentRow, BursaryRow, Request, RequestOK, RowsOK, tables, Goto, Locals, NoRequest, SyncPcs, PaymentPcs, FindFee
  <2>4. RowsOK'
    BY <1>4 DEF RowsOK, tables, payVars, FindFee
  <2> QED
    BY <1>4, <2>1, <2>2, <2>3, <2>4 DEF FeeTypeOK, PayTypeOK, tables, payVars, feeVars, FindFee
<1>5. ASSUME NEW w \in Workers, FinishBursary(w), UNCHANGED payVars
      PROVE  IType'
  <2>1. ledger' \in [Students -> [Terms -> LedgerRow]]
    BY <1>5 DEF FeeTypeOK, PayTypeOK, RequestOK, LedgerRow, Request, SyncPcs, FinishBursary, UpsertLedger
  <2>2. req' \in [Workers -> Request]
    BY <1>5 DEF FeeTypeOK, PayTypeOK, RequestOK, Request, Locals, NoRequest, FinishBursary, UpsertLedger
  <2>3. pc' \in [Workers -> {"idle"} \union SyncPcs \union PaymentPcs]
    BY <1>5 DEF FeeTypeOK, PayTypeOK, RequestOK, Goto, SyncPcs, PaymentPcs, FinishBursary, UpsertLedger
  <2>4. RequestOK'
    BY <1>5, NoneAssumption DEF FeeTypeOK, PayTypeOK, PaymentRow, BursaryRow, Request, RequestOK, RowsOK, tables, Goto, Locals, NoRequest, SyncPcs, PaymentPcs, FinishBursary, UpsertLedger
  <2>5. RowsOK'
    BY <1>5 DEF RowsOK, tables, payVars, FinishBursary, UpsertLedger
  <2> QED
    BY <1>5, <2>1, <2>2, <2>3, <2>4, <2>5 DEF FeeTypeOK, PayTypeOK, tables, payVars, feeVars, FinishBursary, UpsertLedger
<1>6. ASSUME NEW w \in Workers, FinishSync(w)
      PROVE  IType'
  <2>1. ledger' \in [Students -> [Terms -> LedgerRow]]
    BY <1>6 DEF FeeTypeOK, PayTypeOK, RequestOK, LedgerRow, Request, SyncPcs, FinishSync, UpsertLedger
  <2>2. req' \in [Workers -> Request]
    BY <1>6 DEF FeeTypeOK, PayTypeOK, RequestOK, Request, Locals, NoRequest, FinishSync, UpsertLedger
  <2>3. pc' \in [Workers -> {"idle"} \union SyncPcs \union PaymentPcs]
    BY <1>6 DEF FeeTypeOK, PayTypeOK, RequestOK, Goto, SyncPcs, PaymentPcs, FinishSync, UpsertLedger
  <2>4. RequestOK'
    BY <1>6, NoneAssumption DEF FeeTypeOK, PayTypeOK, PaymentRow, BursaryRow, Request, RequestOK, RowsOK, tables, Goto, Locals, NoRequest, SyncPcs, PaymentPcs, FinishSync, UpsertLedger
  <2>5. RowsOK'
    BY <1>6 DEF RowsOK, tables, payVars, FinishSync, UpsertLedger
  <2> QED
    BY <1>6, <2>1, <2>2, <2>3, <2>4, <2>5 DEF FeeTypeOK, PayTypeOK, tables, payVars, feeVars, FinishSync, UpsertLedger
<1>7. ASSUME NEW w \in Workers, NEW b \in Bursaries, NEW s \in Students, NEW t \in Terms \union {None},
           CreateBursaryApproval(w, b, s, t), UNCHANGED payVars
      PROVE  IType'
  <2>1. bursary' \in [Bursaries -> BursaryRow]
    BY <1>7 DEF FeeTypeOK, PayTypeOK, RequestOK, BursaryRow, CreateBursaryApproval, CallSync
  <2>2. req' \in [Workers -> Request]
    BY <1>7 DEF FeeTypeOK, Request, Locals, CreateBursaryApproval, CallSync
  <2>3. pc' \in [Workers -> {"idle"} \union SyncPcs \union PaymentPcs]
    BY <1>7 DEF FeeTypeOK, PayTypeOK, RequestOK, Goto, SyncPcs, PaymentPcs, CreateBursaryApproval, CallSync
  <2>4. RequestOK'
    BY <1>7, NoneAssumption DEF FeeTypeOK, PayTypeOK, PaymentRow, BursaryRow, Request, RequestOK, RowsOK, tables, Goto, Locals, NoRequest, SyncPcs, PaymentPcs, CreateBursaryApproval, CallSync
  <2>5. RowsOK'
    BY <1>7 DEF RowsOK, tables, payVars, CreateBursaryApproval, CallSync
  <2> QED
    BY <1>7, <2>1, <2>2, <2>3, <2>4, <2>5 DEF FeeTypeOK, PayTypeOK, tables, payVars, feeVars, CreateBursaryApproval, CallSync
<1>8. ASSUME NEW c \in Classes, NEW t \in Terms, NEW amount \in Fees,
           CreateFeeStructure(c, t, amount), UNCHANGED payVars
      PROVE  IType'
  <2>1. feeStructure' \in [Classes -> [Terms -> Fees \union {None}]]
    BY <1>8 DEF FeeTypeOK, PayTypeOK, RequestOK, CreateFeeStructure, Change
  <2>2. changes' \in 0..MaxChanges
    BY <1>8, NumberAssumption DEF FeeTypeOK, PayTypeOK, RequestOK, CreateFeeStructure, Change
  <2>3. RequestOK'
    BY <1>8 DEF RequestOK, tables, CreateFeeStructure, Change
  <2>4. RowsOK'
    BY <1>8 DEF RowsOK, tables, payVars, CreateFeeStructure, Change
  <2> QED
    BY <1>8, <2>1, <2>2, <2>3, <2>4 DEF FeeTypeOK, PayTypeOK, tables, payVars, feeVars, CreateFeeStructure, Change
<1>9. ASSUME NEW c \in Classes, NEW t \in Terms, NEW amount \in Fees,
           UpdateFeeStructure(c, t, amount), UNCHANGED payVars
      PROVE  IType'
  <2>1. feeStructure' \in [Classes -> [Terms -> Fees \union {None}]]
    BY <1>9 DEF FeeTypeOK, PayTypeOK, RequestOK, UpdateFeeStructure, Change
  <2>2. changes' \in 0..MaxChanges
    BY <1>9, NumberAssumption DEF FeeTypeOK, PayTypeOK, RequestOK, UpdateFeeStructure, Change
  <2>3. RequestOK'
    BY <1>9 DEF RequestOK, tables, UpdateFeeStructure, Change
  <2>4. RowsOK'
    BY <1>9 DEF RowsOK, tables, payVars, UpdateFeeStructure, Change
  <2> QED
    BY <1>9, <2>1, <2>2, <2>3, <2>4 DEF FeeTypeOK, PayTypeOK, tables, payVars, feeVars, UpdateFeeStructure, Change
<1>10. ASSUME NEW s \in Students, NEW c \in Classes \union {None}, ChangeClass(s, c), UNCHANGED payVars
      PROVE  IType'
  <2>1. classOf' \in [Students -> Classes \union {None}]
    BY <1>10 DEF FeeTypeOK, PayTypeOK, RequestOK, ChangeClass, Change
  <2>2. changes' \in 0..MaxChanges
    BY <1>10, NumberAssumption DEF FeeTypeOK, PayTypeOK, RequestOK, ChangeClass, Change
  <2>3. RequestOK'
    BY <1>10 DEF RequestOK, tables, ChangeClass, Change
  <2>4. RowsOK'
    BY <1>10 DEF RowsOK, tables, payVars, ChangeClass, Change
  <2> QED
    BY <1>10, <2>1, <2>2, <2>3, <2>4 DEF FeeTypeOK, PayTypeOK, tables, payVars, feeVars, ChangeClass, Change
<1>11. ASSUME NEW c \in Classes, RemoveClass(c), UNCHANGED payVars
      PROVE  IType'
  <2>1. feeStructure' \in [Classes -> [Terms -> Fees \union {None}]]
    BY <1>11 DEF FeeTypeOK, PayTypeOK, RequestOK, RemoveClass, Change
  <2>2. classOf' \in [Students -> Classes \union {None}]
    BY <1>11 DEF FeeTypeOK, PayTypeOK, RequestOK, RemoveClass, Change
  <2>3. changes' \in 0..MaxChanges
    BY <1>11, NumberAssumption DEF FeeTypeOK, PayTypeOK, RequestOK, RemoveClass, Change
  <2>4. RequestOK'
    BY <1>11 DEF RequestOK, tables, RemoveClass, Change
  <2>5. RowsOK'
    BY <1>11 DEF RowsOK, tables, payVars, RemoveClass, Change
  <2> QED
    BY <1>11, <2>1, <2>2, <2>3, <2>4, <2>5 DEF FeeTypeOK, PayTypeOK, tables, payVars, feeVars, RemoveClass, Change
<1>12. ASSUME NEW w \in Workers, Abort(w), UNCHANGED payVars
      PROVE  IType'
  <2>1. req' \in [Workers -> Request]
    BY <1>12 DEF FeeTypeOK, PayTypeOK, RequestOK, Request, Locals, NoRequest, Abort, Finish
  <2>2. pc' \in [Workers -> {"idle"} \union SyncPcs \union PaymentPcs]
    BY <1>12 DEF FeeTypeOK, PayTypeOK, RequestOK, Goto, SyncPcs, PaymentPcs, Abort, Finish
  <2>3. aborts' \in 0..MaxAborts
    BY <1>12, NumberAssumption DEF FeeTypeOK, PayTypeOK, RequestOK, Abort, Finish
  <2>4. RequestOK'
    BY <1>12, NoneAssumption DEF FeeTypeOK, PayTypeOK, PaymentRow, BursaryRow, Request, RequestOK, RowsOK, tables, Goto, Locals, NoRequest, SyncPcs, PaymentPcs, Abort, Finish
  <2>5. RowsOK'
    BY <1>12 DEF RowsOK, tables, payVars, Abort, Finish
  <2> QED
    BY <1>12, <2>1, <2>2, <2>3, <2>4, <2>5 DEF FeeTypeOK, PayTypeOK, tables, payVars, feeVars, Abort, Finish
<1>13. ASSUME NEW w \in Workers, NEW p \in Payments, NEW s \in Students, NEW t \in Terms \union {None},
           CreatePending(w, p, s, t)
      PROVE  IType'
  <2>1. payment' \in [Payments -> PaymentRow]
    BY <1>13 DEF FeeTypeOK, PayTypeOK, RequestOK, PaymentRow, PaymentPcs, CreatePending
  <2>2. req' \in [Workers -> Request]
    BY <1>13 DEF FeeTypeOK, PayTypeOK, RequestOK, Request, Locals, NoRequest, CreatePending
  <2>3. pc' \in [Workers -> {"idle"} \union SyncPcs \union PaymentPcs]
    BY <1>13 DEF FeeTypeOK, PayTypeOK, RequestOK, Goto, SyncPcs, PaymentPcs, CreatePending
  <2>4. RequestOK'
    BY <1>13, NoneAssumption DEF FeeTypeOK, PayTypeOK, PaymentRow, BursaryRow, Request, RequestOK, RowsOK, tables, Goto, Locals, NoRequest, SyncPcs, PaymentPcs, CreatePending
  <2>5. RowsOK'
    BY <1>13 DEF FeeTypeOK, PaymentRow, RowsOK, payVars, CreatePending
  <2> QED
    BY <1>13, <2>1, <2>2, <2>3, <2>4, <2>5 DEF FeeTypeOK, PayTypeOK, tables, payVars, feeVars, CreatePending
<1>14. ASSUME NEW w \in Workers, InitializeAnswered(w)
      PROVE  IType'
  <2>1. pc' \in [Workers -> {"idle"} \union SyncPcs \union PaymentPcs]
    BY <1>14 DEF FeeTypeOK, PayTypeOK, RequestOK, Goto, SyncPcs, PaymentPcs, InitializeAnswered
  <2>2. RequestOK'
    BY <1>14, NoneAssumption DEF FeeTypeOK, PayTypeOK, PaymentRow, BursaryRow, Request, RequestOK, RowsOK, tables, Goto, Locals, NoRequest, SyncPcs, PaymentPcs, InitializeAnswered
  <2>3. RowsOK'
    BY <1>14 DEF RowsOK, tables, payVars, InitializeAnswered
  <2> QED
    BY <1>14, <2>1, <2>2, <2>3 DEF FeeTypeOK, PayTypeOK, tables, payVars, feeVars, InitializeAnswered
<1>15. ASSUME NEW w \in Workers, InitializeFailed(w)
      PROVE  IType'
  <2>1. req' \in [Workers -> Request]
    BY <1>15 DEF FeeTypeOK, PayTypeOK, RequestOK, Request, Locals, NoRequest, InitializeFailed, Finish
  <2>2. pc' \in [Workers -> {"idle"} \union SyncPcs \union PaymentPcs]
    BY <1>15 DEF FeeTypeOK, PayTypeOK, RequestOK, Goto, SyncPcs, PaymentPcs, InitializeFailed, Finish
  <2>3. RequestOK'
    BY <1>15, NoneAssumption DEF FeeTypeOK, PayTypeOK, PaymentRow, BursaryRow, Request, RequestOK, RowsOK, tables, Goto, Locals, NoRequest, SyncPcs, PaymentPcs, InitializeFailed, Finish
  <2>4. RowsOK'
    BY <1>15 DEF RowsOK, tables, payVars, InitializeFailed, Finish
  <2> QED
    BY <1>15, <2>1, <2>2, <2>3, <2>4 DEF FeeTypeOK, PayTypeOK, tables, payVars, feeVars, InitializeFailed, Finish
<1>16. ASSUME NEW w \in Workers, StoreReference(w)
      PROVE  IType'
  <2>1. payment' \in [Payments -> PaymentRow]
    BY <1>16 DEF FeeTypeOK, PayTypeOK, RequestOK, PaymentRow, PaymentPcs, StoreReference, Finish
  <2>2. req' \in [Workers -> Request]
    BY <1>16 DEF FeeTypeOK, PayTypeOK, RequestOK, Request, Locals, NoRequest, StoreReference, Finish
  <2>3. pc' \in [Workers -> {"idle"} \union SyncPcs \union PaymentPcs]
    BY <1>16 DEF FeeTypeOK, PayTypeOK, RequestOK, Goto, SyncPcs, PaymentPcs, StoreReference, Finish
  <2>4. RequestOK'
    BY <1>16, NoneAssumption DEF FeeTypeOK, PayTypeOK, PaymentRow, BursaryRow, Request, RequestOK, RowsOK, tables, Goto, Locals, NoRequest, SyncPcs, PaymentPcs, StoreReference, Finish
  <2>5. RowsOK'
    <3>1. req[w].payment \in Payments /\ payment[req[w].payment].status # "absent"
      BY <1>16, NoneAssumption DEF StoreReference, RequestOK, PaymentPcs
    <3> QED
      BY <1>16, <3>1 DEF FeeTypeOK, PaymentRow, RowsOK, payVars, StoreReference
  <2> QED
    BY <1>16, <2>1, <2>2, <2>3, <2>4, <2>5 DEF FeeTypeOK, PayTypeOK, tables, payVars, feeVars, StoreReference, Finish
<1>17. ASSUME NEW w \in Workers, DeletePending(w)
      PROVE  IType'
  <2>1. payment' \in [Payments -> PaymentRow]
    BY <1>17 DEF FeeTypeOK, PayTypeOK, RequestOK, PaymentRow, PaymentPcs, DeletePending, Finish
  <2>2. req' \in [Workers -> Request]
    BY <1>17 DEF FeeTypeOK, PayTypeOK, RequestOK, Request, Locals, NoRequest, DeletePending, Finish
  <2>3. pc' \in [Workers -> {"idle"} \union SyncPcs \union PaymentPcs]
    BY <1>17 DEF FeeTypeOK, PayTypeOK, RequestOK, Goto, SyncPcs, PaymentPcs, DeletePending, Finish
  <2>4. RequestOK'
    BY <1>17, NoneAssumption DEF FeeTypeOK, PayTypeOK, PaymentRow, BursaryRow, Request, RequestOK, RowsOK, tables, Goto, Locals, NoRequest, SyncPcs, PaymentPcs, DeletePending, Finish
  <2>5. RowsOK'
    <3>1. req[w].payment \in Payments /\ payment[req[w].payment].status # "absent"
      BY <1>17, NoneAssumption DEF DeletePending, RequestOK, PaymentPcs
    <3> QED
      BY <1>17, <3>1 DEF FeeTypeOK, PaymentRow, RowsOK, payVars, DeletePending
  <2> QED
    BY <1>17, <2>1, <2>2, <2>3, <2>4, <2>5 DEF FeeTypeOK, PayTypeOK, tables, payVars, feeVars, DeletePending, Finish
<1>18. ASSUME NEW p \in Payments, Charge(p)
      PROVE  IType'
  <2>1. charged' \subseteq Payments
    BY <1>18 DEF FeeTypeOK, PayTypeOK, RequestOK, Charge
  <2>2. RequestOK'
    BY <1>18 DEF RequestOK, tables, Charge, feeVars
  <2>3. RowsOK'
    BY <1>18 DEF RowsOK, tables, payVars, Charge, feeVars
  <2> QED
    BY <1>18, <2>1, <2>2, <2>3 DEF FeeTypeOK, PayTypeOK, tables, payVars, feeVars, Charge
<1>19. ASSUME NEW w \in Workers, NEW p \in Payments, Deliver(w, p)
      PROVE  IType'
  <2>1. req' \in [Workers -> Request]
    BY <1>19 DEF FeeTypeOK, PayTypeOK, RequestOK, Request, Locals, NoRequest, Deliver
  <2>2. pc' \in [Workers -> {"idle"} \union SyncPcs \union PaymentPcs]
    BY <1>19 DEF FeeTypeOK, PayTypeOK, RequestOK, Goto, SyncPcs, PaymentPcs, Deliver
  <2>3. RequestOK'
    BY <1>19, NoneAssumption DEF FeeTypeOK, PayTypeOK, PaymentRow, BursaryRow, Request, RequestOK, RowsOK, tables, Goto, Locals, NoRequest, SyncPcs, PaymentPcs, Deliver
  <2>4. RowsOK'
    BY <1>19 DEF RowsOK, tables, payVars, Deliver
  <2> QED
    BY <1>19, <2>1, <2>2, <2>3, <2>4 DEF FeeTypeOK, PayTypeOK, tables, payVars, feeVars, Deliver
<1>20. ASSUME NEW w \in Workers, SkipProcessed(w)
      PROVE  IType'
  <2>1. acked' \subseteq Payments
    BY <1>20 DEF FeeTypeOK, PayTypeOK, RequestOK, PaymentPcs, SkipProcessed, Acknowledge, Finish
  <2>2. req' \in [Workers -> Request]
    BY <1>20 DEF FeeTypeOK, PayTypeOK, RequestOK, Request, Locals, NoRequest, SkipProcessed, Acknowledge, Finish
  <2>3. pc' \in [Workers -> {"idle"} \union SyncPcs \union PaymentPcs]
    BY <1>20 DEF FeeTypeOK, PayTypeOK, RequestOK, Goto, SyncPcs, PaymentPcs, SkipProcessed, Acknowledge, Finish
  <2>4. RequestOK'
    BY <1>20, NoneAssumption DEF FeeTypeOK, PayTypeOK, PaymentRow, BursaryRow, Request, RequestOK, RowsOK, tables, Goto, Locals, NoRequest, SyncPcs, PaymentPcs, SkipProcessed, Acknowledge, Finish
  <2>5. RowsOK'
    BY <1>20 DEF RowsOK, tables, payVars, SkipProcessed, Acknowledge, Finish
  <2> QED
    BY <1>20, <2>1, <2>2, <2>3, <2>4, <2>5 DEF FeeTypeOK, PayTypeOK, tables, payVars, feeVars, SkipProcessed, Acknowledge, Finish
<1>21. ASSUME NEW w \in Workers, FindPayment(w)
      PROVE  IType'
  <2>1. pc' \in [Workers -> {"idle"} \union SyncPcs \union PaymentPcs]
    BY <1>21 DEF FeeTypeOK, PayTypeOK, RequestOK, Goto, SyncPcs, PaymentPcs, FindPayment
  <2>2. RequestOK'
    BY <1>21, NoneAssumption DEF FeeTypeOK, PayTypeOK, PaymentRow, BursaryRow, Request, RequestOK, RowsOK, tables, Goto, Locals, NoRequest, SyncPcs, PaymentPcs, FindPayment
  <2>3. RowsOK'
    BY <1>21 DEF RowsOK, tables, payVars, FindPayment
  <2> QED
    BY <1>21, <2>1, <2>2, <2>3 DEF FeeTypeOK, PayTypeOK, tables, payVars, feeVars, FindPayment
<1>22. ASSUME NEW w \in Workers, MarkSuccess(w)
      PROVE  IType'
  <2> DEFINE p == req[w].payment
  <2>1. p \in Payments /\ payment[p].status # "absent"
    BY <1>22, NoneAssumption DEF MarkSuccess, RequestOK, PaymentPcs
  <2>2. payment[p].student \in Students /\ payment[p].term \in Terms \union {None}
    BY <2>1 DEF RowsOK, FeeTypeOK, PaymentRow
  <2>3. payment' = [payment EXCEPT ![p].status = "success"]
    BY <1>22 DEF MarkSuccess
  <2>4. payment' \in [Payments -> PaymentRow]
    BY <2>1, <2>3 DEF FeeTypeOK, PaymentRow
  <2>5. \/ payment[p].term = None /\ pc' = [pc EXCEPT ![w] = "receipt"] /\ req' = req
        \/ /\ payment[p].term \in Terms
           /\ pc' = [pc EXCEPT ![w] = "sumPayments"]
           /\ req' = [req EXCEPT ![w] = Locals(p, payment[p].student, payment[p].term)]
    BY <1>22, <2>2 DEF MarkSuccess, CallSync, Goto
  <2>6. req' \in [Workers -> Request]
    BY <2>1, <2>2, <2>5 DEF FeeTypeOK, Request, Locals
  <2>7. pc' \in [Workers -> {"idle"} \union SyncPcs \union PaymentPcs]
    BY <2>5 DEF FeeTypeOK, SyncPcs, PaymentPcs
  <2>8. RowsOK'
    BY <1>22, <2>1, <2>3 DEF FeeTypeOK, PaymentRow, RowsOK, payVars, MarkSuccess
  <2>9. RequestOK'
    <3>1. \A q \in Payments : payment[q].status # "absent" => payment'[q].status # "absent"
      BY <2>1, <2>3 DEF FeeTypeOK, PaymentRow
    <3> QED
      BY <1>22, <2>1, <2>2, <2>5, <3>1 DEF FeeTypeOK, Request, RequestOK, Locals, SyncPcs, PaymentPcs, MarkSuccess
  <2> QED
    BY <1>22, <2>4, <2>6, <2>7, <2>8, <2>9 DEF FeeTypeOK, PayTypeOK, payVars, MarkSuccess
<1>23. ASSUME NEW w \in Workers, CreateReceipt(w)
      PROVE  IType'
  <2>1. receipts' \subseteq Payments
    BY <1>23 DEF FeeTypeOK, PayTypeOK, RequestOK, PaymentPcs, CreateReceipt
  <2>2. pc' \in [Workers -> {"idle"} \union SyncPcs \union PaymentPcs]
    BY <1>23 DEF FeeTypeOK, PayTypeOK, RequestOK, Goto, SyncPcs, PaymentPcs, CreateReceipt
  <2>3. RequestOK'
    BY <1>23, NoneAssumption DEF FeeTypeOK, PayTypeOK, PaymentRow, BursaryRow, Request, RequestOK, RowsOK, tables, Goto, Locals, NoRequest, SyncPcs, PaymentPcs, CreateReceipt
  <2>4. RowsOK'
    BY <1>23 DEF RowsOK, tables, payVars, CreateReceipt
  <2> QED
    BY <1>23, <2>1, <2>2, <2>3, <2>4 DEF FeeTypeOK, PayTypeOK, tables, payVars, feeVars, CreateReceipt
<1>24. ASSUME NEW w \in Workers, ReceiptExists(w)
      PROVE  IType'
  <2>1. req' \in [Workers -> Request]
    BY <1>24 DEF FeeTypeOK, PayTypeOK, RequestOK, Request, Locals, NoRequest, ReceiptExists, Finish
  <2>2. pc' \in [Workers -> {"idle"} \union SyncPcs \union PaymentPcs]
    BY <1>24 DEF FeeTypeOK, PayTypeOK, RequestOK, Goto, SyncPcs, PaymentPcs, ReceiptExists, Finish
  <2>3. RequestOK'
    BY <1>24, NoneAssumption DEF FeeTypeOK, PayTypeOK, PaymentRow, BursaryRow, Request, RequestOK, RowsOK, tables, Goto, Locals, NoRequest, SyncPcs, PaymentPcs, ReceiptExists, Finish
  <2>4. RowsOK'
    BY <1>24 DEF RowsOK, tables, payVars, ReceiptExists, Finish
  <2> QED
    BY <1>24, <2>1, <2>2, <2>3, <2>4 DEF FeeTypeOK, PayTypeOK, tables, payVars, feeVars, ReceiptExists, Finish
<1>25. ASSUME NEW w \in Workers, Notify(w)
      PROVE  IType'
  <2>1. notices' \in [Payments -> Nat]
    BY <1>25 DEF FeeTypeOK, PayTypeOK, RequestOK, PaymentPcs, Notify, Acknowledge, Finish
  <2>2. acked' \subseteq Payments
    BY <1>25 DEF FeeTypeOK, PayTypeOK, RequestOK, PaymentPcs, Notify, Acknowledge, Finish
  <2>3. req' \in [Workers -> Request]
    BY <1>25 DEF FeeTypeOK, PayTypeOK, RequestOK, Request, Locals, NoRequest, Notify, Acknowledge, Finish
  <2>4. pc' \in [Workers -> {"idle"} \union SyncPcs \union PaymentPcs]
    BY <1>25 DEF FeeTypeOK, PayTypeOK, RequestOK, Goto, SyncPcs, PaymentPcs, Notify, Acknowledge, Finish
  <2>5. RequestOK'
    BY <1>25, NoneAssumption DEF FeeTypeOK, PayTypeOK, PaymentRow, BursaryRow, Request, RequestOK, RowsOK, tables, Goto, Locals, NoRequest, SyncPcs, PaymentPcs, Notify, Acknowledge, Finish
  <2>6. RowsOK'
    BY <1>25 DEF RowsOK, tables, payVars, Notify, Acknowledge, Finish
  <2> QED
    BY <1>25, <2>1, <2>2, <2>3, <2>4, <2>5, <2>6 DEF FeeTypeOK, PayTypeOK, tables, payVars, feeVars, Notify, Acknowledge, Finish
<1>26. CASE UNCHANGED vars
  BY <1>26 DEF vars, feeVars, payVars, FeeTypeOK, PayTypeOK, RequestOK, RowsOK
<1> QED
  BY <1>1, <1>2, <1>3, <1>4, <1>5, <1>6, <1>7, <1>8, <1>9, <1>10, <1>11, <1>12, <1>13, <1>14, <1>15, <1>16, <1>17, <1>18, <1>19, <1>20, <1>21, <1>22, <1>23, <1>24, <1>25, <1>26
     DEF Next, Advance, SyncRead, HandleWebhook, Initiate, Desk

-----------------------------------------------------------------------------

\* The requests that initiate a payment, and those that handle its webhook, do
\* not get into each other's way.
LEMMA SettleStep == IType /\ ISettle /\ [Next]_vars => ISettle'
<1> SUFFICES ASSUME IType, ISettle, [Next]_vars PROVE ISettle'
  OBVIOUS
<1> USE NoneAssumption DEF IType, TypeOK, FeeTypeOK, PayTypeOK, PaymentRow, Request, ISettle, RequestOK, InitiatePcs, WebhookPcs, PaymentPcs, SyncPcs
<1>1. ASSUME NEW w \in Workers, SumPayments(w), UNCHANGED payVars
      PROVE  ISettle'
  <2>1. InitiateInv'
    BY <1>1 DEF InitiateInv, tables, payVars, Goto, Locals, NoRequest, SumPayments, SuccessfulPayments
  <2>2. WebhookInv'
    BY <1>1 DEF WebhookInv, tables, payVars, Goto, Locals, NoRequest, SumPayments, SuccessfulPayments
  <2>3. MarkedInv'
    BY <1>1 DEF WebhookInv, MarkedInv, tables, payVars, Goto, Locals, NoRequest, SumPayments, SuccessfulPayments
  <2> QED
    BY <2>1, <2>2, <2>3 DEF ISettle
<1>2. ASSUME NEW w \in Workers, SumBursaries(w), UNCHANGED payVars
      PROVE  ISettle'
  <2>1. InitiateInv'
    BY <1>2 DEF InitiateInv, tables, payVars, Goto, Locals, NoRequest, SumBursaries, ApprovedBursaries
  <2>2. WebhookInv'
    BY <1>2 DEF WebhookInv, tables, payVars, Goto, Locals, NoRequest, SumBursaries, ApprovedBursaries
  <2>3. MarkedInv'
    BY <1>2 DEF WebhookInv, MarkedInv, tables, payVars, Goto, Locals, NoRequest, SumBursaries, ApprovedBursaries
  <2> QED
    BY <2>1, <2>2, <2>3 DEF ISettle
<1>3. ASSUME NEW w \in Workers, FindClass(w), UNCHANGED payVars
      PROVE  ISettle'
  <2>1. InitiateInv'
    BY <1>3 DEF InitiateInv, tables, payVars, Goto, Locals, NoRequest, FindClass
  <2>2. WebhookInv'
    BY <1>3 DEF WebhookInv, tables, payVars, Goto, Locals, NoRequest, FindClass
  <2>3. MarkedInv'
    BY <1>3 DEF WebhookInv, MarkedInv, tables, payVars, Goto, Locals, NoRequest, FindClass
  <2> QED
    BY <2>1, <2>2, <2>3 DEF ISettle
<1>4. ASSUME NEW w \in Workers, FindFee(w), UNCHANGED payVars
      PROVE  ISettle'
  <2>1. InitiateInv'
    BY <1>4 DEF InitiateInv, tables, payVars, Goto, Locals, NoRequest, FindFee
  <2>2. WebhookInv'
    BY <1>4 DEF WebhookInv, tables, payVars, Goto, Locals, NoRequest, FindFee
  <2>3. MarkedInv'
    BY <1>4 DEF WebhookInv, MarkedInv, tables, payVars, Goto, Locals, NoRequest, FindFee
  <2> QED
    BY <2>1, <2>2, <2>3 DEF ISettle
<1>5. ASSUME NEW w \in Workers, FinishBursary(w), UNCHANGED payVars
      PROVE  ISettle'
  <2>1. InitiateInv'
    BY <1>5 DEF InitiateInv, tables, payVars, Goto, Locals, NoRequest, FinishBursary, UpsertLedger
  <2>2. WebhookInv'
    BY <1>5 DEF WebhookInv, tables, payVars, Goto, Locals, NoRequest, FinishBursary, UpsertLedger
  <2>3. MarkedInv'
    BY <1>5 DEF WebhookInv, MarkedInv, tables, payVars, Goto, Locals, NoRequest, FinishBursary, UpsertLedger
  <2> QED
    BY <2>1, <2>2, <2>3 DEF ISettle
<1>6. ASSUME NEW w \in Workers, FinishSync(w)
      PROVE  ISettle'
  <2>1. InitiateInv'
    BY <1>6 DEF InitiateInv, tables, payVars, Goto, Locals, NoRequest, FinishSync, UpsertLedger
  <2>2. WebhookInv'
    BY <1>6 DEF WebhookInv, tables, payVars, Goto, Locals, NoRequest, FinishSync, UpsertLedger
  <2>3. MarkedInv'
    BY <1>6 DEF WebhookInv, MarkedInv, tables, payVars, Goto, Locals, NoRequest, FinishSync, UpsertLedger
  <2> QED
    BY <2>1, <2>2, <2>3 DEF ISettle
<1>7. ASSUME NEW w \in Workers, NEW b \in Bursaries, NEW s \in Students, NEW t \in Terms \union {None},
           CreateBursaryApproval(w, b, s, t), UNCHANGED payVars
      PROVE  ISettle'
  <2>1. InitiateInv'
    <3>1. /\ payment' = payment
          /\ \A v \in Workers : pc'[v] \in InitiatePcs => pc'[v] = pc[v] /\ req'[v] = req[v]
      BY <1>7 DEF CreateBursaryApproval, CallSync, Goto
    <3> QED
      BY <3>1 DEF InitiateInv
  <2>2. WebhookInv'
    BY <1>7 DEF WebhookInv, tables, payVars, Goto, Locals, NoRequest, CreateBursaryApproval, CallSync
  <2>3. MarkedInv'
    BY <1>7 DEF WebhookInv, MarkedInv, tables, payVars, Goto, Locals, NoRequest, CreateBursaryApproval, CallSync
  <2> QED
    BY <2>1, <2>2, <2>3 DEF ISettle
<1>8. ASSUME NEW c \in Classes, NEW t \in Terms, NEW amount \in Fees,
           CreateFeeStructure(c, t, amount), UNCHANGED payVars
      PROVE  ISettle'
  <2>1. InitiateInv'
    BY <1>8 DEF InitiateInv, tables, payVars, Goto, Locals, NoRequest, CreateFeeStructure, Change
  <2>2. WebhookInv'
    BY <1>8 DEF WebhookInv, tables, payVars, Goto, Locals, NoRequest, CreateFeeStructure, Change
  <2>3. MarkedInv'
    BY <1>8 DEF WebhookInv, MarkedInv, tables, payVars, Goto, Locals, NoRequest, CreateFeeStructure, Change
  <2> QED
    BY <2>1, <2>2, <2>3 DEF ISettle
<1>9. ASSUME NEW c \in Classes, NEW t \in Terms, NEW amount \in Fees,
           UpdateFeeStructure(c, t, amount), UNCHANGED payVars
      PROVE  ISettle'
  <2>1. InitiateInv'
    BY <1>9 DEF InitiateInv, tables, payVars, Goto, Locals, NoRequest, UpdateFeeStructure, Change
  <2>2. WebhookInv'
    BY <1>9 DEF WebhookInv, tables, payVars, Goto, Locals, NoRequest, UpdateFeeStructure, Change
  <2>3. MarkedInv'
    BY <1>9 DEF WebhookInv, MarkedInv, tables, payVars, Goto, Locals, NoRequest, UpdateFeeStructure, Change
  <2> QED
    BY <2>1, <2>2, <2>3 DEF ISettle
<1>10. ASSUME NEW s \in Students, NEW c \in Classes \union {None}, ChangeClass(s, c), UNCHANGED payVars
      PROVE  ISettle'
  <2>1. InitiateInv'
    BY <1>10 DEF InitiateInv, tables, payVars, Goto, Locals, NoRequest, ChangeClass, Change
  <2>2. WebhookInv'
    BY <1>10 DEF WebhookInv, tables, payVars, Goto, Locals, NoRequest, ChangeClass, Change
  <2>3. MarkedInv'
    BY <1>10 DEF WebhookInv, MarkedInv, tables, payVars, Goto, Locals, NoRequest, ChangeClass, Change
  <2> QED
    BY <2>1, <2>2, <2>3 DEF ISettle
<1>11. ASSUME NEW c \in Classes, RemoveClass(c), UNCHANGED payVars
      PROVE  ISettle'
  <2>1. InitiateInv'
    BY <1>11 DEF InitiateInv, tables, payVars, Goto, Locals, NoRequest, RemoveClass, Change
  <2>2. WebhookInv'
    BY <1>11 DEF WebhookInv, tables, payVars, Goto, Locals, NoRequest, RemoveClass, Change
  <2>3. MarkedInv'
    BY <1>11 DEF WebhookInv, MarkedInv, tables, payVars, Goto, Locals, NoRequest, RemoveClass, Change
  <2> QED
    BY <2>1, <2>2, <2>3 DEF ISettle
<1>12. ASSUME NEW w \in Workers, Abort(w), UNCHANGED payVars
      PROVE  ISettle'
  <2>1. InitiateInv'
    BY <1>12 DEF InitiateInv, tables, payVars, Goto, Locals, NoRequest, Abort, Finish
  <2>2. WebhookInv'
    BY <1>12 DEF WebhookInv, tables, payVars, Goto, Locals, NoRequest, Abort, Finish
  <2>3. MarkedInv'
    BY <1>12 DEF WebhookInv, MarkedInv, tables, payVars, Goto, Locals, NoRequest, Abort, Finish
  <2> QED
    BY <2>1, <2>2, <2>3 DEF ISettle
<1>13. ASSUME NEW w \in Workers, NEW p \in Payments, NEW s \in Students, NEW t \in Terms \union {None},
           CreatePending(w, p, s, t)
      PROVE  ISettle'
  <2>1. InitiateInv'
    BY <1>13 DEF InitiateInv, tables, payVars, Goto, Locals, NoRequest, CreatePending
  <2>2. WebhookInv'
    BY <1>13 DEF WebhookInv, tables, payVars, Goto, Locals, NoRequest, CreatePending
  <2>3. MarkedInv'
    BY <1>13 DEF WebhookInv, MarkedInv, tables, payVars, Goto, Locals, NoRequest, CreatePending
  <2> QED
    BY <2>1, <2>2, <2>3 DEF ISettle
<1>14. ASSUME NEW w \in Workers, InitializeAnswered(w)
      PROVE  ISettle'
  <2>1. InitiateInv'
    <3>1. /\ UNCHANGED <<payment, req>>
          /\ \A v \in Workers : pc'[v] \in InitiatePcs => pc[v] \in InitiatePcs
      BY <1>14 DEF InitializeAnswered, Goto, tables
    <3> QED
      BY <3>1 DEF InitiateInv
  <2>2. WebhookInv'
    BY <1>14 DEF WebhookInv, tables, payVars, Goto, Locals, NoRequest, InitializeAnswered
  <2>3. MarkedInv'
    BY <1>14 DEF WebhookInv, MarkedInv, tables, payVars, Goto, Locals, NoRequest, InitializeAnswered
  <2> QED
    BY <2>1, <2>2, <2>3 DEF ISettle
<1>15. ASSUME NEW w \in Workers, InitializeFailed(w)
      PROVE  ISettle'
  <2>1. InitiateInv'
    BY <1>15 DEF InitiateInv, tables, payVars, Goto, Locals, NoRequest, InitializeFailed, Finish
  <2>2. WebhookInv'
    BY <1>15 DEF WebhookInv, tables, payVars, Goto, Locals, NoRequest, InitializeFailed, Finish
  <2>3. MarkedInv'
    BY <1>15 DEF WebhookInv, MarkedInv, tables, payVars, Goto, Locals, NoRequest, InitializeFailed, Finish
  <2> QED
    BY <2>1, <2>2, <2>3 DEF ISettle
<1>16. ASSUME NEW w \in Workers, StoreReference(w)
      PROVE  ISettle'
  <2>1. InitiateInv'
    BY <1>16 DEF InitiateInv, tables, payVars, Goto, Locals, NoRequest, StoreReference, Finish
  <2>2. WebhookInv'
    <3>1. /\ req[w].payment \in Payments
          /\ payment[req[w].payment].status = "pending"
      BY <1>16 DEF StoreReference, InitiateInv
    <3>2. /\ \A p \in Payments : payment'[p].status = payment[p].status
          /\ \A p \in Payments : payment[p].ref => payment'[p].ref
          /\ \A p \in Payments : payment'[p].ref => payment[p].ref \/ p = req[w].payment
      BY <1>16, <3>1 DEF StoreReference
    <3>3. \A v \in Workers : pc'[v] \in WebhookPcs \union SyncPcs => pc'[v] = pc[v] /\ req'[v] = req[v]
      BY <1>16 DEF StoreReference, Finish, Goto
    <3>4. charged' = charged
      BY <1>16 DEF StoreReference, payVars
    <3> QED
      BY <3>1, <3>2, <3>3, <3>4 DEF WebhookInv
  <2>3. MarkedInv'
    BY <1>16 DEF WebhookInv, MarkedInv, tables, payVars, Goto, Locals, NoRequest, StoreReference, Finish
  <2> QED
    BY <2>1, <2>2, <2>3 DEF ISettle
<1>17. ASSUME NEW w \in Workers, DeletePending(w)
      PROVE  ISettle'
  <2>1. InitiateInv'
    BY <1>17 DEF InitiateInv, tables, payVars, Goto, Locals, NoRequest, DeletePending, Finish
  <2>2. WebhookInv'
    <3>1. /\ req[w].payment \in Payments
          /\ ~payment[req[w].payment].ref
      BY <1>17 DEF DeletePending, InitiateInv
    <3>2. /\ \A p \in Payments : p # req[w].payment => payment'[p] = payment[p]
          /\ payment'[req[w].payment].status = "deleted"
          /\ ~payment'[req[w].payment].ref
      BY <1>17, <3>1 DEF DeletePending
    <3>3. \A v \in Workers : pc'[v] \in WebhookPcs \union SyncPcs => pc'[v] = pc[v] /\ req'[v] = req[v]
      BY <1>17 DEF DeletePending, Finish, Goto
    <3>4. charged' = charged
      BY <1>17 DEF DeletePending, payVars
    <3> QED
      BY <3>1, <3>2, <3>3, <3>4 DEF WebhookInv
  <2>3. MarkedInv'
    <3>1. /\ req[w].payment \in Payments
          /\ payment[req[w].payment].status = "pending"
      BY <1>17 DEF DeletePending, InitiateInv
    <3>2. \A p \in Payments : p # req[w].payment => payment'[p] = payment[p]
      BY <1>17, <3>1 DEF DeletePending
    <3>3. \A v \in Workers : pc'[v] \in WebhookPcs \union SyncPcs => pc'[v] = pc[v] /\ req'[v] = req[v]
      BY <1>17 DEF DeletePending, Finish, Goto
    <3> QED
      BY <3>1, <3>2, <3>3 DEF MarkedInv
  <2> QED
    BY <2>1, <2>2, <2>3 DEF ISettle
<1>18. ASSUME NEW p \in Payments, Charge(p)
      PROVE  ISettle'
  <2>1. InitiateInv'
    BY <1>18 DEF InitiateInv, tables, payVars, feeVars, Goto, Locals, NoRequest, Charge
  <2>2. WebhookInv'
    BY <1>18 DEF WebhookInv, tables, payVars, feeVars, Goto, Locals, NoRequest, Charge
  <2>3. MarkedInv'
    BY <1>18 DEF WebhookInv, MarkedInv, tables, payVars, feeVars, Goto, Locals, NoRequest, Charge
  <2> QED
    BY <2>1, <2>2, <2>3 DEF ISettle
<1>19. ASSUME NEW w \in Workers, NEW p \in Payments, Deliver(w, p)
      PROVE  ISettle'
  <2>1. InitiateInv'
    BY <1>19 DEF InitiateInv, tables, payVars, Goto, Locals, NoRequest, Deliver
  <2>2. WebhookInv'
    BY <1>19 DEF WebhookInv, tables, payVars, Goto, Locals, NoRequest, Deliver
  <2>3. MarkedInv'
    BY <1>19 DEF WebhookInv, MarkedInv, tables, payVars, Goto, Locals, NoRequest, Deliver
  <2> QED
    BY <2>1, <2>2, <2>3 DEF ISettle
<1>20. ASSUME NEW w \in Workers, SkipProcessed(w)
      PROVE  ISettle'
  <2>1. InitiateInv'
    BY <1>20 DEF InitiateInv, tables, payVars, Goto, Locals, NoRequest, SkipProcessed, Acknowledge, Finish
  <2>2. WebhookInv'
    BY <1>20 DEF WebhookInv, tables, payVars, Goto, Locals, NoRequest, SkipProcessed, Acknowledge, Finish
  <2>3. MarkedInv'
    BY <1>20 DEF WebhookInv, MarkedInv, tables, payVars, Goto, Locals, NoRequest, SkipProcessed, Acknowledge, Finish
  <2> QED
    BY <2>1, <2>2, <2>3 DEF ISettle
<1>21. ASSUME NEW w \in Workers, FindPayment(w)
      PROVE  ISettle'
  <2>1. InitiateInv'
    BY <1>21 DEF InitiateInv, tables, payVars, Goto, Locals, NoRequest, FindPayment
  <2>2. WebhookInv'
    BY <1>21 DEF WebhookInv, tables, payVars, Goto, Locals, NoRequest, FindPayment
  <2>3. MarkedInv'
    BY <1>21 DEF WebhookInv, MarkedInv, tables, payVars, Goto, Locals, NoRequest, FindPayment
  <2> QED
    BY <2>1, <2>2, <2>3 DEF ISettle
<1>22. ASSUME NEW w \in Workers, MarkSuccess(w)
      PROVE  ISettle'
  <2>1. InitiateInv'
    <3>1. /\ req[w].payment \in charged
          /\ payment[req[w].payment].ref
      BY <1>22 DEF MarkSuccess, WebhookInv
    <3>2. \A p \in Payments : p # req[w].payment => payment'[p] = payment[p]
      BY <1>22, <3>1 DEF MarkSuccess
    <3>3. \A v \in Workers : pc'[v] \in InitiatePcs => pc'[v] = pc[v] /\ req'[v] = req[v]
      BY <1>22 DEF MarkSuccess, CallSync, Goto
    <3>4. ASSUME NEW v \in Workers, pc'[v] \in InitiatePcs
          PROVE  /\ payment'[req'[v].payment].status = "pending"
                 /\ ~payment'[req'[v].payment].ref
      <4>1. pc[v] \in InitiatePcs /\ req'[v] = req[v]
        BY <3>3, <3>4
      <4>2. /\ req[v].payment \in Payments
            /\ payment[req[v].payment].status = "pending"
            /\ ~payment[req[v].payment].ref
        BY <4>1 DEF InitiateInv
      <4> QED
        BY <3>1, <3>2, <4>1, <4>2
    <3>5. \A u, v \in Workers :
             pc'[u] \in InitiatePcs /\ pc'[v] \in InitiatePcs /\ req'[u].payment = req'[v].payment => u = v
      BY <3>3 DEF InitiateInv
    <3> QED
      BY <3>4, <3>5 DEF InitiateInv
  <2>2. WebhookInv'
    BY <1>22 DEF WebhookInv, tables, payVars, Goto, Locals, NoRequest, MarkSuccess, CallSync
  <2>3. MarkedInv'
    BY <1>22 DEF WebhookInv, MarkedInv, tables, payVars, Goto, Locals, NoRequest, MarkSuccess, CallSync
  <2> QED
    BY <2>1, <2>2, <2>3 DEF ISettle
<1>23. ASSUME NEW w \in Workers, CreateReceipt(w)
      PROVE  ISettle'
  <2>1. InitiateInv'
    BY <1>23 DEF InitiateInv, tables, payVars, Goto, Locals, NoRequest, CreateReceipt
  <2>2. WebhookInv'
    BY <1>23 DEF WebhookInv, tables, payVars, Goto, Locals, NoRequest, CreateReceipt
  <2>3. MarkedInv'
    BY <1>23 DEF WebhookInv, MarkedInv, tables, payVars, Goto, Locals, NoRequest, CreateReceipt
  <2> QED
    BY <2>1, <2>2, <2>3 DEF ISettle
<1>24. ASSUME NEW w \in Workers, ReceiptExists(w)
      PROVE  ISettle'
  <2>1. InitiateInv'
    BY <1>24 DEF InitiateInv, tables, payVars, Goto, Locals, NoRequest, ReceiptExists, Finish
  <2>2. WebhookInv'
    BY <1>24 DEF WebhookInv, tables, payVars, Goto, Locals, NoRequest, ReceiptExists, Finish
  <2>3. MarkedInv'
    BY <1>24 DEF WebhookInv, MarkedInv, tables, payVars, Goto, Locals, NoRequest, ReceiptExists, Finish
  <2> QED
    BY <2>1, <2>2, <2>3 DEF ISettle
<1>25. ASSUME NEW w \in Workers, Notify(w)
      PROVE  ISettle'
  <2>1. InitiateInv'
    BY <1>25 DEF InitiateInv, tables, payVars, Goto, Locals, NoRequest, Notify, Acknowledge, Finish
  <2>2. WebhookInv'
    BY <1>25 DEF WebhookInv, tables, payVars, Goto, Locals, NoRequest, Notify, Acknowledge, Finish
  <2>3. MarkedInv'
    BY <1>25 DEF WebhookInv, MarkedInv, tables, payVars, Goto, Locals, NoRequest, Notify, Acknowledge, Finish
  <2> QED
    BY <2>1, <2>2, <2>3 DEF ISettle
<1>26. CASE UNCHANGED vars
  BY <1>26 DEF vars, feeVars, payVars, ISettle, InitiateInv, WebhookInv, WebhookInv, MarkedInv
<1> QED
  BY <1>1, <1>2, <1>3, <1>4, <1>5, <1>6, <1>7, <1>8, <1>9, <1>10, <1>11, <1>12, <1>13, <1>14, <1>15, <1>16, <1>17, <1>18, <1>19, <1>20, <1>21, <1>22, <1>23, <1>24, <1>25, <1>26
     DEF Next, Advance, SyncRead, HandleWebhook, Initiate, Desk

-----------------------------------------------------------------------------

\* What is booked stays booked: the row of a successful payment no longer
\* changes, and its ledger row does not disappear.
Stays ==
    \A p \in Payments : payment[p].status = "success" =>
        /\ payment'[p] = payment[p]
        /\ RowExists(p) => RowExists(p)'

\* Every step, of whatever request, leaves booked money booked.
LEMMA BookedStays == IType /\ ISettle /\ [Next]_vars => Stays
<1> SUFFICES ASSUME IType, ISettle, [Next]_vars PROVE Stays
  OBVIOUS
<1> USE NoneAssumption DEF IType, TypeOK, FeeTypeOK, Stays
<1>1. CASE UNCHANGED <<payment, ledger>>
  BY <1>1 DEF RowExists
<1>2. ASSUME NEW w \in Workers, NEW next, UpsertLedger(w, next) PROVE Stays
  <2>1. payment' = payment
    BY <1>2 DEF UpsertLedger
  <2>2. \A s \in Students, t \in Terms : ledger[s][t].exists => ledger'[s][t].exists
    BY <1>2 DEF UpsertLedger, LedgerRow, RequestOK, SyncPcs
  <2>3. \A p \in Payments : payment[p].status = "success" => 
           payment[p].student \in Students /\ payment[p].term \in Terms \union {None}
    BY DEF RowsOK, PaymentRow
  <2> QED
    BY <2>1, <2>2, <2>3 DEF RowExists
<1>3. ASSUME NEW w \in Workers, NEW p \in Payments, NEW s \in Students, NEW t \in Terms \union {None},
             CreatePending(w, p, s, t)
      PROVE  Stays
  BY <1>3 DEF CreatePending, PaymentRow, RowExists
<1>4. ASSUME NEW w \in Workers, StoreReference(w) \/ DeletePending(w) PROVE Stays
  <2>1. req[w].payment \in Payments /\ payment[req[w].payment].status = "pending"
    BY <1>4 DEF StoreReference, DeletePending, ISettle, InitiateInv, InitiatePcs, RequestOK, PaymentPcs
  <2>2. \A p \in Payments : p # req[w].payment => payment'[p] = payment[p]
    BY <1>4 DEF StoreReference, DeletePending
  <2>3. ledger' = ledger
    BY <1>4 DEF StoreReference, DeletePending
  <2> QED
    BY <2>1, <2>2, <2>3 DEF RowExists
<1>5. ASSUME NEW w \in Workers, MarkSuccess(w) PROVE Stays
  <2>1. payment' = [payment EXCEPT ![req[w].payment].status = "success"] /\ ledger' = ledger
    BY <1>5 DEF MarkSuccess
  <2>2. \A p \in Payments : payment[p].status = "success" => payment'[p] = payment[p]
    BY <2>1 DEF PaymentRow
  <2> QED
    BY <2>1, <2>2 DEF RowExists
<1>6. ASSUME NEW w \in Workers, Advance(w) \/ Abort(w) PROVE Stays
  BY <1>1, <1>2, <1>4, <1>5, <1>6
     DEF Advance, Abort, Initiate, HandleWebhook, SyncRead, SumPayments, SumBursaries, FindClass,
         FindFee, FinishBursary, InitializeAnswered, InitializeFailed, SkipProcessed, FindPayment,
         FinishSync, CreateReceipt, ReceiptExists, Notify, tables
<1>7. CASE Desk
  BY <1>1, <1>7 DEF Desk, CreateBursaryApproval, CreateFeeStructure, UpdateFeeStructure, ChangeClass, RemoveClass
<1> QED
  BY <1>1, <1>3, <1>6, <1>7 DEF Next, Charge, Deliver, feeVars, tables, vars

\* A step at which no request comes to insert a receipt or to notify, and
\* nothing that INotice speaks of is written.
Quiet ==
    /\ UNCHANGED <<receipts, notices>>
    /\ \A w \in Workers : pc'[w] \in {"receipt", "notify"} => pc'[w] = pc[w] /\ req'[w] = req[w]

\* Receipts that are not touched keep what they stand for.
LEMMA ReceiptStays ==
  ASSUME IType, INotice, Stays, receipts' = receipts
  PROVE  ReceiptAfterLedger'
<1>1. \A p \in receipts : payment[p].status = "success" /\ RowExists(p)
  BY DEF INotice, ReceiptAfterLedger, RowExists
<1>2. \A p \in receipts' : payment'[p].status = "success" /\ RowExists(p)'
  BY <1>1 DEF Stays, IType, TypeOK, PayTypeOK
<1> QED
  BY <1>2 DEF ReceiptAfterLedger, RowExists

\* A quiet step preserves INotice.
LEMMA QuietStep ==
  ASSUME IType, ISettle, INotice, Stays, Quiet
  PROVE  INotice'
<1> USE DEF INotice
<1>0. \A w \in Workers : pc[w] \in {"receipt", "notify"} =>
         req[w].payment \in Payments /\ payment[req[w].payment].status = "success"
  BY DEF IType, RequestOK, PaymentPcs, ISettle, MarkedInv
<1>1. LedgerExistsInv'
  BY <1>0 DEF LedgerExistsInv, Quiet, Stays
<1>2. ReceiptAfterLedger'
  BY ReceiptStays DEF Quiet
<1>3. NoticeInv'
  BY DEF NoticeInv, Quiet
<1>4. NotifiedOnce'
  BY DEF NotifiedOnce, Quiet
<1> QED
  BY <1>1, <1>2, <1>3, <1>4

\* Only the end of a sync, the marking of a payment, the insertion of a
\* receipt and a notification are not quiet.
LEMMA NoticeStep == IType /\ ISettle /\ INotice /\ [Next]_vars => INotice'
<1> SUFFICES ASSUME IType, ISettle, INotice, [Next]_vars PROVE INotice'
  OBVIOUS
<1> USE NoneAssumption
<1>0. Stays /\ (Quiet => INotice')
  BY BookedStays, QuietStep
<1>1. ASSUME NEW w \in Workers, SumPayments(w), UNCHANGED payVars
      PROVE  Quiet
  BY <1>1 DEF Quiet, IType, TypeOK, FeeTypeOK, tables, payVars, Goto, SumPayments, SuccessfulPayments
<1>2. ASSUME NEW w \in Workers, SumBursaries(w), UNCHANGED payVars
      PROVE  Quiet
  BY <1>2 DEF Quiet, IType, TypeOK, FeeTypeOK, tables, payVars, Goto, SumBursaries, ApprovedBursaries
<1>3. ASSUME NEW w \in Workers, FindClass(w), UNCHANGED payVars
      PROVE  Quiet
  BY <1>3 DEF Quiet, IType, TypeOK, FeeTypeOK, tables, payVars, Goto, FindClass
<1>4. ASSUME NEW w \in Workers, FindFee(w), UNCHANGED payVars
      PROVE  Quiet
  BY <1>4 DEF Quiet, IType, TypeOK, FeeTypeOK, tables, payVars, Goto, FindFee
<1>5. ASSUME NEW w \in Workers, NEW b \in Bursaries, NEW s \in Students, NEW t \in Terms \union {None},
           CreateBursaryApproval(w, b, s, t), UNCHANGED payVars
      PROVE  Quiet
  BY <1>5 DEF Quiet, IType, TypeOK, FeeTypeOK, tables, payVars, Goto, CreateBursaryApproval, CallSync
<1>6. ASSUME NEW c \in Classes, NEW t \in Terms, NEW amount \in Fees,
           CreateFeeStructure(c, t, amount), UNCHANGED payVars
      PROVE  Quiet
  BY <1>6 DEF Quiet, IType, TypeOK, FeeTypeOK, tables, payVars, Goto, CreateFeeStructure, Change
<1>7. ASSUME NEW c \in Classes, NEW t \in Terms, NEW amount \in Fees,
           UpdateFeeStructure(c, t, amount), UNCHANGED payVars
      PROVE  Quiet
  BY <1>7 DEF Quiet, IType, TypeOK, FeeTypeOK, tables, payVars, Goto, UpdateFeeStructure, Change
<1>8. ASSUME NEW s \in Students, NEW c \in Classes \union {None}, ChangeClass(s, c), UNCHANGED payVars
      PROVE  Quiet
  BY <1>8 DEF Quiet, IType, TypeOK, FeeTypeOK, tables, payVars, Goto, ChangeClass, Change
<1>9. ASSUME NEW c \in Classes, RemoveClass(c), UNCHANGED payVars
      PROVE  Quiet
  BY <1>9 DEF Quiet, IType, TypeOK, FeeTypeOK, tables, payVars, Goto, RemoveClass, Change
<1>10. ASSUME NEW w \in Workers, Abort(w), UNCHANGED payVars
      PROVE  Quiet
  BY <1>10 DEF Quiet, IType, TypeOK, FeeTypeOK, tables, payVars, Goto, Abort, Finish
<1>11. ASSUME NEW w \in Workers, InitializeAnswered(w)
      PROVE  Quiet
  BY <1>11 DEF Quiet, IType, TypeOK, FeeTypeOK, tables, payVars, Goto, InitializeAnswered
<1>12. ASSUME NEW w \in Workers, InitializeFailed(w)
      PROVE  Quiet
  BY <1>12 DEF Quiet, IType, TypeOK, FeeTypeOK, tables, payVars, Goto, InitializeFailed, Finish
<1>13. ASSUME NEW p \in Payments, Charge(p)
      PROVE  Quiet
  BY <1>13 DEF Quiet, IType, TypeOK, FeeTypeOK, tables, payVars, feeVars, Goto, Charge
<1>14. ASSUME NEW w \in Workers, NEW p \in Payments, Deliver(w, p)
      PROVE  Quiet
  BY <1>14 DEF Quiet, IType, TypeOK, FeeTypeOK, tables, payVars, Goto, Deliver
<1>15. ASSUME NEW w \in Workers, SkipProcessed(w)
      PROVE  Quiet
  BY <1>15 DEF Quiet, IType, TypeOK, FeeTypeOK, tables, payVars, Goto, SkipProcessed, Acknowledge, Finish
<1>16. ASSUME NEW w \in Workers, FindPayment(w)
      PROVE  Quiet
  BY <1>16 DEF Quiet, IType, TypeOK, FeeTypeOK, tables, payVars, Goto, FindPayment
<1>17. ASSUME NEW w \in Workers, ReceiptExists(w)
      PROVE  Quiet
  BY <1>17 DEF Quiet, IType, TypeOK, FeeTypeOK, tables, payVars, Goto, ReceiptExists, Finish
<1>18. ASSUME NEW w \in Workers, FinishBursary(w), UNCHANGED payVars
      PROVE  Quiet
  BY <1>18 DEF Quiet, IType, TypeOK, FeeTypeOK, payVars, Goto, FinishBursary, UpsertLedger
<1>19. ASSUME NEW w \in Workers, NEW p \in Payments, NEW s \in Students, NEW t \in Terms \union {None},
           CreatePending(w, p, s, t)
      PROVE  Quiet
  BY <1>19 DEF Quiet, IType, TypeOK, FeeTypeOK, payVars, Goto, CreatePending
<1>20. ASSUME NEW w \in Workers, StoreReference(w) \/ DeletePending(w)
      PROVE  Quiet
  BY <1>20 DEF Quiet, IType, TypeOK, FeeTypeOK, payVars, Goto, Finish, StoreReference, DeletePending
<1>21. CASE UNCHANGED vars
  <2>1. Quiet
    BY <1>21 DEF Quiet, vars, feeVars, payVars
  <2> QED BY <1>0, <2>1
<1>22. ASSUME NEW w \in Workers, FinishSync(w)
      PROVE  INotice'
  <2> DEFINE p == req[w].payment
  <2>1. /\ p \in Payments /\ payment[p].status = "success"
        /\ payment[p].student = req[w].student /\ payment[p].term = req[w].term
        /\ req[w].student \in Students /\ req[w].term \in Terms
    BY <1>22 DEF FinishSync, UpsertLedger, IType, TypeOK, FeeTypeOK, Request, RequestOK, ISettle, MarkedInv, SyncPcs
  <2>2. payment' = payment /\ ledger'[req[w].student][req[w].term].exists
    BY <1>22, <2>1 DEF FinishSync, UpsertLedger, IType, TypeOK, FeeTypeOK, LedgerRow
  <2>3. /\ pc' = [pc EXCEPT ![w] = "receipt"]
        /\ req'[w].payment = p
        /\ \A v \in Workers : v # w => req'[v] = req[v]
        /\ UNCHANGED <<receipts, notices>>
    BY <1>22 DEF FinishSync, UpsertLedger, Goto, Locals, payVars, IType, TypeOK, FeeTypeOK
  <2>4. (RowExists(p))'
    BY <2>1, <2>2, <2>3 DEF RowExists
  <2>5. \A v \in Workers : pc[v] \in {"receipt", "notify"} =>
           req[v].payment \in Payments /\ payment[req[v].payment].status = "success"
    BY DEF IType, RequestOK, PaymentPcs, ISettle, MarkedInv
  <2>6. LedgerExistsInv'
    BY <1>0, <2>3, <2>4, <2>5 DEF LedgerExistsInv, INotice, Stays, IType, TypeOK, FeeTypeOK
  <2>7. ReceiptAfterLedger'
    BY <1>0, <2>3, ReceiptStays
  <2>8. NoticeInv'
    BY <2>3 DEF NoticeInv, INotice, IType, TypeOK, FeeTypeOK
  <2>9. NotifiedOnce'
    BY <2>3 DEF NotifiedOnce, INotice
  <2> QED
    BY <2>6, <2>7, <2>8, <2>9 DEF INotice
<1>23. ASSUME NEW w \in Workers, MarkSuccess(w)
      PROVE  INotice'
  <2> DEFINE p == req[w].payment
  <2>1. p \in Payments
    BY <1>23 DEF MarkSuccess, IType, RequestOK, PaymentPcs
  <2>2. /\ UNCHANGED <<receipts, notices>>
        /\ \A v \in Workers : v # w => pc'[v] = pc[v] /\ req'[v] = req[v]
        /\ pc'[w] # "notify"
        /\ pc'[w] = "receipt" => payment[p].term = None /\ req'[w] = req[w]
    BY <1>23 DEF MarkSuccess, CallSync, Goto, payVars, IType, TypeOK, FeeTypeOK
  <2>3. payment'[p].term = payment[p].term
    BY <1>23, <2>1 DEF MarkSuccess, IType, TypeOK, FeeTypeOK, PaymentRow
  <2>4. \A v \in Workers : pc[v] \in {"receipt", "notify"} =>
           req[v].payment \in Payments /\ payment[req[v].payment].status = "success"
    BY DEF IType, RequestOK, PaymentPcs, ISettle, MarkedInv
  <2>5. pc'[w] = "receipt" => RowExists(p)'
    BY <2>2, <2>3 DEF RowExists
  <2>6. LedgerExistsInv'
    BY <1>0, <2>2, <2>4, <2>5 DEF LedgerExistsInv, INotice, Stays
  <2>7. ReceiptAfterLedger'
    BY <1>0, <2>2, ReceiptStays
  <2>8. NoticeInv'
    BY <2>2 DEF NoticeInv, INotice
  <2>9. NotifiedOnce'
    BY <2>2 DEF NotifiedOnce, INotice
  <2> QED
    BY <2>6, <2>7, <2>8, <2>9 DEF INotice
<1>24. ASSUME NEW w \in Workers, CreateReceipt(w)
      PROVE  INotice'
  <2> DEFINE p == req[w].payment
  <2>1. /\ p \in Payments /\ payment[p].status = "success"
        /\ RowExists(p) /\ notices[p] = 0 /\ p \notin receipts
    BY <1>24 DEF CreateReceipt, IType, TypeOK, PayTypeOK, RequestOK, PaymentPcs, ISettle, MarkedInv, INotice, LedgerExistsInv, NotifiedOnce
  <2>2. /\ receipts' = receipts \union {p}
        /\ pc' = [pc EXCEPT ![w] = "notify"]
        /\ UNCHANGED <<payment, ledger, req, notices>>
    BY <1>24 DEF CreateReceipt, Goto, tables
  <2>3. LedgerExistsInv'
    BY <1>24, <2>2 DEF LedgerExistsInv, RowExists, INotice, CreateReceipt, IType, TypeOK, FeeTypeOK
  <2>4. ReceiptAfterLedger'
    BY <2>1, <2>2 DEF ReceiptAfterLedger, RowExists, INotice
  <2>5. NoticeInv'
    BY <2>1, <2>2 DEF NoticeInv, INotice, IType, TypeOK, FeeTypeOK
  <2>6. NotifiedOnce'
    BY <2>2 DEF NotifiedOnce, INotice
  <2> QED
    BY <2>3, <2>4, <2>5, <2>6 DEF INotice
<1>25. ASSUME NEW w \in Workers, Notify(w)
      PROVE  INotice'
  <2> DEFINE p == req[w].payment
  <2>1. p \in receipts /\ notices[p] = 0 /\ p \in Payments
    BY <1>25 DEF Notify, INotice, NoticeInv, IType, RequestOK, PaymentPcs
  <2>2. /\ receipts' = receipts
        /\ notices' = [notices EXCEPT ![p] = @ + 1] \/ notices' = notices
        /\ pc' = [pc EXCEPT ![w] = "idle"]
        /\ req' = [req EXCEPT ![w] = NoRequest]
        /\ UNCHANGED <<payment, ledger>>
    BY <1>25 DEF Notify, Acknowledge, Finish, Goto, tables
  <2>3. LedgerExistsInv'
    BY <2>2 DEF LedgerExistsInv, RowExists, INotice, IType, TypeOK, FeeTypeOK
  <2>4. ReceiptAfterLedger'
    BY <2>2 DEF ReceiptAfterLedger, INotice
  <2>5. NoticeInv'
    <3>1. \A v \in Workers : pc'[v] = "notify" => pc[v] = "notify" /\ req'[v] = req[v] /\ v # w
      BY <2>2 DEF IType, TypeOK, FeeTypeOK
    <3>2. \A v \in Workers : pc'[v] = "notify" => req[v].payment # p
      BY <1>25, <3>1 DEF Notify, NoticeInv, INotice
    <3>3. \A q \in Payments : q # p => notices'[q] = notices[q]
      BY <2>2 DEF IType, TypeOK, PayTypeOK
    <3> QED
      BY <2>2, <3>1, <3>2, <3>3 DEF NoticeInv, INotice, IType, RequestOK, PaymentPcs
  <2>6. NotifiedOnce'
    <3>1. \A q \in Payments : q # p => notices'[q] = notices[q]
      BY <2>2 DEF IType, TypeOK, PayTypeOK
    <3>2. notices'[p] \in {0, 1}
      BY <2>1, <2>2 DEF IType, TypeOK, PayTypeOK
    <3> QED
      BY <2>1, <2>2, <3>1, <3>2 DEF NotifiedOnce, INotice
  <2> QED
    BY <2>3, <2>4, <2>5, <2>6 DEF INotice
<1> QED
  BY <1>0, <1>1, <1>2, <1>3, <1>4, <1>5, <1>6, <1>7, <1>8, <1>9, <1>10, <1>11, <1>12, <1>13, <1>14, <1>15, <1>16, <1>17, <1>18, <1>19, <1>20, <1>21, <1>22, <1>23, <1>24, <1>25
     DEF Next, Advance, SyncRead, HandleWebhook, Initiate, Desk

-----------------------------------------------------------------------------

\* Sums stay sums of booked money, whatever other requests book meanwhile.
LEMMA LedgerStep == IType /\ ISettle /\ ILedger /\ [Next]_vars => ILedger'
<1> SUFFICES ASSUME IType, ISettle, ILedger, [Next]_vars PROVE ILedger'
  OBVIOUS
<1> USE NoneAssumption DEF IType, TypeOK, FeeTypeOK, PayTypeOK, PaymentRow, Request, ISettle, ILedger, RequestOK, WebhookPcs, PaymentPcs, SyncPcs, BursaryRow
<1>1. ASSUME NEW w \in Workers, SumPayments(w), UNCHANGED payVars
      PROVE  ILedger'
  <2>1. FrameSound'
    BY <1>1 DEF FrameSound, WebhookInv, SuccessfulPayments, ApprovedBursaries, tables, payVars, Goto, Locals, NoRequest, SumPayments, SuccessfulPayments
  <2>2. LedgerSound'
    BY <1>1 DEF LedgerSound, FrameSound, LedgerRow, WebhookInv, SuccessfulPayments, ApprovedBursaries, tables, payVars, Goto, Locals, NoRequest, SumPayments, SuccessfulPayments
  <2>3. OwnPaymentSummed'
    <3>1. req[w].payment # None =>
             req[w].payment \in SuccessfulPayments(req[w].student, req[w].term)
      BY <1>1 DEF SumPayments, MarkedInv, SuccessfulPayments
    <3>2. /\ req'[w].payment = req[w].payment
          /\ req'[w].paid = SuccessfulPayments(req[w].student, req[w].term)
          /\ \A v \in Workers : v # w => req'[v] = req[v] /\ pc'[v] = pc[v]
      BY <1>1 DEF SumPayments, Goto
    <3> QED
      BY <3>1, <3>2 DEF OwnPaymentSummed
  <2> QED
    BY <2>1, <2>2, <2>3 DEF ILedger
<1>2. ASSUME NEW w \in Workers, SumBursaries(w), UNCHANGED payVars
      PROVE  ILedger'
  <2>1. FrameSound'
    BY <1>2 DEF FrameSound, WebhookInv, SuccessfulPayments, ApprovedBursaries, tables, payVars, Goto, Locals, NoRequest, SumBursaries, ApprovedBursaries
  <2>2. LedgerSound'
    BY <1>2 DEF LedgerSound, FrameSound, LedgerRow, WebhookInv, SuccessfulPayments, ApprovedBursaries, tables, payVars, Goto, Locals, NoRequest, SumBursaries, ApprovedBursaries
  <2>3. OwnPaymentSummed'
    BY <1>2 DEF OwnPaymentSummed, MarkedInv, SuccessfulPayments, tables, payVars, Goto, Locals, NoRequest, SumBursaries, ApprovedBursaries
  <2> QED
    BY <2>1, <2>2, <2>3 DEF ILedger
<1>3. ASSUME NEW w \in Workers, FindClass(w), UNCHANGED payVars
      PROVE  ILedger'
  <2>1. FrameSound'
    BY <1>3 DEF FrameSound, WebhookInv, SuccessfulPayments, ApprovedBursaries, tables, payVars, Goto, Locals, NoRequest, FindClass
  <2>2. LedgerSound'
    BY <1>3 DEF LedgerSound, FrameSound, LedgerRow, WebhookInv, SuccessfulPayments, ApprovedBursaries, tables, payVars, Goto, Locals, NoRequest, FindClass
  <2>3. OwnPaymentSummed'
    BY <1>3 DEF OwnPaymentSummed, MarkedInv, SuccessfulPayments, tables, payVars, Goto, Locals, NoRequest, FindClass
  <2> QED
    BY <2>1, <2>2, <2>3 DEF ILedger
<1>4. ASSUME NEW w \in Workers, FindFee(w), UNCHANGED payVars
      PROVE  ILedger'
  <2>1. FrameSound'
    BY <1>4 DEF FrameSound, WebhookInv, SuccessfulPayments, ApprovedBursaries, tables, payVars, Goto, Locals, NoRequest, FindFee
  <2>2. LedgerSound'
    BY <1>4 DEF LedgerSound, FrameSound, LedgerRow, WebhookInv, SuccessfulPayments, ApprovedBursaries, tables, payVars, Goto, Locals, NoRequest, FindFee
  <2>3. OwnPaymentSummed'
    BY <1>4 DEF OwnPaymentSummed, MarkedInv, SuccessfulPayments, tables, payVars, Goto, Locals, NoRequest, FindFee
  <2> QED
    BY <2>1, <2>2, <2>3 DEF ILedger
<1>5. ASSUME NEW w \in Workers, FinishBursary(w), UNCHANGED payVars
      PROVE  ILedger'
  <2>1. FrameSound'
    BY <1>5 DEF FrameSound, WebhookInv, SuccessfulPayments, ApprovedBursaries, tables, payVars, Goto, Locals, NoRequest, FinishBursary, UpsertLedger
  <2>2. LedgerSound'
    BY <1>5 DEF LedgerSound, FrameSound, LedgerRow, WebhookInv, SuccessfulPayments, ApprovedBursaries, tables, payVars, Goto, Locals, NoRequest, FinishBursary, UpsertLedger
  <2>3. OwnPaymentSummed'
    BY <1>5 DEF OwnPaymentSummed, MarkedInv, SuccessfulPayments, tables, payVars, Goto, Locals, NoRequest, FinishBursary, UpsertLedger
  <2> QED
    BY <2>1, <2>2, <2>3 DEF ILedger
<1>6. ASSUME NEW w \in Workers, FinishSync(w)
      PROVE  ILedger'
  <2>1. FrameSound'
    BY <1>6 DEF FrameSound, WebhookInv, SuccessfulPayments, ApprovedBursaries, tables, payVars, Goto, Locals, NoRequest, FinishSync, UpsertLedger
  <2>2. LedgerSound'
    BY <1>6 DEF LedgerSound, FrameSound, LedgerRow, WebhookInv, SuccessfulPayments, ApprovedBursaries, tables, payVars, Goto, Locals, NoRequest, FinishSync, UpsertLedger
  <2>3. OwnPaymentSummed'
    BY <1>6 DEF OwnPaymentSummed, MarkedInv, SuccessfulPayments, tables, payVars, Goto, Locals, NoRequest, FinishSync, UpsertLedger
  <2> QED
    BY <2>1, <2>2, <2>3 DEF ILedger
<1>7. ASSUME NEW w \in Workers, NEW b \in Bursaries, NEW s \in Students, NEW t \in Terms \union {None},
           CreateBursaryApproval(w, b, s, t), UNCHANGED payVars
      PROVE  ILedger'
  <2>1. FrameSound'
    BY <1>7 DEF FrameSound, WebhookInv, SuccessfulPayments, ApprovedBursaries, tables, payVars, Goto, Locals, NoRequest, CreateBursaryApproval, CallSync
  <2>2. LedgerSound'
    BY <1>7 DEF LedgerSound, FrameSound, LedgerRow, WebhookInv, SuccessfulPayments, ApprovedBursaries, tables, payVars, Goto, Locals, NoRequest, CreateBursaryApproval, CallSync
  <2>3. OwnPaymentSummed'
    BY <1>7 DEF OwnPaymentSummed, MarkedInv, SuccessfulPayments, tables, payVars, Goto, Locals, NoRequest, CreateBursaryApproval, CallSync
  <2> QED
    BY <2>1, <2>2, <2>3 DEF ILedger
<1>8. ASSUME NEW c \in Classes, NEW t \in Terms, NEW amount \in Fees,
           CreateFeeStructure(c, t, amount), UNCHANGED payVars
      PROVE  ILedger'
  <2>1. FrameSound'
    BY <1>8 DEF FrameSound, WebhookInv, SuccessfulPayments, ApprovedBursaries, tables, payVars, Goto, Locals, NoRequest, CreateFeeStructure, Change
  <2>2. LedgerSound'
    BY <1>8 DEF LedgerSound, FrameSound, LedgerRow, WebhookInv, SuccessfulPayments, ApprovedBursaries, tables, payVars, Goto, Locals, NoRequest, CreateFeeStructure, Change
  <2>3. OwnPaymentSummed'
    BY <1>8 DEF OwnPaymentSummed, MarkedInv, SuccessfulPayments, tables, payVars, Goto, Locals, NoRequest, CreateFeeStructure, Change
  <2> QED
    BY <2>1, <2>2, <2>3 DEF ILedger
<1>9. ASSUME NEW c \in Classes, NEW t \in Terms, NEW amount \in Fees,
           UpdateFeeStructure(c, t, amount), UNCHANGED payVars
      PROVE  ILedger'
  <2>1. FrameSound'
    BY <1>9 DEF FrameSound, WebhookInv, SuccessfulPayments, ApprovedBursaries, tables, payVars, Goto, Locals, NoRequest, UpdateFeeStructure, Change
  <2>2. LedgerSound'
    BY <1>9 DEF LedgerSound, FrameSound, LedgerRow, WebhookInv, SuccessfulPayments, ApprovedBursaries, tables, payVars, Goto, Locals, NoRequest, UpdateFeeStructure, Change
  <2>3. OwnPaymentSummed'
    BY <1>9 DEF OwnPaymentSummed, MarkedInv, SuccessfulPayments, tables, payVars, Goto, Locals, NoRequest, UpdateFeeStructure, Change
  <2> QED
    BY <2>1, <2>2, <2>3 DEF ILedger
<1>10. ASSUME NEW s \in Students, NEW c \in Classes \union {None}, ChangeClass(s, c), UNCHANGED payVars
      PROVE  ILedger'
  <2>1. FrameSound'
    BY <1>10 DEF FrameSound, WebhookInv, SuccessfulPayments, ApprovedBursaries, tables, payVars, Goto, Locals, NoRequest, ChangeClass, Change
  <2>2. LedgerSound'
    BY <1>10 DEF LedgerSound, FrameSound, LedgerRow, WebhookInv, SuccessfulPayments, ApprovedBursaries, tables, payVars, Goto, Locals, NoRequest, ChangeClass, Change
  <2>3. OwnPaymentSummed'
    BY <1>10 DEF OwnPaymentSummed, MarkedInv, SuccessfulPayments, tables, payVars, Goto, Locals, NoRequest, ChangeClass, Change
  <2> QED
    BY <2>1, <2>2, <2>3 DEF ILedger
<1>11. ASSUME NEW c \in Classes, RemoveClass(c), UNCHANGED payVars
      PROVE  ILedger'
  <2>1. FrameSound'
    BY <1>11 DEF FrameSound, WebhookInv, SuccessfulPayments, ApprovedBursaries, tables, payVars, Goto, Locals, NoRequest, RemoveClass, Change
  <2>2. LedgerSound'
    BY <1>11 DEF LedgerSound, FrameSound, LedgerRow, WebhookInv, SuccessfulPayments, ApprovedBursaries, tables, payVars, Goto, Locals, NoRequest, RemoveClass, Change
  <2>3. OwnPaymentSummed'
    BY <1>11 DEF OwnPaymentSummed, MarkedInv, SuccessfulPayments, tables, payVars, Goto, Locals, NoRequest, RemoveClass, Change
  <2> QED
    BY <2>1, <2>2, <2>3 DEF ILedger
<1>12. ASSUME NEW w \in Workers, Abort(w), UNCHANGED payVars
      PROVE  ILedger'
  <2>1. FrameSound'
    BY <1>12 DEF FrameSound, WebhookInv, SuccessfulPayments, ApprovedBursaries, tables, payVars, Goto, Locals, NoRequest, Abort, Finish
  <2>2. LedgerSound'
    BY <1>12 DEF LedgerSound, FrameSound, LedgerRow, WebhookInv, SuccessfulPayments, ApprovedBursaries, tables, payVars, Goto, Locals, NoRequest, Abort, Finish
  <2>3. OwnPaymentSummed'
    BY <1>12 DEF OwnPaymentSummed, MarkedInv, SuccessfulPayments, tables, payVars, Goto, Locals, NoRequest, Abort, Finish
  <2> QED
    BY <2>1, <2>2, <2>3 DEF ILedger
<1>13. ASSUME NEW w \in Workers, NEW p \in Payments, NEW s \in Students, NEW t \in Terms \union {None},
           CreatePending(w, p, s, t)
      PROVE  ILedger'
  <2>1. FrameSound'
    BY <1>13 DEF FrameSound, WebhookInv, SuccessfulPayments, ApprovedBursaries, tables, payVars, Goto, Locals, NoRequest, CreatePending
  <2>2. LedgerSound'
    BY <1>13 DEF LedgerSound, FrameSound, LedgerRow, WebhookInv, SuccessfulPayments, ApprovedBursaries, tables, payVars, Goto, Locals, NoRequest, CreatePending
  <2>3. OwnPaymentSummed'
    BY <1>13 DEF OwnPaymentSummed, MarkedInv, SuccessfulPayments, tables, payVars, Goto, Locals, NoRequest, CreatePending
  <2> QED
    BY <2>1, <2>2, <2>3 DEF ILedger
<1>14. ASSUME NEW w \in Workers, InitializeAnswered(w)
      PROVE  ILedger'
  <2>1. FrameSound'
    BY <1>14 DEF FrameSound, WebhookInv, SuccessfulPayments, ApprovedBursaries, tables, payVars, Goto, Locals, NoRequest, InitializeAnswered
  <2>2. LedgerSound'
    BY <1>14 DEF LedgerSound, FrameSound, LedgerRow, WebhookInv, SuccessfulPayments, ApprovedBursaries, tables, payVars, Goto, Locals, NoRequest, InitializeAnswered
  <2>3. OwnPaymentSummed'
    BY <1>14 DEF OwnPaymentSummed, MarkedInv, SuccessfulPayments, tables, payVars, Goto, Locals, NoRequest, InitializeAnswered
  <2> QED
    BY <2>1, <2>2, <2>3 DEF ILedger
<1>15. ASSUME NEW w \in Workers, InitializeFailed(w)
      PROVE  ILedger'
  <2>1. FrameSound'
    BY <1>15 DEF FrameSound, WebhookInv, SuccessfulPayments, ApprovedBursaries, tables, payVars, Goto, Locals, NoRequest, InitializeFailed, Finish
  <2>2. LedgerSound'
    BY <1>15 DEF LedgerSound, FrameSound, LedgerRow, WebhookInv, SuccessfulPayments, ApprovedBursaries, tables, payVars, Goto, Locals, NoRequest, InitializeFailed, Finish
  <2>3. OwnPaymentSummed'
    BY <1>15 DEF OwnPaymentSummed, MarkedInv, SuccessfulPayments, tables, payVars, Goto, Locals, NoRequest, InitializeFailed, Finish
  <2> QED
    BY <2>1, <2>2, <2>3 DEF ILedger
<1>16. ASSUME NEW w \in Workers, StoreReference(w)
      PROVE  ILedger'
  <2>1. FrameSound'
    BY <1>16 DEF FrameSound, WebhookInv, SuccessfulPayments, ApprovedBursaries, tables, payVars, Goto, Locals, NoRequest, StoreReference, Finish
  <2>2. LedgerSound'
    BY <1>16 DEF LedgerSound, FrameSound, LedgerRow, WebhookInv, SuccessfulPayments, ApprovedBursaries, tables, payVars, Goto, Locals, NoRequest, StoreReference, Finish
  <2>3. OwnPaymentSummed'
    BY <1>16 DEF OwnPaymentSummed, MarkedInv, SuccessfulPayments, tables, payVars, Goto, Locals, NoRequest, StoreReference, Finish
  <2> QED
    BY <2>1, <2>2, <2>3 DEF ILedger
<1>17. ASSUME NEW w \in Workers, DeletePending(w)
      PROVE  ILedger'
  <2>1. FrameSound'
    <3>1. /\ req[w].payment \in Payments
          /\ payment[req[w].payment].status = "pending"
      BY <1>17 DEF DeletePending, InitiateInv, InitiatePcs
    <3>2. /\ \A p \in Payments : p # req[w].payment => payment'[p] = payment[p]
          /\ UNCHANGED <<bursary, ledger>>
      BY <1>17, <3>1 DEF DeletePending
    <3>3. \A s, t : /\ SuccessfulPayments(s, t) \subseteq SuccessfulPayments(s, t)'
                   /\ ApprovedBursaries(s, t)' = ApprovedBursaries(s, t)
      BY <3>1, <3>2 DEF SuccessfulPayments, ApprovedBursaries
    <3>4. \A v \in Workers : pc'[v] \in SyncPcs => pc'[v] = pc[v] /\ req'[v] = req[v]
      BY <1>17 DEF DeletePending, Finish, Goto
    <3> QED
      BY <3>3, <3>4 DEF FrameSound
  <2>2. LedgerSound'
    <3>1. /\ req[w].payment \in Payments
          /\ payment[req[w].payment].status = "pending"
      BY <1>17 DEF DeletePending, InitiateInv, InitiatePcs
    <3>2. /\ \A p \in Payments : p # req[w].payment => payment'[p] = payment[p]
          /\ UNCHANGED <<bursary, ledger>>
      BY <1>17, <3>1 DEF DeletePending
    <3>3. \A s, t : /\ SuccessfulPayments(s, t) \subseteq SuccessfulPayments(s, t)'
                   /\ ApprovedBursaries(s, t)' = ApprovedBursaries(s, t)
      BY <3>1, <3>2 DEF SuccessfulPayments, ApprovedBursaries
    <3> QED
      BY <3>2, <3>3 DEF LedgerSound
  <2>3. OwnPaymentSummed'
    BY <1>17 DEF OwnPaymentSummed, MarkedInv, SuccessfulPayments, tables, payVars, Goto, Locals, NoRequest, DeletePending, Finish
  <2> QED
    BY <2>1, <2>2, <2>3 DEF ILedger
<1>18. ASSUME NEW p \in Payments, Charge(p)
      PROVE  ILedger'
  <2>1. FrameSound'
    BY <1>18 DEF FrameSound, WebhookInv, SuccessfulPayments, ApprovedBursaries, tables, payVars, feeVars, Goto, Locals, NoRequest, Charge
  <2>2. LedgerSound'
    BY <1>18 DEF LedgerSound, FrameSound, LedgerRow, WebhookInv, SuccessfulPayments, ApprovedBursaries, tables, payVars, feeVars, Goto, Locals, NoRequest, Charge
  <2>3. OwnPaymentSummed'
    BY <1>18 DEF OwnPaymentSummed, MarkedInv, SuccessfulPayments, tables, payVars, feeVars, Goto, Locals, NoRequest, Charge
  <2> QED
    BY <2>1, <2>2, <2>3 DEF ILedger
<1>19. ASSUME NEW w \in Workers, NEW p \in Payments, Deliver(w, p)
      PROVE  ILedger'
  <2>1. FrameSound'
    BY <1>19 DEF FrameSound, WebhookInv, SuccessfulPayments, ApprovedBursaries, tables, payVars, Goto, Locals, NoRequest, Deliver
  <2>2. LedgerSound'
    BY <1>19 DEF LedgerSound, FrameSound, LedgerRow, WebhookInv, SuccessfulPayments, ApprovedBursaries, tables, payVars, Goto, Locals, NoRequest, Deliver
  <2>3. OwnPaymentSummed'
    BY <1>19 DEF OwnPaymentSummed, MarkedInv, SuccessfulPayments, tables, payVars, Goto, Locals, NoRequest, Deliver
  <2> QED
    BY <2>1, <2>2, <2>3 DEF ILedger
<1>20. ASSUME NEW w \in Workers, SkipProcessed(w)
      PROVE  ILedger'
  <2>1. FrameSound'
    BY <1>20 DEF FrameSound, WebhookInv, SuccessfulPayments, ApprovedBursaries, tables, payVars, Goto, Locals, NoRequest, SkipProcessed, Acknowledge, Finish
  <2>2. LedgerSound'
    BY <1>20 DEF LedgerSound, FrameSound, LedgerRow, WebhookInv, SuccessfulPayments, ApprovedBursaries, tables, payVars, Goto, Locals, NoRequest, SkipProcessed, Acknowledge, Finish
  <2>3. OwnPaymentSummed'
    BY <1>20 DEF OwnPaymentSummed, MarkedInv, SuccessfulPayments, tables, payVars, Goto, Locals, NoRequest, SkipProcessed, Acknowledge, Finish
  <2> QED
    BY <2>1, <2>2, <2>3 DEF ILedger
<1>21. ASSUME NEW w \in Workers, FindPayment(w)
      PROVE  ILedger'
  <2>1. FrameSound'
    BY <1>21 DEF FrameSound, WebhookInv, SuccessfulPayments, ApprovedBursaries, tables, payVars, Goto, Locals, NoRequest, FindPayment
  <2>2. LedgerSound'
    BY <1>21 DEF LedgerSound, FrameSound, LedgerRow, WebhookInv, SuccessfulPayments, ApprovedBursaries, tables, payVars, Goto, Locals, NoRequest, FindPayment
  <2>3. OwnPaymentSummed'
    BY <1>21 DEF OwnPaymentSummed, MarkedInv, SuccessfulPayments, tables, payVars, Goto, Locals, NoRequest, FindPayment
  <2> QED
    BY <2>1, <2>2, <2>3 DEF ILedger
<1>22. ASSUME NEW w \in Workers, MarkSuccess(w)
      PROVE  ILedger'
  <2>1. FrameSound'
    BY <1>22 DEF FrameSound, WebhookInv, SuccessfulPayments, ApprovedBursaries, tables, payVars, Goto, Locals, NoRequest, MarkSuccess, CallSync
  <2>2. LedgerSound'
    BY <1>22 DEF LedgerSound, FrameSound, LedgerRow, WebhookInv, SuccessfulPayments, ApprovedBursaries, tables, payVars, Goto, Locals, NoRequest, MarkSuccess, CallSync
  <2>3. OwnPaymentSummed'
    BY <1>22 DEF OwnPaymentSummed, MarkedInv, SuccessfulPayments, tables, payVars, Goto, Locals, NoRequest, MarkSuccess, CallSync
  <2> QED
    BY <2>1, <2>2, <2>3 DEF ILedger
<1>23. ASSUME NEW w \in Workers, CreateReceipt(w)
      PROVE  ILedger'
  <2>1. FrameSound'
    BY <1>23 DEF FrameSound, WebhookInv, SuccessfulPayments, ApprovedBursaries, tables, payVars, Goto, Locals, NoRequest, CreateReceipt
  <2>2. LedgerSound'
    BY <1>23 DEF LedgerSound, FrameSound, LedgerRow, WebhookInv, SuccessfulPayments, ApprovedBursaries, tables, payVars, Goto, Locals, NoRequest, CreateReceipt
  <2>3. OwnPaymentSummed'
    BY <1>23 DEF OwnPaymentSummed, MarkedInv, SuccessfulPayments, tables, payVars, Goto, Locals, NoRequest, CreateReceipt
  <2> QED
    BY <2>1, <2>2, <2>3 DEF ILedger
<1>24. ASSUME NEW w \in Workers, ReceiptExists(w)
      PROVE  ILedger'
  <2>1. FrameSound'
    BY <1>24 DEF FrameSound, WebhookInv, SuccessfulPayments, ApprovedBursaries, tables, payVars, Goto, Locals, NoRequest, ReceiptExists, Finish
  <2>2. LedgerSound'
    BY <1>24 DEF LedgerSound, FrameSound, LedgerRow, WebhookInv, SuccessfulPayments, ApprovedBursaries, tables, payVars, Goto, Locals, NoRequest, ReceiptExists, Finish
  <2>3. OwnPaymentSummed'
    BY <1>24 DEF OwnPaymentSummed, MarkedInv, SuccessfulPayments, tables, payVars, Goto, Locals, NoRequest, ReceiptExists, Finish
  <2> QED
    BY <2>1, <2>2, <2>3 DEF ILedger
<1>25. ASSUME NEW w \in Workers, Notify(w)
      PROVE  ILedger'
  <2>1. FrameSound'
    BY <1>25 DEF FrameSound, WebhookInv, SuccessfulPayments, ApprovedBursaries, tables, payVars, Goto, Locals, NoRequest, Notify, Acknowledge, Finish
  <2>2. LedgerSound'
    BY <1>25 DEF LedgerSound, FrameSound, LedgerRow, WebhookInv, SuccessfulPayments, ApprovedBursaries, tables, payVars, Goto, Locals, NoRequest, Notify, Acknowledge, Finish
  <2>3. OwnPaymentSummed'
    BY <1>25 DEF OwnPaymentSummed, MarkedInv, SuccessfulPayments, tables, payVars, Goto, Locals, NoRequest, Notify, Acknowledge, Finish
  <2> QED
    BY <2>1, <2>2, <2>3 DEF ILedger
<1>26. CASE UNCHANGED vars
  BY <1>26 DEF vars, feeVars, payVars, ILedger, FrameSound, WebhookInv, SuccessfulPayments, ApprovedBursaries, LedgerSound, FrameSound, LedgerRow, WebhookInv, SuccessfulPayments, ApprovedBursaries, OwnPaymentSummed, MarkedInv, SuccessfulPayments
<1> QED
  BY <1>1, <1>2, <1>3, <1>4, <1>5, <1>6, <1>7, <1>8, <1>9, <1>10, <1>11, <1>12, <1>13, <1>14, <1>15, <1>16, <1>17, <1>18, <1>19, <1>20, <1>21, <1>22, <1>23, <1>24, <1>25, <1>26
     DEF Next, Advance, SyncRead, HandleWebhook, Initiate, Desk

-----------------------------------------------------------------------------

\* The initial tables have no payment, so that everything holds of none.
LEMMA InvInit == Init => IInv
<1> SUFFICES ASSUME Init PROVE IInv
  OBVIOUS
<1>1. IType
  BY TypeInit
<1>2. \A w \in Workers : pc[w] = "idle"
  BY DEF Init, FeeInit
<1>3. \A p \in Payments : payment[p].status = "absent" /\ ~payment[p].ref
  BY DEF Init, FeeInit
<1>4. ISettle
  BY <1>2, <1>3 DEF ISettle, InitiateInv, WebhookInv, MarkedInv, InitiatePcs, WebhookPcs, SyncPcs, Init
<1>5. INotice
  BY <1>2 DEF INotice, LedgerExistsInv, ReceiptAfterLedger, NoticeInv, NotifiedOnce, Init
<1>6. ILedger
  BY <1>2 DEF ILedger, FrameSound, LedgerSound, OwnPaymentSummed, SyncPcs, Init, FeeInit
<1> QED
  BY <1>1, <1>4, <1>5, <1>6 DEF IInv

\* The inductive invariant holds in every reachable state.
THEOREM InvariantHolds == Spec => []IInv
<1>1. IInv /\ [Next]_vars => IInv'
  BY TypeStep, SettleStep, NoticeStep, LedgerStep DEF IInv
<1> QED
  BY InvInit, <1>1, PTL DEF Spec

\* Every table holds rows of its type and every request is at one of its calls.
THEOREM TypeCorrect == Spec => []TypeOK
<1>1. IInv => TypeOK
  BY DEF IInv, IType
<1> QED
  BY InvariantHolds, <1>1, PTL

\* No interleaving of webhooks, bursary approvals, fee edits and dying requests
\* credits a ledger with money that was not paid or granted for it (syncLedger).
THEOREM LedgerNeverOvercredits == Spec => []LedgerSound
<1>1. IInv => LedgerSound
  BY DEF IInv, ILedger
<1> QED
  BY InvariantHolds, <1>1, PTL

\* However often Paystack delivers an event, and however many deliveries are
\* handled at once, a payment is announced at most once, after its receipt.
THEOREM AnnouncedOnce == Spec => []NotifiedOnce
<1>1. IInv => NotifiedOnce
  BY DEF IInv, INotice
<1> QED
  BY InvariantHolds, <1>1, PTL

\* Only charged payments are booked, and the row of a charged payment is never
\* deleted by the clean-up of initiate.
THEOREM BooksAgreeWithPaystack == Spec => []BooksFollowPaystack
<1>1. IInv => BooksFollowPaystack
  BY DEF IInv, ISettle, WebhookInv, BooksFollowPaystack
<1> QED
  BY InvariantHolds, <1>1, PTL

\* A receipt is inserted only behind the ledger row of its payment.
THEOREM ReceiptsFollowLedger == Spec => []ReceiptAfterLedger
<1>1. IInv => ReceiptAfterLedger
  BY DEF IInv, INotice
<1> QED
  BY InvariantHolds, <1>1, PTL

\* Receipts are only ever inserted.
LEMMA ReceiptsGrow == [Next]_vars => receipts \subseteq receipts'
<1> SUFFICES ASSUME [Next]_vars PROVE receipts \subseteq receipts'
  OBVIOUS
<1>1. ASSUME NEW w \in Workers, Advance(w) PROVE receipts \subseteq receipts'
  BY <1>1 DEF Advance, Initiate, HandleWebhook, payVars, InitializeAnswered, InitializeFailed,
     StoreReference, DeletePending, SkipProcessed, FindPayment, MarkSuccess, FinishSync,
     CreateReceipt, ReceiptExists, Notify
<1> QED
  BY <1>1 DEF Next, payVars, CreatePending, Charge, Deliver, vars

\* A successful payment keeps its row and its receipt for good.
THEOREM SuccessStays == Spec => SuccessIsFinal
<1>1. IInv /\ [Next]_vars =>
        [/\ \A p \in Payments : payment[p].status = "success" => payment'[p] = payment[p]
         /\ receipts \subseteq receipts']_vars
  BY BookedStays, ReceiptsGrow DEF IInv, Stays
<1> QED
  BY InvariantHolds, <1>1, PTL DEF Spec, SuccessIsFinal

\* A webhook's sync credits the webhook's own payment, since it marks the
\* payment before it sums.
THEOREM OwnPaymentIsCredited == Spec => OwnPaymentCredited
<1> DEFINE Own == \A w \in Workers :
                     pc[w] = "upsert" /\ pc'[w] = "receipt" =>
                        LET p == req[w].payment
                        IN  p \in ledger'[payment[p].student][payment[p].term].credits
<1>1. IInv /\ [Next]_vars => [Own]_vars
  <2> SUFFICES ASSUME IInv, Next, NEW w \in Workers, pc[w] = "upsert", pc'[w] = "receipt"
               PROVE  LET p == req[w].payment
                      IN  p \in ledger'[payment[p].student][payment[p].term].credits
    OBVIOUS
  <2> USE DEF Goto, Finish, CallSync, Acknowledge
  <2>1. pc \in [Workers -> {"idle"} \union SyncPcs \union PaymentPcs]
    BY DEF IInv, IType, TypeOK, FeeTypeOK
  <2>2. ASSUME NEW v \in Workers, Advance(v) PROVE FinishSync(w)
    <3>1. CASE v = w
      BY <2>1, <2>2, <3>1 DEF Advance, Initiate, HandleWebhook, SyncRead, SumPayments, SumBursaries,
         FindClass, FindFee, FinishBursary, UpsertLedger, InitializeAnswered, InitializeFailed,
         StoreReference, DeletePending, SkipProcessed, FindPayment, MarkSuccess, CreateReceipt,
         ReceiptExists, Notify
    <3>2. CASE v # w
      <4>1. \E next : pc' = [pc EXCEPT ![v] = next]
        BY <2>2 DEF Advance, Initiate, HandleWebhook, SyncRead, SumPayments, SumBursaries,
           FindClass, FindFee, FinishBursary, UpsertLedger, InitializeAnswered, InitializeFailed,
           StoreReference, DeletePending, SkipProcessed, FindPayment, MarkSuccess, FinishSync,
           CreateReceipt, ReceiptExists, Notify
      <4> QED
        BY <2>1, <3>2, <4>1
    <3> QED
      BY <3>1, <3>2
  <2>3. ASSUME NEW v \in Workers, Abort(v) PROVE FALSE
    BY <2>1, <2>3 DEF Abort
  <2>4. ASSUME NEW v \in Workers, NEW p \in Payments, NEW s \in Students, NEW t \in Terms \union {None},
               CreatePending(v, p, s, t)
        PROVE  FALSE
    BY <2>1, <2>4 DEF CreatePending
  <2>5. ASSUME NEW p \in Payments, Charge(p) PROVE FALSE
    BY <2>1, <2>5 DEF Charge, feeVars
  <2>6. ASSUME NEW v \in Workers, NEW p \in Payments, Deliver(v, p) PROVE FALSE
    BY <2>1, <2>6 DEF Deliver
  <2>7. ASSUME Desk PROVE FALSE
    BY <2>1, <2>7 DEF Desk, CreateBursaryApproval, CreateFeeStructure, UpdateFeeStructure,
       ChangeClass, RemoveClass
  <2>8. FinishSync(w)
    BY <2>2, <2>3, <2>4, <2>5, <2>6, <2>7 DEF Next
  <2> QED
    BY <2>8 DEF FinishSync, UpsertLedger, IInv, IType, TypeOK, FeeTypeOK, RequestOK, LedgerRow, ISettle, MarkedInv,
       ILedger, OwnPaymentSummed, SyncPcs
<1> QED
  BY InvariantHolds, <1>1, PTL DEF Spec, OwnPaymentCredited

\* The payments component implements Settlement's safety: each step of a request,
\* of Paystack or of the office is one stage of one payment, or none at all.
THEOREM RefinesSettlement == Spec => ImplementsSettlementSafety
<1> DEFINE done == {p \in Payments : payment[p].status = "success"}
           still == UNCHANGED <<charged, done, receipts, notices>>
<1>1. Init => Promise!Init
  BY DEF Init, FeeInit, Promise!Init
<1>2. IInv /\ [Next]_vars => [Promise!Next]_(Promise!stages)
  <2> SUFFICES ASSUME IInv, [Next]_vars PROVE [Promise!Next]_(Promise!stages)
    OBVIOUS
  <2> USE DEF tables, payVars
  <2>1. TypeOK
    BY DEF IInv, IType
  <2>2. still => [Promise!Next]_(Promise!stages)
    BY DEF Promise!stages
  <2>3. UNCHANGED <<payment, charged, receipts, notices>> => still
    OBVIOUS
  <2>4. ASSUME NEW w \in Workers, NEW p \in Payments, NEW s \in Students, NEW t \in Terms \union {None},
               CreatePending(w, p, s, t)
        PROVE  still
    BY <2>1, <2>4 DEF CreatePending, TypeOK, FeeTypeOK, PaymentRow
  <2>5. ASSUME NEW w \in Workers, StoreReference(w) \/ DeletePending(w) PROVE still
    <3>1. req[w].payment \in Payments /\ payment[req[w].payment].status = "pending"
      BY <2>5 DEF StoreReference, DeletePending, IInv, IType, RequestOK, ISettle, InitiateInv,
         InitiatePcs, PaymentPcs
    <3>2. \A p \in Payments : p # req[w].payment => payment'[p] = payment[p]
      BY <2>1, <2>5 DEF StoreReference, DeletePending, TypeOK, FeeTypeOK
    <3>3. payment'[req[w].payment].status # "success"
      BY <2>1, <2>5, <3>1 DEF StoreReference, DeletePending, TypeOK, FeeTypeOK, PaymentRow
    <3> QED
      BY <2>5, <3>1, <3>2, <3>3 DEF StoreReference, DeletePending
  <2>6. ASSUME NEW p \in Payments, Charge(p) PROVE Promise!Next
    <3>1. Promise!Collect(p)
      BY <2>6 DEF Charge, feeVars, Promise!Collect
    <3> QED
      BY <3>1 DEF Promise!Next
  <2>7. ASSUME NEW w \in Workers, MarkSuccess(w) PROVE still \/ Promise!Next
    <3>1. PICK p \in charged : p = req[w].payment /\ p \in Payments
      BY <2>7 DEF MarkSuccess, IInv, IType, RequestOK, ISettle, WebhookInv, WebhookPcs, PaymentPcs
    <3>2. done' = done \union {p} /\ UNCHANGED <<charged, receipts, notices>>
      BY <2>1, <2>7, <3>1 DEF MarkSuccess, TypeOK, FeeTypeOK, PaymentRow
    <3>3. CASE p \in done
      BY <3>2, <3>3
    <3>4. CASE p \notin done
      <4>1. Promise!Settle(p)
        BY <3>1, <3>2, <3>4 DEF Promise!Settle
      <4> QED
        BY <3>1, <4>1 DEF Promise!Next
    <3> QED
      BY <3>3, <3>4
  <2>8. ASSUME NEW w \in Workers, CreateReceipt(w) PROVE Promise!Next
    <3> DEFINE p == req[w].payment
    <3>1. p \in Payments /\ p \in done
      BY <2>8 DEF CreateReceipt, IInv, IType, RequestOK, ISettle, MarkedInv, PaymentPcs
    <3>2. Promise!Receipt(p)
      BY <2>8, <3>1 DEF CreateReceipt, Promise!Receipt
    <3> QED
      BY <3>1, <3>2 DEF Promise!Next
  <2>9. ASSUME NEW w \in Workers, Notify(w) PROVE still \/ Promise!Next
    <3> DEFINE p == req[w].payment
    <3>1. p \in Payments /\ p \in receipts /\ notices[p] = 0
      BY <2>9 DEF Notify, IInv, IType, RequestOK, INotice, NoticeInv, PaymentPcs
    <3>2. CASE UNCHANGED notices
      BY <2>9, <3>2 DEF Notify
    <3>3. CASE notices' = [notices EXCEPT ![p] = @ + 1]
      <4>1. Promise!Announce(p)
        BY <2>9, <3>1, <3>3 DEF Notify, Promise!Announce
      <4> QED
        BY <3>1, <4>1 DEF Promise!Next
    <3> QED
      BY <2>9, <3>2, <3>3 DEF Notify
  <2>10. ASSUME NEW w \in Workers, Advance(w) PROVE still \/ Promise!Next
    <3>1. CASE Initiate(w)
      BY <2>3, <2>5, <3>1 DEF Initiate, InitializeAnswered, InitializeFailed
    <3>2. CASE HandleWebhook(w)
      BY <2>3, <2>7, <2>8, <2>9, <3>2 DEF HandleWebhook, SkipProcessed, FindPayment, FinishSync,
         UpsertLedger, ReceiptExists, Acknowledge
    <3>3. CASE (SyncRead(w) \/ FinishBursary(w)) /\ UNCHANGED payVars
      BY <2>3, <3>3 DEF SyncRead, SumPayments, SumBursaries, FindClass, FindFee, FinishBursary, UpsertLedger
    <3> QED
      BY <2>10, <3>1, <3>2, <3>3 DEF Advance
  <2>11. CASE UNCHANGED vars
    BY <2>2, <2>3, <2>11 DEF vars, feeVars
  <2>12. CASE Next
    <3>1. ASSUME NEW w \in Workers, Abort(w), UNCHANGED payVars PROVE still
      BY <2>3, <3>1 DEF Abort
    <3>2. ASSUME NEW w \in Workers, NEW p \in Payments, Deliver(w, p) PROVE still
      BY <2>3, <3>2 DEF Deliver
    <3>3. ASSUME Desk, UNCHANGED payVars PROVE still
      BY <2>3, <3>3 DEF Desk, CreateBursaryApproval, CreateFeeStructure, UpdateFeeStructure,
         ChangeClass, RemoveClass
    <3> QED
      BY <2>2, <2>4, <2>6, <2>10, <2>12, <3>1, <3>2, <3>3 DEF Next
  <2> QED
    BY <2>11, <2>12
<1> QED
  BY InvariantHolds, <1>1, <1>2, PTL DEF Spec, ImplementsSettlementSafety, Promise!SafeSpec

-----------------------------------------------------------------------------
(* Without two syncs of one row at a time the ledger is complete.           *)

\* No two requests sync the ledger row of one student and term at a time.  The
\* code sees to it in no way: it is what the property needs.
SyncsApart ==
    \A v, w \in Workers :
        /\ pc[v] \in SyncPcs /\ pc[w] \in SyncPcs
        /\ req[v].student = req[w].student /\ req[v].term = req[w].term
        => v = w

Booked(s, t) == SuccessfulPayments(s, t) \union ApprovedBursaries(s, t)

RowComplete(s, t) == Booked(s, t) # {} => ledger[s][t].credits = Booked(s, t)

Syncing(w, s, t) == pc[w] \in SyncPcs /\ req[w].student = s /\ req[w].term = t

\* The sums of a sync are up to date.
FrameComplete(w) ==
    /\ pc[w] \in SyncPcs \ {"sumPayments"} =>
          req[w].paid = SuccessfulPayments(req[w].student, req[w].term)
    /\ pc[w] \in {"findClass", "findFee", "upsert"} =>
          req[w].aid = ApprovedBursaries(req[w].student, req[w].term)

\* A row that is not complete is being synced.
IQuiet ==
    /\ \A b \in Bursaries : bursary[b].student = None => bursary[b].term = None
    /\ aborts = 0 =>
          /\ \A s \in Students, t \in Terms : RowComplete(s, t) \/ \E w \in Workers : Syncing(w, s, t)
          /\ \A w \in Workers : FrameComplete(w)

\* A step that leaves the money, the ledger and the requests that sync alone.
LeavesBooks ==
    /\ UNCHANGED <<bursary, ledger, aborts>>
    /\ \A s, t : SuccessfulPayments(s, t)' = SuccessfulPayments(s, t)
    /\ \A w \in Workers : pc[w] \in SyncPcs \/ pc'[w] \in SyncPcs =>
          pc'[w] = pc[w] /\ req'[w] = req[w]

LEMMA LeavingKeepsQuiet == ASSUME IQuiet, LeavesBooks PROVE IQuiet'
<1>1. \A s, t : /\ SuccessfulPayments(s, t)' = SuccessfulPayments(s, t)
                /\ ApprovedBursaries(s, t)' = ApprovedBursaries(s, t)
                /\ Booked(s, t)' = Booked(s, t)
  BY DEF LeavesBooks, ApprovedBursaries, Booked
<1>2. \A s \in Students, t \in Terms : RowComplete(s, t)' = RowComplete(s, t)
  BY <1>1 DEF LeavesBooks, RowComplete
<1>3. \A w \in Workers : \A s, t : Syncing(w, s, t) => Syncing(w, s, t)'
  BY DEF LeavesBooks, Syncing
<1>4. \A w \in Workers : FrameComplete(w) => FrameComplete(w)'
  BY <1>1 DEF LeavesBooks, FrameComplete, SyncPcs
<1>5. bursary' = bursary /\ aborts' = aborts
  BY DEF LeavesBooks
<1> QED
  BY <1>2, <1>3, <1>4, <1>5 DEF IQuiet

LEMMA LeavingSteps ==
    ASSUME IType, ISettle, [Next]_vars,
           ~ \E w \in Workers : SyncRead(w) \/ FinishBursary(w) \/ FinishSync(w) \/ MarkSuccess(w) \/ Abort(w),
           ~ \E w \in Workers, b \in Bursaries, s \in Students, t \in Terms \union {None} :
                 CreateBursaryApproval(w, b, s, t)
    PROVE  LeavesBooks
<1> USE NoneAssumption DEF IType, TypeOK, FeeTypeOK, SyncPcs
<1>1. CASE UNCHANGED vars
  BY <1>1 DEF vars, feeVars, LeavesBooks, SuccessfulPayments
<1>2. ASSUME NEW c \in Classes, NEW t \in Terms, NEW amount \in Fees,
             CreateFeeStructure(c, t, amount) \/ UpdateFeeStructure(c, t, amount)
      PROVE  LeavesBooks
  BY <1>2 DEF CreateFeeStructure, UpdateFeeStructure, LeavesBooks, SuccessfulPayments
<1>3. ASSUME NEW c \in Classes \union {None}, NEW s \in Students, ChangeClass(s, c) PROVE LeavesBooks
  BY <1>3 DEF ChangeClass, LeavesBooks, SuccessfulPayments
<1>4. ASSUME NEW c \in Classes, RemoveClass(c) PROVE LeavesBooks
  BY <1>4 DEF RemoveClass, LeavesBooks, SuccessfulPayments
<1>5. ASSUME NEW w \in Workers, NEW p \in Payments, NEW s \in Students, NEW t \in Terms \union {None},
             CreatePending(w, p, s, t)
      PROVE  LeavesBooks
  <2>1. payment[p].status = "absent" /\ payment'[p].status = "pending"
        /\ \A q \in Payments : q # p => payment'[q] = payment[q]
    BY <1>5 DEF CreatePending
  <2>2. \A x, y : SuccessfulPayments(x, y)' = SuccessfulPayments(x, y)
    BY <2>1 DEF SuccessfulPayments
  <2> QED
    BY <1>5, <2>2 DEF CreatePending, LeavesBooks, Goto
<1>6. ASSUME NEW p \in Payments, Charge(p) PROVE LeavesBooks
  BY <1>6 DEF Charge, feeVars, LeavesBooks, SuccessfulPayments
<1>7. ASSUME NEW w \in Workers, NEW p \in Payments, Deliver(w, p) PROVE LeavesBooks
  BY <1>7 DEF Deliver, tables, LeavesBooks, SuccessfulPayments, Goto
<1>8. ASSUME NEW w \in Workers, InitializeAnswered(w) \/ InitializeFailed(w) PROVE LeavesBooks
  BY <1>8 DEF InitializeAnswered, InitializeFailed, Finish, tables, LeavesBooks, SuccessfulPayments, Goto
<1>9. ASSUME NEW w \in Workers, StoreReference(w) \/ DeletePending(w) PROVE LeavesBooks
  <2>1. PICK p : p = req[w].payment
    OBVIOUS
  <2>2. p \in Payments /\ payment[p].status = "pending"
    BY <1>9, <2>1 DEF StoreReference, DeletePending, RequestOK, PaymentPcs, ISettle, InitiateInv, InitiatePcs
  <2>3. /\ payment'[p].status \in {"pending", "deleted"}
        /\ \A q \in Payments : q # p => payment'[q] = payment[q]
    BY <1>9, <2>1, <2>2 DEF StoreReference, DeletePending, PaymentRow
  <2>4. \A x, y : SuccessfulPayments(x, y)' = SuccessfulPayments(x, y)
    BY <2>2, <2>3 DEF SuccessfulPayments
  <2> QED
    BY <1>9, <2>4 DEF StoreReference, DeletePending, LeavesBooks, Finish, Goto
<1>10. ASSUME NEW w \in Workers, SkipProcessed(w) \/ FindPayment(w) \/ CreateReceipt(w) \/ ReceiptExists(w)
                                 \/ Notify(w)
       PROVE  LeavesBooks
  BY <1>10 DEF SkipProcessed, FindPayment, CreateReceipt, ReceiptExists, Notify, Acknowledge, Finish, tables,
               LeavesBooks, SuccessfulPayments, Goto
<1> QED
  BY <1>1, <1>2, <1>3, <1>4, <1>5, <1>6, <1>7, <1>8, <1>9, <1>10
     DEF Next, Advance, Initiate, HandleWebhook, Desk

\* What the reads of a sync find stays true to the end of the sync.
LEMMA ReadingKeepsQuiet ==
    ASSUME IType, IQuiet, NEW w \in Workers, SyncRead(w)
    PROVE  IQuiet'
<1>1. /\ UNCHANGED <<payment, bursary, ledger, aborts>>
      /\ pc \in [Workers -> {"idle"} \union SyncPcs \union PaymentPcs] /\ req \in [Workers -> Request]
  BY DEF IType, TypeOK, FeeTypeOK, SyncRead, SumPayments, SumBursaries, FindClass, FindFee, tables
<1>2. \A s, t : /\ SuccessfulPayments(s, t)' = SuccessfulPayments(s, t)
                /\ ApprovedBursaries(s, t)' = ApprovedBursaries(s, t)
                /\ Booked(s, t)' = Booked(s, t)
  BY <1>1 DEF SuccessfulPayments, ApprovedBursaries, Booked
<1>3. /\ \A v \in Workers : v # w => pc'[v] = pc[v] /\ req'[v] = req[v]
      /\ pc[w] \in SyncPcs /\ pc'[w] \in SyncPcs
      /\ req'[w].student = req[w].student /\ req'[w].term = req[w].term
  BY <1>1 DEF SyncRead, SumPayments, SumBursaries, FindClass, FindFee, Goto, SyncPcs, Request
<1>4. aborts = 0 => FrameComplete(w)'
  <2> SUFFICES ASSUME aborts = 0 PROVE FrameComplete(w)'
    OBVIOUS
  <2>1. FrameComplete(w)
    BY DEF IQuiet
  <2>2. /\ pc'[w] # "sumPayments"
        /\ req'[w].paid = SuccessfulPayments(req[w].student, req[w].term)
        /\ pc'[w] # "sumBursaries" => req'[w].aid = ApprovedBursaries(req[w].student, req[w].term)
    <3>1. CASE SumPayments(w)
      BY <1>1, <3>1 DEF SumPayments, Goto, Request
    <3>2. CASE SumBursaries(w)
      BY <1>1, <2>1, <3>2 DEF SumBursaries, Goto, Request, FrameComplete, SyncPcs
    <3>3. CASE FindClass(w)
      BY <1>1, <2>1, <3>3 DEF FindClass, Goto, Request, FrameComplete, SyncPcs
    <3>4. CASE FindFee(w)
      BY <1>1, <2>1, <3>4 DEF FindFee, Goto, Request, FrameComplete, SyncPcs
    <3> QED
      BY <3>1, <3>2, <3>3, <3>4 DEF SyncRead
  <2> QED
    BY <1>2, <1>3, <2>2 DEF FrameComplete
<1>5. \A v \in Workers : v # w /\ FrameComplete(v) => FrameComplete(v)'
  BY <1>2, <1>3 DEF FrameComplete
<1>6. \A v \in Workers : \A s, t : Syncing(v, s, t) => Syncing(v, s, t)'
  BY <1>3 DEF Syncing
<1>7. \A s \in Students, t \in Terms : RowComplete(s, t) => RowComplete(s, t)'
  BY <1>1, <1>2 DEF RowComplete
<1> QED
  BY <1>1, <1>4, <1>5, <1>6, <1>7 DEF IQuiet

\* The upsert of a sync that nobody overlapped completes its row.
LEMMA UpsertingKeepsQuiet ==
    ASSUME IType, IQuiet, SyncsApart, NEW w \in Workers, NEW next \in {"idle", "receipt"},
           UpsertLedger(w, next)
    PROVE  IQuiet'
<1>1. /\ UNCHANGED <<payment, bursary, aborts>> /\ pc[w] = "upsert"
      /\ pc \in [Workers -> {"idle"} \union SyncPcs \union PaymentPcs]
      /\ req \in [Workers -> Request] /\ ledger \in [Students -> [Terms -> LedgerRow]]
  BY DEF IType, TypeOK, FeeTypeOK, UpsertLedger
<1>2. PICK s, t : s = req[w].student /\ t = req[w].term
  OBVIOUS
<1>3. s \in Students /\ t \in Terms
  BY <1>1, <1>2 DEF IType, RequestOK, SyncPcs
<1>4. /\ ledger'[s][t].credits = req[w].paid \union req[w].aid
      /\ \A r \in Students, u \in Terms : <<r, u>> # <<s, t>> => ledger'[r][u] = ledger[r][u]
  BY <1>1, <1>2, <1>3 DEF UpsertLedger
<1>5. /\ \A v \in Workers : v # w => pc'[v] = pc[v] /\ req'[v] = req[v]
      /\ ~(pc'[w] \in SyncPcs)
  BY <1>1 DEF UpsertLedger, Goto, SyncPcs
<1>6. \A x, y : /\ SuccessfulPayments(x, y)' = SuccessfulPayments(x, y)
                /\ ApprovedBursaries(x, y)' = ApprovedBursaries(x, y)
                /\ Booked(x, y)' = Booked(x, y)
  BY <1>1 DEF SuccessfulPayments, ApprovedBursaries, Booked
<1>7. ASSUME aborts = 0, NEW r \in Students, NEW u \in Terms
      PROVE  RowComplete(r, u)' \/ \E v \in Workers : Syncing(v, r, u)'
  <2>1. CASE r = s /\ u = t
    <3>1. req[w].paid \union req[w].aid = Booked(s, t)
      BY <1>1, <1>2, <1>7 DEF IQuiet, FrameComplete, SyncPcs, Booked
    <3> QED
      BY <1>4, <1>6, <2>1, <3>1 DEF RowComplete
  <2>2. CASE <<r, u>> # <<s, t>>
    <3>1. ledger'[r][u] = ledger[r][u]
      BY <1>4, <2>2
    <3>2. RowComplete(r, u) => RowComplete(r, u)'
      BY <1>6, <3>1 DEF RowComplete
    <3>3. ASSUME NEW v \in Workers, Syncing(v, r, u) PROVE Syncing(v, r, u)'
      BY <1>2, <1>5, <2>2, <3>3 DEF Syncing
    <3> QED
      BY <1>7, <3>2, <3>3 DEF IQuiet
  <2> QED
    BY <2>1, <2>2
<1>8. aborts = 0 => \A v \in Workers : FrameComplete(v)'
  BY <1>5, <1>6 DEF IQuiet, FrameComplete, SyncPcs
<1> QED
  BY <1>1, <1>7, <1>8 DEF IQuiet

\* A step that books money of student s for term t, if of any term, and begins
\* the sync of that row.
Books(w, s, t) ==
    /\ ~(pc[w] \in SyncPcs)
    /\ UNCHANGED <<ledger, aborts>>
    /\ \A b \in Bursaries : bursary'[b].student = None => bursary'[b].term = None
    /\ \A v \in Workers : v # w => pc'[v] = pc[v] /\ req'[v] = req[v]
    /\ \A x \in Students, y \in Terms : <<x, y>> # <<s, t>> =>
           /\ SuccessfulPayments(x, y)' = SuccessfulPayments(x, y)
           /\ ApprovedBursaries(x, y)' = ApprovedBursaries(x, y)
    /\ t \in Terms => pc'[w] = "sumPayments" /\ Syncing(w, s, t)'
    /\ ~(t \in Terms) => ~(pc'[w] \in SyncPcs)

\* Money that is booked is of the row whose sync begins with the booking.
LEMMA BookingKeepsQuiet ==
    ASSUME IType, IQuiet, SyncsApart', NEW w \in Workers, NEW s, NEW t, Books(w, s, t)
    PROVE  IQuiet'
<1> USE DEF Books
<1>0. \A v \in Workers : pc[v] \in SyncPcs => req[v].student \in Students /\ req[v].term \in Terms
  BY DEF IType, RequestOK
<1>1. ASSUME aborts = 0, NEW r \in Students, NEW u \in Terms
      PROVE  RowComplete(r, u)' \/ \E v \in Workers : Syncing(v, r, u)'
  <2>1. CASE r = s /\ u = t
    BY <2>1
  <2>2. CASE <<r, u>> # <<s, t>>
    <3>1. Booked(r, u)' = Booked(r, u)
      BY <2>2 DEF Booked
    <3>2. RowComplete(r, u) => RowComplete(r, u)'
      BY <3>1 DEF RowComplete
    <3>3. ASSUME NEW v \in Workers, Syncing(v, r, u) PROVE Syncing(v, r, u)'
      BY <3>3 DEF Syncing
    <3> QED
      BY <1>1, <3>2, <3>3 DEF IQuiet
  <2> QED
    BY <2>1, <2>2
<1>2. ASSUME aborts = 0, NEW v \in Workers, pc'[v] \in SyncPcs PROVE FrameComplete(v)'
  <2>1. CASE v = w
    BY <1>2, <2>1 DEF FrameComplete
  <2>2. CASE v # w
    <3>1. pc'[v] = pc[v] /\ req'[v] = req[v] /\ pc[v] \in SyncPcs
          /\ req[v].student \in Students /\ req[v].term \in Terms
      BY <1>0, <1>2, <2>2
    <3>2. <<req[v].student, req[v].term>> # <<s, t>>
      BY <1>2, <2>2, <3>1 DEF SyncsApart, Syncing
    <3>3. /\ SuccessfulPayments(req[v].student, req[v].term)' = SuccessfulPayments(req[v].student, req[v].term)
          /\ ApprovedBursaries(req[v].student, req[v].term)' = ApprovedBursaries(req[v].student, req[v].term)
      <4>1. PICK x, y : x = req[v].student /\ y = req[v].term
        OBVIOUS
      <4>2. /\ SuccessfulPayments(x, y)' = SuccessfulPayments(x, y)
            /\ ApprovedBursaries(x, y)' = ApprovedBursaries(x, y)
        BY <3>1, <3>2, <4>1
      <4>3. x = req'[v].student /\ y = req'[v].term
        BY <3>1, <4>1
      <4> QED
        BY <4>1, <4>2, <4>3
    <3>4. FrameComplete(v)
      BY <1>2 DEF IQuiet
    <3> QED
      BY <3>1, <3>3, <3>4 DEF FrameComplete
  <2> QED
    BY <2>1, <2>2
<1>3. ASSUME NEW v \in Workers, ~(pc'[v] \in SyncPcs) PROVE FrameComplete(v)'
  BY <1>3 DEF FrameComplete, SyncPcs
<1> QED
  BY <1>1, <1>2, <1>3 DEF IQuiet

LEMMA ApprovalKeepsQuiet ==
    ASSUME IType, IQuiet, SyncsApart', NEW w \in Workers, NEW b \in Bursaries, NEW s \in Students,
           NEW t \in Terms \union {None}, CreateBursaryApproval(w, b, s, t)
    PROVE  IQuiet'
<1>1. /\ UNCHANGED <<payment, ledger, aborts>> /\ pc[w] = "idle" /\ bursary[b].student = None
      /\ pc \in [Workers -> {"idle"} \union SyncPcs \union PaymentPcs] /\ req \in [Workers -> Request]
      /\ bursary \in [Bursaries -> BursaryRow]
  BY DEF IType, TypeOK, FeeTypeOK, CreateBursaryApproval
<1>2. /\ bursary'[b].student = s /\ bursary'[b].term = t /\ bursary[b].term = None
      /\ \A a \in Bursaries : a # b => bursary'[a] = bursary[a]
  BY <1>1 DEF CreateBursaryApproval, IQuiet
<1>3. \A a \in Bursaries : bursary'[a].student = None => bursary'[a].term = None
  BY <1>2, NoneAssumption DEF IQuiet
<1>4. \A v \in Workers : v # w => pc'[v] = pc[v] /\ req'[v] = req[v]
  BY <1>1 DEF CreateBursaryApproval, CallSync, Goto
<1>5. \A x \in Students, y \in Terms : <<x, y>> # <<s, t>> =>
          /\ SuccessfulPayments(x, y)' = SuccessfulPayments(x, y)
          /\ ApprovedBursaries(x, y)' = ApprovedBursaries(x, y)
  BY <1>1, <1>2, NoneAssumption DEF SuccessfulPayments, ApprovedBursaries
<1>6. t \in Terms => pc'[w] = "sumPayments" /\ Syncing(w, s, t)'
  BY <1>1, NoneAssumption DEF CreateBursaryApproval, CallSync, Goto, Locals, Syncing, SyncPcs
<1>7. ~(t \in Terms) => ~(pc'[w] \in SyncPcs)
  BY <1>1 DEF CreateBursaryApproval, SyncPcs
<1>8. Books(w, s, t)
  BY <1>1, <1>3, <1>4, <1>5, <1>6, <1>7 DEF Books, SyncPcs
<1> QED
  BY <1>8, BookingKeepsQuiet

LEMMA MarkingKeepsQuiet ==
    ASSUME IType, ISettle, IQuiet, SyncsApart', NEW w \in Workers, MarkSuccess(w)
    PROVE  IQuiet'
<1>1. /\ UNCHANGED <<bursary, ledger, aborts>> /\ pc[w] = "mark"
      /\ pc \in [Workers -> {"idle"} \union SyncPcs \union PaymentPcs] /\ req \in [Workers -> Request]
      /\ payment \in [Payments -> PaymentRow]
  BY DEF IType, TypeOK, FeeTypeOK, MarkSuccess
<1>2. PICK p : p = req[w].payment
  OBVIOUS
<1>3. p \in Payments
  BY <1>1, <1>2 DEF IType, RequestOK, PaymentPcs
<1>4. PICK s, t : s = payment[p].student /\ t = payment[p].term
  OBVIOUS
<1>5. t \in Terms \union {None}
  BY <1>1, <1>3, <1>4 DEF PaymentRow
<1>6. /\ payment'[p].student = s /\ payment'[p].term = t
      /\ \A q \in Payments : q # p => payment'[q] = payment[q]
  BY <1>1, <1>2, <1>3, <1>4 DEF MarkSuccess, PaymentRow
<1>7. \A b \in Bursaries : bursary'[b].student = None => bursary'[b].term = None
  BY <1>1 DEF IQuiet
<1>8. \A v \in Workers : v # w => pc'[v] = pc[v] /\ req'[v] = req[v]
  BY <1>1 DEF MarkSuccess, CallSync, Goto
<1>9. \A x \in Students, y \in Terms : <<x, y>> # <<s, t>> =>
          /\ SuccessfulPayments(x, y)' = SuccessfulPayments(x, y)
          /\ ApprovedBursaries(x, y)' = ApprovedBursaries(x, y)
  BY <1>1, <1>4, <1>6 DEF SuccessfulPayments, ApprovedBursaries
<1>10. t \in Terms => pc'[w] = "sumPayments" /\ Syncing(w, s, t)'
  BY <1>1, <1>2, <1>4, NoneAssumption DEF MarkSuccess, CallSync, Goto, Locals, Syncing, SyncPcs
<1>11. ~(t \in Terms) => ~(pc'[w] \in SyncPcs)
  BY <1>1, <1>2, <1>4, <1>5 DEF MarkSuccess, Goto, SyncPcs
<1>12. Books(w, s, t)
  BY <1>1, <1>7, <1>8, <1>9, <1>10, <1>11 DEF Books, SyncPcs
<1> QED
  BY <1>12, BookingKeepsQuiet

\* While no two syncs of one row overlap, every step keeps the books complete,
\* or leaves a sync under way that will complete them.
LEMMA BooksStep ==
    ASSUME IType, ISettle, IQuiet, SyncsApart, SyncsApart', [Next]_vars
    PROVE  IQuiet'
<1>1. ASSUME NEW w \in Workers, SyncRead(w) PROVE IQuiet'
  BY <1>1, ReadingKeepsQuiet
<1>2. ASSUME NEW w \in Workers, FinishBursary(w) PROVE IQuiet'
  BY <1>2, UpsertingKeepsQuiet DEF FinishBursary
<1>3. ASSUME NEW w \in Workers, FinishSync(w) PROVE IQuiet'
  BY <1>3, UpsertingKeepsQuiet DEF FinishSync
<1>4. ASSUME NEW w \in Workers, MarkSuccess(w) PROVE IQuiet'
  BY <1>4, MarkingKeepsQuiet
<1>5. ASSUME NEW w \in Workers, Abort(w) PROVE IQuiet'
  <2>1. aborts' # 0 /\ bursary' = bursary
    BY <1>5, NumberAssumption DEF Abort, tables, IType, TypeOK, FeeTypeOK
  <2> QED
    BY <2>1 DEF IQuiet
<1>6. ASSUME NEW w \in Workers, NEW b \in Bursaries, NEW s \in Students, NEW t \in Terms \union {None},
             CreateBursaryApproval(w, b, s, t)
      PROVE  IQuiet'
  BY <1>6, ApprovalKeepsQuiet
<1>7. CASE /\ ~ \E w \in Workers : \/ SyncRead(w) \/ FinishBursary(w) \/ FinishSync(w)
                                   \/ MarkSuccess(w) \/ Abort(w)
           /\ ~ \E w \in Workers, b \in Bursaries, s \in Students, t \in Terms \union {None} :
                    CreateBursaryApproval(w, b, s, t)
  BY <1>7, LeavingSteps, LeavingKeepsQuiet
<1> QED
  BY <1>1, <1>2, <1>3, <1>4, <1>5, <1>6, <1>7

LEMMA QuietInit == Init => IQuiet
<1> SUFFICES ASSUME Init PROVE IQuiet
  OBVIOUS
<1>1. \A s \in Students, t \in Terms : Booked(s, t) = {}
  BY NoneAssumption DEF Init, FeeInit, Booked, SuccessfulPayments, ApprovedBursaries
<1> QED
  BY <1>1 DEF Init, FeeInit, IQuiet, RowComplete, FrameComplete, SyncPcs

\* When nobody is syncing, the rows are complete and sound, and so are the
\* summaries made from them.
LEMMA QuietRows ==
    ASSUME IType, LedgerSound, IQuiet
    PROVE  QuietLedgerComplete
<1> SUFFICES ASSUME Quiescent, aborts = 0 PROVE LedgerComplete /\ SummariesAgree
  BY DEF QuietLedgerComplete
<1>1. \A s \in Students, t \in Terms : RowComplete(s, t)
  BY DEF Quiescent, IQuiet, Syncing, SyncPcs
<1>2. LedgerComplete
  BY <1>1 DEF RowComplete, Booked, LedgerComplete
<1>3. \A s \in Students, t \in Terms : ledger[s][t].credits = Booked(s, t)
  BY <1>1 DEF LedgerSound, RowComplete, Booked
<1>4. UNION {StatementPaid(s) : s \in Students} =
          (UNION {Collected(t) : t \in Terms}) \union {b \in Bursaries : bursary[b].term # None}
  <2>1. ASSUME NEW s \in Students, NEW t \in Terms, NEW m \in ledger[s][t].credits
        PROVE  m \in Collected(t) \/ (m \in Bursaries /\ bursary[m].term # None)
    <3>1. m \in Booked(s, t)
      BY <1>3, <2>1
    <3>2. CASE m \in SuccessfulPayments(s, t)
      <4>1. m \in Payments /\ payment[m].status = "success" /\ payment[m].term = t
        BY <3>2 DEF SuccessfulPayments
      <4>2. m \in Collected(t)
        BY <4>1 DEF Collected
      <4> QED
        BY <4>2
    <3>3. CASE m \in ApprovedBursaries(s, t)
      BY <3>3, NoneAssumption DEF ApprovedBursaries
    <3> QED
      BY <3>1, <3>2, <3>3 DEF Booked
  <2>2. ASSUME NEW t \in Terms, NEW p \in Collected(t)
        PROVE  \E s \in Students : p \in ledger[s][t].credits
    <3>1. p \in Payments /\ payment[p].status = "success" /\ payment[p].term = t
      BY <2>2 DEF Collected
    <3>2. payment[p].student \in Students
      BY <3>1 DEF IType, RowsOK
    <3> QED
      BY <1>3, <3>1, <3>2 DEF Booked, SuccessfulPayments
  <2>3. ASSUME NEW b \in Bursaries, bursary[b].term # None
        PROVE  \E s \in Students, t \in Terms : b \in ledger[s][t].credits
    <3>1. bursary[b].student \in Students /\ bursary[b].term \in Terms
      BY <2>3 DEF IType, TypeOK, FeeTypeOK, BursaryRow, IQuiet
    <3> QED
      BY <1>3, <3>1 DEF Booked, ApprovedBursaries
  <2> DEFINE told == UNION {StatementPaid(s) : s \in Students}
             paid == UNION {Collected(t) : t \in Terms}
             granted == {b \in Bursaries : bursary[b].term # None}
  <2>4. \A m : m \in told <=> \E s \in Students, t \in Terms : m \in ledger[s][t].credits
    BY DEF StatementPaid
  <2>5. \A m : m \in paid <=> \E t \in Terms : m \in Collected(t)
    OBVIOUS
  <2>6. \A m : m \in granted <=> (m \in Bursaries /\ bursary[m].term # None)
    OBVIOUS
  <2> SUFFICES told = paid \union granted
    OBVIOUS
  <2> HIDE DEF told, paid, granted
  <2>7. \A m \in told : m \in paid \/ m \in granted
    BY <2>1, <2>4, <2>5, <2>6
  <2>8. \A m \in paid : m \in told
    BY <2>2, <2>4, <2>5
  <2>9. \A m \in granted : m \in told
    BY <2>3, <2>4, <2>6
  <2> QED
    BY <2>7, <2>8, <2>9
<1>5. ASSUME NEW r \in Students, NEW s \in Students, NEW t \in Terms, NEW u \in Terms,
             <<r, t>> # <<s, u>>
      PROVE  ledger[r][t].credits \cap ledger[s][u].credits = {}
  BY <1>3, <1>5, IdentityAssumption DEF Booked, SuccessfulPayments, ApprovedBursaries
<1> QED
  BY <1>2, <1>4, <1>5 DEF SummariesAgree

\* If no two syncs of one student and term ever overlap, the ledger of a school
\* that is at rest has all the money, once, and the bursar's summary agrees
\* with the statements, however many requests run and whatever else overlaps.
\* The code does nothing to keep the syncs apart: run payments_stale_ledger
\* shows what happens when they are not.
THEOREM SyncsApartLedgerComplete == Spec /\ []SyncsApart => []QuietLedgerComplete
<1>1. Init => IQuiet
  BY QuietInit
<1>2. IInv /\ IQuiet /\ SyncsApart /\ SyncsApart' /\ [Next]_vars => IQuiet'
  BY BooksStep DEF IInv
<1>3. IInv /\ IQuiet => QuietLedgerComplete
  BY QuietRows DEF IInv, ILedger
<1> QED
  BY InvariantHolds, <1>1, <1>2, <1>3, PTL DEF Spec

\* A process that serves one request at a time keeps its ledger complete.
THEOREM OneAtATimeLedgerComplete ==
    ASSUME \A v, w \in Workers : v = w
    PROVE  Spec => []QuietLedgerComplete
<1>1. SyncsApart
  BY DEF SyncsApart
<1> QED
  BY <1>1, SyncsApartLedgerComplete, PTL
==============================================================================
