------------------------------ MODULE Payments -------------------------------
(***************************************************************************)
(* Fee payments through Paystack (payments.service.ts): a request that     *)
(* initiates a payment, the webhook that confirms it, and the ledger sync, *)
(* receipt and notification the webhook goes on to make.  Extends the fee  *)
(* books with the payment table's own life.                                *)
(*                                                                         *)
(* Paystack is outside src/: it accepts or refuses a transaction, charges  *)
(* the customer once the authorization URL was handed out, and posts       *)
(* charge.success until one delivery is answered with 200.  A delivery may *)
(* also be repeated, at any time and while another one is being handled.   *)
(***************************************************************************)
EXTENDS FeeLedger

VARIABLES
    charged,   \* Paystack: transactions the customer has paid
    acked,     \* Paystack: charge.success events answered with 200
    receipts,  \* table payment_receipts: payments that have one
    notices    \* rounds of "Payment Confirmed" notifications per payment

payVars == <<charged, acked, receipts, notices>>
vars == <<feeVars, payVars>>

PayTypeOK ==
    /\ charged \subseteq Payments
    /\ acked \subseteq Payments
    /\ receipts \subseteq Payments
    /\ notices \in [Payments -> Nat]

TypeOK == FeeTypeOK /\ PayTypeOK

Init ==
    /\ FeeInit
    /\ charged = {}
    /\ acked = {}
    /\ receipts = {}
    /\ notices = [p \in Payments |-> 0]

-----------------------------------------------------------------------------
(* initiate: a pending row first, without a reference; then Paystack; then  *)
(* either the reference is stored or the row is deleted again.              *)

\* Mutant of CreatePending: the reference is handed out before Paystack is asked.
CreatePendingWithReference(w, p, s, t) ==
    /\ pc[w] = "idle"
    /\ payment[p].status = "absent"
    /\ payment' = [payment EXCEPT ![p] = [status |-> "pending", ref |-> TRUE,
                                          student |-> s, term |-> t]]
    /\ req' = [req EXCEPT ![w] = Locals(p, None, None)]
    /\ Goto(w, "initialize")
    /\ UNCHANGED <<bursary, feeStructure, classes, classOf, ledger, aborts, changes, payVars>>

CreatePending(w, p, s, t) ==
    /\ pc[w] = "idle"
    /\ payment[p].status = "absent"
    /\ payment' = [payment EXCEPT ![p] = [status |-> "pending", ref |-> FALSE,
                                          student |-> s, term |-> t]]
    /\ req' = [req EXCEPT ![w] = Locals(p, None, None)]
    /\ Goto(w, "initialize")
    /\ UNCHANGED <<bursary, feeStructure, classes, classOf, ledger, aborts, changes, payVars>>

\* Paystack answers: ok goes on, a refusal (HTTP error or status false) goes
\* to the clean-up.
InitializeAnswered(w) ==
    /\ pc[w] = "initialize"
    /\ Goto(w, "storeReference") \/ Goto(w, "cleanup")
    /\ UNCHANGED <<tables, req, aborts, changes, payVars>>

\* fetch itself rejects (no route, timeout): the exception leaves initiate.
InitializeFailed(w) ==
    /\ pc[w] = "initialize"
    /\ Finish(w)
    /\ UNCHANGED <<tables, aborts, changes, payVars>>

\* The authorization URL goes to the customer with the response.
StoreReference(w) ==
    /\ pc[w] = "storeReference"
    /\ payment' = [payment EXCEPT ![req[w].payment].ref = TRUE]
    /\ Finish(w)
    /\ UNCHANGED <<bursary, feeStructure, classes, classOf, ledger, aborts, changes, payVars>>

DeletePending(w) ==
    /\ pc[w] = "cleanup"
    /\ payment' = [payment EXCEPT ![req[w].payment].status = "deleted"]
    /\ Finish(w)
    /\ UNCHANGED <<bursary, feeStructure, classes, classOf, ledger, aborts, changes, payVars>>

-----------------------------------------------------------------------------
(* Paystack.                                                                *)

\* Only a customer who was sent to the authorization URL can pay, and a
\* transaction is paid once.
Charge(p) ==
    /\ payment[p].ref
    /\ p \notin charged
    /\ charged' = charged \union {p}
    /\ UNCHANGED <<feeVars, acked, receipts, notices>>

\* A signed charge.success reaches the process; handleWebhook starts.
Deliver(w, p) ==
    /\ pc[w] = "idle"
    /\ p \in charged
    /\ req' = [req EXCEPT ![w] = Locals(p, None, None)]
    /\ Goto(w, "find")
    /\ UNCHANGED <<tables, aborts, changes, payVars>>

-----------------------------------------------------------------------------
(* handleWebhook.                                                           *)

\* Answer 200: Paystack stops retrying.
Acknowledge(w) == acked' = acked \union {req[w].payment} /\ Finish(w)

\* Found by its reference, and not "already processed".
Bookable(p) == payment[p].ref /\ payment[p].status # "success"

SkipProcessed(w) ==
    /\ pc[w] = "find"
    /\ ~Bookable(req[w].payment)
    /\ Acknowledge(w)
    /\ UNCHANGED <<tables, aborts, changes, charged, receipts, notices>>

\* Mutant of FindPayment: 200 is sent first, the work is done after it.
FindPaymentAcks(w) ==
    /\ pc[w] = "find"
    /\ Bookable(req[w].payment)
    /\ acked' = acked \union {req[w].payment}
    /\ Goto(w, "mark")
    /\ UNCHANGED <<tables, req, aborts, changes, charged, receipts, notices>>

FindPayment(w) ==
    /\ pc[w] = "find"
    /\ Bookable(req[w].payment)
    /\ Goto(w, "mark")
    /\ UNCHANGED <<tables, req, aborts, changes, payVars>>

\* Mutant of MarkSuccess: nobody syncs the ledger.
MarkSuccessNoSync(w) ==
    /\ pc[w] = "mark"
    /\ payment' = [payment EXCEPT ![req[w].payment].status = "success"]
    /\ Goto(w, "receipt")
    /\ UNCHANGED <<bursary, feeStructure, classes, classOf, ledger, req, aborts, changes, payVars>>

\* Mutant of MarkSuccess: a payment without a term returns early.
MarkSuccessTermOnly(w) ==
    /\ pc[w] = "mark"
    /\ LET p == req[w].payment
       IN  /\ payment' = [payment EXCEPT ![p].status = "success"]
           /\ IF payment[p].term = None
                THEN Finish(w)
                ELSE CallSync(w, p, payment[p].student, payment[p].term)
    /\ UNCHANGED <<bursary, feeStructure, classes, classOf, ledger, aborts, changes, payVars>>

\* status = success, whatever it is by now; then the ledger, if the payment
\* names a term and a year.
MarkSuccess(w) ==
    /\ pc[w] = "mark"
    /\ LET p == req[w].payment
       IN  /\ payment' = [payment EXCEPT ![p].status = "success"]
           /\ IF payment[p].term = None
                THEN Goto(w, "receipt") /\ UNCHANGED req
                ELSE CallSync(w, p, payment[p].student, payment[p].term)
    /\ UNCHANGED <<bursary, feeStructure, classes, classOf, ledger, aborts, changes, payVars>>

FinishSync(w) ==
    /\ req[w].payment # None
    /\ UpsertLedger(w, "receipt")
    /\ UNCHANGED payVars

\* Mutant of CreateReceipt: a receipt that exists is not an error (upsert).
CreateReceiptAgain(w) ==
    /\ pc[w] = "receipt"
    /\ receipts' = receipts \union {req[w].payment}
    /\ Goto(w, "notify")
    /\ UNCHANGED <<tables, req, aborts, changes, charged, acked, notices>>

CreateReceipt(w) ==
    /\ pc[w] = "receipt"
    /\ req[w].payment \notin receipts
    /\ receipts' = receipts \union {req[w].payment}
    /\ Goto(w, "notify")
    /\ UNCHANGED <<tables, req, aborts, changes, charged, acked, notices>>

\* payment_receipts.payment_id is unique: a second insert throws, the delivery
\* is answered with 500 and nobody is notified again.
ReceiptExists(w) ==
    /\ pc[w] = "receipt"
    /\ req[w].payment \in receipts
    /\ Finish(w)
    /\ UNCHANGED <<tables, aborts, changes, payVars>>

\* sendPaymentNotification tells the linked parents and the student, if any
\* of them has an account.
Notify(w) ==
    /\ pc[w] = "notify"
    /\ \/ notices' = [notices EXCEPT ![req[w].payment] = @ + 1]
       \/ UNCHANGED notices
    /\ Acknowledge(w)
    /\ UNCHANGED <<tables, aborts, changes, charged, receipts>>

-----------------------------------------------------------------------------
Initiate(w) == 
    \/ InitializeAnswered(w) \/ InitializeFailed(w)
    \/ StoreReference(w) \/ DeletePending(w)

HandleWebhook(w) == 
    \/ SkipProcessed(w) \/ FindPayment(w) \/ MarkSuccess(w) \/ FinishSync(w)
    \/ CreateReceipt(w) \/ ReceiptExists(w) \/ Notify(w)

\* What the process does on its own once a request is in flight.
Advance(w) == 
    \/ Initiate(w) 
    \/ HandleWebhook(w)
    \/ (SyncRead(w) \/ FinishBursary(w)) /\ UNCHANGED payVars

Next ==
    \/ \E w \in Workers : Advance(w)
    \/ \E w \in Workers : Abort(w) /\ UNCHANGED payVars
    \/ \E w \in Workers, p \in Payments, s \in Students, t \in Terms \union {None} :
          CreatePending(w, p, s, t)
    \/ \E p \in Payments : Charge(p)
    \/ \E w \in Workers, p \in Payments : Deliver(w, p)
    \/ Desk /\ UNCHANGED payVars

Spec == Init /\ [][Next]_vars

\* Paystack goes on delivering an event until it is acknowledged.  The process
\* takes every request it is sent; only the model has finitely many workers, so
\* that a delivery may find them busy and fairness of it has to be strong.
Redeliver(p) == p \notin acked /\ \E w \in Workers : Deliver(w, p)

FairSpec ==
    /\ Spec
    /\ \A w \in Workers : WF_vars(Advance(w))
    /\ \A p \in Payments : SF_vars(Redeliver(p))

-----------------------------------------------------------------------------
(* Properties.                                                              *)

\* Money is booked only when it was collected, and the row of a payment the
\* customer has made is there to be booked: the clean-up of initiate can never
\* delete a row whose transaction Paystack goes on to charge.
BooksFollowPaystack ==
    \A p \in Payments :
        /\ payment[p].status = "success" => p \in charged
        /\ p \in charged => payment[p].status \in {"pending", "success"} /\ payment[p].ref

\* A family hears of a payment at most once, and only of one that has its
\* receipt: the unique receipt, not the idempotency check, ensures it when
\* two deliveries of one event overlap.
NotifiedOnce ==
    \A p \in Payments : notices[p] > 0 => notices[p] = 1 /\ p \in receipts

\* A receipted payment is a successful one, and if it is for a term its ledger
\* row exists: the receipt comes after the ledger on every path.
ReceiptAfterLedger ==
    \A p \in receipts :
        /\ payment[p].status = "success"
        /\ payment[p].term # None => ledger[payment[p].student][payment[p].term].exists

\* The sync a webhook runs always counts the webhook's own payment.
OwnPaymentCredited ==
    [][\A w \in Workers :
          pc[w] = "upsert" /\ pc'[w] = "receipt" =>
             LET p == req[w].payment
             IN  p \in ledger'[payment[p].student][payment[p].term].credits]_vars

\* A payment that succeeded stays so, for the same student and term, and keeps
\* its receipt.
SuccessIsFinal ==
    [][/\ \A p \in Payments : payment[p].status = "success" => payment'[p] = payment[p]
       /\ receipts \subseteq receipts']_vars

\* The component implements Settlement: a payment is collected when Paystack
\* charged it and settled when its row says success.
Promise == INSTANCE Settlement WITH
    collected <- charged,
    settled   <- {p \in Payments : payment[p].status = "success"},
    receipted <- receipts,
    announced <- notices

\* Collected, settled, receipted, announced: once each and in this order.
ImplementsSettlementSafety == Promise!SafeSpec

\* The same, and a collected payment is settled in the end.
ImplementsSettlement == Promise!Spec

\* Unless a request dies, every successful payment gets its receipt, whatever
\* deliveries overlap.
ReceiptedUnlessDied ==
    \A p \in Payments : payment[p].status = "success" ~> (p \in receipts \/ aborts > 0)

\* Every successful payment gets its receipt ("7. Generate receipt record").
SuccessIsReceipted == \A p \in Payments : payment[p].status = "success" ~> p \in receipts
==============================================================================
