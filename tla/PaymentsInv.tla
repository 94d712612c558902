----------------------------- MODULE PaymentsInv -----------------------------
(***************************************************************************)
(* The inductive invariant of Payments: what the safety properties need to *)
(* know of requests that are half done.                                    *)
(***************************************************************************)
EXTENDS Payments

InitiatePcs == {"initialize", "storeReference", "cleanup"}
WebhookPcs == {"find", "mark", "receipt", "notify"}

\* The payment a request works for, and the request's variables, are defined
\* by the time the request uses them.
RequestOK ==
    \A w \in Workers :
        /\ pc[w] \in PaymentPcs => req[w].payment \in Payments
        /\ req[w].payment # None => payment[req[w].payment].status # "absent"
        /\ pc[w] \in SyncPcs => req[w].student \in Students /\ req[w].term \in Terms
        /\ pc[w] = "findFee" => req[w].class \in Classes

\* A row that was created has a student; one with a reference, or charged, was
\* created.
RowsOK ==
    \A p \in Payments :
        /\ payment[p].status # "absent" => payment[p].student \in Students
        /\ payment[p].ref \/ p \in charged => payment[p].status # "absent"

\* One request initiates a payment, and until it is through the row is pending
\* without a reference: nobody can be charged for it yet.
InitiateInv ==
    /\ \A w \in Workers : pc[w] \in InitiatePcs =>
          /\ payment[req[w].payment].status = "pending"
          /\ ~payment[req[w].payment].ref
    /\ \A v, w \in Workers :
          pc[v] \in InitiatePcs /\ pc[w] \in InitiatePcs /\ req[v].payment = req[w].payment => v = w

\* A webhook works for a charged payment, and so does the sync it calls.
WebhookInv ==
    /\ \A p \in Payments : payment[p].ref => payment[p].status \in {"pending", "success"}
    /\ \A p \in charged : payment[p].ref
    /\ \A p \in Payments : payment[p].status = "success" => p \in charged
    /\ \A w \in Workers :
          \/ pc[w] \in WebhookPcs
          \/ pc[w] \in SyncPcs /\ req[w].payment # None
          => req[w].payment \in charged

\* From the moment a webhook has marked its payment the row is final.
MarkedInv ==
    \A w \in Workers :
        /\ pc[w] \in SyncPcs /\ req[w].payment # None =>
              /\ payment[req[w].payment].status = "success"
              /\ payment[req[w].payment].student = req[w].student
              /\ payment[req[w].payment].term = req[w].term
        /\ pc[w] \in {"receipt", "notify"} =>
              payment[req[w].payment].status = "success"

\* A webhook that got past its sync left a ledger row behind.
RowExists(p) == payment[p].term # None => ledger[payment[p].student][payment[p].term].exists

LedgerExistsInv ==
    \A w \in Workers : pc[w] \in {"receipt", "notify"} => RowExists(req[w].payment)

\* At most one request may still notify about a payment: the one whose receipt
\* was inserted.
NoticeInv ==
    /\ \A w \in Workers : pc[w] = "notify" =>
          /\ req[w].payment \in receipts
          /\ notices[req[w].payment] = 0
    /\ \A v, w \in Workers :
          pc[v] = "notify" /\ pc[w] = "notify" /\ req[v].payment = req[w].payment => v = w

\* The sums a sync holds are of money that is booked for its student and term.
FrameSound ==
    \A w \in Workers : pc[w] \in SyncPcs =>
        /\ req[w].paid \subseteq SuccessfulPayments(req[w].student, req[w].term)
        /\ req[w].aid \subseteq ApprovedBursaries(req[w].student, req[w].term)

\* A webhook's sum has the webhook's own payment in it.
OwnPaymentSummed ==
    \A w \in Workers :
        pc[w] \in SyncPcs \ {"sumPayments"} /\ req[w].payment # None =>
            req[w].payment \in req[w].paid

IType == TypeOK /\ RequestOK /\ RowsOK

ISettle == InitiateInv /\ WebhookInv /\ MarkedInv

INotice == LedgerExistsInv /\ ReceiptAfterLedger /\ NoticeInv /\ NotifiedOnce

ILedger == FrameSound /\ LedgerSound /\ OwnPaymentSummed

IInv == IType /\ ISettle /\ INotice /\ ILedger
==============================================================================
