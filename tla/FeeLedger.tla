------------------------------ MODULE FeeLedger ------------------------------
(***************************************************************************)
(* The fee books of a school: fee structures, bursary approvals and the    *)
(* per-student, per-term ledger that FeesService.syncLedger recomputes     *)
(* from the payment and bursary tables (fees.service.ts).                  *)
(*                                                                         *)
(* The API process handles many requests at a time and the code takes no   *)
(* lock and opens no transaction here, so every `await` is a point where   *)
(* other requests run.  A request is a worker: pc[w] is the database call  *)
(* it is about to make, req[w] its local variables.  One action is one     *)
(* database call and the code up to the next `await`.                      *)
(*                                                                         *)
(* A ledger row is kept as the set of payments and bursaries its totalPaid *)
(* adds up, rather than as the sum: two rows with the same set have the    *)
(* same totalPaid and balance, and the set also tells which money is       *)
(* missing from it.                                                        *)
(***************************************************************************)
EXTENDS Naturals

CONSTANTS
    Workers,     \* requests the process may have in flight
    Payments,    \* identities of payment rows
    Bursaries,   \* identities of bursary approvals
    Students,    \* students of the school
    Classes,     \* classes of the school
    Terms,       \* (term, academicYear) pairs
    Fees,        \* amounts a fee structure may ask
    None,        \* null in a row, undefined in a variable
    MaxAborts,   \* bound: requests that die before they finish
    MaxChanges   \* bound: edits of fee structures and of class membership

ASSUME NoneAssumption ==
    /\ None \notin Payments
    /\ None \notin Students
    /\ None \notin Classes
    /\ None \notin Terms

\* Identities of rows of two tables.
ASSUME IdentityAssumption == Payments \intersect Bursaries = {}

ASSUME NumberAssumption == 
    /\ Fees \subseteq Nat 
    /\ MaxAborts \in Nat 
    /\ MaxChanges \in Nat

VARIABLES
    payment,       \* table payments: status, reference, student, term
    bursary,       \* table bursary_approvals: student, term
    feeStructure,  \* table fee_structures: amount per class and term
    classes,       \* table classes: the rows that are there
    classOf,       \* students.class_id
    ledger,        \* table student_fee_ledger
    pc,            \* the next database call of each request
    req,           \* the local variables of each request
    aborts,        \* number of requests that died so far
    changes        \* number of edits of fees and classes so far

tables == <<payment, bursary, feeStructure, classes, classOf, ledger>>
feeVars == <<payment, bursary, feeStructure, classes, classOf, ledger, pc, req, aborts, changes>>

-----------------------------------------------------------------------------
(* Rows.  A row that was never created has status "absent", or no student,  *)
(* or exists = FALSE.                                                       *)

PaymentRow == [status  : {"absent", "pending", "success", "deleted"},
               ref     : BOOLEAN,
               student : Students \union {None},
               term    : Terms \union {None}]

BursaryRow == [student : Students \union {None}, term : Terms \union {None}]

LedgerRow == [exists  : BOOLEAN,
              owed    : Fees \union {0},
              credits : SUBSET (Payments \union Bursaries)]

Request == [payment : Payments \union {None},
            student : Students \union {None},
            term    : Terms \union {None},
            paid    : SUBSET Payments,
            aid     : SUBSET Bursaries,
            class   : Classes \union {None},
            owed    : Fees \union {0}]

SyncPcs == {"sumPayments", "sumBursaries", "findClass", "findFee", "upsert"}
PaymentPcs == {"initialize", "storeReference", "cleanup",
               "find", "mark", "receipt", "notify"}

\* The variables of a request for payment p, student s and term t.
Locals(p, s, t) == [payment |-> p, student |-> s, term |-> t,
                    paid |-> {}, aid |-> {}, class |-> None, owed |-> 0]

NoRequest == Locals(None, None, None)

\* The where clauses of the two aggregates of syncLedger.
SuccessfulPayments(s, t) ==
    {p \in Payments : /\ payment[p].status = "success"
                      /\ payment[p].student = s
                      /\ payment[p].term = t}

ApprovedBursaries(s, t) ==
    {b \in Bursaries : bursary[b].student = s /\ bursary[b].term = t}

FeeTypeOK ==
    /\ payment \in [Payments -> PaymentRow]
    /\ bursary \in [Bursaries -> BursaryRow]
    /\ feeStructure \in [Classes -> [Terms -> Fees \union {None}]]
    /\ classes \subseteq Classes
    /\ classOf \in [Students -> Classes \union {None}]
    /\ ledger \in [Students -> [Terms -> LedgerRow]]
    /\ pc \in [Workers -> {"idle"} \union SyncPcs \union PaymentPcs]
    /\ req \in [Workers -> Request]
    /\ aborts \in 0..MaxAborts
    /\ changes \in 0..MaxChanges

FeeInit ==
    /\ payment = [p \in Payments |-> [status |-> "absent", ref |-> FALSE,
                                      student |-> None, term |-> None]]
    /\ bursary = [b \in Bursaries |-> [student |-> None, term |-> None]]
    /\ feeStructure \in [Classes -> [Terms -> Fees \union {None}]]
    /\ classes = Classes
    /\ classOf \in [Students -> Classes \union {None}]
    /\ ledger = [s \in Students |-> [t \in Terms |->
                    [exists |-> FALSE, owed |-> 0, credits |-> {}]]]
    /\ pc = [w \in Workers |-> "idle"]
    /\ req = [w \in Workers |-> NoRequest]
    /\ aborts = 0
    /\ changes = 0

-----------------------------------------------------------------------------
Goto(w, next) == pc' = [pc EXCEPT ![w] = next]

Finish(w) == Goto(w, "idle") /\ req' = [req EXCEPT ![w] = NoRequest]

(* syncLedger: four reads, then one upsert of what they added up to.        *)

\* Mutant of SumPayments: the aggregate forgets status: 'success'.
SumPaymentsAnyStatus(w) ==
    /\ pc[w] = "sumPayments"
    /\ req' = [req EXCEPT ![w].paid = {p \in Payments : /\ payment[p].student = req[w].student
                                                       /\ payment[p].term = req[w].term}]
    /\ Goto(w, "sumBursaries")
    /\ UNCHANGED <<tables, aborts, changes>>

\* const payments = await this.prisma.payment.aggregate(...)
SumPayments(w) ==
    /\ pc[w] = "sumPayments"
    /\ req' = [req EXCEPT ![w].paid = SuccessfulPayments(req[w].student, req[w].term)]
    /\ Goto(w, "sumBursaries")
    /\ UNCHANGED <<tables, aborts, changes>>

\* const bursaries = await this.prisma.bursaryApproval.aggregate(...)
SumBursaries(w) ==
    /\ pc[w] = "sumBursaries"
    /\ req' = [req EXCEPT ![w].aid = ApprovedBursaries(req[w].student, req[w].term)]
    /\ Goto(w, "findClass")
    /\ UNCHANGED <<tables, aborts, changes>>

\* The student's class; a student of no class owes nothing.
FindClass(w) ==
    /\ pc[w] = "findClass"
    /\ req' = [req EXCEPT ![w].class = classOf[req[w].student]]
    /\ Goto(w, IF classOf[req[w].student] = None THEN "upsert" ELSE "findFee")
    /\ UNCHANGED <<tables, aborts, changes>>

\* Mutant of FindFee: reads the amount of a fee structure that is not there.
FindFeeUnchecked(w) ==
    /\ pc[w] = "findFee"
    /\ req' = [req EXCEPT ![w].owed = feeStructure[req[w].class][req[w].term]]
    /\ Goto(w, "upsert")
    /\ UNCHANGED <<tables, aborts, changes>>

\* The fee of that class this term; no fee structure, nothing owed.
FindFee(w) ==
    /\ pc[w] = "findFee"
    /\ LET fee == feeStructure[req[w].class][req[w].term]
       IN  req' = [req EXCEPT ![w].owed = IF fee = None THEN 0 ELSE fee]
    /\ Goto(w, "upsert")
    /\ UNCHANGED <<tables, aborts, changes>>

\* Mutant of UpsertLedger: bursaries are left out of the total.
UpsertLedgerPaidOnly(w, next) ==
    /\ pc[w] = "upsert"
    /\ ledger' = [ledger EXCEPT ![req[w].student][req[w].term] =
                    [exists |-> TRUE, owed |-> req[w].owed, credits |-> req[w].paid]]
    /\ req' = [req EXCEPT ![w] = Locals(req[w].payment, None, None)]
    /\ Goto(w, next)
    /\ UNCHANGED <<payment, bursary, feeStructure, classes, classOf, aborts, changes>>

\* Mutant of UpsertLedger: a row that exists is left as it is (update: {}).
UpsertLedgerCreateOnly(w, next) ==
    /\ pc[w] = "upsert"
    /\ ledger' = [ledger EXCEPT ![req[w].student][req[w].term] =
                    IF @.exists THEN @
                    ELSE [exists  |-> TRUE,
                          owed    |-> req[w].owed,
                          credits |-> req[w].paid \union req[w].aid]]
    /\ req' = [req EXCEPT ![w] = Locals(req[w].payment, None, None)]
    /\ Goto(w, next)
    /\ UNCHANGED <<payment, bursary, feeStructure, classes, classOf, aborts, changes>>

\* One INSERT ... ON CONFLICT on (student, term, year): it replaces whatever
\* the row said.  The request then goes on with `next`.
UpsertLedger(w, next) ==
    /\ pc[w] = "upsert"
    /\ ledger' = [ledger EXCEPT ![req[w].student][req[w].term] =
                    [exists  |-> TRUE,
                     owed    |-> req[w].owed,
                     credits |-> req[w].paid \union req[w].aid]]
    /\ req' = [req EXCEPT ![w] = Locals(req[w].payment, None, None)]
    /\ Goto(w, next)
    /\ UNCHANGED <<payment, bursary, feeStructure, classes, classOf, aborts, changes>>

SyncRead(w) == SumPayments(w) \/ SumBursaries(w) \/ FindClass(w) \/ FindFee(w)

\* The first call of a request that runs syncLedger(s, t) on behalf of p.
CallSync(w, p, s, t) ==
    /\ req' = [req EXCEPT ![w] = Locals(p, s, t)]
    /\ Goto(w, "sumPayments")

-----------------------------------------------------------------------------
(* createBursaryApproval: insert the approval, then sync the ledger when it *)
(* names a term and a year.                                                 *)

CreateBursaryApproval(w, b, s, t) ==
    /\ pc[w] = "idle"
    /\ bursary[b].student = None
    /\ bursary' = [bursary EXCEPT ![b] = [student |-> s, term |-> t]]
    /\ IF t = None THEN UNCHANGED <<pc, req>> ELSE CallSync(w, None, s, t)
    /\ UNCHANGED <<payment, feeStructure, classes, classOf, ledger, aborts, changes>>

FinishBursary(w) == req[w].payment = None /\ UpsertLedger(w, "idle")

(* Fee structures: at most one per class and term (a lookup in the code, a  *)
(* unique index in the database), edited in place; no ledger is recomputed. *)

Change == changes < MaxChanges /\ changes' = changes + 1

CreateFeeStructure(c, t, amount) ==
    /\ Change
    /\ c \in classes
    /\ feeStructure[c][t] = None
    /\ feeStructure' = [feeStructure EXCEPT ![c][t] = amount]
    /\ UNCHANGED <<payment, bursary, classes, classOf, ledger, pc, req, aborts>>

UpdateFeeStructure(c, t, amount) ==
    /\ Change
    /\ feeStructure[c][t] # None
    /\ feeStructure' = [feeStructure EXCEPT ![c][t] = amount]
    /\ UNCHANGED <<payment, bursary, classes, classOf, ledger, pc, req, aborts>>

\* A promotion or an edit of the student writes students.class_id (an edit may
\* set it to null), and leaves the ledger.
ChangeClass(s, c) ==
    /\ Change
    /\ c \in classes \union {None}
    /\ classOf' = [classOf EXCEPT ![s] = c]
    /\ UNCHANGED <<payment, bursary, feeStructure, classes, ledger, pc, req, aborts>>

\* Deleting a class nulls class_id of the students that still name it and
\* cascades to its fee structures.  It is refused while the class has an
\* enrollment, a table not modelled here: a student may name a class without
\* one, for deactivating a student deletes the enrollments and keeps class_id.
RemoveClass(c) ==
    /\ Change
    /\ c \in classes
    /\ classes' = classes \ {c}
    /\ classOf' = [s \in Students |-> IF classOf[s] = c THEN None ELSE classOf[s]]
    /\ feeStructure' = [feeStructure EXCEPT ![c] = [t \in Terms |-> None]]
    /\ UNCHANGED <<payment, bursary, ledger, pc, req, aborts>>

\* A request dies at an await: the database rejects the call, the connection
\* drops or the process is restarted.  What it wrote before stays written.
Abort(w) ==
    /\ pc[w] # "idle"
    /\ aborts < MaxAborts
    /\ aborts' = aborts + 1
    /\ Finish(w)
    /\ UNCHANGED <<tables, changes>>

Desk ==
    \/ \E w \in Workers, b \in Bursaries, s \in Students, t \in Terms \union {None} :
          CreateBursaryApproval(w, b, s, t)
    \/ \E c \in Classes, t \in Terms, amount \in Fees :
          CreateFeeStructure(c, t, amount) \/ UpdateFeeStructure(c, t, amount)
    \/ \E s \in Students, c \in Classes \union {None} : ChangeClass(s, c)
    \/ \E c \in Classes : RemoveClass(c)

FeeNext ==
    \/ Desk
    \/ \E w \in Workers : SyncRead(w) \/ FinishBursary(w) \/ Abort(w)

FeeSpec ==
    /\ FeeInit
    /\ [][FeeNext]_feeVars
    /\ \A w \in Workers : WF_feeVars(SyncRead(w) \/ FinishBursary(w))

-----------------------------------------------------------------------------
(* Properties.                                                              *)

\* A ledger never credits a student with money nobody paid or granted: every
\* credit is a successful payment or an approved bursary of that student for
\* that term, however many syncs overlap and whichever of them die.
LedgerSound ==
    \A s \in Students, t \in Terms :
        ledger[s][t].credits \subseteq SuccessfulPayments(s, t) \union ApprovedBursaries(s, t)

\* An approval for a term reaches the ledger of that term (another sync may
\* still take it out again), unless its request dies.
Credited(b) ==
    /\ bursary[b].term # None
    /\ b \in ledger[bursary[b].student][bursary[b].term].credits

ApprovalReachesLedger ==
    \A b \in Bursaries : <>(bursary[b].term # None) => <>(Credited(b) \/ aborts > 0)

\* What a ledger row should say once no request is running: all the money of
\* the term, "Sum all successful payments for this student/term/year".
LedgerComplete ==
    \A s \in Students, t \in Terms :
        LET booked == SuccessfulPayments(s, t) \union ApprovedBursaries(s, t)
        IN  booked # {} => ledger[s][t].credits = booked

Quiescent == \A w \in Workers : pc[w] = "idle"

\* getFinanceSummary: what it calls collected for a term, from table payments.
Collected(t) == {p \in Payments : payment[p].status = "success" /\ payment[p].term = t}

\* getStudentLedger: what a student is told to have paid, added up from the
\* ledger rows of all terms.
StatementPaid(s) == UNION {ledger[s][t].credits : t \in Terms}

\* The bursar's summary and the statements of the students are of the same
\* money, and no money is in two rows.  Money without a term is in neither.
SummariesAgree ==
    /\ UNION {StatementPaid(s) : s \in Students} =
          (UNION {Collected(t) : t \in Terms}) \union {b \in Bursaries : bursary[b].term # None}
    /\ \A r, s \in Students, t, u \in Terms :
          <<r, t>> # <<s, u>> => ledger[r][t].credits \cap ledger[s][u].credits = {}

\* When no request is in flight and none died, the ledger has all the money,
\* and so have the summaries made from it.  syncLedger gives this when requests
\* run one at a time; two overlapping syncs of one student and term break it
\* (the older sum is upserted last).
QuietLedgerComplete == Quiescent /\ aborts = 0 => LedgerComplete /\ SummariesAgree
==============================================================================
