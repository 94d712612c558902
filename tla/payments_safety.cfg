SPECIFICATION Spec
CONSTANTS
    Workers = {w1, w2}
    Payments = {p1, p2}
    Bursaries = {b1}
    Students = {s1}
    Classes = {c1}
    Terms = {t1}
    Fees = {1}
    None = None
    MaxAborts = 1
    MaxChanges = 1
SYMMETRY Symmetry
INVARIANTS
    TypeOK
    LedgerSound
    BooksFollowPaystack
    NotifiedOnce
    ReceiptAfterLedger
CHECK_DEADLOCK FALSE
PROPERTIES
    OwnPaymentCredited
    ImplementsSettlementSafety
