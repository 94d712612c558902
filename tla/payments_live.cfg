SPECIFICATION FairSpec
CONSTANTS
    Workers = {w1, w2}
    Payments = {p1}
    Bursaries = {b1, b2}
    Students = {s1}
    Classes = {c1}
    Terms = {t1}
    Fees = {1}
    None = None
    MaxAborts = 2
    MaxChanges = 0
CHECK_DEADLOCK FALSE
PROPERTIES
    ImplementsSettlement
    ReceiptedUnlessDied
    ApprovalReachesLedger
