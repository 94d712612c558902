SPECIFICATION FairSpec
CONSTANTS
    Workers = {w1}
    Payments = {p1}
    Bursaries = {}
    Students = {s1}
    Classes = {c1}
    Terms = {t1}
    Fees = {1}
    None = None
    MaxAborts = 1
    MaxChanges = 0
CHECK_DEADLOCK FALSE
PROPERTIES
    SuccessIsReceipted
