SPECIFICATION Spec
CONSTANTS
    Workers = {w1, w2}
    Payments = {p1, p2}
    Bursaries = {}
    Students = {s1}
    Classes = {c1}
    Terms = {t1}
    Fees = {1}
    None = None
    MaxAborts = 0
    MaxChanges = 0
CHECK_DEADLOCK FALSE
INVARIANTS
    QuietLedgerComplete
