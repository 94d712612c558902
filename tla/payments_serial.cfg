SPECIFICATION Spec
CONSTANTS
    Workers = {w1}
    Payments = {p1, p2}
    Bursaries = {b1}
    Students = {s1, s2}
    Classes = {c1}
    Terms = {t1, t2}
    Fees = {1}
    None = None
    MaxAborts = 0
    MaxChanges = 1
SYMMETRY Symmetry
CHECK_DEADLOCK FALSE
INVARIANTS
    QuietLedgerComplete
