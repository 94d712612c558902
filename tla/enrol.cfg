SPECIFICATION Spec
CONSTANTS
    Enrollers = {w1, w2}
    Editors = {w1}
    Promoters = {w1}
    Deactivators = {w1, w3}
    Removers = {w3}
    Students = {s1, s2, s3}
    Classes = {c1, c2}
    MaxEdits = 3
    None = None
CHECK_DEADLOCK FALSE
INVARIANTS
    EnrollTypeOK
    CurrentClassEnrolled
    AdmissionNumbers
PROPERTIES
    PromotionMoves
SYMMETRY Symmetry
