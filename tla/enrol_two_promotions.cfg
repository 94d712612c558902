SPECIFICATION Spec
CONSTANTS
    Enrollers = {w1}
    Editors = {}
    Promoters = {w1, w2}
    Deactivators = {w1}
    Removers = {}
    Students = {s1}
    Classes = {c1, c2, c3}
    MaxEdits = 3
    None = None
CHECK_DEADLOCK FALSE
PROPERTIES
    PromotionMoves
