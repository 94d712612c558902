SPECIFICATION Spec
CONSTANTS
    Parents = {u1}
    Office = {a1, a2}
    Teachers = {t1}
    Leaves = {r1, r2}
    Students = {s1}
    Away = {s1}
    Days = {4, 5, 6}
    Offset = 0
    MaxAborts = 0
    MaxSheets = 1
    None = None
CHECK_DEADLOCK FALSE
PROPERTIES
    DecisionIsFinal
