SPECIFICATION FairSpec
CONSTANTS
    Parents = {u1}
    Office = {a1}
    Teachers = {t1}
    Leaves = {r1, r2}
    Students = {s1, s2}
    Away = {s1}
    Days = {5, 6}
    Offset = 0
    MaxAborts = 1
    MaxSheets = 1
    None = None
CHECK_DEADLOCK FALSE
INVARIANTS
    LeaveTypeOK
    NoOverlap
    OnLeaveApproved
PROPERTIES
    DecisionIsFinal
    ApprovalExcuses
    AbsenceAlerted
    LeaveCountsNeither
