SPECIFICATION Spec
CONSTANTS
    Schedulers = {w1}
    Heads = {w1}
    Graders = {w1}
    Generators = {g1}
    Subjects = {m1, m2}
    Periods = {p1, p2}
    Assessments = {a1, a2}
    Imported = {a1}
    Students = {s1, s2}
    Times = {1, 2, 3}
    Marks = {1, 2}
    MaxScores = {1, 2}
    None = None
    MaxWrites = 3
    MaxBuilds = 2
CHECK_DEADLOCK FALSE
INVARIANTS
    ReportTypeOK
    NoDoubleBooking
    ScoreWithinMax
    StandingsAgree
PROPERTIES
    PositionInClass
    CardOfOneMoment
SYMMETRY Symmetry
