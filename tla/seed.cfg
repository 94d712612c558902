SPECIFICATION Spec
CONSTANTS
    c1 = c1
    c2 = c2
    Users = {u1, u2, u3, u4, u5, u6, u7, u8, u9, u10, u11, u12, u13, u14, u15}
    Classes = {c1, c2}
    Existing = c1
    SUBJECTS_BY_LEVEL <- MCSubjects
    PupilsPerClass = 1
    None = none
    MaxRuns = 3
INVARIANTS
    SeedResumes
CHECK_DEADLOCK FALSE
