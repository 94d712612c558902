SPECIFICATION Spec
CONSTANTS
    u1 = u1
    u2 = u2
    u3 = u3
    u4 = u4
    u5 = u5
    u6 = u6
    f1 = f1
    f2 = f2
    f3 = f3
    f4 = f4
    f5 = f5
    k1 = k1
    h1 = h1
    h2 = h2
    d1 = d1
    d2 = d2
    t1 = t1
    None = none
    Clerks = {c1, c2}
    Users = {u1, u2, u3, u4, u5, u6}
    Schools = {h1, h2}
    Phones = {f1, f2, f3, f4, f5}
    Students = {s1}
    FirstSchool = h1
    FirstUsers <- MCFirstUsers
    FirstPhone <- MCFirstPhone
    NewRoles = {"class_teacher", "parent"}
    Agendas <- MCAgendas
    Logins = {w1, w2}
    Devices = {d1, d2}
    Tokens = {t1, t2, t3, t4}
    Keys <- MCKeys
    MaxAttempts = 2
    FirstHeld <- MCFirstHeld
    FirstSignedIn = u2
    Posters = {p1, p2}
    Messages = {m1, m2}
    Notices = {a1}
    Classes = {k1}
    ClassOf <- MCClassOf
    AccountOf <- MCAccountOf
INVARIANTS
    TypeOK
    RowsTogether StaffFollowsUser OneLiveToken HolderCanRefresh CodeStartsOneSession
    AudienceTold ThreadsAreOwn Correspondence
PROPERTIES
    SessionEndsForAReason ImplementsSessionLife
SYMMETRY Symmetry
CHECK_DEADLOCK FALSE
