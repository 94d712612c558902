--------------------------------- MODULE Seed ---------------------------------
(***************************************************************************)
(* The seeding script of a school (prisma/seed.ts): administrators,        *)
(* classes, subjects, class teachers and pupils, one row after the other   *)
(* and without a transaction.  A run that dies leaves what it wrote, and   *)
(* the script is run again: some rows are looked up before they are made,  *)
(* others are made anew by every run.                                      *)
(*                                                                         *)
(* One action is one database call.  The order of the entries of a list is *)
(* of no consequence and any is taken.  A random phone or admission number *)
(* that is in use makes the database refuse the row, one of the ways a run *)
(* dies.                                                                   *)
(***************************************************************************)
EXTENDS Naturals, FiniteSets

CONSTANTS
    Users,             \* identities of user rows
    Classes,           \* the classes of the school that the script knows
    Existing,          \* the one that is there before the script (EXISTING.classId)
    SUBJECTS_BY_LEVEL, \* the names of the subjects of each class, by its level
    PupilsPerClass,    \* five in the script
    None,              \* null, undefined
    MaxRuns            \* bound: how often the script is started

ADMIN_STAFF == {"principal", "vice_principal", "admin"}

\* The classes the script makes.
CLASS_DEFS == Classes \ {Existing}

ASSUME SeedAssumption ==
    /\ Existing \in Classes
    /\ CLASS_DEFS # {}
    /\ None \notin Users \union Classes \union ADMIN_STAFF \union {"class_teacher", "student"}
    /\ DOMAIN SUBJECTS_BY_LEVEL = Classes
    /\ \E c \in Classes : SUBJECTS_BY_LEVEL[c] # {}
    /\ PupilsPerClass \in Nat \ {0}
    /\ MaxRuns \in Nat

VARIABLES
    role,      \* table users: the role of each row
    staff,     \* table staff: the users with a row
    classes,   \* table classes: the rows that are there
    teacher,   \* classes.teacher_id
    subjects,  \* table subjects: pairs of class and name
    pupils,    \* table students: pairs of user and class
    enrolled,  \* table class_enrollments: pairs of user and class
    section,   \* the section of the script that runs
    todo,      \* what is left of the list it goes through
    call,      \* the next database call, for the entry at hand
    entry,     \* the entry at hand
    made,      \* the user row made for it
    runs,      \* number of runs begun
    finished,  \* number of runs that came to their end
    deaths     \* number of runs that died

rows == <<role, staff, classes, teacher, subjects, pupils, enrolled>>
script == <<section, todo, call, entry, made>>
counts == <<runs, finished, deaths>>
vars == <<role, staff, classes, teacher, subjects, pupils, enrolled,
          section, todo, call, entry, made, runs, finished, deaths>>

\* The subjects of each class, by the level its name tells.
Lessons == UNION {{c} \X SUBJECTS_BY_LEVEL[c] : c \in Classes}

\* The sections in their order, each with the list it goes through.
List == [admins   |-> ADMIN_STAFF,
         classes  |-> CLASS_DEFS,
         subjects |-> Lessons,
         teachers |-> Classes,
         pupils   |-> Classes \X (1..PupilsPerClass),
         summary  |-> {},
         idle     |-> {}]

After == [admins |-> "classes", classes |-> "subjects", subjects |-> "teachers",
          teachers |-> "pupils", pupils |-> "summary"]

\* The school was onboarded, perhaps with the administrator that comes of it.
Init ==
    /\ role \in {[u \in Users |-> IF u \in A THEN "admin" ELSE None] :
                    A \in {{}, {CHOOSE u \in Users : TRUE}}}
    /\ staff = {u \in Users : role[u] # None}
    /\ classes = {Existing}
    /\ teacher = [c \in Classes |-> None]
    /\ subjects = {}
    /\ pupils = {}
    /\ enrolled = {}
    /\ section = "idle" /\ todo = {} /\ call = "find" /\ entry = None /\ made = None
    /\ runs = 0 /\ finished = 0 /\ deaths = 0

\* The entry x of the list needs this call first.
At(name, x) == section = name /\ call = "find" /\ x \in todo

Calling(name, next) == section = name /\ call = next

\* The entry goes on with the next call.
Then(next) == call' = next /\ UNCHANGED <<section, todo>>

\* The script is done with the entry x.
DoneWith(x) ==
    /\ call' = "find" /\ entry' = None /\ made' = None
    /\ LET rest == todo \ {x}
       IN  IF rest # {}
             THEN todo' = rest /\ UNCHANGED section
             ELSE section' = After[section] /\ todo' = List[After[section]]

\* user.create, of the next row; which one is of no consequence.
MakeUser(r) ==
    \E u \in Users :
       /\ role[u] = None /\ u = CHOOSE v \in Users : role[v] = None
       /\ role' = [role EXCEPT ![u] = r]
       /\ made' = u

Begin ==
    /\ section = "idle"
    /\ runs < MaxRuns
    /\ runs' = runs + 1
    /\ section' = "admins" /\ todo' = List["admins"]
    /\ UNCHANGED <<rows, call, entry, made, finished, deaths>>

-----------------------------------------------------------------------------
(* Administrators: a role that has a user is skipped.  The bursar is looked  *)
(* for by the role admin.                                                    *)

\* Mutant of FindAdmin: it is not asked whether the role has a user.
MakeAdmin(r) ==
    /\ At("admins", r)
    /\ entry' = r /\ Then("user") /\ UNCHANGED made
    /\ UNCHANGED <<rows, counts>>

FindAdmin(r) ==
    /\ At("admins", r)
    /\ IF \E u \in Users : role[u] = r
         THEN DoneWith(r)
         ELSE entry' = r /\ Then("user") /\ UNCHANGED made
    /\ UNCHANGED <<rows, counts>>

CreateAdmin ==
    /\ Calling("admins", "user")
    /\ MakeUser(entry)
    /\ Then("staff")
    /\ UNCHANGED <<staff, classes, teacher, subjects, pupils, enrolled, entry, counts>>

CreateAdminStaff ==
    /\ Calling("admins", "staff")
    /\ staff' = staff \union {made}
    /\ DoneWith(entry)
    /\ UNCHANGED <<role, classes, teacher, subjects, pupils, enrolled, counts>>

-----------------------------------------------------------------------------
(* Classes and subjects: what is there is skipped.                           *)

FindClass(c) ==
    /\ At("classes", c)
    /\ IF c \in classes
         THEN DoneWith(c)
         ELSE entry' = c /\ Then("class") /\ UNCHANGED made
    /\ UNCHANGED <<rows, counts>>

CreateClass ==
    /\ Calling("classes", "class")
    /\ classes' = classes \union {entry}
    /\ DoneWith(entry)
    /\ UNCHANGED <<role, staff, teacher, subjects, pupils, enrolled, counts>>

FindSubject(l) ==
    /\ At("subjects", l)
    /\ IF l \in subjects
         THEN DoneWith(l)
         ELSE entry' = l /\ Then("subject") /\ UNCHANGED made
    /\ UNCHANGED <<rows, counts>>

CreateSubject ==
    /\ Calling("subjects", "subject")
    /\ subjects' = subjects \union {entry}
    /\ DoneWith(entry)
    /\ UNCHANGED <<role, staff, classes, teacher, pupils, enrolled, counts>>

-----------------------------------------------------------------------------
(* Class teachers and pupils: every run makes new ones.                      *)

CreateTeacherUser(c) ==
    /\ At("teachers", c)
    /\ MakeUser("class_teacher")
    /\ entry' = c /\ Then("staff")
    /\ UNCHANGED <<staff, classes, teacher, subjects, pupils, enrolled, counts>>

CreateTeacherStaff ==
    /\ Calling("teachers", "staff")
    /\ staff' = staff \union {made}
    /\ Then("assign")
    /\ UNCHANGED <<role, classes, teacher, subjects, pupils, enrolled, entry, made, counts>>

\* The class has the new teacher; the one it had stays on the staff.
AssignTeacher ==
    /\ Calling("teachers", "assign")
    /\ teacher' = [teacher EXCEPT ![entry] = made]
    /\ DoneWith(entry)
    /\ UNCHANGED <<role, staff, classes, subjects, pupils, enrolled, counts>>

CreatePupilUser(p) ==
    /\ At("pupils", p)
    /\ MakeUser("student")
    /\ entry' = p /\ Then("student")
    /\ UNCHANGED <<staff, classes, teacher, subjects, pupils, enrolled, counts>>

CreatePupil ==
    /\ Calling("pupils", "student")
    /\ pupils' = pupils \union {<<made, entry[1]>>}
    /\ Then("enroll")
    /\ UNCHANGED <<role, staff, classes, teacher, subjects, enrolled, entry, made, counts>>

Enroll ==
    /\ Calling("pupils", "enroll")
    /\ enrolled' = enrolled \union {<<made, entry[1]>>}
    /\ DoneWith(entry)
    /\ UNCHANGED <<role, staff, classes, teacher, subjects, pupils, counts>>

\* The rows are counted and the process ends.
Summarise ==
    /\ section = "summary"
    /\ section' = "idle"
    /\ finished' = finished + 1
    /\ UNCHANGED <<rows, todo, call, entry, made, runs, deaths>>

\* The database refuses a row or the process is killed: nothing is taken back.
Die ==
    /\ section # "idle"
    /\ section' = "idle" /\ todo' = {} /\ call' = "find" /\ entry' = None /\ made' = None
    /\ deaths' = deaths + 1
    /\ UNCHANGED <<rows, runs, finished>>

-----------------------------------------------------------------------------
Next ==
    \/ Begin
    \/ \E r \in ADMIN_STAFF : FindAdmin(r)
    \/ CreateAdmin \/ CreateAdminStaff
    \/ \E c \in CLASS_DEFS : FindClass(c)
    \/ CreateClass
    \/ \E l \in Lessons : FindSubject(l)
    \/ CreateSubject
    \/ \E c \in Classes : CreateTeacherUser(c)
    \/ CreateTeacherStaff \/ AssignTeacher
    \/ \E p \in List["pupils"] : CreatePupilUser(p)
    \/ CreatePupil \/ Enroll \/ Summarise \/ Die

Spec == Init /\ [][Next]_vars

-----------------------------------------------------------------------------
(* Properties.                                                               *)

PupilsOf(c) == {u \in Users : <<u, c>> \in enrolled}

\* The school a run leaves that came to its end, whatever died before it.
SchoolComplete ==
    /\ \A r \in ADMIN_STAFF : \E u \in Users : role[u] = r
    /\ classes = Classes
    /\ subjects = Lessons
    /\ \A c \in Classes : teacher[c] \in staff /\ role[teacher[c]] = "class_teacher"
    /\ \A c, d \in Classes : teacher[c] = teacher[d] => c = d
    /\ \A c \in Classes : Cardinality(PupilsOf(c)) >= finished * PupilsPerClass

\* What the script looks for before it makes it is made once; pupils come with
\* every run.
NothingTwice ==
    /\ \A u, v \in Users : role[u] \in ADMIN_STAFF /\ role[u] = role[v] => u = v
    /\ \A c \in Classes : Cardinality(PupilsOf(c)) <= runs * PupilsPerClass

\* Accounts without a profile, and pupils that are in no class.
Torn == {u \in Users : /\ role[u] # None /\ u \notin staff
                       /\ \A c \in Classes : <<u, c>> \notin enrolled}

\* A run that dies leaves at most one half-made account, and no later run makes
\* it whole: an administrator without a staff row is found and skipped.
OneTornPerDeath == Cardinality(Torn) <= deaths + (IF made # None THEN 1 ELSE 0)

\* The script can be run again after a run that died anywhere: a run that comes
\* to its end leaves a complete school, with nothing twice that it looks for,
\* and each death costs one account.
SeedResumes == (finished > 0 => SchoolComplete) /\ NothingTwice /\ OneTornPerDeath
==============================================================================
