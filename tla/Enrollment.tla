----------------------------- MODULE Enrollment ------------------------------
(***************************************************************************)
(* Students, their classes and their enrollments (students.service.ts and  *)
(* classes.service.ts): enrolling a student with the next admission        *)
(* number, editing, promoting and deactivating a student, deleting a class. *)
(*                                                                         *)
(* The code does use transactions here, at the database's default level    *)
(* READ COMMITTED: a statement sees what is committed when it starts, waits *)
(* for the rows another transaction has deleted, and then no longer finds  *)
(* them.  A transaction whose later statements read nothing is one action, *)
(* its commit; foreign keys and unique indexes are checked there.  One     *)
(* year is modelled, so that every admission number has the same prefix.   *)
(***************************************************************************)
EXTENDS Naturals, FiniteSets

CONSTANTS
    Enrollers,   \* requests that enroll students
    Editors,     \* requests that edit a student
    Promoters,   \* promotions of one student (a bulk promotion is many at once)
    Deactivators,\* requests that deactivate a student
    Removers,    \* requests that delete a class
    Students,    \* identities of student rows
    Classes,     \* identities of class rows
    None,        \* null in a row, undefined in a variable
    MaxEdits     \* bound: edits, promotions and deactivations begun

Workers == UNION {Enrollers, Editors, Promoters, Deactivators, Removers}

ASSUME EnrollmentAssumption ==
    /\ IsFiniteSet(Students)
    /\ None \notin Students \union Classes
    /\ MaxEdits \in Nat

VARIABLES
    student,      \* table students
    classes,      \* table classes: the rows that are there
    enrollments,  \* table class_enrollments: pairs of student and class
    pc,           \* the next database call of each request
    req,          \* the local variables of each request
    edits         \* number of edits, promotions and deactivations begun

vars == <<student, classes, enrollments, pc, req, edits>>

Student == [number : Nat,     \* admission number, 0 before the row is there
            active : BOOLEAN,
            class  : Classes \union {None}]

Request == [student : Students \union {None},
            class   : Classes \union {None},  \* the class asked for
            seen    : Classes \union {None},  \* update: the class it read
            number  : Nat,                    \* create: the number it made up
            rows    : SUBSET (Students \X Classes)]  \* bulkPromote: the rows it deletes

NoRequest == [student |-> None, class |-> None, seen |-> None, number |-> 0, rows |-> {}]

Enrolled == {s \in Students : student[s].number > 0}

EnrollTypeOK ==
    /\ student \in [Students -> Student]
    /\ classes \subseteq Classes
    /\ enrollments \subseteq Students \X Classes
    /\ pc \in [Workers -> {"idle", "count", "create", "update", "findOld", "deleteOld",
                           "move", "drop"}]
    /\ req \in [Workers -> Request]
    /\ edits \in 0..MaxEdits

Init ==
    /\ student = [s \in Students |-> [number |-> 0, active |-> FALSE, class |-> None]]
    /\ classes = Classes
    /\ enrollments = {}
    /\ pc = [w \in Workers |-> "idle"]
    /\ req = [w \in Workers |-> NoRequest]
    /\ edits = 0

tables == <<student, classes, enrollments>>

Goto(w, next) == pc' = [pc EXCEPT ![w] = next]

Finish(w) == Goto(w, "idle") /\ req' = [req EXCEPT ![w] = NoRequest]

Edit == edits < MaxEdits /\ edits' = edits + 1

EnrollmentsOf(s) == {e \in enrollments : e[1] = s}

\* No promotion has deleted one of these rows without having committed yet: a
\* transaction that wants them waits.
NotHeld(rows) == \A v \in Workers : pc[v] = "move" => req[v].rows \intersect rows = {}

-----------------------------------------------------------------------------
(* create.                                                                  *)

FindClass(w, c) ==
    /\ pc[w] = "idle"
    /\ c \in classes
    /\ req' = [req EXCEPT ![w].class = c]
    /\ Goto(w, "count")
    /\ UNCHANGED <<tables, edits>>

\* Mutant of GenerateAdmissionNumber: inactive students are not counted.
CountActive(w) ==
    /\ pc[w] = "count"
    /\ req' = [req EXCEPT ![w].number = Cardinality({s \in Enrolled : student[s].active}) + 1]
    /\ Goto(w, "create")
    /\ UNCHANGED <<tables, edits>>

\* Mutant of GenerateAdmissionNumber: the sequence is not returned.
GenerateNothing(w) ==
    /\ pc[w] = "count"
    /\ req' = [req EXCEPT ![w].number = None]
    /\ Goto(w, "create")
    /\ UNCHANGED <<tables, edits>>

\* count + 1
GenerateAdmissionNumber(w) ==
    /\ pc[w] = "count"
    /\ req' = [req EXCEPT ![w].number = Cardinality(Enrolled) + 1]
    /\ Goto(w, "create")
    /\ UNCHANGED <<tables, edits>>

\* Mutant of CreateStudent: (school, admission number) is not unique.
CreateStudentSameNumber(w) ==
    /\ pc[w] = "create"
    /\ req[w].class \in classes
    /\ \E s \in Students \ Enrolled :
          /\ student' = [student EXCEPT ![s] =
                            [number |-> req[w].number, active |-> TRUE, class |-> req[w].class]]
          /\ enrollments' = enrollments \union {<<s, req[w].class>>}
    /\ Finish(w)
    /\ UNCHANGED <<classes, edits>>

\* User, student and enrollment in one transaction.  It is rolled back when the
\* class is gone or the number was taken in the meantime.
CreateStudent(w) ==
    /\ pc[w] = "create"
    /\ req[w].class \in classes
    /\ \A s \in Enrolled : student[s].number # req[w].number
    /\ \E s \in Students \ Enrolled :
          /\ student' = [student EXCEPT ![s] =
                            [number |-> req[w].number, active |-> TRUE, class |-> req[w].class]]
          /\ enrollments' = enrollments \union {<<s, req[w].class>>}
    /\ Finish(w)
    /\ UNCHANGED <<classes, edits>>

CreateRefused(w) ==
    /\ pc[w] = "create"
    /\ req[w].class \notin classes \/ \E s \in Enrolled : student[s].number = req[w].number
    /\ Finish(w)
    /\ UNCHANGED <<tables, edits>>

-----------------------------------------------------------------------------
(* update, as far as it is about the class (null is a choice too).          *)

ReadStudent(w, s, c) ==
    /\ pc[w] = "idle"
    /\ Edit
    /\ s \in Enrolled
    /\ c \in classes \union {None}
    /\ req' = [req EXCEPT ![w].student = s, ![w].class = c, ![w].seen = student[s].class]
    /\ Goto(w, "update")
    /\ UNCHANGED tables

\* Mutant of UpdateStudent: the new enrollment is forgotten.
UpdateStudentOnly(w) ==
    /\ pc[w] = "update"
    /\ req[w].class \in classes \union {None}
    /\ student' = [student EXCEPT ![req[w].student].class = req[w].class]
    /\ Finish(w)
    /\ UNCHANGED <<classes, enrollments, edits>>

\* The class is written whatever it is by now; whether it changed is judged by
\* what was read before the transaction.  Old enrollments stay.
UpdateStudent(w) ==
    /\ pc[w] = "update"
    /\ req[w].class \in classes \union {None}
    /\ NotHeld({<<req[w].student, req[w].class>>})
    /\ student' = [student EXCEPT ![req[w].student].class = req[w].class]
    /\ enrollments' = IF req[w].class \in {None, req[w].seen}
                        THEN enrollments
                        ELSE enrollments \union {<<req[w].student, req[w].class>>}
    /\ Finish(w)
    /\ UNCHANGED <<classes, edits>>

\* Rolled back: the class is gone, or, as for a promotion, a deadlock or a timeout.
UpdateRefused(w) ==
    /\ pc[w] = "update"
    /\ Finish(w)
    /\ UNCHANGED <<tables, edits>>

-----------------------------------------------------------------------------
(* bulkPromote, one student of it.                                          *)

FindActive(w, s, c) ==
    /\ pc[w] = "idle"
    /\ Edit
    /\ c \in classes
    /\ s \in Enrolled
    /\ student[s].active
    /\ req' = [req EXCEPT ![w].student = s, ![w].class = c]
    /\ Goto(w, "findOld")
    /\ UNCHANGED tables

\* deleteMany starts: these are the rows it sees ...
FindOldRows(w) ==
    /\ pc[w] = "findOld"
    /\ req' = [req EXCEPT ![w].rows = EnrollmentsOf(req[w].student)]
    /\ Goto(w, "deleteOld")
    /\ UNCHANGED <<tables, edits>>

\* ... and these it deletes, when no other transaction holds one of them.  The
\* deletion is not committed yet.
DeleteOldRows(w) ==
    /\ pc[w] = "deleteOld"
    /\ NotHeld(req[w].rows)
    /\ req' = [req EXCEPT ![w].rows = @ \intersect enrollments]
    /\ Goto(w, "move")
    /\ UNCHANGED <<tables, edits>>

\* Mutant of Move: the old enrollments stay.
MoveKeepOld(w) ==
    /\ pc[w] = "move"
    /\ req[w].class \in classes
    /\ enrollments' = enrollments \union {<<req[w].student, req[w].class>>}
    /\ student' = [student EXCEPT ![req[w].student].class = req[w].class]
    /\ Finish(w)
    /\ UNCHANGED <<classes, edits>>

\* Insert the enrollment, set the class, commit.
Move(w) ==
    /\ pc[w] = "move"
    /\ req[w].class \in classes
    /\ <<req[w].student, req[w].class>> \notin enrollments \ req[w].rows
    /\ enrollments' = (enrollments \ req[w].rows) \union {<<req[w].student, req[w].class>>}
    /\ student' = [student EXCEPT ![req[w].student].class = req[w].class]
    /\ Finish(w)
    /\ UNCHANGED <<classes, edits>>

\* Rolled back: the class is gone, the enrollment is there already, the database
\* breaks a deadlock with a deactivation, or the transaction took too long.
MoveRefused(w) ==
    /\ pc[w] = "move"
    /\ Finish(w)
    /\ UNCHANGED <<tables, edits>>

-----------------------------------------------------------------------------
\* deactivate: one transaction; the row and its class stay.
Deactivate(w, s) ==
    /\ pc[w] = "idle"
    /\ Edit
    /\ s \in Enrolled
    /\ NotHeld(EnrollmentsOf(s))
    /\ student' = [student EXCEPT ![s].active = FALSE]
    /\ enrollments' = enrollments \ EnrollmentsOf(s)
    /\ UNCHANGED <<classes, pc, req>>

\* remove: the class must have no enrollment ...
CountEnrollments(w, c) ==
    /\ pc[w] = "idle"
    /\ c \in classes
    /\ \A e \in enrollments : e[2] # c
    /\ req' = [req EXCEPT ![w].class = c]
    /\ Goto(w, "drop")
    /\ UNCHANGED <<tables, edits>>

\* ... and is deleted: its enrollments go with it, class_id becomes null.
DeleteClass(w) ==
    /\ pc[w] = "drop"
    /\ LET c == req[w].class
       IN  /\ NotHeld({e \in enrollments : e[2] = c})
           /\ classes' = classes \ {c}
           /\ enrollments' = {e \in enrollments : e[2] # c}
           /\ student' = [s \in Students |->
                 IF student[s].class = c THEN [student[s] EXCEPT !.class = None] ELSE student[s]]
    /\ Finish(w)
    /\ UNCHANGED edits

-----------------------------------------------------------------------------
Advance(w) ==
    \/ GenerateAdmissionNumber(w) \/ CreateStudent(w) \/ CreateRefused(w)
    \/ UpdateStudent(w) \/ UpdateRefused(w)
    \/ FindOldRows(w) \/ DeleteOldRows(w) \/ Move(w) \/ MoveRefused(w)
    \/ DeleteClass(w)

Next ==
    \/ \E w \in Workers : Advance(w)
    \/ \E w \in Enrollers, c \in Classes : FindClass(w, c)
    \/ \E w \in Editors, s \in Students, c \in Classes \union {None} : ReadStudent(w, s, c)
    \/ \E w \in Promoters, s \in Students, c \in Classes : FindActive(w, s, c)
    \/ \E w \in Deactivators, s \in Students : Deactivate(w, s)
    \/ \E w \in Removers, c \in Classes : CountEnrollments(w, c)

Spec == Init /\ [][Next]_vars

-----------------------------------------------------------------------------
(* Properties.                                                              *)

\* Admission numbers run from 1 without a gap and without a repetition,
\* whatever enrollments overlap: a number made up too late is refused by the
\* unique index, and the next count makes up the right one.
AdmissionNumbers ==
    /\ {student[s].number : s \in Enrolled} = 1..Cardinality(Enrolled)
    /\ \A r, s \in Enrolled : student[r].number = student[s].number => r = s

\* An active student is enrolled in the class the student's row names, and the
\* class is there.
CurrentClassEnrolled ==
    \A s \in Enrolled :
        student[s].class # None =>
            /\ student[s].class \in classes
            /\ student[s].active => <<s, student[s].class>> \in enrollments

\* A promotion leaves a student with one enrollment, the one in the class of the
\* student's row ("Remove old enrollment, create new one"), although the student
\* is deactivated, or loses a class, while it runs.  Two promotions of one
\* student at the same time leave two.
PromotionMoves ==
    [][\A w \in Promoters :
          pc[w] = "move" /\ pc'[w] # "move" /\ student' # student =>
             LET s == req[w].student
             IN  {e \in enrollments' : e[1] = s} = {<<s, student'[s].class>>}]_vars
==============================================================================
