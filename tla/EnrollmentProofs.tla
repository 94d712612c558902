-------------------------- MODULE EnrollmentProofs ---------------------------
(***************************************************************************)
(* Proofs about Enrollment for any number of students, classes and         *)
(* requests of each kind: the tables stay typed; admission numbers are     *)
(* consecutive and unique although they are counted before they are used;  *)
(* and, as long as requests that edit or promote one student do not        *)
(* overlap, active students are enrolled in their class and a promotion    *)
(* leaves one enrollment, whatever is deactivated and deleted meanwhile.   *)
(***************************************************************************)
EXTENDS Enrollment, TLAPS, FiniteSetTheorems

\* A request that writes enrollments has looked its student up.
RequestOK ==
    \A w \in Workers :
        pc[w] \in {"update", "findOld", "deleteOld", "move"} => req[w].student \in Students

TypeInv == EnrollTypeOK /\ RequestOK

\* A number that was made up is at most one ahead of the numbers in use.
NumberInv ==
    /\ AdmissionNumbers
    /\ \A w \in Workers : pc[w] = "create" => req[w].number \in 1..(Cardinality(Enrolled) + 1)

\* A request that edits a student knows the student's class, unless that class is gone.
SeenOK ==
    \A w \in Workers : pc[w] = "update" =>
        /\ req[w].student \in Enrolled
        /\ req[w].seen \in classes => student[req[w].student].class = req[w].seen

\* A promotion deletes rows of its own student only.
OwnRows ==
    \A w \in Workers : pc[w] \in {"deleteOld", "move"} =>
        \A e \in req[w].rows : e[1] = req[w].student

ClassInv == CurrentClassEnrolled /\ SeenOK /\ OwnRows

\* Where a request stands between its look at a student and its writes.
EditPcs == {"update", "findOld", "deleteOld", "move"}

\* While one request edits a student, no other edits or promotes that student.
\* The code does not see to it.
EditsAlone ==
    \A v, w \in Workers :
        pc[v] = "update" /\ pc[w] \in EditPcs /\ req[v].student = req[w].student => v = w

\* While one request promotes a student, no other edits or promotes that student.
\* The code does not see to it.
PromotionsAlone ==
    \A v, w \in Workers :
        pc[v] \in EditPcs \ {"update"} /\ pc[w] \in EditPcs /\ req[v].student = req[w].student => v = w

\* Each kind of request stays at its own calls.
RoleInv ==
    \A w \in Workers :
        /\ pc[w] = "update" => w \in Editors
        /\ pc[w] \in EditPcs \ {"update"} => w \in Promoters

-----------------------------------------------------------------------------
\* The tables are typed in the initial state.
LEMMA TypeInit == Init => TypeInv
BY EnrollmentAssumption
   DEF Init, TypeInv, EnrollTypeOK, RequestOK, Student, Request, NoRequest

\* The number of enrolled students is a natural number.
LEMMA EnrolledFinite == IsFiniteSet(Enrolled) /\ Cardinality(Enrolled) \in Nat
<1>1. IsFiniteSet(Students) /\ Enrolled \in SUBSET Students
  BY EnrollmentAssumption DEF Enrolled
<1>2. IsFiniteSet(Enrolled)
  BY <1>1, FS_Subset
<1> QED
  BY <1>2, FS_CardinalityType

\* Every statement of every request writes typed rows.
LEMMA TypeStep == TypeInv /\ [Next]_vars => TypeInv'
<1> SUFFICES ASSUME TypeInv, [Next]_vars PROVE TypeInv'
  OBVIOUS
<1> USE DEF TypeInv, EnrollTypeOK
<1>a. IsFiniteSet(Enrolled) /\ Cardinality(Enrolled) \in Nat
  BY EnrolledFinite
<1>1. ASSUME NEW w \in Workers, GenerateAdmissionNumber(w)
      PROVE  TypeInv'
  <2>1. student' \in [Students -> Student] /\ classes' \subseteq Classes /\ edits' \in 0..MaxEdits
    BY <1>1, EnrollmentAssumption DEF GenerateAdmissionNumber, tables, Student
  <2>2. req' \in [Workers -> Request]
    BY <1>1, <1>a DEF GenerateAdmissionNumber, Request, Student, Workers
  <2>3. pc' \in [Workers -> {"idle", "count", "create", "update", "findOld", "deleteOld", "move", "drop"}]
    BY <1>1 DEF GenerateAdmissionNumber, Goto, Workers
  <2>4. enrollments' \subseteq Students \X Classes
    BY <1>1 DEF GenerateAdmissionNumber, tables, RequestOK, Student
  <2>5. RequestOK'
    BY <1>1 DEF GenerateAdmissionNumber, RequestOK, Request, Goto, Workers
  <2> QED
    BY <2>1, <2>2, <2>3, <2>4, <2>5
<1>2. ASSUME NEW w \in Workers, CreateStudent(w)
      PROVE  TypeInv'
  <2>1. student' \in [Students -> Student] /\ classes' \subseteq Classes /\ edits' \in 0..MaxEdits
    BY <1>2, EnrollmentAssumption DEF CreateStudent, tables, Student, Request
  <2>2. req' \in [Workers -> Request]
    BY <1>2, <1>a DEF CreateStudent, Request, Student, Workers, Finish, NoRequest
  <2>3. pc' \in [Workers -> {"idle", "count", "create", "update", "findOld", "deleteOld", "move", "drop"}]
    BY <1>2 DEF CreateStudent, Goto, Workers, Finish
  <2>4. enrollments' \subseteq Students \X Classes
    BY <1>2 DEF CreateStudent, tables, RequestOK, Student
  <2>5. RequestOK'
    BY <1>2 DEF CreateStudent, RequestOK, Request, Goto, Workers, Finish, NoRequest
  <2> QED
    BY <2>1, <2>2, <2>3, <2>4, <2>5
<1>3. ASSUME NEW w \in Workers, CreateRefused(w)
      PROVE  TypeInv'
  <2>1. student' \in [Students -> Student] /\ classes' \subseteq Classes /\ edits' \in 0..MaxEdits
    BY <1>3, EnrollmentAssumption DEF CreateRefused, tables, Student
  <2>2. req' \in [Workers -> Request]
    BY <1>3, <1>a DEF CreateRefused, Request, Student, Workers, Finish, NoRequest
  <2>3. pc' \in [Workers -> {"idle", "count", "create", "update", "findOld", "deleteOld", "move", "drop"}]
    BY <1>3 DEF CreateRefused, Goto, Workers, Finish
  <2>4. enrollments' \subseteq Students \X Classes
    BY <1>3 DEF CreateRefused, tables, RequestOK, Student
  <2>5. RequestOK'
    BY <1>3 DEF CreateRefused, RequestOK, Request, Goto, Workers, Finish, NoRequest
  <2> QED
    BY <2>1, <2>2, <2>3, <2>4, <2>5
<1>4. ASSUME NEW w \in Workers, UpdateStudent(w)
      PROVE  TypeInv'
  <2>1. student' \in [Students -> Student] /\ classes' \subseteq Classes /\ edits' \in 0..MaxEdits
    BY <1>4, EnrollmentAssumption DEF UpdateStudent, tables, Student
  <2>2. req' \in [Workers -> Request]
    BY <1>4, <1>a DEF UpdateStudent, Request, Student, Workers, Finish, NoRequest
  <2>3. pc' \in [Workers -> {"idle", "count", "create", "update", "findOld", "deleteOld", "move", "drop"}]
    BY <1>4 DEF UpdateStudent, Goto, Workers, Finish
  <2>4. enrollments' \subseteq Students \X Classes
    BY <1>4 DEF UpdateStudent, tables, RequestOK, Student
  <2>5. RequestOK'
    BY <1>4 DEF UpdateStudent, RequestOK, Request, Goto, Workers, Finish, NoRequest
  <2> QED
    BY <2>1, <2>2, <2>3, <2>4, <2>5
<1>5. ASSUME NEW w \in Workers, UpdateRefused(w)
      PROVE  TypeInv'
  <2>1. student' \in [Students -> Student] /\ classes' \subseteq Classes /\ edits' \in 0..MaxEdits
    BY <1>5, EnrollmentAssumption DEF UpdateRefused, tables, Student
  <2>2. req' \in [Workers -> Request]
    BY <1>5, <1>a DEF UpdateRefused, Request, Student, Workers, Finish, NoRequest
  <2>3. pc' \in [Workers -> {"idle", "count", "create", "update", "findOld", "deleteOld", "move", "drop"}]
    BY <1>5 DEF UpdateRefused, Goto, Workers, Finish
  <2>4. enrollments' \subseteq Students \X Classes
    BY <1>5 DEF UpdateRefused, tables, RequestOK, Student
  <2>5. RequestOK'
    BY <1>5 DEF UpdateRefused, RequestOK, Request, Goto, Workers, Finish, NoRequest
  <2> QED
    BY <2>1, <2>2, <2>3, <2>4, <2>5
<1>6. ASSUME NEW w \in Workers, FindOldRows(w)
      PROVE  TypeInv'
  <2>1. student' \in [Students -> Student] /\ classes' \subseteq Classes /\ edits' \in 0..MaxEdits
    BY <1>6, EnrollmentAssumption DEF FindOldRows, tables, Student, EnrollmentsOf
  <2>2. req' \in [Workers -> Request]
    BY <1>6, <1>a DEF FindOldRows, Request, Student, Workers, EnrollmentsOf
  <2>3. pc' \in [Workers -> {"idle", "count", "create", "update", "findOld", "deleteOld", "move", "drop"}]
    BY <1>6 DEF FindOldRows, Goto, Workers
  <2>4. enrollments' \subseteq Students \X Classes
    BY <1>6 DEF FindOldRows, tables, RequestOK, Student, EnrollmentsOf
  <2>5. RequestOK'
    BY <1>6 DEF FindOldRows, RequestOK, Request, Goto, Workers, EnrollmentsOf
  <2> QED
    BY <2>1, <2>2, <2>3, <2>4, <2>5
<1>7. ASSUME NEW w \in Workers, DeleteOldRows(w)
      PROVE  TypeInv'
  <2>1. student' \in [Students -> Student] /\ classes' \subseteq Classes /\ edits' \in 0..MaxEdits
    BY <1>7, EnrollmentAssumption DEF DeleteOldRows, tables, Student
  <2>2. req' \in [Workers -> Request]
    BY <1>7, <1>a DEF DeleteOldRows, Request, Student, Workers
  <2>3. pc' \in [Workers -> {"idle", "count", "create", "update", "findOld", "deleteOld", "move", "drop"}]
    BY <1>7 DEF DeleteOldRows, Goto, Workers
  <2>4. enrollments' \subseteq Students \X Classes
    BY <1>7 DEF DeleteOldRows, tables, RequestOK, Student
  <2>5. RequestOK'
    BY <1>7 DEF DeleteOldRows, RequestOK, Request, Goto, Workers
  <2> QED
    BY <2>1, <2>2, <2>3, <2>4, <2>5
<1>8. ASSUME NEW w \in Workers, Move(w)
      PROVE  TypeInv'
  <2>1. student' \in [Students -> Student] /\ classes' \subseteq Classes /\ edits' \in 0..MaxEdits
    BY <1>8, EnrollmentAssumption DEF Move, tables, Student
  <2>2. req' \in [Workers -> Request]
    BY <1>8, <1>a DEF Move, Request, Student, Workers, Finish, NoRequest
  <2>3. pc' \in [Workers -> {"idle", "count", "create", "update", "findOld", "deleteOld", "move", "drop"}]
    BY <1>8 DEF Move, Goto, Workers, Finish
  <2>4. enrollments' \subseteq Students \X Classes
    BY <1>8 DEF Move, tables, RequestOK, Student
  <2>5. RequestOK'
    BY <1>8 DEF Move, RequestOK, Request, Goto, Workers, Finish, NoRequest
  <2> QED
    BY <2>1, <2>2, <2>3, <2>4, <2>5
<1>9. ASSUME NEW w \in Workers, MoveRefused(w)
      PROVE  TypeInv'
  <2>1. student' \in [Students -> Student] /\ classes' \subseteq Classes /\ edits' \in 0..MaxEdits
    BY <1>9, EnrollmentAssumption DEF MoveRefused, tables, Student
  <2>2. req' \in [Workers -> Request]
    BY <1>9, <1>a DEF MoveRefused, Request, Student, Workers, Finish, NoRequest
  <2>3. pc' \in [Workers -> {"idle", "count", "create", "update", "findOld", "deleteOld", "move", "drop"}]
    BY <1>9 DEF MoveRefused, Goto, Workers, Finish
  <2>4. enrollments' \subseteq Students \X Classes
    BY <1>9 DEF MoveRefused, tables, RequestOK, Student
  <2>5. RequestOK'
    BY <1>9 DEF MoveRefused, RequestOK, Request, Goto, Workers, Finish, NoRequest
  <2> QED
    BY <2>1, <2>2, <2>3, <2>4, <2>5
<1>10. ASSUME NEW w \in Workers, DeleteClass(w)
      PROVE  TypeInv'
  <2>1. student' \in [Students -> Student] /\ classes' \subseteq Classes /\ edits' \in 0..MaxEdits
    BY <1>10, EnrollmentAssumption DEF DeleteClass, tables, Student
  <2>2. req' \in [Workers -> Request]
    BY <1>10, <1>a DEF DeleteClass, Request, Student, Workers, Finish, NoRequest
  <2>3. pc' \in [Workers -> {"idle", "count", "create", "update", "findOld", "deleteOld", "move", "drop"}]
    BY <1>10 DEF DeleteClass, Goto, Workers, Finish
  <2>4. enrollments' \subseteq Students \X Classes
    BY <1>10 DEF DeleteClass, tables, RequestOK, Student
  <2>5. RequestOK'
    BY <1>10 DEF DeleteClass, RequestOK, Request, Goto, Workers, Finish, NoRequest
  <2> QED
    BY <2>1, <2>2, <2>3, <2>4, <2>5
<1>11. ASSUME NEW w \in Workers, NEW c \in Classes, FindClass(w, c)
      PROVE  TypeInv'
  <2>1. student' \in [Students -> Student] /\ classes' \subseteq Classes /\ edits' \in 0..MaxEdits
    BY <1>11, EnrollmentAssumption DEF FindClass, tables, Student
  <2>2. req' \in [Workers -> Request]
    BY <1>11, <1>a DEF FindClass, Request, Student, Workers
  <2>3. pc' \in [Workers -> {"idle", "count", "create", "update", "findOld", "deleteOld", "move", "drop"}]
    BY <1>11 DEF FindClass, Goto, Workers
  <2>4. enrollments' \subseteq Students \X Classes
    BY <1>11 DEF FindClass, tables, RequestOK, Student
  <2>5. RequestOK'
    BY <1>11 DEF FindClass, RequestOK, Request, Goto, Workers
  <2> QED
    BY <2>1, <2>2, <2>3, <2>4, <2>5
<1>12. ASSUME NEW w \in Editors, NEW s \in Students, NEW c \in Classes \union {None}, ReadStudent(w, s, c)
      PROVE  TypeInv'
  <2>1. student' \in [Students -> Student] /\ classes' \subseteq Classes /\ edits' \in 0..MaxEdits
    BY <1>12, EnrollmentAssumption DEF ReadStudent, tables, Student, Edit, Enrolled
  <2>2. req' \in [Workers -> Request]
    <3> DEFINE k == student[s].class
    <3>1. w \in Workers /\ k \in Classes \union {None}
      BY <1>12 DEF Workers, Student
    <3>2. req' = [req EXCEPT ![w].student = s, ![w].class = c, ![w].seen = k]
      BY <1>12 DEF ReadStudent
    <3> HIDE DEF k
    <3>3. [req[w] EXCEPT !.student = s, !.class = c, !.seen = k] \in Request
      BY <1>12, <3>1 DEF Request
    <3>4. req' = [req EXCEPT ![w] = [req[w] EXCEPT !.student = s, !.class = c, !.seen = k]]
      BY <3>2
    <3> QED
      BY <3>3, <3>4
  <2>3. pc' \in [Workers -> {"idle", "count", "create", "update", "findOld", "deleteOld", "move", "drop"}]
    BY <1>12 DEF ReadStudent, Goto, Workers
  <2>4. enrollments' \subseteq Students \X Classes
    BY <1>12 DEF ReadStudent, tables, RequestOK, Student, Edit, Enrolled
  <2>5. RequestOK'
    BY <1>12 DEF ReadStudent, RequestOK, Request, Goto, Workers, Edit, Enrolled
  <2> QED
    BY <2>1, <2>2, <2>3, <2>4, <2>5
<1>13. ASSUME NEW w \in Workers, NEW s \in Students, NEW c \in Classes, FindActive(w, s, c)
      PROVE  TypeInv'
  <2>1. student' \in [Students -> Student] /\ classes' \subseteq Classes /\ edits' \in 0..MaxEdits
    BY <1>13, EnrollmentAssumption DEF FindActive, tables, Student, Edit, Enrolled
  <2>2. req' \in [Workers -> Request]
    BY <1>13, <1>a DEF FindActive, Request, Student, Workers, Edit, Enrolled
  <2>3. pc' \in [Workers -> {"idle", "count", "create", "update", "findOld", "deleteOld", "move", "drop"}]
    BY <1>13 DEF FindActive, Goto, Workers
  <2>4. enrollments' \subseteq Students \X Classes
    BY <1>13 DEF FindActive, tables, RequestOK, Student, Edit, Enrolled
  <2>5. RequestOK'
    BY <1>13 DEF FindActive, RequestOK, Request, Goto, Workers, Edit, Enrolled
  <2> QED
    BY <2>1, <2>2, <2>3, <2>4, <2>5
<1>14. ASSUME NEW w \in Workers, NEW s \in Students, Deactivate(w, s)
      PROVE  TypeInv'
  <2>1. student' \in [Students -> Student] /\ classes' \subseteq Classes /\ edits' \in 0..MaxEdits
    <3>1. student' = [student EXCEPT ![s].active = FALSE] /\ classes' = classes
      BY <1>14 DEF Deactivate
    <3>2. student' \in [Students -> Student]
      BY <3>1 DEF Student
    <3>3. edits' \in 0..MaxEdits
      BY <1>14, EnrollmentAssumption DEF Deactivate, Edit
    <3> QED
      BY <3>1, <3>2, <3>3
  <2>2. req' \in [Workers -> Request]
    BY <1>14, <1>a DEF Deactivate, Request, Student, Workers, Edit, EnrollmentsOf
  <2>3. pc' \in [Workers -> {"idle", "count", "create", "update", "findOld", "deleteOld", "move", "drop"}]
    BY <1>14 DEF Deactivate, Goto, Workers
  <2>4. enrollments' \subseteq Students \X Classes
    BY <1>14 DEF Deactivate, tables, RequestOK, Student, Edit, EnrollmentsOf
  <2>5. RequestOK'
    BY <1>14 DEF Deactivate, RequestOK, Request, Goto, Workers, Edit, EnrollmentsOf
  <2> QED
    BY <2>1, <2>2, <2>3, <2>4, <2>5
<1>15. ASSUME NEW w \in Workers, NEW c \in Classes, CountEnrollments(w, c)
      PROVE  TypeInv'
  <2>1. student' \in [Students -> Student] /\ classes' \subseteq Classes /\ edits' \in 0..MaxEdits
    BY <1>15, EnrollmentAssumption DEF CountEnrollments, tables, Student
  <2>2. req' \in [Workers -> Request]
    BY <1>15, <1>a DEF CountEnrollments, Request, Student, Workers
  <2>3. pc' \in [Workers -> {"idle", "count", "create", "update", "findOld", "deleteOld", "move", "drop"}]
    BY <1>15 DEF CountEnrollments, Goto, Workers
  <2>4. enrollments' \subseteq Students \X Classes
    BY <1>15 DEF CountEnrollments, tables, RequestOK, Student
  <2>5. RequestOK'
    BY <1>15 DEF CountEnrollments, RequestOK, Request, Goto, Workers
  <2> QED
    BY <2>1, <2>2, <2>3, <2>4, <2>5
<1>16. ASSUME UNCHANGED vars
      PROVE  TypeInv'
  BY <1>16 DEF vars, RequestOK, Student, Request
<1> QED
  BY <1>1, <1>2, <1>3, <1>4, <1>5, <1>6, <1>7, <1>8, <1>9, <1>10, <1>11, <1>12, <1>13, <1>14, <1>15, <1>16 DEF Next, Advance, Workers

\* The tables stay typed.
THEOREM TypeCorrect == Spec => []EnrollTypeOK
<1>1. Spec => []TypeInv
  BY TypeInit, TypeStep, PTL DEF Spec
<1>2. TypeInv => EnrollTypeOK
  BY DEF TypeInv
<1> QED
  BY <1>1, <1>2, PTL

-----------------------------------------------------------------------------
\* A step that changes no admission number and makes none up keeps the invariant.
LEMMA NumbersKept ==
    ASSUME NumberInv,
           \A s \in Students : student'[s].number = student[s].number,
           \A w \in Workers : pc'[w] = "create" => pc[w] = "create" /\ req'[w].number = req[w].number
    PROVE  NumberInv'
<1>1. Enrolled' = Enrolled
  BY DEF Enrolled
<1>2. {student'[s].number : s \in Enrolled} = {student[s].number : s \in Enrolled}
  BY DEF Enrolled
<1>3. \A s \in Enrolled : student'[s].number = student[s].number
  BY DEF Enrolled
<1> QED
  BY <1>1, <1>2, <1>3 DEF NumberInv, AdmissionNumbers

\* Before anybody is enrolled the set of numbers is empty, as is 1..0.
LEMMA NumberInit == Init => NumberInv
<1> SUFFICES ASSUME Init PROVE NumberInv
  OBVIOUS
<1>1. Enrolled = {}
  BY DEF Init, Enrolled
<1>2. Cardinality(Enrolled) = 0
  BY <1>1, FS_EmptySet
<1> QED
  BY <1>1, <1>2 DEF Init, NumberInv, AdmissionNumbers

\* A made-up number that nobody has is the next one: enrolling keeps the numbers
\* consecutive, and every number made up before is now taken or still the next.
LEMMA NumberStep == TypeInv /\ NumberInv /\ [Next]_vars => NumberInv'
<1> SUFFICES ASSUME TypeInv, NumberInv, [Next]_vars PROVE NumberInv'
  OBVIOUS
<1> USE DEF TypeInv, EnrollTypeOK
<1>a. IsFiniteSet(Enrolled) /\ Cardinality(Enrolled) \in Nat
  BY EnrolledFinite
<1>1. ASSUME NEW w \in Workers, GenerateAdmissionNumber(w)
      PROVE  NumberInv'
  <2>1. student' = student /\ Enrolled' = Enrolled
    BY <1>1 DEF GenerateAdmissionNumber, tables, Enrolled
  <2>2. req'[w].number = Cardinality(Enrolled) + 1
    BY <1>1 DEF GenerateAdmissionNumber, Request
  <2>3. ASSUME NEW v \in Workers \ {w}
        PROVE  pc'[v] = pc[v] /\ req'[v] = req[v]
    BY <1>1, <2>3 DEF GenerateAdmissionNumber, Goto
  <2>4. AdmissionNumbers'
    BY <2>1 DEF NumberInv, AdmissionNumbers
  <2>5. ASSUME NEW v \in Workers, pc'[v] = "create"
        PROVE  req'[v].number \in 1..(Cardinality(Enrolled) + 1)
    <3>1. CASE v = w
      BY <3>1, <2>2, <1>a
    <3>2. CASE v # w
      BY <3>2, <2>3, <2>5 DEF NumberInv
    <3> QED
      BY <3>1, <3>2
  <2> QED
    BY <2>1, <2>4, <2>5 DEF NumberInv
<1>2. ASSUME NEW w \in Workers, CreateStudent(w)
      PROVE  NumberInv'
  <2> DEFINE n == Cardinality(Enrolled)
             k == req[w].number
  <2>1. PICK s \in Students \ Enrolled :
           student' = [student EXCEPT ![s] =
                          [number |-> k, active |-> TRUE, class |-> req[w].class]]
    BY <1>2 DEF CreateStudent
  <2>2. k \in 1..(n + 1) /\ \A r \in Enrolled : student[r].number # k
    BY <1>2 DEF CreateStudent, NumberInv
  <2>3. {student[r].number : r \in Enrolled} = 1..n
    BY DEF NumberInv, AdmissionNumbers
  <2>4. k = n + 1
    BY <2>2, <2>3, <1>a
  <2>5. /\ student'[s].number = k
        /\ \A r \in Students \ {s} : student'[r] = student[r]
    BY <2>1
  <2>6. Enrolled' = Enrolled \union {s}
    <3>1. student'[s].number > 0
      BY <2>4, <2>5, <1>a
    <3> QED
      BY <3>1, <2>1, <2>5 DEF Enrolled
  <2>7. Cardinality(Enrolled') = n + 1
    BY <2>1, <2>6, <1>a, FS_AddElement
  <2>8. {student'[r].number : r \in Enrolled'} = 1..(n + 1)
    <3>1. {student'[r].number : r \in Enrolled'} = {student[r].number : r \in Enrolled} \union {k}
      BY <2>1, <2>5, <2>6 DEF Enrolled
    <3>2. 1..(n + 1) = (1..n) \union {n + 1}
      BY <1>a
    <3> QED
      BY <3>1, <3>2, <2>3, <2>4
  <2>9. \A q, r \in Enrolled' : student'[q].number = student'[r].number => q = r
    <3>1. \A q, r \in Enrolled : student[q].number = student[r].number => q = r
      BY DEF NumberInv, AdmissionNumbers
    <3>2. \A r \in Enrolled : student'[r].number = student[r].number
      BY <2>1, <2>5 DEF Enrolled
    <3> QED
      BY <2>2, <2>5, <2>6, <3>1, <3>2
  <2>10. ASSUME NEW v \in Workers, pc'[v] = "create"
         PROVE  req'[v].number \in 1..(n + 2)
    <3>1. pc[v] = "create" /\ req'[v] = req[v]
      BY <1>2, <2>10 DEF CreateStudent, Finish, Goto
    <3>2. req[v].number \in 1..(n + 1)
      BY <3>1 DEF NumberInv
    <3> QED
      BY <3>1, <3>2, <1>a
  <2>11. n \in Nat
    BY <1>a
  <2> HIDE DEF n, k
  <2>12. Cardinality(Enrolled') + 1 = n + 2
    BY <2>7, <2>11
  <2> QED
    BY <2>7, <2>8, <2>9, <2>10, <2>12 DEF NumberInv, AdmissionNumbers
<1>3. ASSUME NEW w \in Workers, CreateRefused(w)
      PROVE  NumberInv'
  <2>1. \A r \in Students : student'[r].number = student[r].number
    BY <1>3 DEF CreateRefused, tables
  <2>2. \A v \in Workers : pc'[v] = "create" => pc[v] = "create" /\ req'[v].number = req[v].number
    BY <1>3 DEF CreateRefused, Goto, Finish
  <2> QED
    BY <2>1, <2>2, NumbersKept
<1>4. ASSUME NEW w \in Workers, UpdateStudent(w)
      PROVE  NumberInv'
  <2>1. \A r \in Students : student'[r].number = student[r].number
    BY <1>4 DEF UpdateStudent, tables, Student
  <2>2. \A v \in Workers : pc'[v] = "create" => pc[v] = "create" /\ req'[v].number = req[v].number
    BY <1>4 DEF UpdateStudent, Goto, Finish
  <2> QED
    BY <2>1, <2>2, NumbersKept
<1>5. ASSUME NEW w \in Workers, UpdateRefused(w)
      PROVE  NumberInv'
  <2>1. \A r \in Students : student'[r].number = student[r].number
    BY <1>5 DEF UpdateRefused, tables
  <2>2. \A v \in Workers : pc'[v] = "create" => pc[v] = "create" /\ req'[v].number = req[v].number
    BY <1>5 DEF UpdateRefused, Goto, Finish
  <2> QED
    BY <2>1, <2>2, NumbersKept
<1>6. ASSUME NEW w \in Workers, FindOldRows(w)
      PROVE  NumberInv'
  <2>1. \A r \in Students : student'[r].number = student[r].number
    BY <1>6 DEF FindOldRows, tables
  <2>2. \A v \in Workers : pc'[v] = "create" => pc[v] = "create" /\ req'[v].number = req[v].number
    BY <1>6 DEF FindOldRows, Goto
  <2> QED
    BY <2>1, <2>2, NumbersKept
<1>7. ASSUME NEW w \in Workers, DeleteOldRows(w)
      PROVE  NumberInv'
  <2>1. \A r \in Students : student'[r].number = student[r].number
    BY <1>7 DEF DeleteOldRows, tables
  <2>2. \A v \in Workers : pc'[v] = "create" => pc[v] = "create" /\ req'[v].number = req[v].number
    BY <1>7 DEF DeleteOldRows, Goto
  <2> QED
    BY <2>1, <2>2, NumbersKept
<1>8. ASSUME NEW w \in Workers, Move(w)
      PROVE  NumberInv'
  <2>1. \A r \in Students : student'[r].number = student[r].number
    BY <1>8 DEF Move, tables, Student
  <2>2. \A v \in Workers : pc'[v] = "create" => pc[v] = "create" /\ req'[v].number = req[v].number
    BY <1>8 DEF Move, Goto, Finish
  <2> QED
    BY <2>1, <2>2, NumbersKept
<1>9. ASSUME NEW w \in Workers, MoveRefused(w)
      PROVE  NumberInv'
  <2>1. \A r \in Students : student'[r].number = student[r].number
    BY <1>9 DEF MoveRefused, tables
  <2>2. \A v \in Workers : pc'[v] = "create" => pc[v] = "create" /\ req'[v].number = req[v].number
    BY <1>9 DEF MoveRefused, Goto, Finish
  <2> QED
    BY <2>1, <2>2, NumbersKept
<1>10. ASSUME NEW w \in Workers, DeleteClass(w)
      PROVE  NumberInv'
  <2>1. \A r \in Students : student'[r].number = student[r].number
    BY <1>10 DEF DeleteClass, tables, Student
  <2>2. \A v \in Workers : pc'[v] = "create" => pc[v] = "create" /\ req'[v].number = req[v].number
    BY <1>10 DEF DeleteClass, Goto, Finish
  <2> QED
    BY <2>1, <2>2, NumbersKept
<1>11. ASSUME NEW w \in Workers, NEW c \in Classes, FindClass(w, c)
      PROVE  NumberInv'
  <2>1. \A r \in Students : student'[r].number = student[r].number
    BY <1>11 DEF FindClass, tables
  <2>2. \A v \in Workers : pc'[v] = "create" => pc[v] = "create" /\ req'[v].number = req[v].number
    BY <1>11 DEF FindClass, Goto
  <2> QED
    BY <2>1, <2>2, NumbersKept
<1>12. ASSUME NEW w \in Workers, NEW s \in Students, NEW c \in Classes \union {None}, ReadStudent(w, s, c)
      PROVE  NumberInv'
  <2>1. \A r \in Students : student'[r].number = student[r].number
    BY <1>12 DEF ReadStudent, tables
  <2>2. \A v \in Workers : pc'[v] = "create" => pc[v] = "create" /\ req'[v].number = req[v].number
    BY <1>12 DEF ReadStudent, Goto
  <2> QED
    BY <2>1, <2>2, NumbersKept
<1>13. ASSUME NEW w \in Workers, NEW s \in Students, NEW c \in Classes, FindActive(w, s, c)
      PROVE  NumberInv'
  <2>1. \A r \in Students : student'[r].number = student[r].number
    BY <1>13 DEF FindActive, tables
  <2>2. \A v \in Workers : pc'[v] = "create" => pc[v] = "create" /\ req'[v].number = req[v].number
    BY <1>13 DEF FindActive, Goto
  <2> QED
    BY <2>1, <2>2, NumbersKept
<1>14. ASSUME NEW w \in Workers, NEW s \in Students, Deactivate(w, s)
      PROVE  NumberInv'
  <2>1. \A r \in Students : student'[r].number = student[r].number
    BY <1>14 DEF Deactivate, tables, Student
  <2>2. \A v \in Workers : pc'[v] = "create" => pc[v] = "create" /\ req'[v].number = req[v].number
    BY <1>14 DEF Deactivate, Goto
  <2> QED
    BY <2>1, <2>2, NumbersKept
<1>15. ASSUME NEW w \in Workers, NEW c \in Classes, CountEnrollments(w, c)
      PROVE  NumberInv'
  <2>1. \A r \in Students : student'[r].number = student[r].number
    BY <1>15 DEF CountEnrollments, tables
  <2>2. \A v \in Workers : pc'[v] = "create" => pc[v] = "create" /\ req'[v].number = req[v].number
    BY <1>15 DEF CountEnrollments, Goto
  <2> QED
    BY <2>1, <2>2, NumbersKept
<1>16. ASSUME UNCHANGED vars
      PROVE  NumberInv'
  BY <1>16, NumbersKept DEF vars
<1> QED
  BY <1>1, <1>2, <1>3, <1>4, <1>5, <1>6, <1>7, <1>8, <1>9, <1>10, <1>11, <1>12, <1>13, <1>14, <1>15, <1>16 DEF Next, Advance, Workers

\* Admission numbers are consecutive and unique, whatever enrollments overlap:
\* the unique index refuses every number that was made up too late.
THEOREM NumbersConsecutive == Spec => []AdmissionNumbers
<1>1. TypeInv /\ NumberInv /\ [Next]_vars => TypeInv' /\ NumberInv'
  BY TypeStep, NumberStep
<1>2. Spec => [](TypeInv /\ NumberInv)
  BY <1>1, TypeInit, NumberInit, PTL DEF Spec
<1>3. NumberInv => AdmissionNumbers
  BY DEF NumberInv
<1> QED
  BY <1>2, <1>3, PTL

-----------------------------------------------------------------------------
\* Nobody is enrolled yet.
LEMMA ClassInit == Init => ClassInv
BY DEF Init, ClassInv, CurrentClassEnrolled, Enrolled, SeenOK, OwnRows

\* A student's class is written with an enrollment in it, or is the class the
\* student is in already; the rows that are deleted are those of the student that moves, of a student
\* that becomes inactive, or of a class that goes.
LEMMA ClassStep ==
    TypeInv /\ ClassInv /\ EditsAlone /\ [Next]_vars => ClassInv'
<1> SUFFICES ASSUME TypeInv, ClassInv, EditsAlone, [Next]_vars PROVE ClassInv'
  OBVIOUS
<1> USE DEF TypeInv, EnrollTypeOK
<1>1. ASSUME NEW w \in Workers, GenerateAdmissionNumber(w)
      PROVE  ClassInv'
  <2>1. CurrentClassEnrolled'
    BY <1>1 DEF GenerateAdmissionNumber, tables, ClassInv, CurrentClassEnrolled, Enrolled
  <2>2. SeenOK'
    BY <1>1 DEF GenerateAdmissionNumber, ClassInv, SeenOK, Enrolled, tables, Student, Goto
  <2>3. OwnRows'
    BY <1>1 DEF GenerateAdmissionNumber, ClassInv, OwnRows, Request, EnrollmentsOf, Goto
  <2> QED
    BY <2>1, <2>2, <2>3 DEF ClassInv
<1>2. ASSUME NEW w \in Workers, CreateStudent(w)
      PROVE  ClassInv'
  <2>1. CurrentClassEnrolled'
    BY <1>2, EnrollmentAssumption DEF CreateStudent, ClassInv, CurrentClassEnrolled, Enrolled, Student
  <2>2. SeenOK'
    BY <1>2 DEF CreateStudent, ClassInv, SeenOK, Enrolled, tables, Student, Goto, Finish, NoRequest
  <2>3. OwnRows'
    BY <1>2 DEF CreateStudent, ClassInv, OwnRows, Request, EnrollmentsOf, Goto, Finish, NoRequest
  <2> QED
    BY <2>1, <2>2, <2>3 DEF ClassInv
<1>3. ASSUME NEW w \in Workers, CreateRefused(w)
      PROVE  ClassInv'
  <2>1. CurrentClassEnrolled'
    BY <1>3 DEF CreateRefused, tables, ClassInv, CurrentClassEnrolled, Enrolled
  <2>2. SeenOK'
    BY <1>3 DEF CreateRefused, ClassInv, SeenOK, Enrolled, tables, Student, Goto, Finish, NoRequest
  <2>3. OwnRows'
    BY <1>3 DEF CreateRefused, ClassInv, OwnRows, Request, EnrollmentsOf, Goto, Finish, NoRequest
  <2> QED
    BY <2>1, <2>2, <2>3 DEF ClassInv
<1>4. ASSUME NEW w \in Workers, UpdateStudent(w)
      PROVE  ClassInv'
  <2>0. /\ pc[w] = "update" /\ req[w].student \in Enrolled /\ classes' = classes
        /\ req[w].class \in classes \union {None}
        /\ student' = [student EXCEPT ![req[w].student].class = req[w].class]
        /\ pc'[w] = "idle" /\ \A v \in Workers \ {w} : pc'[v] = pc[v] /\ req'[v] = req[v]
        /\ Enrolled' = Enrolled
    BY <1>4 DEF UpdateStudent, ClassInv, SeenOK, Goto, Finish, Enrolled, Student
  <2>1. CurrentClassEnrolled'
    <3> DEFINE s == req[w].student
               c == req[w].class
    <3>1. CASE c = None
      BY <1>4, <2>0, <3>1, EnrollmentAssumption DEF UpdateStudent, ClassInv, CurrentClassEnrolled, Enrolled, Student
    <3>2. CASE c # None /\ c = req[w].seen
      <4>1. student[s].class = c
        BY <2>0, <3>2 DEF ClassInv, SeenOK
      <4>2. enrollments' = enrollments
        BY <1>4, <3>2 DEF UpdateStudent
      <4>3. \A r \in Enrolled : student'[r].class = student[r].class /\ student'[r].active = student[r].active
        BY <2>0, <4>1 DEF Enrolled, Student
      <4> QED
        BY <2>0, <4>2, <4>3 DEF ClassInv, CurrentClassEnrolled
    <3>3. CASE c # None /\ c # req[w].seen
      <4>1. enrollments' = enrollments \union {<<s, c>>}
        BY <1>4, <3>3 DEF UpdateStudent
      <4>2. student'[s].class = c /\ \A r \in Enrolled \ {s} : student'[r] = student[r]
        BY <2>0 DEF Enrolled, Student
      <4> QED
        BY <2>0, <3>3, <4>1, <4>2 DEF ClassInv, CurrentClassEnrolled
    <3> QED
      BY <3>1, <3>2, <3>3
  <2>2. SeenOK'
    <3> SUFFICES ASSUME NEW v \in Workers, pc'[v] = "update"
                 PROVE  /\ req'[v].student \in Enrolled'
                        /\ req'[v].seen \in classes' => student'[req'[v].student].class = req'[v].seen
      BY DEF SeenOK
    <3>1. v # w /\ pc[v] = "update" /\ req'[v] = req[v]
      BY <2>0
    <3>2. req[v].student # req[w].student
      BY <2>0, <3>1 DEF EditsAlone, EditPcs
    <3>3. student'[req[v].student] = student[req[v].student]
      BY <2>0, <3>1, <3>2 DEF RequestOK
    <3> QED
      BY <2>0, <3>1, <3>3 DEF ClassInv, SeenOK
  <2>3. OwnRows'
    BY <2>0 DEF ClassInv, OwnRows
  <2> QED
    BY <2>1, <2>2, <2>3 DEF ClassInv
<1>5. ASSUME NEW w \in Workers, UpdateRefused(w)
      PROVE  ClassInv'
  <2>1. CurrentClassEnrolled'
    BY <1>5 DEF UpdateRefused, tables, ClassInv, CurrentClassEnrolled, Enrolled
  <2>2. SeenOK'
    BY <1>5 DEF UpdateRefused, ClassInv, SeenOK, Enrolled, tables, Student, Goto, Finish, NoRequest
  <2>3. OwnRows'
    BY <1>5 DEF UpdateRefused, ClassInv, OwnRows, Request, EnrollmentsOf, Goto, Finish, NoRequest
  <2> QED
    BY <2>1, <2>2, <2>3 DEF ClassInv
<1>6. ASSUME NEW w \in Workers, FindOldRows(w)
      PROVE  ClassInv'
  <2>1. CurrentClassEnrolled'
    BY <1>6 DEF FindOldRows, tables, ClassInv, CurrentClassEnrolled, Enrolled
  <2>2. SeenOK'
    BY <1>6 DEF FindOldRows, ClassInv, SeenOK, Enrolled, tables, Student, Goto
  <2>3. OwnRows'
    BY <1>6 DEF FindOldRows, ClassInv, OwnRows, Request, EnrollmentsOf, Goto
  <2> QED
    BY <2>1, <2>2, <2>3 DEF ClassInv
<1>7. ASSUME NEW w \in Workers, DeleteOldRows(w)
      PROVE  ClassInv'
  <2>1. CurrentClassEnrolled'
    BY <1>7 DEF DeleteOldRows, tables, ClassInv, CurrentClassEnrolled, Enrolled
  <2>2. SeenOK'
    BY <1>7 DEF DeleteOldRows, ClassInv, SeenOK, Enrolled, tables, Student, Goto
  <2>3. OwnRows'
    BY <1>7 DEF DeleteOldRows, ClassInv, OwnRows, Request, EnrollmentsOf, Goto
  <2> QED
    BY <2>1, <2>2, <2>3 DEF ClassInv
<1>8. ASSUME NEW w \in Workers, Move(w)
      PROVE  ClassInv'
  <2>1. CurrentClassEnrolled'
    BY <1>8, EnrollmentAssumption DEF Move, ClassInv, OwnRows, CurrentClassEnrolled, Enrolled, Student, RequestOK
  <2>2. SeenOK'
    <3>0. /\ pc[w] = "move" /\ req[w].student \in Students /\ classes' = classes /\ pc'[w] = "idle"
          /\ student' = [student EXCEPT ![req[w].student].class = req[w].class]
          /\ \A v \in Workers \ {w} : pc'[v] = pc[v] /\ req'[v] = req[v]
      BY <1>8 DEF Move, RequestOK, Goto, Finish
    <3>1. Enrolled' = Enrolled
      BY <3>0 DEF Enrolled, Student
    <3> SUFFICES ASSUME NEW v \in Workers, pc'[v] = "update"
                 PROVE  /\ req'[v].student \in Enrolled'
                        /\ req'[v].seen \in classes' => student'[req'[v].student].class = req'[v].seen
      BY DEF SeenOK
    <3>2. v # w /\ pc[v] = "update" /\ req'[v] = req[v]
      BY <3>0
    <3>3. req[v].student # req[w].student
      BY <3>0, <3>2 DEF EditsAlone, EditPcs
    <3>4. student'[req[v].student] = student[req[v].student]
      BY <3>0, <3>2, <3>3 DEF RequestOK
    <3> QED
      BY <3>0, <3>1, <3>2, <3>4 DEF ClassInv, SeenOK
  <2>3. OwnRows'
    BY <1>8 DEF Move, ClassInv, OwnRows, Request, EnrollmentsOf, Goto, Finish, NoRequest
  <2> QED
    BY <2>1, <2>2, <2>3 DEF ClassInv
<1>9. ASSUME NEW w \in Workers, MoveRefused(w)
      PROVE  ClassInv'
  <2>1. CurrentClassEnrolled'
    BY <1>9 DEF MoveRefused, tables, ClassInv, CurrentClassEnrolled, Enrolled
  <2>2. SeenOK'
    BY <1>9 DEF MoveRefused, ClassInv, SeenOK, Enrolled, tables, Student, Goto, Finish, NoRequest
  <2>3. OwnRows'
    BY <1>9 DEF MoveRefused, ClassInv, OwnRows, Request, EnrollmentsOf, Goto, Finish, NoRequest
  <2> QED
    BY <2>1, <2>2, <2>3 DEF ClassInv
<1>10. ASSUME NEW w \in Workers, DeleteClass(w)
      PROVE  ClassInv'
  <2>1. CurrentClassEnrolled'
    BY <1>10, EnrollmentAssumption DEF DeleteClass, ClassInv, CurrentClassEnrolled, Enrolled, Student
  <2>2. SeenOK'
    BY <1>10 DEF DeleteClass, ClassInv, SeenOK, Enrolled, tables, Student, Goto, Finish, NoRequest
  <2>3. OwnRows'
    BY <1>10 DEF DeleteClass, ClassInv, OwnRows, Request, EnrollmentsOf, Goto, Finish, NoRequest
  <2> QED
    BY <2>1, <2>2, <2>3 DEF ClassInv
<1>11. ASSUME NEW w \in Workers, NEW c \in Classes, FindClass(w, c)
      PROVE  ClassInv'
  <2>1. CurrentClassEnrolled'
    BY <1>11 DEF FindClass, tables, ClassInv, CurrentClassEnrolled, Enrolled
  <2>2. SeenOK'
    BY <1>11 DEF FindClass, ClassInv, SeenOK, Enrolled, tables, Student, Goto
  <2>3. OwnRows'
    BY <1>11 DEF FindClass, ClassInv, OwnRows, Request, EnrollmentsOf, Goto
  <2> QED
    BY <2>1, <2>2, <2>3 DEF ClassInv
<1>12. ASSUME NEW w \in Workers, NEW s \in Students, NEW c \in Classes, FindActive(w, s, c)
      PROVE  ClassInv'
  <2>1. CurrentClassEnrolled'
    BY <1>12 DEF FindActive, tables, ClassInv, CurrentClassEnrolled, Enrolled
  <2>2. SeenOK'
    BY <1>12 DEF FindActive, ClassInv, SeenOK, Enrolled, tables, Student, Goto
  <2>3. OwnRows'
    BY <1>12 DEF FindActive, ClassInv, OwnRows, Request, EnrollmentsOf, Goto
  <2> QED
    BY <2>1, <2>2, <2>3 DEF ClassInv
<1>16. ASSUME NEW w \in Workers, NEW s \in Students, NEW c \in Classes \union {None}, ReadStudent(w, s, c)
      PROVE  ClassInv'
  <2>1. CurrentClassEnrolled'
    BY <1>16 DEF ReadStudent, tables, ClassInv, CurrentClassEnrolled, Enrolled
  <2>2. SeenOK'
    BY <1>16 DEF ReadStudent, ClassInv, SeenOK, Enrolled, tables, Student, Request, Goto
  <2>3. OwnRows'
    BY <1>16 DEF ReadStudent, ClassInv, OwnRows, Request, Goto
  <2> QED
    BY <2>1, <2>2, <2>3 DEF ClassInv
<1>13. ASSUME NEW w \in Workers, NEW s \in Students, Deactivate(w, s)
      PROVE  ClassInv'
  <2>1. CurrentClassEnrolled'
    BY <1>13, EnrollmentAssumption DEF Deactivate, ClassInv, CurrentClassEnrolled, Enrolled, EnrollmentsOf, Student
  <2>2. SeenOK'
    BY <1>13 DEF Deactivate, ClassInv, SeenOK, Enrolled, tables, Student, Goto
  <2>3. OwnRows'
    BY <1>13 DEF Deactivate, ClassInv, OwnRows, Request, EnrollmentsOf, Goto
  <2> QED
    BY <2>1, <2>2, <2>3 DEF ClassInv
<1>14. ASSUME NEW w \in Workers, NEW c \in Classes, CountEnrollments(w, c)
      PROVE  ClassInv'
  <2>1. CurrentClassEnrolled'
    BY <1>14 DEF CountEnrollments, tables, ClassInv, CurrentClassEnrolled, Enrolled
  <2>2. SeenOK'
    BY <1>14 DEF CountEnrollments, ClassInv, SeenOK, Enrolled, tables, Student, Goto
  <2>3. OwnRows'
    BY <1>14 DEF CountEnrollments, ClassInv, OwnRows, Request, EnrollmentsOf, Goto
  <2> QED
    BY <2>1, <2>2, <2>3 DEF ClassInv
<1>15. ASSUME UNCHANGED vars
      PROVE  ClassInv'
  BY <1>15 DEF vars, ClassInv, SeenOK, OwnRows, CurrentClassEnrolled, Enrolled
<1> QED
  BY <1>1, <1>2, <1>3, <1>4, <1>5, <1>6, <1>7, <1>8, <1>9, <1>10, <1>11, <1>12, <1>13, <1>14, <1>15, <1>16
  DEF Next, Advance, Workers

\* A student's class is read or written by the kinds of requests that do so.
LEMMA RoleStep == TypeInv /\ RoleInv /\ [Next]_vars => RoleInv'
<1> SUFFICES ASSUME TypeInv, RoleInv, [Next]_vars PROVE RoleInv'
  OBVIOUS
<1> USE DEF TypeInv, EnrollTypeOK, RoleInv, EditPcs, Goto
<1>1. ASSUME NEW w \in Workers, Advance(w) PROVE RoleInv'
  <2>1. CASE FindOldRows(w)
    BY <2>1 DEF FindOldRows
  <2>2. CASE DeleteOldRows(w)
    BY <2>2 DEF DeleteOldRows
  <2>3. CASE GenerateAdmissionNumber(w)
    BY <2>3 DEF GenerateAdmissionNumber
  <2>4. CASE Finish(w)
    BY <2>4 DEF Finish
  <2> QED
    BY <1>1, <2>1, <2>2, <2>3, <2>4
    DEF Advance, CreateStudent, CreateRefused, UpdateStudent, UpdateRefused, Move, MoveRefused, DeleteClass
<1>2. ASSUME NEW w \in Workers, NEW c \in Classes, FindClass(w, c) \/ CountEnrollments(w, c) PROVE RoleInv'
  BY <1>2 DEF FindClass, CountEnrollments
<1>3. ASSUME NEW w \in Editors, NEW s \in Students, NEW c \in Classes \union {None}, ReadStudent(w, s, c)
      PROVE  RoleInv'
  BY <1>3 DEF ReadStudent
<1>4. ASSUME NEW w \in Promoters, NEW s \in Students, NEW c \in Classes, FindActive(w, s, c) PROVE RoleInv'
  BY <1>4 DEF FindActive
<1>5. ASSUME NEW w \in Workers, NEW s \in Students, Deactivate(w, s) PROVE RoleInv'
  BY <1>5 DEF Deactivate
<1>6. CASE UNCHANGED vars
  BY <1>6 DEF vars
<1> QED
  BY <1>1, <1>2, <1>3, <1>4, <1>5, <1>6 DEF Next, Workers

LEMMA RolesKept == Spec => []RoleInv
<1>1. Init => RoleInv
  BY DEF Init, RoleInv, EditPcs
<1> QED
  BY <1>1, TypeInit, TypeStep, RoleStep, PTL DEF Spec

\* When no edit of a student overlaps another edit or a promotion of that
\* student, an active student is enrolled in the class of the student's row, and
\* the class exists, in every interleaving with enrollments, deactivations and
\* deletions of classes.
THEOREM EditsAloneClassEnrolled == Spec /\ []EditsAlone => []CurrentClassEnrolled
<1>1. ClassInv => CurrentClassEnrolled
  BY DEF ClassInv
<1> QED
  BY <1>1, TypeInit, TypeStep, ClassInit, ClassStep, PTL DEF Spec

\* In particular when nobody edits, or one person does who is also the only one
\* that promotes: promotions overlap as they like in the first case.
THEOREM ClassEnrolled ==
    ASSUME \A v \in Editors, w \in Editors \union Promoters : v = w
    PROVE  Spec => []CurrentClassEnrolled
<1>1. RoleInv => EditsAlone
  BY DEF RoleInv, EditsAlone, EditPcs
<1> QED
  BY <1>1, RolesKept, EditsAloneClassEnrolled, PTL

-----------------------------------------------------------------------------
(* Promotions that overlap no edit and no other promotion of their student.  *)

\* A promotion deletes rows of its own student only, and all of them.
PromotionInv ==
    \A w \in Workers :
        /\ pc[w] \in EditPcs => req[w].student \in Enrolled
        /\ pc[w] \in {"deleteOld", "move"} =>
              /\ EnrollmentsOf(req[w].student) \subseteq req[w].rows
              /\ \A e \in req[w].rows : e[1] = req[w].student

\* A step that enrolls no student whom somebody is promoting.
SparesPromotions ==
    /\ Enrolled \subseteq Enrolled'
    /\ \A v \in Workers :
          /\ pc'[v] \in {"update", "findOld"} => req'[v].student \in Enrolled'
          /\ pc'[v] \in {"deleteOld", "move"} =>
                /\ pc'[v] = pc[v] /\ req'[v] = req[v]
                /\ \A e \in enrollments' \ enrollments : e[1] # req[v].student

LEMMA SparingKeepsPromotions ==
    ASSUME PromotionInv, SparesPromotions
    PROVE  PromotionInv'
BY DEF PromotionInv, SparesPromotions, EditPcs, EnrollmentsOf

\* A student who is enrolled has a number for ever.
LEMMA EnrolledStay ==
    ASSUME \A s \in Students : student[s].number > 0 => student'[s].number = student[s].number
    PROVE  Enrolled \subseteq Enrolled'
BY DEF Enrolled

LEMMA PromotionStep == TypeInv /\ PromotionInv /\ PromotionsAlone /\ [Next]_vars => PromotionInv'
<1> SUFFICES ASSUME TypeInv, PromotionInv, PromotionsAlone, [Next]_vars PROVE PromotionInv'
  OBVIOUS
<1> USE DEF TypeInv, EnrollTypeOK
<1>1. ASSUME NEW w \in Workers, UNCHANGED tables,
             GenerateAdmissionNumber(w) \/ CreateRefused(w) \/ UpdateRefused(w) \/ MoveRefused(w)
             \/ (\E c \in Classes : FindClass(w, c) \/ CountEnrollments(w, c))
             \/ (\E s \in Students, c \in Classes \union {None} : ReadStudent(w, s, c))
             \/ (\E s \in Students, c \in Classes : FindActive(w, s, c))
      PROVE  PromotionInv'
  <2>1. Enrolled' = Enrolled /\ enrollments' = enrollments
    BY <1>1 DEF tables, Enrolled
  <2>2. \A v \in Workers \ {w} : pc'[v] = pc[v] /\ req'[v] = req[v]
    BY <1>1 DEF GenerateAdmissionNumber, CreateRefused, UpdateRefused, MoveRefused, FindClass, CountEnrollments,
                ReadStudent, FindActive, Goto, Finish
  <2>3. pc'[w] \in EditPcs => pc'[w] \in {"update", "findOld"} /\ req'[w].student \in Enrolled
    <3>1. CASE GenerateAdmissionNumber(w) \/ (\E c \in Classes : FindClass(w, c) \/ CountEnrollments(w, c))
      BY <3>1 DEF GenerateAdmissionNumber, FindClass, CountEnrollments, Goto, EditPcs
    <3>2. CASE CreateRefused(w) \/ UpdateRefused(w) \/ MoveRefused(w)
      BY <3>2 DEF CreateRefused, UpdateRefused, MoveRefused, Goto, Finish, EditPcs
    <3>3. ASSUME NEW s \in Students, NEW c \in Classes \union {None}, ReadStudent(w, s, c)
          PROVE  pc'[w] = "update" /\ req'[w].student = s /\ s \in Enrolled
      BY <3>3 DEF ReadStudent, Goto, Request
    <3>4. ASSUME NEW s \in Students, NEW c \in Classes, FindActive(w, s, c)
          PROVE  pc'[w] = "findOld" /\ req'[w].student = s /\ s \in Enrolled
      BY <3>4 DEF FindActive, Goto, Request
    <3> QED
      BY <1>1, <3>1, <3>2, <3>3, <3>4
  <2> QED
    BY <2>1, <2>2, <2>3, SparingKeepsPromotions DEF SparesPromotions, PromotionInv, EditPcs
<1>2. ASSUME NEW w \in Workers, CreateStudent(w) PROVE PromotionInv'
  <2>1. PICK s \in Students \ Enrolled :
           /\ student' = [student EXCEPT ![s] =
                            [number |-> req[w].number, active |-> TRUE, class |-> req[w].class]]
           /\ enrollments' = enrollments \union {<<s, req[w].class>>}
    BY <1>2 DEF CreateStudent
  <2>2. Enrolled \subseteq Enrolled'
    BY <2>1, EnrolledStay DEF Enrolled
  <2>3. \A v \in Workers \ {w} : pc'[v] = pc[v] /\ req'[v] = req[v]
    BY <1>2 DEF CreateStudent, Finish, Goto
  <2>4. pc'[w] = "idle"
    BY <1>2 DEF CreateStudent, Finish, Goto
  <2> QED
    BY <2>1, <2>2, <2>3, <2>4, SparingKeepsPromotions DEF SparesPromotions, PromotionInv, EditPcs
<1>3. ASSUME NEW w \in Workers, UpdateStudent(w) \/ Move(w) PROVE PromotionInv'
  <2>1. /\ pc[w] \in EditPcs /\ pc'[w] = "idle"
        /\ \A v \in Workers \ {w} : pc'[v] = pc[v] /\ req'[v] = req[v]
        /\ \A e \in enrollments' \ enrollments : e[1] = req[w].student
        /\ student' = [student EXCEPT ![req[w].student].class = req[w].class]
    BY <1>3 DEF UpdateStudent, Move, Finish, Goto, EditPcs
  <2>2. Enrolled \subseteq Enrolled'
    BY <2>1, EnrolledStay DEF Student
  <2>3. \A v \in Workers \ {w} : pc[v] \in {"deleteOld", "move"} => req[v].student # req[w].student
    BY <2>1 DEF PromotionsAlone, EditPcs
  <2> QED
    BY <2>1, <2>2, <2>3, SparingKeepsPromotions DEF SparesPromotions, PromotionInv, EditPcs
<1>4. ASSUME NEW w \in Workers, FindOldRows(w) PROVE PromotionInv'
  <2>1. Enrolled' = Enrolled /\ enrollments' = enrollments
    BY <1>4 DEF FindOldRows, tables, Enrolled
  <2>2. \A v \in Workers \ {w} : pc'[v] = pc[v] /\ req'[v] = req[v]
    BY <1>4 DEF FindOldRows, Goto
  <2>3. /\ pc[w] \in EditPcs /\ pc'[w] = "deleteOld" /\ req'[w].student = req[w].student
        /\ req'[w].rows = EnrollmentsOf(req[w].student)
    BY <1>4 DEF FindOldRows, Goto, EditPcs, Request
  <2> QED
    BY <2>1, <2>2, <2>3 DEF PromotionInv, EnrollmentsOf
<1>5. ASSUME NEW w \in Workers, DeleteOldRows(w) PROVE PromotionInv'
  <2>1. Enrolled' = Enrolled /\ enrollments' = enrollments
    BY <1>5 DEF DeleteOldRows, tables, Enrolled
  <2>2. \A v \in Workers \ {w} : pc'[v] = pc[v] /\ req'[v] = req[v]
    BY <1>5 DEF DeleteOldRows, Goto
  <2>3. /\ pc[w] = "deleteOld" /\ pc'[w] = "move" /\ req'[w].student = req[w].student
        /\ req'[w].rows = req[w].rows \intersect enrollments
    BY <1>5 DEF DeleteOldRows, Goto, Request
  <2> QED
    BY <2>1, <2>2, <2>3 DEF PromotionInv, EnrollmentsOf, EditPcs
<1>6. ASSUME NEW w \in Workers, DeleteClass(w) PROVE PromotionInv'
  <2>1. /\ enrollments' \subseteq enrollments /\ pc'[w] = "idle"
        /\ \A v \in Workers \ {w} : pc'[v] = pc[v] /\ req'[v] = req[v]
        /\ \A s \in Students : student'[s].number = student[s].number
    BY <1>6 DEF DeleteClass, Finish, Goto, Student
  <2>2. Enrolled \subseteq Enrolled'
    BY <2>1, EnrolledStay
  <2> QED
    BY <2>1, <2>2, SparingKeepsPromotions DEF SparesPromotions, PromotionInv, EditPcs
<1>7. ASSUME NEW w \in Workers, NEW s \in Students, Deactivate(w, s) PROVE PromotionInv'
  <2>1. /\ enrollments' \subseteq enrollments /\ UNCHANGED <<pc, req>>
        /\ \A r \in Students : student'[r].number = student[r].number
    BY <1>7 DEF Deactivate, Student
  <2>2. Enrolled \subseteq Enrolled'
    BY <2>1, EnrolledStay
  <2> QED
    BY <2>1, <2>2, SparingKeepsPromotions DEF SparesPromotions, PromotionInv, EditPcs
<1>8. CASE UNCHANGED vars
  BY <1>8 DEF vars, PromotionInv, Enrolled, EnrollmentsOf
<1>9. ASSUME NEW w \in Workers,
             GenerateAdmissionNumber(w) \/ CreateRefused(w) \/ UpdateRefused(w) \/ MoveRefused(w)
             \/ (\E c \in Classes : FindClass(w, c) \/ CountEnrollments(w, c))
             \/ (\E s \in Students, c \in Classes \union {None} : ReadStudent(w, s, c))
             \/ (\E s \in Students, c \in Classes : FindActive(w, s, c))
      PROVE  UNCHANGED tables
  BY <1>9 DEF GenerateAdmissionNumber, CreateRefused, UpdateRefused, MoveRefused, FindClass, CountEnrollments,
              ReadStudent, FindActive
<1> QED
  BY <1>1, <1>2, <1>3, <1>4, <1>5, <1>6, <1>7, <1>8, <1>9 DEF Next, Advance, Workers

\* When no promotion of a student overlaps another promotion or an edit of that
\* student, it leaves the student with one enrollment, that of the class it was for, whatever is
\* enrolled, deactivated and deleted meanwhile.  Run enrol_two_promotions shows
\* two promotions that overlap.
THEOREM PromotionsAloneMove == Spec /\ []PromotionsAlone => PromotionMoves
<1>1. Init => PromotionInv
  BY DEF Init, PromotionInv, EditPcs
<1>2. TypeInv /\ PromotionInv /\ [Next]_vars =>
         [\A w \in Promoters :
             pc[w] = "move" /\ pc'[w] # "move" /\ student' # student =>
                LET s == req[w].student
                IN  {e \in enrollments' : e[1] = s} = {<<s, student'[s].class>>}]_vars
  <2> SUFFICES ASSUME TypeInv, PromotionInv, [Next]_vars, NEW w \in Promoters,
                      pc[w] = "move", pc'[w] # "move", student' # student
               PROVE  {e \in enrollments' : e[1] = req[w].student}
                         = {<<req[w].student, student'[req[w].student].class>>}
    BY Zenon
  <2> USE DEF TypeInv, EnrollTypeOK
  <2>0. w \in Workers
    BY DEF Workers
  <2>1. Move(w)
    <3>1. ASSUME NEW v \in Workers, Advance(v) PROVE v = w
      BY <2>0, <3>1 DEF Advance, GenerateAdmissionNumber, CreateStudent, CreateRefused, UpdateStudent, UpdateRefused,
                    FindOldRows, DeleteOldRows, Move, MoveRefused, DeleteClass, Finish, Goto
    <3>2. Advance(w) => Move(w)
      BY DEF Advance, GenerateAdmissionNumber, CreateStudent, CreateRefused, UpdateStudent, UpdateRefused,
             FindOldRows, DeleteOldRows, MoveRefused, DeleteClass, tables
    <3>3. ASSUME NEW v \in Workers, NEW c \in Classes, FindClass(v, c) \/ CountEnrollments(v, c) PROVE FALSE
      BY <2>0, <3>3 DEF FindClass, CountEnrollments, tables
    <3>4. ASSUME NEW v \in Workers, NEW s \in Students, NEW c \in Classes \union {None},
                 ReadStudent(v, s, c) \/ FindActive(v, s, c) PROVE FALSE
      BY <2>0, <3>4 DEF ReadStudent, FindActive, tables
    <3>5. ASSUME NEW v \in Workers, NEW s \in Students, Deactivate(v, s) PROVE FALSE
      BY <2>0, <3>5 DEF Deactivate
    <3> QED
      BY <3>1, <3>2, <3>3, <3>4, <3>5 DEF Next, vars, Workers
  <2>2. /\ enrollments' = (enrollments \ req[w].rows) \union {<<req[w].student, req[w].class>>}
        /\ student'[req[w].student].class = req[w].class
    BY <2>0, <2>1 DEF Move, RequestOK, Student
  <2>3. EnrollmentsOf(req[w].student) \subseteq req[w].rows
    BY <2>0 DEF PromotionInv
  <2> QED
    BY <2>2, <2>3 DEF EnrollmentsOf
<1> QED
  BY <1>1, <1>2, TypeInit, TypeStep, PromotionStep, PTL DEF Spec, PromotionMoves

\* In particular when one person promotes, who is also the only one that edits.
THEOREM OnePromoterMoves ==
    ASSUME \A v \in Promoters, w \in Editors \union Promoters : v = w
    PROVE  Spec => PromotionMoves
<1>1. RoleInv => PromotionsAlone
  BY DEF RoleInv, PromotionsAlone, EditPcs
<1> QED
  BY <1>1, RolesKept, PromotionsAloneMove, PTL
==============================================================================
