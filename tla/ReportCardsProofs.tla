-------------------------- MODULE ReportCardsProofs ---------------------------
(***************************************************************************)
(* Theorems about Gradebook and ReportCards, for any number of requests,   *)
(* generations, rows and students: types, timetable, scores, positions, the*)
(* card of one moment, and the standings of a class.                       *)
(***************************************************************************)
EXTENDS ReportCardsInv, FiniteSetTheorems, TLAPS

BookOK == BookTypeOK /\ RequestOK /\ RowsOK

LEMMA EmptySheet == [s \in {} |-> None] \in Sheet
<1>1. [s \in {} |-> None] \in [{} -> Marks]
  OBVIOUS
<1>2. {} \in SUBSET Students
  OBVIOUS
<1>. QED
  BY <1>1, <1>2 DEF Sheet

LEMMA NoRequestType == NoRequest \in Request
BY EmptySheet DEF NoRequest, Request

\* A request that ends leaves the others as they are.
LEMMA FinishType ==
  ASSUME BookTypeOK, NEW w \in Clerks, Finish(w)
  PROVE  /\ pc' \in [Clerks -> {"idle", "deleteSubject", "insertAssessment", "insertPeriod",
                                "writeScores", "writeMax"}]
         /\ req' \in [Clerks -> Request]
         /\ pc'[w] = "idle"
         /\ \A v \in Clerks \ {w} : pc'[v] = pc[v] /\ req'[v] = req[v]
<1>1. req' = [req EXCEPT ![w] = NoRequest] /\ pc' = [pc EXCEPT ![w] = "idle"]
  BY DEF Finish, Goto
<1>2. req \in [Clerks -> Request] /\ pc \in [Clerks -> {"idle", "deleteSubject", "insertAssessment",
         "insertPeriod", "writeScores", "writeMax"}]
  BY DEF BookTypeOK
<1>. QED
  BY <1>1, <1>2, NoRequestType

\* A request that goes on to `next` with the variables r.
LEMMA GotoType ==
  ASSUME BookTypeOK, NEW w \in Clerks, NEW r \in Request,
         NEW next \in {"deleteSubject", "insertAssessment", "insertPeriod", "writeScores", "writeMax"},
         Goto(w, next), req' = [req EXCEPT ![w] = r]
  PROVE  /\ pc' \in [Clerks -> {"idle", "deleteSubject", "insertAssessment", "insertPeriod",
                                "writeScores", "writeMax"}]
         /\ req' \in [Clerks -> Request]
         /\ pc'[w] = next /\ req'[w] = r
         /\ \A v \in Clerks \ {w} : pc'[v] = pc[v] /\ req'[v] = req[v]
<1>1. req \in [Clerks -> Request] /\ pc \in [Clerks -> {"idle", "deleteSubject", "insertAssessment",
         "insertPeriod", "writeScores", "writeMax"}]
  BY DEF BookTypeOK
<1>. QED
  BY <1>1 DEF Goto

LEMMA InitBookOK == Init => BookOK
<1>. SUFFICES ASSUME Init PROVE BookOK
  OBVIOUS
<1>1. BookTypeOK
  BY NoRequestType, GradebookAssumption DEF Init, BookInit, BookTypeOK, Assessment, Period, RowState
<1>2. RequestOK
  BY DEF Init, BookInit, RequestOK
<1>3. RowsOK
  BY DEF Init, BookInit, RowsOK, Assessment
<1>. QED
  BY <1>1, <1>2, <1>3 DEF BookOK

LEMMA BeginType == BookTypeOK /\ Begin => writes' \in 0..MaxWrites
BY GradebookAssumption DEF BookTypeOK, Begin

\* The first half of a request: it reads, and remembers what it will write.
LEMMA ReadStep ==
  ASSUME BookOK, NEW w \in Clerks, NEW r \in Request,
         NEW next \in {"deleteSubject", "insertAssessment", "insertPeriod", "writeScores", "writeMax"},
         Goto(w, next), req' = [req EXCEPT ![w] = r], Begin, UNCHANGED bookTables,
         next \in {"deleteSubject", "insertAssessment", "insertPeriod"} => r.subject \in Subjects,
         next \in {"insertAssessment", "writeMax"} => r.max \in MaxScores,
         next = "insertPeriod" => w \in Schedulers /\ r.from \in Times /\ r.to \in Times,
         next \in {"writeScores", "writeMax"} =>
            w \in Graders /\ r.assessment \in Assessments /\ assessment[r.assessment].state # "absent"
  PROVE  BookOK'
<1>1. BookTypeOK'
  BY GotoType, BeginType DEF BookOK, BookTypeOK, bookTables
<1>2. RequestOK'
  <2>. SUFFICES ASSUME NEW v \in Clerks
       PROVE (/\ pc[v] \in {"deleteSubject", "insertAssessment", "insertPeriod"} =>
                    req[v].subject \in Subjects
              /\ pc[v] = "insertAssessment" => req[v].max \in MaxScores
              /\ pc[v] = "insertPeriod" => v \in Schedulers /\ req[v].from \in Times /\ req[v].to \in Times
              /\ pc[v] \in {"writeScores", "writeMax"} =>
                    /\ v \in Graders
                    /\ req[v].assessment \in Assessments
                    /\ assessment[req[v].assessment].state # "absent"
              /\ pc[v] = "writeMax" => req[v].max \in MaxScores)'
    BY DEF RequestOK
  <2>1. CASE v = w
    BY <2>1, GotoType DEF BookOK, bookTables
  <2>2. CASE v # w
    <3>1. pc'[v] = pc[v] /\ req'[v] = req[v] /\ assessment' = assessment
      BY <2>2, GotoType DEF BookOK, bookTables
    <3>. QED
      BY <3>1 DEF BookOK, RequestOK
  <2>. QED
    BY <2>1, <2>2
<1>3. RowsOK'
  BY DEF BookOK, RowsOK, bookTables
<1>. QED
  BY <1>1, <1>2, <1>3 DEF BookOK

\* The second half, which ends the request: it is enough to look at the tables.
LEMMA WriteStep ==
  ASSUME BookOK, NEW w \in Clerks, Finish(w), UNCHANGED writes,
         subject' \in [Subjects -> [state : RowState]],
         period' \in [Periods -> Period],
         assessment' \in [Assessments -> Assessment],
         score' \in [Assessments -> [Students -> Marks \union {None}]],
         \A a \in Assessments : assessment[a].state # "absent" => assessment'[a].state # "absent",
         RowsOK'
  PROVE  BookOK'
<1>1. BookTypeOK'
  BY FinishType DEF BookOK, BookTypeOK
<1>2. RequestOK'
  <2>. SUFFICES ASSUME NEW v \in Clerks, pc'[v] # "idle"
       PROVE (/\ pc[v] \in {"deleteSubject", "insertAssessment", "insertPeriod"} =>
                    req[v].subject \in Subjects
              /\ pc[v] = "insertAssessment" => req[v].max \in MaxScores
              /\ pc[v] = "insertPeriod" => v \in Schedulers /\ req[v].from \in Times /\ req[v].to \in Times
              /\ pc[v] \in {"writeScores", "writeMax"} =>
                    /\ v \in Graders
                    /\ req[v].assessment \in Assessments
                    /\ assessment[req[v].assessment].state # "absent"
              /\ pc[v] = "writeMax" => req[v].max \in MaxScores)'
    BY DEF RequestOK
  <2>1. pc'[v] = pc[v] /\ req'[v] = req[v]
    BY FinishType DEF BookOK
  <2>. QED
    BY <2>1 DEF BookOK, RequestOK
<1>. QED
  BY <1>1, <1>2 DEF BookOK

\* What deleting a subject makes of a row: its columns stay, and it is gone or
\* it is as it was.
LEMMA CascadeType ==
  ASSUME BookOK, NEW m \in Subjects
  PROVE  /\ Cascade(period, m) \in [Periods -> Period]
         /\ Cascade(assessment, m) \in [Assessments -> Assessment]
         /\ \A p \in Periods :
               \/ Cascade(period, m)[p] = period[p] /\ period[p].subject # m
               \/ /\ Cascade(period, m)[p].state = "gone"
                  /\ Cascade(period, m)[p].from = period[p].from
                  /\ Cascade(period, m)[p].to = period[p].to
                  /\ period[p].state # "absent"
         /\ \A a \in Assessments :
               \/ Cascade(assessment, m)[a] = assessment[a] /\ assessment[a].subject # m
               \/ /\ Cascade(assessment, m)[a].state = "gone"
                  /\ Cascade(assessment, m)[a].max = assessment[a].max
                  /\ assessment[a].state # "absent"
<1>1. period \in [Periods -> Period] /\ assessment \in [Assessments -> Assessment]
  BY DEF BookOK, BookTypeOK
<1>2. m # None
  BY GradebookAssumption
<1>3. /\ \A p \in Periods : period[p].state = "absent" => period[p].subject = None
      /\ \A a \in Assessments : assessment[a].state = "absent" => assessment[a].subject = None
  BY DEF BookOK, RowsOK
<1>. QED
  BY <1>1, <1>2, <1>3 DEF Cascade, Period, Assessment, RowState

LEMMA DeleteSubjectOK ==
  ASSUME BookOK, NEW w \in Clerks, DeleteSubject(w)
  PROVE  BookOK'
<1>. DEFINE m == req[w].subject
<1>1. m \in Subjects
  BY DEF DeleteSubject, There, BookOK, BookTypeOK
<1>2. /\ subject' \in [Subjects -> [state : RowState]]
      /\ period' = Cascade(period, m)
      /\ assessment' = Cascade(assessment, m)
      /\ score' = [a \in Assessments |->
                      IF a \in AssessmentsOf(m) THEN [s \in Students |-> None] ELSE score[a]]
      /\ Finish(w) /\ UNCHANGED writes
  BY <1>1 DEF DeleteSubject, BookOK, BookTypeOK, RowState
<1>3. score' \in [Assessments -> [Students -> Marks \union {None}]]
  BY <1>2 DEF BookOK, BookTypeOK
<1>4. \A a \in Assessments : assessment[a].state # "absent" => assessment'[a].state # "absent"
  BY <1>1, <1>2, CascadeType
<1>5. RowsOK'
  <2>1. ASSUME NEW p \in Periods
        PROVE (IF period[p].state = "absent" THEN period[p].subject = None
                 ELSE period[p].from \in Times /\ period[p].to \in Times)'
    BY <1>1, <1>2, CascadeType DEF BookOK, RowsOK
  <2>2. ASSUME NEW a \in Assessments
        PROVE (IF assessment[a].state = "absent" THEN assessment[a].subject = None
                 ELSE assessment[a].max \in MaxScores)'
    BY <1>1, <1>2, CascadeType DEF BookOK, RowsOK
  <2>3. ASSUME NEW a \in Assessments, assessment'[a].state # "there", NEW s \in Students
        PROVE  score'[a][s] = None
    <3>1. CASE a \in AssessmentsOf(m)
      BY <1>2, <3>1
    <3>2. CASE a \notin AssessmentsOf(m)
      <4>1. assessment[a].state # "there" \/ assessment[a].subject # m
        BY <3>2 DEF AssessmentsOf, There, BookOK, BookTypeOK
      <4>2. assessment[a].state # "there"
        BY <4>1, <2>3, <1>2 DEF Cascade, BookOK, BookTypeOK
      <4>. QED
        BY <4>2, <1>2, <3>2 DEF BookOK, RowsOK
    <3>. QED
      BY <3>1, <3>2
  <2>. QED
    BY <2>1, <2>2, <2>3 DEF RowsOK
<1>. HIDE DEF m
<1>6. period' \in [Periods -> Period] /\ assessment' \in [Assessments -> Assessment]
  BY <1>1, <1>2, CascadeType
<1>. QED
  BY <1>2, <1>3, <1>4, <1>5, <1>6, WriteStep

LEMMA InsertPeriodOK ==
  ASSUME BookOK, NEW w \in Clerks, InsertPeriod(w)
  PROVE  BookOK'
<1>1. PICK p \in Periods :
         period' = [period EXCEPT ![p] = [state |-> "there", subject |-> req[w].subject,
                                          from |-> req[w].from, to |-> req[w].to]]
  BY DEF InsertPeriod
<1>2. req[w].subject \in Subjects /\ req[w].from \in Times /\ req[w].to \in Times
  BY DEF InsertPeriod, BookOK, RequestOK
<1>3. period' \in [Periods -> Period]
  BY <1>1, <1>2 DEF BookOK, BookTypeOK, Period, RowState
<1>4. Finish(w) /\ UNCHANGED <<subject, assessment, score, writes>>
  BY DEF InsertPeriod
<1>5. RowsOK'
  <2>1. ASSUME NEW q \in Periods
        PROVE (IF period[q].state = "absent" THEN period[q].subject = None
                 ELSE period[q].from \in Times /\ period[q].to \in Times)'
    BY <1>1, <1>2 DEF BookOK, RowsOK, BookTypeOK
  <2>. QED
    BY <2>1, <1>4 DEF BookOK, RowsOK
<1>. QED
  BY <1>3, <1>4, <1>5, WriteStep DEF BookOK, BookTypeOK

LEMMA InsertAssessmentOK ==
  ASSUME BookOK, NEW w \in Clerks, InsertAssessment(w)
  PROVE  BookOK'
<1>1. PICK a \in Assessments :
         assessment' = [assessment EXCEPT ![a] = [state |-> "there", subject |-> req[w].subject,
                                                  max |-> req[w].max, term |-> FALSE]]
  BY DEF InsertAssessment
<1>2. req[w].subject \in Subjects /\ req[w].max \in MaxScores
  BY DEF InsertAssessment, BookOK, RequestOK
<1>3. assessment' \in [Assessments -> Assessment]
  BY <1>1, <1>2 DEF BookOK, BookTypeOK, Assessment, RowState
<1>4. Finish(w) /\ UNCHANGED <<subject, period, score, writes>>
  BY DEF InsertAssessment
<1>5. \A b \in Assessments :
         IF b = a THEN assessment'[b].state = "there" /\ assessment'[b].max \in MaxScores
                  ELSE assessment'[b] = assessment[b]
  BY <1>1, <1>2 DEF BookOK, BookTypeOK
<1>6. RowsOK'
  BY <1>4, <1>5 DEF BookOK, RowsOK
<1>. QED
  BY <1>3, <1>4, <1>5, <1>6, WriteStep DEF BookOK, BookTypeOK

LEMMA WriteMaxOK ==
  ASSUME BookOK, NEW w \in Clerks, WriteMax(w)
  PROVE  BookOK'
<1>1. /\ assessment' = [assessment EXCEPT ![req[w].assessment].max = req[w].max]
      /\ Finish(w) /\ UNCHANGED <<subject, period, score, writes>>
  BY DEF WriteMax
<1>2. req[w].assessment \in Assessments /\ req[w].max \in MaxScores
  BY DEF WriteMax, BookOK, RequestOK
<1>3. assessment' \in [Assessments -> Assessment]
  BY <1>1, <1>2 DEF BookOK, BookTypeOK, Assessment
<1>4. \A a \in Assessments :
         /\ assessment'[a].state = assessment[a].state
         /\ assessment'[a].subject = assessment[a].subject
         /\ assessment'[a].max = assessment[a].max \/ assessment'[a].max \in MaxScores
  BY <1>1, <1>2 DEF BookOK, BookTypeOK, Assessment
<1>5. RowsOK'
  BY <1>1, <1>4 DEF BookOK, RowsOK
<1>. QED
  BY <1>1, <1>3, <1>4, <1>5, WriteStep DEF BookOK, BookTypeOK

LEMMA WriteScoresOK ==
  ASSUME BookOK, NEW w \in Clerks, WriteScores(w)
  PROVE  BookOK'
<1>. DEFINE a == req[w].assessment
            written == [s \in Students |-> IF s \in DOMAIN req[w].sheet THEN req[w].sheet[s] ELSE score[a][s]]
<1>1. a \in Assessments /\ assessment[a].state = "there"
  BY DEF WriteScores, There, BookOK, BookTypeOK
<1>2. score' = [score EXCEPT ![a] = written] /\ Finish(w) /\ UNCHANGED <<subject, period, assessment, writes>>
  BY DEF WriteScores
<1>3. written \in [Students -> Marks \union {None}]
  <2>1. req[w].sheet \in Sheet /\ score[a] \in [Students -> Marks \union {None}]
    BY <1>1 DEF BookOK, BookTypeOK, Request
  <2>2. PICK S \in SUBSET Students : req[w].sheet \in [S -> Marks]
    BY <2>1 DEF Sheet
  <2>. QED
    BY <2>1, <2>2
<1>. HIDE DEF a, written
<1>4. score' \in [Assessments -> [Students -> Marks \union {None}]]
  BY <1>1, <1>2, <1>3 DEF BookOK, BookTypeOK
<1>5. RowsOK'
  <2>1. ASSUME NEW b \in Assessments, assessment[b].state # "there", NEW s \in Students
        PROVE  score'[b][s] = None
    BY <1>1, <1>2, <2>1 DEF BookOK, BookTypeOK, RowsOK
  <2>. QED
    BY <1>2, <2>1 DEF BookOK, RowsOK
<1>. QED
  BY <1>2, <1>4, <1>5, WriteStep DEF BookOK, BookTypeOK

\* Reads: each remembers what ReadStep asks for.
LEMMA ReadsOK ==
  ASSUME BookOK, NEW w \in Clerks,
         \/ w \in Heads /\ \E m \in Subjects : CountAssessments(w, m)
         \/ w \in Heads /\ \E m \in Subjects, max \in MaxScores : FindSubject(w, m, max)
         \/ w \in Schedulers /\ \E m \in Subjects, from, to \in Times : FindSlot(w, m, from, to)
         \/ w \in Graders /\ \E a \in Assessments, max \in MaxScores : ReadHighest(w, a, max)
         \/ w \in Graders /\ \E a \in Assessments, S \in SUBSET Students \ {{}} :
               \E sheet \in [S -> Marks] : ReadMax(w, a, sheet)
  PROVE  BookOK'
<1>a. req[w] \in Request
  BY DEF BookOK, BookTypeOK
<1>1. ASSUME NEW m \in Subjects, CountAssessments(w, m) PROVE BookOK'
  <2>. DEFINE r == [req[w] EXCEPT !.subject = m]
  <2>1. r \in Request /\ r.subject = m
    BY <1>a DEF Request
  <2>2. req' = [req EXCEPT ![w] = r]
    BY <1>1 DEF CountAssessments
  <2>. HIDE DEF r
  <2>. QED
    BY <1>1, <2>1, <2>2, ReadStep DEF CountAssessments
<1>2. ASSUME NEW m \in Subjects, NEW max \in MaxScores, FindSubject(w, m, max) PROVE BookOK'
  <2>. DEFINE r == [req[w] EXCEPT !.subject = m, !.max = max]
  <2>1. r \in Request /\ r.subject = m /\ r.max = max
    BY <1>a DEF Request
  <2>2. req' = [req EXCEPT ![w] = r]
    BY <1>2 DEF FindSubject
  <2>. HIDE DEF r
  <2>. QED
    BY <1>2, <2>1, <2>2, ReadStep DEF FindSubject
<1>3. ASSUME w \in Schedulers, NEW m \in Subjects, NEW from \in Times, NEW to \in Times,
             FindSlot(w, m, from, to)
      PROVE  BookOK'
  <2>. DEFINE r == [req[w] EXCEPT !.subject = m, !.from = from, !.to = to]
  <2>1. r \in Request /\ r.subject = m /\ r.from = from /\ r.to = to
    BY <1>a DEF Request
  <2>2. req' = [req EXCEPT ![w] = r]
    BY <1>3 DEF FindSlot
  <2>. HIDE DEF r
  <2>. QED
    BY <1>3, <2>1, <2>2, ReadStep DEF FindSlot
<1>4. ASSUME w \in Graders, NEW a \in Assessments, NEW max \in MaxScores, ReadHighest(w, a, max)
      PROVE  BookOK'
  <2>. DEFINE r == [req[w] EXCEPT !.assessment = a, !.max = max]
  <2>1. r \in Request /\ r.assessment = a /\ r.max = max
    BY <1>a DEF Request
  <2>2. req' = [req EXCEPT ![w] = r] /\ assessment[a].state # "absent"
    BY <1>4 DEF ReadHighest, There
  <2>. HIDE DEF r
  <2>. QED
    BY <1>4, <2>1, <2>2, ReadStep DEF ReadHighest
<1>5. ASSUME w \in Graders, NEW a \in Assessments, NEW S \in SUBSET Students \ {{}},
             NEW sheet \in [S -> Marks], ReadMax(w, a, sheet)
      PROVE  BookOK'
  <2>. DEFINE r == [req[w] EXCEPT !.assessment = a, !.sheet = sheet]
  <2>0. sheet \in Sheet
    <3>1. S \in SUBSET Students
      OBVIOUS
    <3>. QED
      BY <3>1 DEF Sheet
  <2>1. r \in Request /\ r.assessment = a
    BY <1>a, <2>0 DEF Request
  <2>2. req' = [req EXCEPT ![w] = r] /\ assessment[a].state # "absent"
    BY <1>5 DEF ReadMax, There
  <2>. HIDE DEF r
  <2>. QED
    BY <1>5, <2>1, <2>2, ReadStep DEF ReadMax
<1>. QED
  BY <1>1, <1>2, <1>3, <1>4, <1>5

\* The steps that change one row and no request.
LEMMA RowStepsOK ==
  ASSUME BookOK,
         \/ \E m \in Subjects : CreateSubject(m)
         \/ \E p \in Periods : DeleteTimetablePeriod(p)
         \/ \E a \in Assessments : RemoveAssessment(a)
  PROVE  BookOK'
<1>1. ASSUME NEW m \in Subjects, CreateSubject(m) PROVE BookOK'
  <2>1. BookTypeOK'
    BY <1>1, BeginType DEF CreateSubject, BookOK, BookTypeOK, RowState
  <2>2. RequestOK' /\ RowsOK'
    BY <1>1 DEF CreateSubject, BookOK, RequestOK, RowsOK
  <2>. QED
    BY <2>1, <2>2 DEF BookOK
<1>2. ASSUME NEW p \in Periods, DeleteTimetablePeriod(p) PROVE BookOK'
  <2>1. period[p].state = "there" /\ period' = [period EXCEPT ![p].state = "gone"]
        /\ UNCHANGED <<subject, assessment, score, pc, req>> /\ Begin
    BY <1>2 DEF DeleteTimetablePeriod, There, BookOK, BookTypeOK
  <2>2. BookTypeOK'
    BY <2>1, BeginType DEF BookOK, BookTypeOK, Period, RowState
  <2>3. \A q \in Periods : period'[q].from = period[q].from /\ period'[q].to = period[q].to
                          /\ (q # p => period'[q] = period[q]) /\ period'[p].state = "gone"
    BY <2>1 DEF BookOK, BookTypeOK, Period
  <2>4. RequestOK'
    BY <2>1 DEF BookOK, RequestOK
  <2>5. RowsOK'
    BY <2>1, <2>3 DEF BookOK, RowsOK
  <2>. QED
    BY <2>2, <2>4, <2>5 DEF BookOK
<1>3. ASSUME NEW a \in Assessments, RemoveAssessment(a) PROVE BookOK'
  <2>1. /\ assessment[a].state = "there" /\ assessment' = [assessment EXCEPT ![a].state = "gone"]
        /\ score' = [score EXCEPT ![a] = [s \in Students |-> None]]
        /\ UNCHANGED <<subject, period, pc, req>> /\ Begin
    BY <1>3 DEF RemoveAssessment, There, BookOK, BookTypeOK
  <2>2. BookTypeOK'
    BY <2>1, BeginType DEF BookOK, BookTypeOK, Assessment, RowState
  <2>3. /\ \A b \in Assessments \ {a} : assessment'[b] = assessment[b] /\ score'[b] = score[b]
        /\ assessment'[a].state = "gone" /\ assessment'[a].max = assessment[a].max
        /\ score'[a] = [s \in Students |-> None]
    BY <2>1 DEF BookOK, BookTypeOK, Assessment
  <2>4. RequestOK'
    BY <2>1, <2>3 DEF BookOK, RequestOK
  <2>5. RowsOK'
    <3>1. assessment[a].max \in MaxScores
      BY <2>1 DEF BookOK, RowsOK
    <3>2. \A b \in Assessments \ {a} :
            /\ IF assessment'[b].state = "absent" THEN assessment'[b].subject = None
                                                  ELSE assessment'[b].max \in MaxScores
            /\ assessment'[b].state # "there" => \A s \in Students : score'[b][s] = None
      BY <2>3 DEF BookOK, RowsOK
    <3>. QED
      BY <2>1, <2>3, <3>1, <3>2 DEF BookOK, RowsOK
  <2>. QED
    BY <2>2, <2>4, <2>5 DEF BookOK
<1>. QED
  BY <1>1, <1>2, <1>3

\* What can happen to the gradebook.
LEMMA BookCases ==
  ASSUME [Next]_vars
  PROVE  \/ \E w \in Clerks : Write(w)
         \/ \E w \in Clerks : Fail(w)
         \/ \E w \in Clerks :
               \/ w \in Heads /\ \E m \in Subjects : CountAssessments(w, m)
               \/ w \in Heads /\ \E m \in Subjects, max \in MaxScores : FindSubject(w, m, max)
               \/ w \in Schedulers /\ \E m \in Subjects, from, to \in Times : FindSlot(w, m, from, to)
               \/ w \in Graders /\ \E a \in Assessments, max \in MaxScores : ReadHighest(w, a, max)
               \/ w \in Graders /\ \E a \in Assessments, S \in SUBSET Students \ {{}} :
                     \E sheet \in [S -> Marks] : ReadMax(w, a, sheet)
         \/ \/ \E m \in Subjects : CreateSubject(m)
            \/ \E p \in Periods : DeleteTimetablePeriod(p)
            \/ \E a \in Assessments : RemoveAssessment(a)
         \/ UNCHANGED <<bookTables, pc, req>> /\ (UNCHANGED writes \/ Begin)
<1>1. CASE BookNext
  BY <1>1 DEF BookNext, Clerks
<1>2. CASE \/ \E s \in active : Deactivate(s)
           \/ \E s \in Students : ChangeClass(s) \/ ReplaceCard(s)
  BY <1>2 DEF Deactivate, ChangeClass, ReplaceCard
<1>3. CASE \E g \in Generators : \/ \E s \in Students : GenerateForStudent(g, s)
                                 \/ GenerateForClass(g)
  BY <1>3 DEF GenerateForStudent, GenerateForClass, BeginBuild, bookVars, bookTables
<1>4. CASE \E g \in Generators : Generate(g) \/ FailBuild(g)
  BY <1>4 DEF Generate, ReadSubjects, ReadScores, ReadClassmates, ReadOtherSubjects, Compare,
              UpsertCard, FailBuild, Reading, bookVars, bookTables
<1>5. CASE Publish
  BY <1>5 DEF Publish, bookVars, bookTables
<1>6. CASE UNCHANGED vars
  BY <1>6 DEF vars, bookVars, bookTables
<1>. QED
  BY <1>1, <1>2, <1>3, <1>4, <1>5, <1>6 DEF Next, EditNext

LEMMA BookOKStep ==
  ASSUME BookOK, [Next]_vars
  PROVE  BookOK'
<1>1. ASSUME NEW w \in Clerks, Write(w) PROVE BookOK'
  BY <1>1, DeleteSubjectOK, InsertPeriodOK, InsertAssessmentOK, WriteMaxOK, WriteScoresOK DEF Write
<1>2. ASSUME NEW w \in Clerks, Fail(w) PROVE BookOK'
  <2>1. Finish(w) /\ UNCHANGED <<subject, period, assessment, score, writes>>
    BY <1>2 DEF Fail, bookTables
  <2>. QED
    BY <2>1, WriteStep DEF BookOK, BookTypeOK, RowsOK
<1>3. ASSUME UNCHANGED <<bookTables, pc, req>>, UNCHANGED writes \/ Begin PROVE BookOK'
  <2>1. BookTypeOK'
    BY <1>3, BeginType DEF BookOK, BookTypeOK, bookTables
  <2>2. RequestOK' /\ RowsOK'
    BY <1>3 DEF BookOK, RequestOK, RowsOK, bookTables
  <2>. QED
    BY <2>1, <2>2 DEF BookOK
<1>. QED
  BY <1>1, <1>2, <1>3, ReadsOK, RowStepsOK, BookCases

LEMMA BookOKHolds == Spec => []BookOK
<1>1. Init => BookOK
  BY InitBookOK
<1>2. BookOK /\ [Next]_vars => BookOK'
  BY BookOKStep
<1>. QED
  BY <1>1, <1>2, PTL DEF Spec

\* The tables of the gradebook, and the locals of its requests, stay typed.
THEOREM BookTypeCorrect == Spec => []BookTypeOK
<1>1. BookOK => BookTypeOK
  BY DEF BookOK
<1>. QED
  BY <1>1, BookOKHolds, PTL

-----------------------------------------------------------------------------
(* The timetable: two schedulers can find the same slot free.               *)

\* A request that goes on leaves the others as they are.
LEMMA OthersKept ==
  ASSUME BookOK, NEW w \in Clerks, NEW next, Goto(w, next), \E r : req' = [req EXCEPT ![w] = r]
  PROVE  /\ pc'[w] = next
         /\ \A v \in Clerks \ {w} : pc'[v] = pc[v] /\ req'[v] = req[v]
BY DEF Goto, BookOK, BookTypeOK

\* The periods that are about to be placed are at different times.
PlacementsApart ==
    \A v, w \in Clerks :
        pc[v] = "insertPeriod" /\ pc[w] = "insertPeriod" /\ v # w =>
            ~(req[v].from < req[w].to /\ req[v].to > req[w].from)

\* A step neither adds a period nor moves one, and no request finds a slot.
NoNewPeriod ==
    /\ \A p \in Periods : period'[p].state = "there" => period'[p] = period[p]
    /\ \A v \in Clerks : pc'[v] = "insertPeriod" => pc[v] = "insertPeriod" /\ req'[v] = req[v]

LEMMA WritesAddNoPeriod ==
  ASSUME BookOK, NEW w \in Clerks,
         \/ DeleteSubject(w) \/ InsertAssessment(w) \/ WriteMax(w) \/ WriteScores(w) \/ Fail(w)
  PROVE  NoNewPeriod
<1>1. Finish(w)
  BY DEF DeleteSubject, InsertAssessment, WriteMax, WriteScores, Fail
<1>2. \A v \in Clerks : pc'[v] = "insertPeriod" => pc[v] = "insertPeriod" /\ req'[v] = req[v]
  BY <1>1, FinishType DEF BookOK
<1>3. \A p \in Periods : period'[p].state = "there" => period'[p] = period[p]
  <2>1. CASE DeleteSubject(w)
    <3>1. req[w].subject \in Subjects /\ period' = Cascade(period, req[w].subject)
      BY <2>1 DEF DeleteSubject, There, BookOK, BookTypeOK
    <3>. QED
      BY <3>1, CascadeType
  <2>2. CASE ~DeleteSubject(w)
    BY <2>2 DEF InsertAssessment, WriteMax, WriteScores, Fail, bookTables
  <2>. QED
    BY <2>1, <2>2
<1>. QED
  BY <1>2, <1>3 DEF NoNewPeriod

LEMMA ReadsAddNoPeriod ==
  ASSUME BookOK, NEW w \in Clerks,
         \/ \E m \in Subjects : CountAssessments(w, m)
         \/ \E m \in Subjects, max \in MaxScores : FindSubject(w, m, max)
         \/ \E a \in Assessments, max \in MaxScores : ReadHighest(w, a, max)
         \/ \E a \in Assessments, S \in SUBSET Students \ {{}} :
               \E sheet \in [S -> Marks] : ReadMax(w, a, sheet)
  PROVE  NoNewPeriod
<1>1. /\ \E next \in {"deleteSubject", "insertAssessment", "writeMax", "writeScores"} : Goto(w, next)
      /\ \E r : req' = [req EXCEPT ![w] = r]
      /\ period' = period
  BY DEF CountAssessments, FindSubject, ReadHighest, ReadMax, bookTables
<1>. QED
  BY <1>1, OthersKept DEF NoNewPeriod

LEMMA SlotCases ==
  ASSUME BookOK, [Next]_vars
  PROVE  \/ \E w \in Clerks : InsertPeriod(w)
         \/ \E w \in Schedulers, m \in Subjects, from, to \in Times : FindSlot(w, m, from, to)
         \/ NoNewPeriod
<1>1. ASSUME NEW p \in Periods, DeleteTimetablePeriod(p) PROVE NoNewPeriod
  BY <1>1 DEF DeleteTimetablePeriod, NoNewPeriod, BookOK, BookTypeOK, Period
<1>2. ASSUME \/ \E m \in Subjects : CreateSubject(m)
             \/ \E a \in Assessments : RemoveAssessment(a)
             \/ UNCHANGED <<bookTables, pc, req>>
      PROVE NoNewPeriod
  BY <1>2 DEF CreateSubject, RemoveAssessment, NoNewPeriod, bookTables
<1>. QED
  BY <1>1, <1>2, BookCases, WritesAddNoPeriod, ReadsAddNoPeriod DEF Write

\* Whoever places a period leaves the slots free that others have found.
LEMMA PlacementStep ==
  ASSUME BookOK, PlacementsApart, SlotFree, NoDoubleBooking, [Next]_vars
  PROVE  SlotFree' /\ NoDoubleBooking'
<1>0. /\ \A v \in Clerks : pc[v] = "insertPeriod" =>
            v \in Schedulers /\ req[v].from \in Nat /\ req[v].to \in Nat
      /\ \A p \in Periods : period[p].state = "there" => period[p].from \in Nat /\ period[p].to \in Nat
      /\ \A v \in Schedulers : v \in Clerks
      /\ DOMAIN period = Periods
  BY GradebookAssumption DEF BookOK, RequestOK, RowsOK, BookTypeOK, Clerks
<1>1. ASSUME NEW w \in Clerks, InsertPeriod(w) PROVE SlotFree' /\ NoDoubleBooking'
  <2>1. w \in Schedulers /\ pc[w] = "insertPeriod" /\ Finish(w)
    BY <1>0, <1>1 DEF InsertPeriod
  <2>2. \A v \in Clerks : pc'[v] = "insertPeriod" =>
           /\ pc[v] = "insertPeriod" /\ req'[v] = req[v]
           /\ ~(req[w].from < req[v].to /\ req[w].to > req[v].from)
    BY <2>1, FinishType DEF BookOK, PlacementsApart
  <2>3. PICK p \in Periods :
           period' = [period EXCEPT ![p] = [state |-> "there", subject |-> req[w].subject,
                                            from |-> req[w].from, to |-> req[w].to]]
    BY <1>1 DEF InsertPeriod
  <2>4. /\ period'[p].from = req[w].from /\ period'[p].to = req[w].to
        /\ \A q \in Periods \ {p} : period'[q] = period[q]
        /\ DOMAIN period' = Periods
    BY <2>3 DEF BookOK, BookTypeOK
  <2>5. ASSUME NEW q \in Periods \ {p}, period[q].state = "there"
        PROVE  period[q].from >= req[w].to \/ period[q].to <= req[w].from
    <3>1. ~Overlaps(q, req[w].from, req[w].to)
      BY <2>1, <2>5, <1>0 DEF SlotFree, There
    <3>. QED
      BY <3>1, <2>1, <2>5, <1>0 DEF Overlaps
  <2>6. ASSUME NEW q \in Periods, NEW r \in Periods, q # r,
               period'[q].state = "there", period'[r].state = "there"
        PROVE  period'[q].to <= period'[r].from \/ period'[r].to <= period'[q].from
    <3>1. CASE q = p
      BY <2>1, <2>4, <2>5, <2>6, <3>1, <1>0
    <3>2. CASE r = p
      BY <2>1, <2>4, <2>5, <2>6, <3>2, <1>0
    <3>3. CASE q # p /\ r # p
      BY <2>4, <2>6, <3>3, <1>0 DEF NoDoubleBooking, There
    <3>. QED
      BY <3>1, <3>2, <3>3
  <2>7. NoDoubleBooking'
    BY <2>4, <2>6 DEF NoDoubleBooking, There
  <2>8. SlotFree'
    <3>1. ASSUME NEW v \in Clerks, pc'[v] = "insertPeriod",
                 NEW q \in Periods, period'[q].state = "there"
          PROVE  ~(period'[q].from < req'[v].to /\ period'[q].to > req'[v].from)
      <4>1. CASE q = p
        BY <2>2, <2>4, <3>1, <4>1
      <4>2. CASE q # p
        BY <2>2, <2>4, <3>1, <4>2, <1>0 DEF SlotFree, There, Overlaps
      <4>. QED
        BY <4>1, <4>2
    <3>. QED
      BY <2>4, <3>1 DEF SlotFree, There, Overlaps
  <2>. QED
    BY <2>7, <2>8
<1>2. ASSUME NEW w \in Schedulers, NEW m \in Subjects, NEW from \in Times, NEW to \in Times,
             FindSlot(w, m, from, to)
      PROVE  SlotFree' /\ NoDoubleBooking'
  <2>. DEFINE r == [req[w] EXCEPT !.subject = m, !.from = from, !.to = to]
  <2>1. period' = period /\ Goto(w, "insertPeriod") /\ req' = [req EXCEPT ![w] = r]
    BY <1>2 DEF FindSlot, bookTables
  <2>2. r.from = from /\ r.to = to
    BY <1>0, <1>2 DEF BookOK, BookTypeOK, Request
  <2>. HIDE DEF r
  <2>3. req'[w] = r /\ \A v \in Clerks \ {w} : pc'[v] = pc[v] /\ req'[v] = req[v]
    BY <1>0, <2>1, OthersKept DEF BookOK, BookTypeOK
  <2>4. \A p \in There(period) : ~Overlaps(p, from, to)
    BY <1>2 DEF FindSlot
  <2>5. SlotFree'
    BY <2>1, <2>2, <2>3, <2>4 DEF SlotFree, Overlaps
  <2>. QED
    BY <2>1, <2>5 DEF NoDoubleBooking
<1>3. ASSUME NoNewPeriod PROVE SlotFree' /\ NoDoubleBooking'
  <2>1. DOMAIN period' = Periods
    BY BookOKStep DEF BookOK, BookTypeOK
  <2>2. There(period') \subseteq There(period) /\ \A p \in There(period') : period'[p] = period[p]
    BY <1>0, <1>3, <2>1 DEF There, NoNewPeriod
  <2>3. \A v \in Clerks : pc'[v] = "insertPeriod" => pc[v] = "insertPeriod" /\ req'[v] = req[v]
    BY <1>3 DEF NoNewPeriod
  <2>4. SlotFree'
    BY <2>2, <2>3 DEF SlotFree, Overlaps
  <2>. QED
    BY <2>2, <2>4 DEF NoDoubleBooking
<1>. QED
  BY <1>1, <1>2, <1>3, SlotCases

\* As long as nobody places two periods of overlapping times at once, however
\* many place others, no two periods of the class are at the same time
\* (subjects.service.ts).
THEOREM PlacementsApartNoDoubleBooking == Spec /\ []PlacementsApart => []NoDoubleBooking
<1>1. Init => SlotFree /\ NoDoubleBooking
  BY DEF Init, BookInit, SlotFree, NoDoubleBooking, There
<1>2. BookOK /\ PlacementsApart /\ SlotFree /\ NoDoubleBooking /\ [Next]_vars
         => SlotFree' /\ NoDoubleBooking'
  BY PlacementStep
<1>. QED
  BY <1>1, <1>2, BookOKHolds, PTL DEF Spec

\* In particular with one person placing periods, however many do everything else.
THEOREM OneSchedulerNoDoubleBooking ==
  ASSUME \A v, w \in Schedulers : v = w
  PROVE  Spec => []NoDoubleBooking
<1>1. BookOK => PlacementsApart
  BY DEF BookOK, RequestOK, PlacementsApart
<1>. QED
  BY <1>1, BookOKHolds, PlacementsApartNoDoubleBooking, PTL

-----------------------------------------------------------------------------
(* Scores: a sheet and a new maximum of one assessment can each be checked  *)
(* against what the other then changes.                                     *)

\* No sheet is under way while a new maximum of its assessment is.  Sheets may
\* overlap sheets, and new maxima new maxima.
GradingsApart ==
    \A v, w \in Clerks :
        pc[v] = "writeScores" /\ pc[w] = "writeMax" => req[v].assessment # req[w].assessment

\* A step enters no score and changes no maximum, and no grader has checked one.
NoNewScore ==
    /\ \A a \in Assessments :
          /\ assessment[a].state # "absent" => assessment'[a].max = assessment[a].max
          /\ \A s \in Students : score'[a][s] # None => score'[a][s] = score[a][s]
    /\ \A v \in Clerks : pc'[v] \in {"writeScores", "writeMax"} => pc'[v] = pc[v] /\ req'[v] = req[v]

LEMMA WritesAddNoScore ==
  ASSUME BookOK, NEW w \in Clerks,
         DeleteSubject(w) \/ InsertPeriod(w) \/ InsertAssessment(w) \/ Fail(w)
  PROVE  NoNewScore
<1>1. Finish(w)
  BY DEF DeleteSubject, InsertPeriod, InsertAssessment, Fail
<1>2. \A v \in Clerks : pc'[v] \in {"writeScores", "writeMax"} => pc'[v] = pc[v] /\ req'[v] = req[v]
  BY <1>1, FinishType DEF BookOK
<1>3. CASE DeleteSubject(w)
  <2>1. /\ req[w].subject \in Subjects
        /\ assessment' = Cascade(assessment, req[w].subject)
        /\ \A a \in Assessments : score'[a] \in {score[a], [s \in Students |-> None]}
    BY <1>3 DEF DeleteSubject, There, BookOK, BookTypeOK
  <2>2. \A a \in Assessments, s \in Students : score'[a][s] # None => score'[a][s] = score[a][s]
    BY <2>1
  <2>3. \A a \in Assessments : assessment'[a].max = assessment[a].max
    BY <2>1, CascadeType
  <2>. QED
    BY <1>2, <2>2, <2>3 DEF NoNewScore
<1>4. CASE InsertAssessment(w)
  BY <1>2, <1>4 DEF InsertAssessment, NoNewScore, BookOK, BookTypeOK
<1>5. CASE InsertPeriod(w) \/ Fail(w)
  BY <1>2, <1>5 DEF InsertPeriod, Fail, NoNewScore, bookTables
<1>. QED
  BY <1>3, <1>4, <1>5

LEMMA ReadsAddNoScore ==
  ASSUME BookOK, NEW w \in Clerks,
         \/ \E m \in Subjects : CountAssessments(w, m)
         \/ \E m \in Subjects, max \in MaxScores : FindSubject(w, m, max)
         \/ \E m \in Subjects, from, to \in Times : FindSlot(w, m, from, to)
  PROVE  NoNewScore
<1>1. /\ \E next \in {"deleteSubject", "insertAssessment", "insertPeriod"} : Goto(w, next)
      /\ \E r : req' = [req EXCEPT ![w] = r]
      /\ assessment' = assessment /\ score' = score
  BY DEF CountAssessments, FindSubject, FindSlot, bookTables
<1>. QED
  BY <1>1, OthersKept DEF NoNewScore

LEMMA ScoreCases ==
  ASSUME BookOK, [Next]_vars
  PROVE  \/ \E w \in Clerks : WriteMax(w) \/ WriteScores(w)
         \/ \E w \in Graders, a \in Assessments, max \in MaxScores : ReadHighest(w, a, max)
         \/ \E w \in Graders, a \in Assessments, S \in SUBSET Students \ {{}} :
               \E sheet \in [S -> Marks] : ReadMax(w, a, sheet)
         \/ NoNewScore
<1>1. ASSUME NEW a \in Assessments, RemoveAssessment(a) PROVE NoNewScore
  <2>1. /\ assessment' = [assessment EXCEPT ![a].state = "gone"]
        /\ score' = [score EXCEPT ![a] = [s \in Students |-> None]]
        /\ UNCHANGED <<pc, req>>
    BY <1>1 DEF RemoveAssessment
  <2>2. \A b \in Assessments : /\ assessment'[b].max = assessment[b].max
                              /\ score'[b] \in {score[b], [s \in Students |-> None]}
    BY <2>1 DEF BookOK, BookTypeOK, Assessment
  <2>. QED
    BY <2>1, <2>2 DEF NoNewScore
<1>2. ASSUME \/ \E m \in Subjects : CreateSubject(m)
             \/ \E p \in Periods : DeleteTimetablePeriod(p)
             \/ UNCHANGED <<bookTables, pc, req>>
      PROVE NoNewScore
  BY <1>2 DEF CreateSubject, DeleteTimetablePeriod, NoNewScore, bookTables
<1>. QED
  BY <1>1, <1>2, BookCases, WritesAddNoScore, ReadsAddNoScore DEF Write

\* The bounds are numbers, and only graders depend on them.
LEMMA Bounds ==
  ASSUME BookOK
  PROVE  /\ \A v \in Clerks : pc[v] \in {"writeScores", "writeMax"} =>
               /\ v \in Graders /\ req[v].assessment \in Assessments
               /\ assessment[req[v].assessment].state # "absent"
         /\ \A v \in Graders : v \in Clerks
         /\ \A a \in Assessments, s \in Students : score[a][s] # None => score[a][s] \in Nat
         /\ \A a \in Assessments : assessment[a].state # "there" => \A s \in Students : score[a][s] = None
<1>1. /\ \A v \in Clerks : pc[v] \in {"writeScores", "writeMax"} =>
            /\ v \in Graders /\ req[v].assessment \in Assessments
            /\ assessment[req[v].assessment].state # "absent"
      /\ \A v \in Graders : v \in Clerks
  BY DEF BookOK, RequestOK, Clerks
<1>2. \A a \in Assessments, s \in Students : score[a][s] # None => score[a][s] \in Nat
  <2>1. score \in [Assessments -> [Students -> Marks \union {None}]]
    BY DEF BookOK, BookTypeOK
  <2>2. \A a \in Assessments, s \in Students : score[a][s] \in Marks \union {None}
    BY <2>1
  <2>. QED
    BY <2>2, GradebookAssumption
<1>3. \A a \in Assessments : assessment[a].state # "there" => \A s \in Students : score[a][s] = None
  BY DEF BookOK, RowsOK
<1>. QED
  BY <1>1, <1>2, <1>3

\* What a grader has compared stays true until it writes.
LEMMA GradingStep ==
  ASSUME BookOK, GradingsApart, BoundsHold, ScoreWithinMax, [Next]_vars
  PROVE  BoundsHold' /\ ScoreWithinMax'
<1>0. /\ DOMAIN assessment = Assessments
      /\ DOMAIN assessment' = Assessments
  BY BookOKStep DEF BookOK, BookTypeOK
<1>1. ASSUME NEW w \in Clerks, WriteMax(w) \/ WriteScores(w) PROVE BoundsHold' /\ ScoreWithinMax'
  <2>1. pc[w] \in {"writeScores", "writeMax"} /\ Finish(w)
    BY <1>1 DEF WriteMax, WriteScores
  <2>2. \A v \in Clerks : pc'[v] \in {"writeScores", "writeMax"} => pc'[v] = pc[v] /\ req'[v] = req[v]
    BY <2>1, FinishType DEF BookOK
  <2>3. /\ req[w].assessment \in Assessments
        /\ \A v \in Clerks : pc[v] \in {"writeScores", "writeMax"} => req[v].assessment \in Assessments
    BY <2>1, Bounds
  <2>4. CASE WriteMax(w)
    <3>1. /\ assessment' = [assessment EXCEPT ![req[w].assessment].max = req[w].max]
          /\ score' = score
          /\ \A s \in Students : score[req[w].assessment][s] # None =>
                score[req[w].assessment][s] <= req[w].max
      BY <2>4 DEF WriteMax, BoundsHold
    <3>2. \A a \in Assessments : /\ assessment'[a].state = assessment[a].state
                                /\ assessment'[a].max = IF a = req[w].assessment
                                                           THEN req[w].max ELSE assessment[a].max
      BY <2>3, <3>1 DEF BookOK, BookTypeOK, Assessment
    <3>3. \A v \in Clerks : pc[v] = "writeScores" => req[v].assessment # req[w].assessment
      BY <2>4 DEF GradingsApart, WriteMax
    <3>4. BoundsHold'
      BY <2>2, <2>3, <3>1, <3>2, <3>3 DEF BoundsHold
    <3>. QED
      BY <1>0, <3>1, <3>2, <3>4 DEF ScoreWithinMax, There
  <2>5. CASE WriteScores(w)
    <3>1. /\ score' = [score EXCEPT ![req[w].assessment] =
                 [s \in Students |-> IF s \in DOMAIN req[w].sheet THEN req[w].sheet[s]
                                     ELSE score[req[w].assessment][s]]]
          /\ assessment' = assessment
          /\ \A s \in DOMAIN req[w].sheet : req[w].sheet[s] <= assessment[req[w].assessment].max
      BY <2>5 DEF WriteScores, BoundsHold
    <3>2. \A a \in Assessments, s \in Students :
             score'[a][s] = IF a = req[w].assessment /\ s \in DOMAIN req[w].sheet
                              THEN req[w].sheet[s] ELSE score[a][s]
      BY <2>3, <3>1 DEF BookOK, BookTypeOK
    <3>3. \A v \in Clerks : pc[v] = "writeMax" => req[v].assessment # req[w].assessment
      BY <2>5 DEF GradingsApart, WriteScores
    <3>4. BoundsHold'
      BY <2>2, <2>3, <3>1, <3>2, <3>3 DEF BoundsHold
    <3>. QED
      BY <1>0, <3>1, <3>2, <3>4 DEF ScoreWithinMax, There
  <2>. QED
    BY <1>1, <2>4, <2>5
<1>2. ASSUME NEW w \in Graders, NEW a \in Assessments, NEW max \in MaxScores, ReadHighest(w, a, max)
      PROVE  BoundsHold' /\ ScoreWithinMax'
  <2>. DEFINE r == [req[w] EXCEPT !.assessment = a, !.max = max]
  <2>1. /\ Goto(w, "writeMax") /\ req' = [req EXCEPT ![w] = r]
        /\ assessment' = assessment /\ score' = score
    BY <1>2 DEF ReadHighest, bookTables
  <2>2. w \in Clerks /\ r.assessment = a /\ r.max = max
    BY Bounds DEF BookOK, BookTypeOK, Request
  <2>. HIDE DEF r
  <2>3. req'[w] = r /\ pc'[w] = "writeMax" /\ \A v \in Clerks \ {w} : pc'[v] = pc[v] /\ req'[v] = req[v]
    BY <2>1, <2>2, OthersKept DEF BookOK, BookTypeOK
  <2>4. \A s \in Students : score[a][s] # None => score[a][s] <= max
    BY <1>2, Bounds, GradebookAssumption DEF ReadHighest
  <2>5. BoundsHold'
    BY <2>1, <2>2, <2>3, <2>4 DEF BoundsHold
  <2>. QED
    BY <2>1, <2>5 DEF ScoreWithinMax
<1>3. ASSUME NEW w \in Graders, NEW a \in Assessments, NEW S \in SUBSET Students \ {{}},
             NEW sheet \in [S -> Marks], ReadMax(w, a, sheet)
      PROVE  BoundsHold' /\ ScoreWithinMax'
  <2>. DEFINE r == [req[w] EXCEPT !.assessment = a, !.sheet = sheet]
  <2>1. /\ Goto(w, "writeScores") /\ req' = [req EXCEPT ![w] = r]
        /\ assessment' = assessment /\ score' = score
    BY <1>3 DEF ReadMax, bookTables
  <2>2. w \in Clerks /\ r.assessment = a /\ r.sheet = sheet
    BY Bounds DEF BookOK, BookTypeOK, Request
  <2>. HIDE DEF r
  <2>3. req'[w] = r /\ pc'[w] = "writeScores" /\ \A v \in Clerks \ {w} : pc'[v] = pc[v] /\ req'[v] = req[v]
    BY <2>1, <2>2, OthersKept DEF BookOK, BookTypeOK
  <2>4. \A s \in DOMAIN sheet : sheet[s] <= assessment[a].max
    BY <1>3 DEF ReadMax
  <2>5. BoundsHold'
    BY <2>1, <2>2, <2>3, <2>4 DEF BoundsHold
  <2>. QED
    BY <2>1, <2>5 DEF ScoreWithinMax
<1>4. ASSUME NoNewScore PROVE BoundsHold' /\ ScoreWithinMax'
  <2>1. BoundsHold'
    BY <1>4, Bounds DEF BoundsHold, NoNewScore
  <2>2. ASSUME NEW a \in Assessments, NEW s \in Students, score'[a][s] # None
        PROVE  score'[a][s] <= assessment'[a].max
    <3>1. score'[a][s] = score[a][s] /\ assessment[a].state = "there"
      BY <1>4, <2>2, Bounds DEF NoNewScore
    <3>2. assessment'[a].max = assessment[a].max
      BY <1>4, <3>1 DEF NoNewScore
    <3>. QED
      BY <1>0, <2>2, <3>1, <3>2 DEF ScoreWithinMax, There
  <2>. QED
    BY <1>0, <2>1, <2>2 DEF ScoreWithinMax, There
<1>. QED
  BY <1>1, <1>2, <1>3, <1>4, ScoreCases

\* As long as no sheet overlaps a new maximum of its assessment, however many are
\* under way besides, no score is above the maximum of its assessment
\* (assessments.service.ts).
THEOREM GradingsApartScoreWithinMax == Spec /\ []GradingsApart => []ScoreWithinMax
<1>1. Init => BoundsHold /\ ScoreWithinMax
  BY DEF Init, BookInit, BoundsHold, ScoreWithinMax, There
<1>2. BookOK /\ GradingsApart /\ BoundsHold /\ ScoreWithinMax /\ [Next]_vars
         => BoundsHold' /\ ScoreWithinMax'
  BY GradingStep
<1>. QED
  BY <1>1, <1>2, BookOKHolds, PTL DEF Spec

\* In particular with one person grading, however many do everything else.
THEOREM OneGraderScoreWithinMax ==
  ASSUME \A v, w \in Graders : v = w
  PROVE  Spec => []ScoreWithinMax
<1>1. BookOK => GradingsApart
  BY Bounds DEF GradingsApart
<1>. QED
  BY <1>1, BookOKHolds, GradingsApartScoreWithinMax, PTL

-----------------------------------------------------------------------------
(* The position.                                                            *)

GenOK ==
    /\ active \subseteq Students
    /\ member \subseteq Students
    /\ DOMAIN card = Students
    /\ gen \in [Generators -> Generation]
    /\ StudentKnown
    /\ RankFits
    /\ StrayInv

\* Sets of classmates are finite: their size is a number, and one classmate
\* less makes it one smaller.
LEMMA ClassSize ==
  ASSUME NEW S \in SUBSET Students
  PROVE  /\ Cardinality(S) \in Nat
         /\ S = {} => Cardinality(S) = 0
         /\ \A s \in S : Cardinality(S) = Cardinality(S \ {s}) + 1
<1>1. IsFiniteSet(S)
  BY FS_Subset, ReportAssumption
<1>2. Cardinality(S) \in Nat /\ (S = {} => Cardinality(S) = 0)
  BY <1>1, FS_CardinalityType, FS_EmptySet
<1>3. ASSUME NEW s \in S PROVE Cardinality(S) = Cardinality(S \ {s}) + 1
  <2>1. Cardinality(S \ {s}) = Cardinality(S) - 1
    BY <1>1, FS_RemoveElement
  <2>. QED
    BY <1>2, <2>1
<1>. QED
  BY <1>2, <1>3

LEMMA ClassmatesKnown ==
  ASSUME GenOK
  PROVE  Classmates \in SUBSET Students
BY DEF GenOK, Classmates

\* Who has not strayed after a step is in the class, and had not strayed before.
LEMMA NotStrayed ==
  ASSUME Stray, NEW g \in Generators, gen'[g].pc # "idle", g \notin strayed'
  PROVE  /\ gen'[g].student \in Classmates'
         /\ gen'[g].student = gen[g].student => g \notin strayed
BY DEF Stray

\* Generations that stay as they are, whatever becomes of the class.
LEMMA GenStays ==
  ASSUME GenOK, Stray, gen' = gen, active' \subseteq Students, member' \subseteq Students,
         DOMAIN card' = Students
  PROVE  GenOK'
<1>1. StudentKnown'
  BY DEF GenOK, StudentKnown
<1>2. RankFits'
  BY NotStrayed DEF GenOK, RankFits
<1>3. StrayInv'
  BY NotStrayed DEF StrayInv
<1>. QED
  BY <1>1, <1>2, <1>3 DEF GenOK

\* A generation g takes the values n; the others, the class and the shape of the
\* table stay.
LEMMA GenStep ==
  ASSUME GenOK, NEW g \in Generators, NEW n \in Generation, Stray,
         gen' = [gen EXCEPT ![g] = n], UNCHANGED <<active, member>>, DOMAIN card' = Students,
         n.pc # "idle" => n.student \in Students,
         n.pc \in {"subjects", "scores", "classmates"} => n.above = 0,
         n.pc \in {"position", "otherScores"} =>
            /\ n.above + Cardinality(n.others) <= n.total
            /\ g \notin strayed' => n.above + Cardinality(n.others) + 1 <= n.total,
         n.pc = "otherScores" => n.other \in n.others
  PROVE  GenOK'
<1>1. gen \in [Generators -> Generation]
  BY DEF GenOK
<1>2. gen' \in [Generators -> Generation]
  BY <1>1
<1>3. gen'[g] = n /\ \A h \in Generators \ {g} : gen'[h] = gen[h]
  BY <1>1
<1>4. StudentKnown'
  BY <1>3 DEF GenOK, StudentKnown
<1>5. RankFits'
  <2>1. ASSUME NEW h \in Generators \ {g}, gen'[h].pc # "idle", h \notin strayed' PROVE h \notin strayed
    BY <1>3, <2>1, NotStrayed
  <2>. QED
    BY <1>3, <2>1 DEF GenOK, RankFits
<1>6. StrayInv'
  BY NotStrayed DEF StrayInv
<1>. QED
  BY <1>2, <1>4, <1>5, <1>6 DEF GenOK

LEMMA StartType ==
  ASSUME NEW s \in Students, NEW Q \in SUBSET Students
  PROVE  Start(s, Q) \in Generation /\ Start(s, Q).pc = "subjects"
         /\ Start(s, Q).student = s /\ Start(s, Q).above = 0
BY DEF Start, Generation

LEMMA NoGenerationType == NoGeneration \in Generation /\ NoGeneration.pc = "idle"
BY DEF NoGeneration, Start, Generation

LEMMA ProceedOK ==
  ASSUME GenOK, NEW g \in Generators, Proceed(g), Stray, UNCHANGED <<active, member>>, DOMAIN card' = Students
  PROVE  GenOK'
<1>1. CASE gen' = [gen EXCEPT ![g] = NoGeneration]
  BY <1>1, NoGenerationType, GenStep
<1>2. ASSUME NEW s \in gen[g].queue, gen' = [gen EXCEPT ![g] = Start(s, gen[g].queue \ {s})]
      PROVE  GenOK'
  <2>. DEFINE Q == gen[g].queue \ {s}
              n == Start(s, Q)
  <2>1. gen[g].queue \in SUBSET Students
    BY DEF GenOK, Generation
  <2>2. s \in Students /\ Q \in SUBSET Students
    BY <1>2, <2>1
  <2>3. n \in Generation /\ n.pc = "subjects" /\ n.student = s /\ n.above = 0
    BY <2>2, StartType
  <2>4. gen' = [gen EXCEPT ![g] = n]
    BY <1>2
  <2>. HIDE DEF n, Q
  <2>. QED
    BY <2>2, <2>3, <2>4, GenStep
<1>. QED
  BY <1>1, <1>2 DEF Proceed

LEMMA ReadClassmatesOK ==
  ASSUME GenOK, NEW g \in Generators, ReadClassmates(g), Stray
  PROVE  GenOK'
<1>. DEFINE n == [gen[g] EXCEPT !.pc = "position", !.others = Classmates \ {gen[g].student},
                                !.total = Cardinality(Classmates)]
<1>1. gen[g] \in Generation /\ gen[g].pc = "classmates" /\ gen[g].above = 0
      /\ gen[g].student \in Students /\ Classmates \in SUBSET Students /\ gen[g].above \in Nat
  BY ClassmatesKnown DEF ReadClassmates, Reading, GenOK, RankFits, StudentKnown
<1>2. Cardinality(Classmates) \in Nat
  BY <1>1, ClassSize
<1>3. n \in Generation /\ n.pc = "position" /\ n.student = gen[g].student /\ n.above = 0
      /\ n.others = Classmates \ {gen[g].student} /\ n.total = Cardinality(Classmates)
  BY <1>1, <1>2 DEF Generation
<1>4. gen' = [gen EXCEPT ![g] = n] /\ UNCHANGED <<active, member>> /\ card' = card
  BY DEF ReadClassmates, Reading
<1>. HIDE DEF n
<1>5. n.above + Cardinality(n.others) <= n.total
  <2>1. CASE gen[g].student \in Classmates
    BY <1>1, <1>2, <1>3, <2>1, ClassSize
  <2>2. CASE gen[g].student \notin Classmates
    <3>1. n.others = Classmates
      BY <1>3, <2>2
    <3>. QED
      BY <1>2, <1>3, <3>1
  <2>. QED
    BY <2>1, <2>2
<1>6. ASSUME g \notin strayed' PROVE n.above + Cardinality(n.others) + 1 <= n.total
  <2>1. gen'[g] = n /\ Classmates' = Classmates
    BY <1>4 DEF GenOK, Classmates
  <2>2. gen[g].student \in Classmates
    BY <1>3, <1>6, <2>1, NotStrayed
  <2>. QED
    BY <1>1, <1>2, <1>3, <2>2, ClassSize
<1>. QED
  BY <1>1, <1>3, <1>4, <1>5, <1>6, GenStep DEF GenOK

LEMMA CompareOK ==
  ASSUME GenOK, NEW g \in Generators, Compare(g), Stray
  PROVE  GenOK'
<1>. DEFINE s == gen[g].other
            up == IF Beaten(g, s) THEN 1 ELSE 0
            n == [gen[g] EXCEPT !.pc = "position", !.others = gen[g].others \ {s}, !.other = None,
                                !.above = gen[g].above + up]
<1>1. /\ gen[g] \in Generation /\ gen[g].pc = "otherScores" /\ s \in gen[g].others
      /\ gen[g].student \in Students /\ gen[g].others \in SUBSET Students
      /\ gen[g].above \in Nat /\ gen[g].total \in Nat
      /\ gen[g].above + Cardinality(gen[g].others) <= gen[g].total
      /\ g \notin strayed => gen[g].above + Cardinality(gen[g].others) + 1 <= gen[g].total
  BY DEF Compare, Reading, GenOK, RankFits, StudentKnown, Generation
<1>2. gen' = [gen EXCEPT ![g] = n] /\ UNCHANGED <<active, member>> /\ card' = card
  BY DEF Compare, Reading
<1>u. up \in {0, 1}
  OBVIOUS
<1>. HIDE DEF up
<1>3. n \in Generation /\ n.pc = "position" /\ n.student = gen[g].student
      /\ n.above = gen[g].above + up
      /\ n.others = gen[g].others \ {s} /\ n.total = gen[g].total
  <2>1. gen[g].others \ {s} \in SUBSET Students /\ gen[g].above + up \in Nat
    BY <1>1, <1>u
  <2>. QED
    BY <1>1, <2>1 DEF Generation
<1>. HIDE DEF n, s
<1>4. Cardinality(gen[g].others) = Cardinality(n.others) + 1 /\ Cardinality(n.others) \in Nat
  BY <1>1, <1>3, ClassSize
<1>5. /\ n.above + Cardinality(n.others) <= n.total
      /\ g \notin strayed => n.above + Cardinality(n.others) + 1 <= n.total
  BY <1>1, <1>3, <1>4, <1>u
<1>6. g \notin strayed' => g \notin strayed
  <2>1. gen'[g] = n
    BY <1>2 DEF GenOK
  <2>. QED
    BY <1>3, <2>1, NotStrayed
<1>. QED
  BY <1>1, <1>2, <1>3, <1>5, <1>6, GenStep DEF GenOK

\* The steps that read, and remember nothing the rank depends on.
LEMMA OtherReadsOK ==
  ASSUME BookOK, GenOK, NEW g \in Generators, ReadSubjects(g) \/ ReadScores(g) \/ ReadOtherSubjects(g),
         Stray
  PROVE  GenOK'
<1>1. /\ gen[g] \in Generation /\ UNCHANGED <<active, member>> /\ card' = card /\ DOMAIN card' = Students
      /\ gen[g].student \in Students
  BY DEF ReadSubjects, ReadScores, ReadOtherSubjects, Reading, GenOK, StudentKnown
<1>2. There(subject) \in SUBSET Subjects
  BY DEF There, BookOK, BookTypeOK
<1>3. CASE ReadSubjects(g)
  <2>. DEFINE n == [gen[g] EXCEPT !.pc = "scores", !.subjects = There(subject)]
  <2>1. n \in Generation /\ n.pc = "scores" /\ n.student = gen[g].student /\ n.above = gen[g].above
    BY <1>1, <1>2 DEF Generation
  <2>2. gen' = [gen EXCEPT ![g] = n] /\ gen[g].above = 0
    BY <1>3 DEF ReadSubjects, Reading, GenOK, RankFits
  <2>. HIDE DEF n
  <2>. QED
    BY <1>1, <2>1, <2>2, GenStep
<1>4. ASSUME ReadScores(g), ~Proceed(g) PROVE GenOK'
  <2>. DEFINE n == [gen[g] EXCEPT !.pc = "classmates"]
  <2>1. n \in Generation /\ n.pc = "classmates" /\ n.student = gen[g].student /\ n.above = gen[g].above
    BY <1>1 DEF Generation
  <2>2. gen' = [gen EXCEPT ![g] = n] /\ gen[g].above = 0
    BY <1>4 DEF ReadScores, Reading, GenOK, RankFits
  <2>. HIDE DEF n
  <2>. QED
    BY <1>1, <2>1, <2>2, GenStep
<1>5. ASSUME NEW s \in gen[g].others, gen[g].pc = "position",
             gen' = [gen EXCEPT ![g] = [@ EXCEPT !.pc = "otherScores", !.other = s,
                                                 !.subjects = There(subject)]]
      PROVE  GenOK'
  <2>. DEFINE n == [gen[g] EXCEPT !.pc = "otherScores", !.other = s, !.subjects = There(subject)]
  <2>1. s \in Students
    BY <1>1, <1>5 DEF Generation
  <2>2. n \in Generation /\ n.pc = "otherScores" /\ n.other = s /\ n.student = gen[g].student
        /\ n.above = gen[g].above /\ n.others = gen[g].others /\ n.total = gen[g].total
    BY <1>1, <1>2, <2>1 DEF Generation
  <2>3. gen' = [gen EXCEPT ![g] = n]
    BY <1>5
  <2>4. /\ gen[g].above + Cardinality(gen[g].others) <= gen[g].total
        /\ g \notin strayed => gen[g].above + Cardinality(gen[g].others) + 1 <= gen[g].total
    BY <1>5 DEF GenOK, RankFits
  <2>. HIDE DEF n
  <2>5. g \notin strayed' => g \notin strayed
    <3>1. gen'[g] = n
      BY <2>3 DEF GenOK
    <3>. QED
      BY <2>2, <3>1, NotStrayed
  <2>. QED
    BY <1>1, <1>5, <2>2, <2>3, <2>4, <2>5, GenStep
<1>6. CASE ReadOtherSubjects(g)
  BY <1>5, <1>6 DEF ReadOtherSubjects, Reading
<1>. QED
  BY <1>1, <1>3, <1>4, <1>6, ProceedOK

\* Whether a generation begins, stores its card, goes on or fails.
LEMMA GenOKStep ==
  ASSUME BookOK, GenOK, [Next]_vars
  PROVE  GenOK'
<1>1. CASE UNCHANGED vars
  BY <1>1 DEF vars, reportVars, GenOK, StudentKnown, RankFits, StrayInv, Classmates
<1>2. ASSUME Stray, UNCHANGED <<card, gen>>,
             \/ (BookNext /\ UNCHANGED <<active, member>>) \/ Publish
             \/ \E s \in Students : Deactivate(s) \/ ChangeClass(s)
      PROVE  GenOK'
  <2>1. active' \subseteq Students /\ member' \subseteq Students
    BY <1>2 DEF Publish, Deactivate, ChangeClass, GenOK
  <2>. QED
    BY <1>2, <2>1, GenStays DEF GenOK
<1>3. ASSUME NEW s \in Students, ReplaceCard(s), Stray PROVE GenOK'
  <2>1. UNCHANGED <<active, member, gen>> /\ DOMAIN card' = Students
    BY <1>3 DEF ReplaceCard, GenOK
  <2>. QED
    BY <1>3, <2>1, GenStays DEF GenOK
<1>4. ASSUME NEW g \in Generators, NEW s \in Students, NEW Q \in SUBSET Students,
             BeginBuild(g), gen' = [gen EXCEPT ![g] = Start(s, Q)], Stray
      PROVE  GenOK'
  <2>. DEFINE n == Start(s, Q)
  <2>1. n \in Generation /\ n.pc = "subjects" /\ n.student = s /\ n.above = 0
    BY StartType
  <2>2. gen' = [gen EXCEPT ![g] = n] /\ UNCHANGED <<active, member>> /\ DOMAIN card' = Students
    BY <1>4 DEF BeginBuild, GenOK
  <2>. HIDE DEF n
  <2>. QED
    BY <1>4, <2>1, <2>2, GenStep
<1>5. ASSUME NEW g \in Generators, NEW s \in Students, GenerateForStudent(g, s), Stray PROVE GenOK'
  <2>1. {} \in SUBSET Students
    OBVIOUS
  <2>. QED
    BY <1>4, <1>5, <2>1 DEF GenerateForStudent
<1>6. ASSUME NEW g \in Generators, GenerateForClass(g), Stray PROVE GenOK'
  <2>1. PICK s \in Classmates : gen' = [gen EXCEPT ![g] = Start(s, Classmates \ {s})]
    BY <1>6 DEF GenerateForClass
  <2>2. s \in Students /\ Classmates \ {s} \in SUBSET Students
    BY ClassmatesKnown
  <2>. QED
    BY <1>4, <1>6, <2>1, <2>2 DEF GenerateForClass
<1>7. ASSUME NEW g \in Generators, Generate(g), Stray PROVE GenOK'
  <2>1. CASE UpsertCard(g)
    <3>1. Proceed(g) /\ UNCHANGED <<active, member>> /\ DOMAIN card' = Students
      BY <2>1 DEF UpsertCard, Reading, GenOK
    <3>. QED
      BY <1>7, <3>1, ProceedOK
  <2>. QED
    BY <1>7, <2>1, OtherReadsOK, ReadClassmatesOK, CompareOK DEF Generate
<1>8. ASSUME NEW g \in Generators, FailBuild(g), Stray PROVE GenOK'
  <2>1. UNCHANGED <<active, member>> /\ DOMAIN card' = Students
    BY <1>8 DEF FailBuild, GenOK
  <2>2. Proceed(g) \/ gen' = [gen EXCEPT ![g] = NoGeneration]
    BY <1>8 DEF FailBuild
  <2>3. CASE gen' = [gen EXCEPT ![g] = NoGeneration]
    BY <1>8, <2>1, <2>3, NoGenerationType, GenStep
  <2>. QED
    BY <1>8, <2>1, <2>2, <2>3, ProceedOK
<1>9. Publish => UNCHANGED <<card, gen>>
  BY DEF Publish
<1>10. active \subseteq Students
  BY DEF GenOK
<1>. QED
  BY <1>1, <1>2, <1>3, <1>5, <1>6, <1>7, <1>8, <1>9, <1>10 DEF Next, EditNext

LEMMA InitGenOK == Init => GenOK
<1>. SUFFICES ASSUME Init PROVE GenOK
  OBVIOUS
<1>1. gen = [g \in Generators |-> NoGeneration] /\ active = Students /\ member = Students
      /\ DOMAIN card = Students
  BY DEF Init
<1>. QED
  BY <1>1, NoGenerationType DEF GenOK, StudentKnown, RankFits, StrayInv

\* Only the upsert of a generation stores a card, and it ends the building of it.
LEMMA CardStored ==
  ASSUME GenOK, [Next]_vars, NEW g \in Generators, NEW s \in Students,
         gen[g].student = s, card'[s] # card[s], gen'[g] # gen[g]
  PROVE  /\ UpsertCard(g)
         /\ gen[g].pc = "position" /\ gen[g].others = {}
         /\ card'[s] = [exists   |-> TRUE,
                        average  |-> average[g],
                        position |-> IF gen[g].total = 0 THEN None ELSE gen[g].above + 1,
                        total    |-> gen[g].total]
<1>1. PICK h \in Generators : UpsertCard(h)
  <2>1. ASSUME NEW h \in Generators,
               \/ Generate(h) /\ ~UpsertCard(h)
               \/ GenerateForClass(h) \/ FailBuild(h) \/ \E t \in Students : GenerateForStudent(h, t)
        PROVE  card' = card
    BY <2>1 DEF Generate, ReadSubjects, ReadScores, ReadClassmates, ReadOtherSubjects, Compare,
                GenerateForClass, FailBuild, GenerateForStudent, BeginBuild
  <2>2. ASSUME UNCHANGED card \/ UNCHANGED vars \/ Publish PROVE card' = card
    BY <2>2 DEF vars, reportVars, Publish
  <2>3. ~ \E t \in Students : ReplaceCard(t)
    BY DEF ReplaceCard
  <2>. QED
    BY <2>1, <2>2, <2>3 DEF Next
<1>2. h = g
  BY <1>1 DEF UpsertCard, Proceed, GenOK
<1>. QED
  BY <1>1, <1>2 DEF UpsertCard, Reading, GenOK

\* Whatever is written while a card is built, whoever joins or leaves the class,
\* and however many cards are built at once, the position that is stored is a
\* place of the class that was counted when the pupil was in it all the while,
\* and at most one more when not.
THEOREM PositionAlwaysInClass == Spec => PositionInClass
<1>1. ASSUME GenOK, [Next]_vars, NEW g \in Generators, NEW s \in Students,
             gen[g].student = s, card'[s] # card[s], gen'[g] # gen[g]
      PROVE  /\ card'[s].position = None <=> card'[s].total = 0
             /\ card'[s].position # None => card'[s].position \in 1..(card'[s].total + 1)
             /\ g \notin strayed => card'[s].position \in 1..card'[s].total
  <2>0. /\ gen[g].pc = "position" /\ gen[g].others = {}
        /\ card'[s] = [exists   |-> TRUE,
                       average  |-> average[g],
                       position |-> IF gen[g].total = 0 THEN None ELSE gen[g].above + 1,
                       total    |-> gen[g].total]
    BY <1>1, CardStored
  <2>1. /\ gen[g].pc = "position" /\ gen[g].others = {}
        /\ card'[s].position = IF gen[g].total = 0 THEN None ELSE gen[g].above + 1
        /\ card'[s].total = gen[g].total
    BY <2>0
  <2>2. gen[g].above \in Nat /\ gen[g].total \in Nat
    BY <1>1 DEF GenOK, Generation
  <2>3. Cardinality(gen[g].others) = 0
    BY <2>1, FS_EmptySet
  <2>4. gen[g].above <= gen[g].total /\ (g \notin strayed => gen[g].above + 1 <= gen[g].total)
    <3>1. /\ gen[g].above + Cardinality(gen[g].others) <= gen[g].total
          /\ g \notin strayed => gen[g].above + Cardinality(gen[g].others) + 1 <= gen[g].total
      BY <1>1, <2>1 DEF GenOK, RankFits
    <3>. QED
      BY <2>2, <2>3, <3>1
  <2>5. \A n \in Nat : n # None
    BY GradebookAssumption
  <2>6. gen[g].above + 1 \in Nat /\ gen[g].above + 1 # None
    BY <2>2, <2>5
  <2>. QED
    BY <2>1, <2>2, <2>4, <2>6
<1>2. GenOK /\ [Next]_vars =>
         [\A g \in Generators, s \in Students :
            gen[g].student = s /\ card'[s] # card[s] /\ gen'[g] # gen[g] =>
             /\ card'[s].position = None <=> card'[s].total = 0
             /\ card'[s].position # None => card'[s].position \in 1..(card'[s].total + 1)
             /\ g \notin strayed => card'[s].position \in 1..card'[s].total]_vars
  BY <1>1
<1>3. BookOK /\ GenOK /\ [Next]_vars => GenOK'
  BY GenOKStep
<1>. QED
  BY <1>2, <1>3, InitGenOK, BookOKHolds, PTL DEF Spec, PositionInClass

-----------------------------------------------------------------------------
(* The card of one moment.                                                   *)

MomentOK == average = [g \in Generators |-> average[g]] /\ MomentInv

Frozen == UNCHANGED <<active, member, subject, assessment, score>>

\* Averages, ranks and subjects are what they were while the tables they are
\* computed from stay.
LEMMA FrozenScores ==
  ASSUME Frozen
  PROVE  /\ There(subject)' = There(subject)
         /\ \A s : (HasScores(s)' <=> HasScores(s)) /\ AverageOf(s)' = AverageOf(s)
<1>1. There(subject)' = There(subject) /\ There(assessment)' = There(assessment)
  BY DEF Frozen, There
<1>2. \A s, M : Graded(s, M)' = Graded(s, M)
  BY <1>1 DEF Graded, Frozen
<1>3. \A s, A : Average(s, A)' = Average(s, A)
  BY DEF Average, Percentage, Frozen
<1>4. ASSUME NEW s PROVE (HasScores(s)' <=> HasScores(s)) /\ AverageOf(s)' = AverageOf(s)
  BY <1>1, <1>2, <1>3 DEF HasScores, AverageOf
<1>. QED
  BY <1>1, <1>4

LEMMA FrozenAbove ==
  ASSUME Frozen, NEW s
  PROVE  Above(s)' = Above(s) /\ Ranking(s)' = Ranking(s) /\ Classmates' = Classmates
<1>1. Classmates' = Classmates
  BY DEF Frozen, Classmates
<1>2. Above(s)' = Above(s)
  BY <1>1, FrozenScores DEF Above
<1>3. Ranking(s) = 1 + Cardinality(Above(s))
  BY DEF Ranking, Above
<1>4. Ranking(s)' = 1 + Cardinality(Above(s))'
  BY DEF Ranking, Above
<1>. QED
  BY <1>1, <1>2, <1>3, <1>4

\* Tables that stay, and a generation and an average of which nothing is known
\* but that they agree with the tables, or that a write has overtaken them.
LEMMA MomentKept ==
  ASSUME GenOK, MomentOK, Frozen, NEW g \in Generators, NEW n, NEW a,
         gen' = [gen EXCEPT ![g] = n], average' = [average EXCEPT ![g] = a],
         overtaken \ {g} \subseteq overtaken',
         g \notin overtaken' => \A s \in Students : n.student = s => Current(s, n, a)
  PROVE  MomentOK'
<1>1. /\ gen'[g] = n /\ average'[g] = a
      /\ \A h \in Generators \ {g} : gen'[h] = gen[h] /\ average'[h] = average[h]
      /\ average' = [h \in Generators |-> average'[h]]
  BY DEF GenOK, MomentOK
<1>2. ASSUME NEW h \in Generators, h \notin overtaken', NEW s \in Students, gen'[h].student = s
      PROVE  Current(s, gen'[h], average'[h])
  BY <1>1, <1>2 DEF MomentOK, MomentInv
<1>3. ASSUME NEW h \in Generators, h \notin overtaken', NEW s \in Students, gen'[h].student = s
      PROVE  Current(s, gen[h], average[h])'
  <2>1. Current(s, gen'[h], average'[h])
    BY <1>2, <1>3
  <2>2. Above(s)' = Above(s) /\ There(subject)' = There(subject) /\ Classmates' = Classmates
        /\ (HasScores(s)' <=> HasScores(s)) /\ AverageOf(s)' = AverageOf(s)
    BY FrozenAbove, FrozenScores
  <2>. QED
    BY <2>1, <2>2 DEF Current
<1>4. MomentInv'
  BY <1>3 DEF MomentInv
<1>. QED
  BY <1>1, <1>4 DEF MomentOK

\* A write leaves no generation under way that it has not overtaken.
LEMMA MomentOvertaken ==
  ASSUME GenOK, MomentOK, UNCHANGED <<gen, average>>,
         \/ Frozen /\ overtaken' = overtaken
         \/ overtaken' = overtaken \union {g \in Generators : gen[g].pc # "idle"}
  PROVE  MomentOK'
<1>1. CASE Frozen /\ overtaken' = overtaken
  <2>1. \A s : Above(s)' = Above(s) /\ Classmates' = Classmates
    BY <1>1, FrozenAbove
  <2>2. ASSUME NEW g \in Generators, g \notin overtaken', NEW s \in Students, gen'[g].student = s
        PROVE  Current(s, gen[g], average[g])'
    <3>1. Current(s, gen[g], average[g])
      BY <1>1, <2>2 DEF MomentOK, MomentInv
    <3>. QED
      BY <1>1, <2>1, <3>1, FrozenScores DEF Current
  <2>. QED
    BY <2>2 DEF MomentOK, MomentInv
<1>2. CASE overtaken' = overtaken \union {g \in Generators : gen[g].pc # "idle"}
  <2>1. ASSUME NEW g \in Generators, g \notin overtaken', NEW s \in Students
        PROVE  Current(s, gen[g], average[g])'
    BY <1>2, <2>1 DEF Current
  <2>. QED
    BY <2>1 DEF MomentOK, MomentInv
<1>. QED
  BY <1>1, <1>2

\* The next student of a list: nothing is read yet.
LEMMA MomentProceed ==
  ASSUME GenOK, MomentOK, Frozen, NEW g \in Generators,
         Proceed(g) \/ gen' = [gen EXCEPT ![g] = NoGeneration], UNCHANGED average,
         overtaken' = overtaken \ {g}
  PROVE  MomentOK'
<1>1. PICK n : gen' = [gen EXCEPT ![g] = n] /\ n.pc \in {"idle", "subjects"}
  BY DEF Proceed, NoGeneration, Start
<1>2. \A s \in Students : Current(s, n, average[g])
  BY <1>1 DEF Current
<1>3. average' = [average EXCEPT ![g] = average[g]] /\ overtaken \ {g} \subseteq overtaken'
  BY DEF MomentOK
<1>. QED
  BY <1>1, <1>2, <1>3, MomentKept

LEMMA MomentReadSubjects ==
  ASSUME GenOK, MomentOK, NEW g \in Generators, ReadSubjects(g)
  PROVE  MomentOK'
<1>. DEFINE n == [gen[g] EXCEPT !.pc = "scores", !.subjects = There(subject)]
<1>1. gen' = [gen EXCEPT ![g] = n] /\ average' = [average EXCEPT ![g] = average[g]]
      /\ overtaken' = overtaken /\ Frozen
  BY DEF ReadSubjects, Reading, MomentOK, Frozen, bookVars
<1>2. n.pc = "scores" /\ n.subjects = There(subject)
  BY DEF GenOK, Generation
<1>. HIDE DEF n
<1>3. \A s \in Students : Current(s, n, average[g])
  BY <1>2 DEF Current
<1>. QED
  BY <1>1, <1>3, MomentKept

\* The scores are those of the subjects that are there.
LEMMA MomentReadScores ==
  ASSUME GenOK, MomentOK, NEW g \in Generators, ReadScores(g)
  PROVE  MomentOK'
<1>. DEFINE A == Graded(gen[g].student, gen[g].subjects)
            n == [gen[g] EXCEPT !.pc = "classmates"]
            a == Average(gen[g].student, A)
<1>1. gen[g].pc = "scores" /\ Frozen
  BY DEF ReadScores, Reading, Frozen, bookVars
<1>2. CASE A = {}
  <2>1. Proceed(g) /\ UNCHANGED average
    BY <1>2 DEF ReadScores
  <2>2. overtaken' = overtaken \ {g}
    BY <2>1 DEF Proceed
  <2>. QED
    BY <1>1, <2>1, <2>2, MomentProceed
<1>3. CASE A # {}
  <2>1. gen' = [gen EXCEPT ![g] = n] /\ average' = [average EXCEPT ![g] = a] /\ overtaken' = overtaken
    BY <1>3 DEF ReadScores
  <2>2. n.pc = "classmates" /\ n.student = gen[g].student
    BY DEF GenOK, Generation
  <2>3. ASSUME g \notin overtaken', NEW s \in Students, n.student = s PROVE Current(s, n, a)
    <3>1. gen[g].subjects = There(subject)
      BY <1>1, <2>1, <2>2, <2>3 DEF MomentOK, MomentInv, Current
    <3>2. HasScores(s) /\ a = AverageOf(s)
      BY <1>3, <2>2, <2>3, <3>1 DEF HasScores, AverageOf
    <3>. QED
      BY <2>2, <3>2 DEF Current
  <2>. HIDE DEF n, a
  <2>. QED
    BY <1>1, <2>1, <2>3, MomentKept
<1>. QED
  BY <1>2, <1>3

\* Nobody has been compared, and nobody counted as above.
LEMMA MomentReadClassmates ==
  ASSUME GenOK, MomentOK, NEW g \in Generators, ReadClassmates(g)
  PROVE  MomentOK'
<1>. DEFINE n == [gen[g] EXCEPT !.pc = "position", !.others = Classmates \ {gen[g].student},
                                !.total = Cardinality(Classmates)]
<1>1. gen' = [gen EXCEPT ![g] = n] /\ average' = [average EXCEPT ![g] = average[g]]
      /\ overtaken' = overtaken /\ Frozen /\ gen[g].pc = "classmates"
  BY DEF ReadClassmates, Reading, MomentOK, Frozen, bookVars
<1>2. n.pc = "position" /\ n.student = gen[g].student /\ n.others = Classmates \ {gen[g].student}
      /\ n.total = Cardinality(Classmates) /\ n.above = 0
  BY <1>1 DEF GenOK, Generation, RankFits
<1>. HIDE DEF n
<1>3. ASSUME g \notin overtaken', NEW s \in Students, n.student = s PROVE Current(s, n, average[g])
  <2>1. HasScores(s) /\ average[g] = AverageOf(s)
    BY <1>1, <1>2, <1>3 DEF MomentOK, MomentInv, Current
  <2>2. Above(s) \ n.others = {}
    BY <1>2, <1>3 DEF Above
  <2>3. Cardinality(Above(s) \ n.others) = 0
    BY <2>2, FS_EmptySet
  <2>. QED
    BY <1>2, <1>3, <2>1, <2>3 DEF Current
<1>. QED
  BY <1>1, <1>3, MomentKept

LEMMA MomentReadOtherSubjects ==
  ASSUME GenOK, MomentOK, NEW g \in Generators, ReadOtherSubjects(g)
  PROVE  MomentOK'
<1>1. PICK o \in gen[g].others : gen' = [gen EXCEPT ![g] = [@ EXCEPT !.pc = "otherScores", !.other = o,
                                                                     !.subjects = There(subject)]]
  BY DEF ReadOtherSubjects
<1>. DEFINE n == [gen[g] EXCEPT !.pc = "otherScores", !.other = o, !.subjects = There(subject)]
<1>2. gen' = [gen EXCEPT ![g] = n] /\ average' = [average EXCEPT ![g] = average[g]]
      /\ overtaken' = overtaken /\ Frozen /\ gen[g].pc = "position"
  BY <1>1 DEF ReadOtherSubjects, Reading, MomentOK, Frozen, bookVars
<1>3. n.pc = "otherScores" /\ n.student = gen[g].student /\ n.others = gen[g].others
      /\ n.total = gen[g].total /\ n.above = gen[g].above /\ n.subjects = There(subject)
  BY DEF GenOK, Generation
<1>. HIDE DEF n
<1>4. ASSUME g \notin overtaken', NEW s \in Students, n.student = s PROVE Current(s, n, average[g])
  BY <1>2, <1>3, <1>4 DEF MomentOK, MomentInv, Current
<1>. QED
  BY <1>2, <1>4, MomentKept

\* The classmate is counted if and only if he is above.
LEMMA MomentCompare ==
  ASSUME GenOK, MomentOK, NEW g \in Generators, Compare(g)
  PROVE  MomentOK'
<1>. DEFINE o == gen[g].other
            up == IF Beaten(g, o) THEN 1 ELSE 0
            n == [gen[g] EXCEPT !.pc = "position", !.others = gen[g].others \ {o}, !.other = None,
                                !.above = gen[g].above + up]
<1>1. gen' = [gen EXCEPT ![g] = n] /\ average' = [average EXCEPT ![g] = average[g]]
      /\ overtaken' = overtaken /\ Frozen /\ gen[g].pc = "otherScores"
  BY DEF Compare, Reading, MomentOK, Frozen, bookVars
<1>2. n.pc = "position" /\ n.student = gen[g].student /\ n.others = gen[g].others \ {o}
      /\ n.total = gen[g].total /\ n.above = gen[g].above + up
  BY DEF GenOK, Generation
<1>3. o \in gen[g].others
  BY <1>1 DEF GenOK, RankFits
<1>4. ASSUME g \notin overtaken', NEW s \in Students, n.student = s PROVE Current(s, n, average[g])
  <2>1. Current(s, gen[g], average[g])
    BY <1>1, <1>2, <1>4 DEF MomentOK, MomentInv
  <2>2. /\ gen[g].subjects = There(subject) /\ HasScores(s) /\ average[g] = AverageOf(s)
        /\ gen[g].total = Cardinality(Classmates) /\ gen[g].others \subseteq Classmates \ {s}
        /\ gen[g].above = Cardinality(Above(s) \ gen[g].others)
    BY <1>1, <2>1 DEF Current
  <2>3. Beaten(g, o) <=> o \in Above(s)
    BY <1>3, <2>2 DEF Beaten, Above, HasScores, AverageOf
  <2>5. n.above = Cardinality(Above(s) \ n.others)
    <3>1. CASE Beaten(g, o)
      <4>. DEFINE B == Above(s) \ n.others
      <4>1. o \in B /\ B \ {o} = Above(s) \ gen[g].others /\ B \in SUBSET Students
        BY <1>2, <1>3, <2>3, <3>1, ClassmatesKnown DEF Above
      <4>2. n.above = Cardinality(B \ {o}) + 1
        BY <1>2, <2>2, <3>1, <4>1
      <4>. HIDE DEF B
      <4>3. n.above = Cardinality(B)
        BY <4>1, <4>2, ClassSize
      <4>. QED
        BY <4>3 DEF B
    <3>2. CASE ~Beaten(g, o)
      <4>1. Above(s) \ n.others = Above(s) \ gen[g].others
        BY <1>2, <2>3, <3>2
      <4>2. n.above = gen[g].above
        BY <1>2, <3>2 DEF GenOK, Generation
      <4>. QED
        BY <2>2, <4>1, <4>2
    <3>. QED
      BY <3>1, <3>2
  <2>. HIDE DEF n, up, o
  <2>. QED
    BY <1>2, <2>2, <2>5 DEF Current
<1>. HIDE DEF n, up, o
<1>. QED
  BY <1>1, <1>4, MomentKept

LEMMA MomentStep ==
  ASSUME GenOK, MomentOK, [Next]_vars
  PROVE  MomentOK'
<1>1. CASE EditNext /\ UNCHANGED <<card, published, gen, average, builds>> /\ Overtake
  BY <1>1, MomentOvertaken DEF Overtake, Frozen
<1>2. CASE Publish \/ UNCHANGED vars \/ \E s \in Students : ReplaceCard(s)
  <2>1. Frozen /\ UNCHANGED <<gen, average, overtaken>>
    BY <1>2 DEF Publish, ReplaceCard, vars, reportVars, bookVars, bookTables, Frozen
  <2>. QED
    BY <2>1, MomentOvertaken
<1>3. ASSUME NEW g \in Generators,
             GenerateForClass(g) \/ \E s \in Students : GenerateForStudent(g, s)
      PROVE  MomentOK'
  <2>1. PICK n : gen' = [gen EXCEPT ![g] = n] /\ n.pc = "subjects"
    <3>1. \A s, Q : Start(s, Q).pc = "subjects"
      BY DEF Start
    <3>. QED
      BY <1>3, <3>1 DEF GenerateForClass, GenerateForStudent
  <2>2. Frozen /\ average' = [average EXCEPT ![g] = average[g]] /\ overtaken \ {g} \subseteq overtaken'
    BY <1>3 DEF GenerateForClass, GenerateForStudent, BeginBuild, Frozen, bookVars, MomentOK
  <2>3. \A s \in Students : Current(s, n, average[g])
    BY <2>1 DEF Current
  <2>. QED
    BY <2>1, <2>2, <2>3, MomentKept
<1>4. ASSUME NEW g \in Generators, UpsertCard(g) \/ FailBuild(g) PROVE MomentOK'
  <2>1. Frozen /\ UNCHANGED average /\ (Proceed(g) \/ gen' = [gen EXCEPT ![g] = NoGeneration])
        /\ overtaken' = overtaken \ {g}
    BY <1>4 DEF UpsertCard, FailBuild, Reading, Frozen, bookVars, Proceed
  <2>. QED
    BY <2>1, MomentProceed
<1>. QED
  BY <1>1, <1>2, <1>3, <1>4, MomentReadSubjects, MomentReadScores, MomentReadClassmates,
     MomentReadOtherSubjects, MomentCompare DEF Next, Generate

LEMMA InitMomentOK == Init => MomentOK
BY NoGenerationType DEF Init, MomentOK, MomentInv, Current

\* What a generation stores that no write overtook is right.
LEMMA StoredRight ==
  ASSUME GenOK, MomentOK, NEW g \in Generators \ overtaken, NEW s \in Students, UpsertCard(g),
         gen[g].student = s
  PROVE  Right(s, card'[s])
<1>1. /\ gen[g].pc = "position" /\ gen[g].others = {}
      /\ card'[s] = [exists   |-> TRUE,
                     average  |-> average[g],
                     position |-> IF gen[g].total = 0 THEN None ELSE gen[g].above + 1,
                     total    |-> gen[g].total]
  BY DEF UpsertCard, Reading, GenOK
<1>2. Current(s, gen[g], average[g])
  BY DEF MomentOK, MomentInv
<1>3. /\ HasScores(s) /\ average[g] = AverageOf(s) /\ gen[g].total = Cardinality(Classmates)
      /\ gen[g].above = Cardinality(Above(s) \ gen[g].others)
  BY <1>1, <1>2 DEF Current
<1>4. Above(s) \ gen[g].others = Above(s)
  BY <1>1
<1>5. Ranking(s) = 1 + Cardinality(Above(s))
  BY DEF Ranking, Above
<1>6. IsFiniteSet(Classmates) /\ IsFiniteSet(Above(s))
  <2>1. Classmates \subseteq Students /\ Above(s) \subseteq Students
    BY ClassmatesKnown DEF Above
  <2>. QED
    BY <2>1, FS_Subset, ReportAssumption
<1>7. (Cardinality(Classmates) = 0 <=> Classmates = {}) /\ Cardinality(Above(s)) \in Nat
  BY <1>6, FS_EmptySet, FS_CardinalityType
<1>. QED
  BY <1>1, <1>3, <1>4, <1>5, <1>7 DEF Right

\* A card that is stored while nothing was written since its building began is
\* right: it has the average, the rank and the size of the class of that moment.
\* However many classmates are compared one after the other, and however many
\* generations run beside it, none is missed or counted twice.
THEOREM CardAlwaysOfOneMoment == Spec => CardOfOneMoment
<1>1. ASSUME GenOK, MomentOK, [Next]_vars, NEW g \in Generators \ overtaken, NEW s \in Students,
             gen[g].student = s, card'[s] # card[s], gen'[g] # gen[g]
      PROVE  /\ HasScores(s)
             /\ card'[s].average = AverageOf(s)
             /\ card'[s].position = IF Classmates = {} THEN None ELSE Ranking(s)
             /\ card'[s].total = Cardinality(Classmates)
  <2>1. Right(s, card'[s])
    BY <1>1, CardStored, StoredRight
  <2>. QED
    BY <2>1 DEF Right
<1>2. GenOK /\ MomentOK /\ [Next]_vars =>
         [\A g \in Generators \ overtaken : \A s \in Students :
            gen[g].student = s /\ card'[s] # card[s] /\ gen'[g] # gen[g] =>
             /\ HasScores(s)
             /\ card'[s].average = AverageOf(s)
             /\ card'[s].position = IF Classmates = {} THEN None ELSE Ranking(s)
             /\ card'[s].total = Cardinality(Classmates)]_vars
  BY <1>1
<1>3. BookOK /\ GenOK /\ MomentOK /\ [Next]_vars => GenOK' /\ MomentOK'
  BY GenOKStep, MomentStep
<1>. QED
  BY <1>2, <1>3, InitGenOK, InitMomentOK, BookOKHolds, PTL DEF Spec, CardOfOneMoment

-----------------------------------------------------------------------------
(* Cards that are not stale stay right.                                      *)

LEMMA RightFrozen ==
  ASSUME Frozen, NEW s, NEW c
  PROVE  Right(s, c)' <=> Right(s, c)
BY FrozenScores, FrozenAbove DEF Right

\* The cards that were fresh are right, and at most card s has become so.
LEMMA FreshKept ==
  ASSUME FreshInv, Frozen, NEW s,
         \A t \in Students \ {s} : card'[t] = card[t] /\ (t \in stale <=> t \in stale'),
         s \in Fresh' => Right(s, card'[s])
  PROVE  FreshInv'
<1>1. ASSUME NEW t \in Fresh' PROVE Right(t, card'[t])
  <2>1. CASE t = s
    BY <1>1, <2>1
  <2>2. CASE t # s
    <3>1. t \in Fresh /\ card'[t] = card[t]
      BY <1>1, <2>2 DEF Fresh
    <3>. QED
      BY <3>1 DEF FreshInv
  <2>. QED
    BY <2>1, <2>2
<1>2. ASSUME NEW t \in Fresh' PROVE Right(t, card[t])'
  <2>. DEFINE c == card'[t]
  <2>1. Right(t, c)
    BY <1>1, <1>2
  <2>. QED
    BY <2>1, FrozenScores, FrozenAbove DEF Right
<1>. QED
  BY <1>2 DEF FreshInv

LEMMA FreshStep ==
  ASSUME GenOK, MomentOK, FreshInv, [Next]_vars
  PROVE  FreshInv'
<1>1. CASE UNCHANGED <<card, stale>> /\ Frozen
  BY <1>1, FreshKept DEF Fresh, FreshInv
<1>2. CASE EditNext /\ UNCHANGED <<card, published, gen, average, builds>> /\ Overtake
  <2>1. CASE Frozen
    BY <1>1, <1>2, <2>1 DEF Overtake, Frozen
  <2>2. CASE ~Frozen
    <3>1. stale' = {s \in Students : card'[s].exists}
      BY <1>2, <2>2 DEF Overtake, Frozen
    <3>. QED
      BY <3>1 DEF FreshInv, Fresh
  <2>. QED
    BY <2>1, <2>2
<1>3. ASSUME NEW s \in Students, ReplaceCard(s) PROVE FreshInv'
  <2>1. /\ Frozen /\ ~card'[s].exists
        /\ \A t \in Students \ {s} : card'[t] = card[t] /\ (t \in stale <=> t \in stale')
    BY <1>3 DEF ReplaceCard, GenOK, Frozen, bookTables, NoCard
  <2>. QED
    BY <2>1, FreshKept DEF Fresh
<1>4. ASSUME NEW g \in Generators, UpsertCard(g) PROVE FreshInv'
  <2>. DEFINE s == gen[g].student
  <2>1. s \in Students
    BY <1>4 DEF UpsertCard, Reading, GenOK, StudentKnown
  <2>2. Frozen /\ \A t \in Students \ {s} : card'[t] = card[t] /\ (t \in stale <=> t \in stale')
    BY <1>4 DEF UpsertCard, Reading, Frozen, bookVars, GenOK
  <2>3. s \in Fresh' => g \notin overtaken
    BY <1>4 DEF UpsertCard, Fresh
  <2>4. s \in Fresh' => Right(s, card'[s])
    BY <1>4, <2>1, <2>3, StoredRight
  <2>. HIDE DEF s
  <2>. QED
    BY <2>2, <2>4, FreshKept
<1>5. ASSUME NEW g \in Generators,
             \/ Generate(g) /\ ~UpsertCard(g)
             \/ GenerateForClass(g) \/ FailBuild(g) \/ \E t \in Students : GenerateForStudent(g, t)
      PROVE  UNCHANGED <<card, stale>> /\ Frozen
  BY <1>5 DEF Generate, ReadSubjects, ReadScores, ReadClassmates, ReadOtherSubjects, Compare, Reading,
              GenerateForClass, FailBuild, GenerateForStudent, BeginBuild, Frozen, bookVars
<1>6. Publish \/ UNCHANGED vars => UNCHANGED <<card, stale>> /\ Frozen
  BY DEF Publish, vars, reportVars, bookVars, Frozen
<1>. QED
  BY <1>1, <1>2, <1>3, <1>4, <1>5, <1>6 DEF Next

-----------------------------------------------------------------------------
(* Sums.  SumFunctionOnSet folds a function over a set with a recursive      *)
(* function on its subsets, defined with CHOOSE; that there is one, and what *)
(* it yields, is proved with the smallest subset for which it were wrong.    *)

Chosen(s) == CHOOSE x \in s : TRUE

\* F adds up f over each subset of S, one element after the other.
Summing(F, f, S) ==
    F = [s \in SUBSET S |-> IF s = {} THEN 0 ELSE f[Chosen(s)] + F[s \ {Chosen(s)}]]

\* The sum of the library is a solution of Summing, taken at the whole set.
LEMMA SumDefined ==
  ASSUME NEW f, NEW S
  PROVE  SumFunctionOnSet(f, S) = (CHOOSE F : Summing(F, f, S))[S]
BY DEF SumFunctionOnSet, FoldFunctionOnSet, MapThenFoldSet, Summing, Chosen

LEMMA ChosenInSet == ASSUME NEW s, s # {} PROVE Chosen(s) \in s
BY DEF Chosen

\* Among sets of subsets of a finite set there is a smallest.
LEMMA SmallestSubset ==
  ASSUME NEW S, IsFiniteSet(S), NEW T \in SUBSET (SUBSET S), T # {}
  PROVE  \E u \in T : \A v \in T : v \subseteq u => v = u
<1>1. IsWellFoundedOn(StrictSubsetOrdering(S), FiniteSubsetsOf(S))
  BY FS_StrictSubsetOrderingWellFounded
<1>2. FiniteSubsetsOf(S) = SUBSET S
  BY FS_FiniteSubsetsOfFinite
<1>3. \E u \in T : \A v \in T : ~ (<<v, u>> \in StrictSubsetOrdering(S))
  BY <1>1, <1>2, WFMin
<1>. QED
  BY <1>3 DEF StrictSubsetOrdering

\* Two solutions agree where both are defined.
LEMMA SumUnique ==
  ASSUME NEW S, IsFiniteSet(S), NEW f, NEW A \in SUBSET S, NEW B \in SUBSET A, NEW F, NEW G,
         Summing(F, f, A), Summing(G, f, B)
  PROVE  \A s \in SUBSET B : F[s] = G[s]
<1>. DEFINE T == {s \in SUBSET B : F[s] # G[s]}
<1>. SUFFICES ASSUME T # {} PROVE FALSE
  OBVIOUS
<1>1. PICK u \in T : \A v \in T : v \subseteq u => v = u
  <2>1. T \in SUBSET (SUBSET S) /\ T # {}
    OBVIOUS
  <2>. HIDE DEF T
  <2>. QED
    BY <2>1, SmallestSubset
<1>2. u \in SUBSET B /\ u \in SUBSET A /\ F[u] # G[u]
  OBVIOUS
<1>3. CASE u = {}
  <2>1. F[u] = 0
    BY <1>2, <1>3 DEF Summing
  <2>2. G[u] = 0
    BY <1>2, <1>3 DEF Summing
  <2>. QED
    BY <1>2, <2>1, <2>2
<1>4. CASE u # {}
  <2>. DEFINE r == u \ {Chosen(u)}
  <2>1. F[u] = f[Chosen(u)] + F[r]
    BY <1>2, <1>4 DEF Summing
  <2>2. G[u] = f[Chosen(u)] + G[r]
    BY <1>2, <1>4 DEF Summing
  <2>3. r \in SUBSET B /\ r \subseteq u /\ r # u
    BY <1>2, <1>4, ChosenInSet
  <2>4. r \notin T
    BY <1>1, <2>3
  <2>5. F[r] = G[r]
    BY <2>3, <2>4
  <2>. QED
    BY <1>2, <2>1, <2>2, <2>5
<1>. QED
  BY <1>3, <1>4

\* Every subset of a finite set has a solution: from those of the smaller ones.
LEMMA SumExists ==
  ASSUME NEW S, IsFiniteSet(S), NEW f, NEW A \in SUBSET S
  PROVE  \E F : Summing(F, f, A)
<1>. DEFINE T == {s \in SUBSET S : ~ \E F : Summing(F, f, s)}
            Part(s) == CHOOSE F : Summing(F, f, s)
<1>. SUFFICES ASSUME T # {} PROVE FALSE
  OBVIOUS
<1>1. PICK u \in T : \A v \in T : v \subseteq u => v = u
  <2>1. T \in SUBSET (SUBSET S) /\ T # {}
    OBVIOUS
  <2>. HIDE DEF T
  <2>. QED
    BY <2>1, SmallestSubset
<1>2. ASSUME NEW s \in SUBSET u, s # u PROVE Summing(Part(s), f, s)
  BY <1>1, <1>2
<1>. DEFINE G == [s \in SUBSET u |->
                    IF s = {} THEN 0
                              ELSE f[Chosen(s)] + Part(s \ {Chosen(s)})[s \ {Chosen(s)}]]
<1>. HIDE DEF Part
<1>3. ASSUME NEW s \in SUBSET u, s # {} PROVE G[s] = f[Chosen(s)] + G[s \ {Chosen(s)}]
  <2>. DEFINE r == s \ {Chosen(s)}
              q == r \ {Chosen(r)}
  <2>1. G[s] = f[Chosen(s)] + Part(r)[r]
    BY <1>3
  <2>2. r \in SUBSET u /\ r # u
    BY <1>3, ChosenInSet
  <2>3. Summing(Part(r), f, r)
    BY <1>2, <2>2
  <2>4. CASE r = {}
    <3>1. Part(r)[r] = 0 /\ G[r] = 0
      BY <2>2, <2>3, <2>4 DEF Summing
    <3>. QED
      BY <2>1, <3>1
  <2>5. CASE r # {}
    <3>1. q \in SUBSET r /\ q \in SUBSET u /\ q # u
      BY <2>2, <2>5
    <3>2. Summing(Part(q), f, q)
      BY <1>2, <3>1
    <3>3. Part(r)[q] = Part(q)[q]
      <4>1. r \in SUBSET S /\ q \in SUBSET r /\ q \in SUBSET q
        BY <1>1, <2>2, <3>1
      <4>. HIDE DEF r, q
      <4>. QED
        BY <2>3, <3>2, <4>1, SumUnique
    <3>4. Part(r)[r] = f[Chosen(r)] + Part(r)[q]
      BY <2>3, <2>5 DEF Summing
    <3>5. G[r] = f[Chosen(r)] + Part(q)[q]
      BY <2>2, <2>5
    <3>. QED
      BY <2>1, <3>3, <3>4, <3>5
  <2>. QED
    BY <2>4, <2>5
<1>4. Summing(G, f, u)
  <2>1. G[{}] = 0
    OBVIOUS
  <2>2. \A s \in SUBSET u : G[s] = IF s = {} THEN 0 ELSE f[Chosen(s)] + G[s \ {Chosen(s)}]
    BY <1>3, <2>1
  <2>3. G = [s \in SUBSET u |-> G[s]]
    OBVIOUS
  <2>. HIDE DEF G
  <2>. QED
    BY <2>2, <2>3 DEF Summing
<1>. QED
  BY <1>1, <1>4

LEMMA SumEmpty == ASSUME NEW f PROVE SumFunctionOnSet(f, {}) = 0
<1>. DEFINE F == CHOOSE F : Summing(F, f, {})
<1>1. Summing(F, f, {})
  BY SumExists, FS_EmptySet
<1>. QED
  BY <1>1, SumDefined DEF Summing

\* A sum is that of an element and that of the others.
LEMMA SumSplit ==
  ASSUME NEW S, IsFiniteSet(S), NEW f, S # {}
  PROVE  SumFunctionOnSet(f, S) = f[Chosen(S)] + SumFunctionOnSet(f, S \ {Chosen(S)})
<1>. DEFINE r == S \ {Chosen(S)}
            F == CHOOSE F : Summing(F, f, S)
            G == CHOOSE G : Summing(G, f, r)
<1>1. Summing(F, f, S) /\ Summing(G, f, r)
  BY SumExists
<1>2. SumFunctionOnSet(f, S) = F[S] /\ SumFunctionOnSet(f, r) = G[r]
  BY SumDefined
<1>. HIDE DEF F, G
<1>3. F[S] = f[Chosen(S)] + F[r]
  BY <1>1 DEF Summing
<1>4. F[r] = G[r]
  <2>1. r \in SUBSET S /\ S \in SUBSET S /\ r \in SUBSET r
    OBVIOUS
  <2>. HIDE DEF r
  <2>. QED
    BY <1>1, <2>1, SumUnique
<1>. QED
  BY <1>2, <1>3, <1>4

\* A sum of numbers is a number.
LEMMA SumOfNumbers ==
  ASSUME NEW S, IsFiniteSet(S), NEW f, \A x \in S : f[x] \in Nat
  PROVE  SumFunctionOnSet(f, S) \in Nat
<1>. DEFINE T == {s \in SUBSET S : SumFunctionOnSet(f, s) \notin Nat}
<1>. SUFFICES ASSUME T # {} PROVE FALSE
  OBVIOUS
<1>1. PICK u \in T : \A v \in T : v \subseteq u => v = u
  <2>1. T \in SUBSET (SUBSET S) /\ T # {}
    OBVIOUS
  <2>. HIDE DEF T
  <2>. QED
    BY <2>1, SmallestSubset
<1>2. u # {}
  BY SumEmpty
<1>. DEFINE x == Chosen(u)
<1>3. x \in u /\ u \in SUBSET S
  BY <1>2, ChosenInSet
<1>4. SumFunctionOnSet(f, u \ {x}) \in Nat
  BY <1>1, <1>3
<1>5. IsFiniteSet(u)
  BY <1>3, FS_Subset
<1>6. SumFunctionOnSet(f, u) = f[x] + SumFunctionOnSet(f, u \ {x})
  BY <1>2, <1>5, SumSplit
<1>7. SumFunctionOnSet(f, u) \in Nat
  BY <1>3, <1>4, <1>6
<1>. QED
  BY <1>7

\* A sum of positive numbers, one at least, is positive.
LEMMA SumPositive ==
  ASSUME NEW S, IsFiniteSet(S), S # {}, NEW f, \A x \in S : f[x] \in Nat \ {0}
  PROVE  SumFunctionOnSet(f, S) \in Nat \ {0}
<1>. DEFINE x == Chosen(S)
<1>1. x \in S
  BY ChosenInSet
<1>2. SumFunctionOnSet(f, S \ {x}) \in Nat
  BY SumOfNumbers, FS_RemoveElement
<1>3. SumFunctionOnSet(f, S) = f[x] + SumFunctionOnSet(f, S \ {x})
  BY SumSplit
<1>. QED
  BY <1>1, <1>2, <1>3

\* A sum of smaller numbers is smaller.
LEMMA SumMonotone ==
  ASSUME NEW S, IsFiniteSet(S), NEW f, NEW g, \A x \in S : f[x] \in Nat /\ g[x] \in Nat /\ f[x] <= g[x]
  PROVE  SumFunctionOnSet(f, S) <= SumFunctionOnSet(g, S)
<1>. DEFINE T == {s \in SUBSET S : ~ (SumFunctionOnSet(f, s) <= SumFunctionOnSet(g, s))}
<1>. SUFFICES ASSUME T # {} PROVE FALSE
  OBVIOUS
<1>1. PICK u \in T : \A v \in T : v \subseteq u => v = u
  <2>1. T \in SUBSET (SUBSET S) /\ T # {}
    OBVIOUS
  <2>. HIDE DEF T
  <2>. QED
    BY <2>1, SmallestSubset
<1>2. u # {}
  BY SumEmpty
<1>. DEFINE x == Chosen(u)
            r == u \ {x}
<1>3. x \in u /\ u \in SUBSET S /\ r \in SUBSET S
  BY <1>2, ChosenInSet
<1>4. SumFunctionOnSet(f, r) <= SumFunctionOnSet(g, r)
  BY <1>1, <1>3
<1>5. IsFiniteSet(u) /\ IsFiniteSet(r)
  BY <1>3, FS_Subset
<1>6. /\ SumFunctionOnSet(f, u) = f[x] + SumFunctionOnSet(f, r)
      /\ SumFunctionOnSet(g, u) = g[x] + SumFunctionOnSet(g, r)
  BY <1>2, <1>5, SumSplit
<1>7. SumFunctionOnSet(f, r) \in Nat /\ SumFunctionOnSet(g, r) \in Nat
  BY <1>3, <1>5, SumOfNumbers
<1>8. SumFunctionOnSet(f, u) <= SumFunctionOnSet(g, u)
  BY <1>3, <1>4, <1>6, <1>7
<1>. QED
  BY <1>8

\* Rounded hundredths of a percent: at most 10000 when no more points were made than could be.
LEMMA PercentageType ==
  ASSUME NEW p \in Nat, NEW m \in Nat \ {0}
  PROVE  Percentage(p, m) \in Nat /\ (p <= m => Percentage(p, m) <= 10000)
BY DEF Percentage

-----------------------------------------------------------------------------
(* The types of cards and generations, and the bound of an average.          *)

\* Scores that count are of assessments that are there, and are numbers.
LEMMA GradedFinite ==
  ASSUME BookOK, NEW s \in Students, NEW M
  PROVE  /\ IsFiniteSet(Graded(s, M))
         /\ \A a \in Graded(s, M) :
               a \in There(assessment) /\ score[a][s] \in Nat /\ assessment[a].max \in Nat \ {0}
<1>1. Graded(s, M) \in SUBSET Assessments
  BY DEF Graded, There, BookOK, BookTypeOK
<1>2. ASSUME NEW a \in Graded(s, M)
      PROVE  a \in There(assessment) /\ score[a][s] \in Nat /\ assessment[a].max \in Nat \ {0}
  <2>1. a \in Assessments /\ assessment[a].state = "there" /\ score[a][s] # None /\ a \in There(assessment)
    BY <1>1 DEF Graded, There
  <2>2. score[a][s] \in Marks
    BY <2>1 DEF BookOK, BookTypeOK
  <2>3. assessment[a].max \in MaxScores
    BY <2>1 DEF BookOK, RowsOK
  <2>. QED
    BY <2>1, <2>2, <2>3, GradebookAssumption
<1>. QED
  BY <1>1, <1>2, FS_Subset, ReportAssumption

\* An average is a number, and at most 100 percent when no score is above its
\* maximum.
LEMMA AverageType ==
  ASSUME BookOK, NEW s \in Students, NEW M, Graded(s, M) # {}
  PROVE  /\ Average(s, Graded(s, M)) \in Nat
         /\ ScoreWithinMax => Average(s, Graded(s, M)) <= 10000
<1>. DEFINE A == Graded(s, M)
            f == [a \in A |-> score[a][s]]
            m == [a \in A |-> assessment[a].max]
<1>1. IsFiniteSet(A) /\ A # {} /\ \A a \in A : f[a] \in Nat /\ m[a] \in Nat \ {0}
  BY GradedFinite
<1>2. ScoreWithinMax => \A a \in A : f[a] <= m[a]
  BY GradedFinite, GradebookAssumption DEF ScoreWithinMax, Graded
<1>3. Average(s, A) = Percentage(SumFunctionOnSet(f, A), SumFunctionOnSet(m, A))
  BY DEF Average
<1>. HIDE DEF A, f, m
<1>4. SumFunctionOnSet(f, A) \in Nat /\ SumFunctionOnSet(m, A) \in Nat \ {0}
  BY <1>1, SumOfNumbers, SumPositive
<1>5. ScoreWithinMax => SumFunctionOnSet(f, A) <= SumFunctionOnSet(m, A)
  BY <1>1, <1>2, SumMonotone
<1>6. Average(s, A) \in Nat /\ (ScoreWithinMax => Average(s, A) <= 10000)
  BY <1>3, <1>4, <1>5, PercentageType
<1>. QED
  BY <1>6 DEF A

CardsOK ==
    /\ card \in [Students -> Card]
    /\ published \subseteq {s \in Students : card[s].exists}
    /\ average \in [Generators -> Nat]
    /\ overtaken \subseteq Generators
    /\ stale \subseteq {s \in Students : card[s].exists}
    /\ builds \in 0..MaxBuilds

LEMMA NoCardType == NoCard \in Card /\ ~NoCard.exists
BY DEF NoCard, Card

\* What a generation stores is a card; nothing that is published loses its card.
LEMMA CardsOKStep ==
  ASSUME BookOK, GenOK, CardsOK, [Next]_vars
  PROVE  CardsOK'
<1>1. CASE EditNext /\ UNCHANGED <<card, published, gen, average, builds>> /\ Overtake
  BY <1>1 DEF CardsOK, Overtake
<1>2. ASSUME NEW s \in Students, ReplaceCard(s) PROVE CardsOK'
  <2>1. card' = [card EXCEPT ![s] = NoCard] /\ published' = published \ {s} /\ stale' = stale \ {s}
        /\ UNCHANGED <<average, overtaken, builds>>
    BY <1>2 DEF ReplaceCard
  <2>. QED
    BY <2>1, NoCardType DEF CardsOK
<1>3. ASSUME NEW g \in Generators,
             GenerateForClass(g) \/ \E s \in Students : GenerateForStudent(g, s)
      PROVE  CardsOK'
  BY <1>3, ReportAssumption DEF GenerateForClass, GenerateForStudent, BeginBuild, CardsOK
<1>4. ASSUME NEW g \in Generators, ReadScores(g) PROVE CardsOK'
  <2>. DEFINE A == Graded(gen[g].student, gen[g].subjects)
  <2>1. gen[g].student \in Students
    BY <1>4 DEF ReadScores, Reading, GenOK, StudentKnown
  <2>2. average' = average \/ (A # {} /\ average' = [average EXCEPT ![g] = Average(gen[g].student, A)])
    BY <1>4 DEF ReadScores
  <2>3. A # {} => Average(gen[g].student, A) \in Nat
    BY <2>1, AverageType
  <2>4. average' \in [Generators -> Nat]
    <3>. HIDE DEF A
    <3>. QED
      BY <2>2, <2>3 DEF CardsOK
  <2>5. UNCHANGED <<card, published, stale, builds>> /\ overtaken' \subseteq Generators
    BY <1>4 DEF ReadScores, Reading, Proceed, CardsOK
  <2>. QED
    BY <2>4, <2>5 DEF CardsOK
<1>5. ASSUME NEW g \in Generators, UpsertCard(g) PROVE CardsOK'
  <2>. DEFINE s == gen[g].student
              c == [exists   |-> TRUE,
                    average  |-> average[g],
                    position |-> IF gen[g].total = 0 THEN None ELSE gen[g].above + 1,
                    total    |-> gen[g].total]
  <2>1. s \in Students /\ gen[g].above \in Nat /\ gen[g].total \in Nat
    BY <1>5 DEF UpsertCard, Reading, GenOK, StudentKnown, Generation
  <2>2. c \in Card /\ c.exists
    BY <2>1 DEF Card, CardsOK
  <2>3. card' = [card EXCEPT ![s] = c] /\ published' = published \ {s}
        /\ stale' \subseteq stale \union {s} /\ overtaken' = overtaken \ {g} /\ UNCHANGED <<average, builds>>
    BY <1>5 DEF UpsertCard, Reading, Proceed
  <2>. HIDE DEF s, c
  <2>. QED
    BY <2>1, <2>2, <2>3 DEF CardsOK
<1>6. ASSUME NEW g \in Generators,
             ReadSubjects(g) \/ ReadClassmates(g) \/ ReadOtherSubjects(g) \/ Compare(g) \/ FailBuild(g)
      PROVE  CardsOK'
  BY <1>6 DEF ReadSubjects, ReadClassmates, ReadOtherSubjects, Compare, FailBuild, Reading, Proceed, CardsOK
<1>7. CASE Publish
  BY <1>7 DEF Publish, CardsOK
<1>8. CASE UNCHANGED vars
  BY <1>8 DEF vars, reportVars, CardsOK
<1>. QED
  BY <1>1, <1>2, <1>3, <1>4, <1>5, <1>6, <1>7, <1>8 DEF Next, Generate

LEMMA CardsOKHolds == Spec => [](BookOK /\ GenOK /\ CardsOK)
<1>1. Init => GenOK
  BY InitGenOK
<1>2. Init => CardsOK
  BY ReportAssumption, NoCardType DEF Init, CardsOK
<1>3. BookOK /\ GenOK /\ CardsOK /\ [Next]_vars => GenOK' /\ CardsOK'
  BY GenOKStep, CardsOKStep
<1>. QED
  BY <1>1, <1>2, <1>3, BookOKHolds, PTL DEF Spec

\* Cards, generations and the gradebook stay typed: the average of scores is a
\* number, whatever set of scores a generation meets, and what is published is there.
THEOREM ReportTypeCorrect == Spec => []ReportTypeOK
<1>1. BookOK /\ GenOK /\ CardsOK /\ strayed \subseteq Generators => ReportTypeOK
  BY DEF BookOK, GenOK, CardsOK, ReportTypeOK
<1>2. Init => strayed \subseteq Generators
  BY DEF Init
<1>3. strayed \subseteq Generators /\ [Next]_vars => (strayed \subseteq Generators)'
  BY DEF Next, Stray, vars, reportVars
<1>. QED
  BY <1>1, <1>2, <1>3, CardsOKHolds, PTL DEF Spec

\* As long as no sheet overlaps a new maximum of its assessment, no card has an
\* average above 100 percent, although scores and maxima change under the
\* generations (report-cards.service.ts).
THEOREM GradingsApartAverageWithinHundred == Spec /\ []GradingsApart => []AverageWithinHundred
<1>1. Init => AverageWithinHundred
  BY DEF Init, AverageWithinHundred, NoCard
<1>2. ASSUME BookOK, GenOK, CardsOK, ScoreWithinMax, AverageWithinHundred, [Next]_vars
      PROVE  AverageWithinHundred'
  <2>1. ASSUME NEW g \in Generators, ReadScores(g) PROVE AverageWithinHundred'
    <3>. DEFINE A == Graded(gen[g].student, gen[g].subjects)
    <3>1. gen[g].student \in Students
      BY <1>2, <2>1 DEF ReadScores, Reading, GenOK, StudentKnown
    <3>2. card' = card
          /\ (average' = average \/ (A # {} /\ average' = [average EXCEPT ![g] = Average(gen[g].student, A)]))
      BY <2>1 DEF ReadScores
    <3>3. A # {} => Average(gen[g].student, A) <= 10000
      BY <1>2, <3>1, AverageType
    <3>. HIDE DEF A
    <3>. QED
      BY <1>2, <3>2, <3>3 DEF AverageWithinHundred, CardsOK
  <2>2. ASSUME NEW g \in Generators, UpsertCard(g) PROVE AverageWithinHundred'
    <3>1. /\ average' = average
          /\ \A s \in Students : card'[s] = card[s] \/ card'[s].average = average[g]
      BY <1>2, <2>2 DEF UpsertCard, CardsOK
    <3>. QED
      BY <1>2, <3>1 DEF AverageWithinHundred
  <2>3. ASSUME NEW g \in Generators,
               \/ ReadSubjects(g) \/ ReadClassmates(g) \/ ReadOtherSubjects(g) \/ Compare(g) \/ FailBuild(g)
               \/ GenerateForClass(g) \/ \E s \in Students : GenerateForStudent(g, s)
        PROVE  UNCHANGED <<card, average>>
    BY <2>3 DEF ReadSubjects, ReadClassmates, ReadOtherSubjects, Compare, FailBuild, GenerateForClass,
                GenerateForStudent, BeginBuild
  <2>4. Publish \/ UNCHANGED vars => UNCHANGED <<card, average>>
    BY DEF Publish, vars, reportVars
  <2>5. UNCHANGED <<card, average>> => AverageWithinHundred'
    BY <1>2 DEF AverageWithinHundred
  <2>6. ASSUME NEW s \in Students, ReplaceCard(s) PROVE AverageWithinHundred'
    <3>1. /\ average' = average
          /\ \A t \in Students : card'[t] = card[t] \/ card'[t].average = 0
      BY <1>2, <2>6 DEF ReplaceCard, NoCard, CardsOK
    <3>. QED
      BY <1>2, <3>1 DEF AverageWithinHundred
  <2>. QED
    BY <1>2, <2>1, <2>2, <2>3, <2>4, <2>5, <2>6 DEF Next, Generate
<1>3. BookOK /\ GenOK /\ CardsOK /\ ScoreWithinMax /\ AverageWithinHundred /\ [Next]_vars => AverageWithinHundred'
  BY <1>2
<1>. QED
  BY <1>1, <1>3, GradingsApartScoreWithinMax, CardsOKHolds, PTL DEF Spec

\* The stored cards of a class do not contradict each other, although each is
\* computed by reads of its own: those no write has made stale count the same
\* class, equal averages share a place and a better average of a classmate has a
\* better place (report-cards.service.ts, generateForClass).
THEOREM StandingsAlwaysAgree == Spec => []StandingsAgree
<1>1. ASSUME BookOK, GenOK, FreshInv, NEW s \in Fresh, NEW t \in Fresh
      PROVE  /\ card[s].total = card[t].total
             /\ card[s].average = card[t].average => card[s].position = card[t].position
             /\ s \in Classmates /\ card[s].average > card[t].average => card[s].position < card[t].position
  <2>1. s \in Students /\ t \in Students /\ Right(s, card[s]) /\ Right(t, card[t])
    BY <1>1 DEF FreshInv, Fresh
  <2>2. \A o \in Students : HasScores(o) => AverageOf(o) \in Nat
    BY <1>1, AverageType DEF HasScores, AverageOf
  <2>3. Ranking(s) = 1 + Cardinality(Above(s)) /\ Ranking(t) = 1 + Cardinality(Above(t))
    BY DEF Ranking, Above
  <2>4. Classmates \subseteq Students /\ Above(s) \in SUBSET Students /\ Above(t) \in SUBSET Students
    BY <1>1, ClassmatesKnown DEF Above
  <2>5. CASE card[s].average = card[t].average
    <3>0. AverageOf(s) = AverageOf(t) /\ AverageOf(s) \in Nat
      BY <2>1, <2>2, <2>5 DEF Right
    <3>1. Above(s) = Above(t)
      <4>1. \A o : o \in Above(s) => o \in Above(t)
        BY <3>0 DEF Above
      <4>2. \A o : o \in Above(t) => o \in Above(s)
        BY <3>0 DEF Above
      <4>. QED
        BY <4>1, <4>2
    <3>. QED
      BY <2>1, <2>2, <2>3, <2>5, <3>1 DEF Right
  <2>6. CASE s \in Classmates /\ card[s].average > card[t].average
    <3>1. AverageOf(s) \in Nat /\ AverageOf(t) \in Nat /\ AverageOf(s) > AverageOf(t) /\ HasScores(s)
      BY <2>1, <2>2, <2>6 DEF Right
    <3>2. s \in Above(t) /\ Above(s) \subseteq Above(t) \ {s}
      BY <2>2, <2>4, <2>6, <3>1 DEF Above
    <3>3. Cardinality(Above(t)) = Cardinality(Above(t) \ {s}) + 1
      BY <2>4, <3>2, ClassSize
    <3>4. /\ Cardinality(Above(s)) <= Cardinality(Above(t) \ {s})
          /\ Cardinality(Above(s)) \in Nat /\ Cardinality(Above(t) \ {s}) \in Nat
      <4>1. IsFiniteSet(Above(t) \ {s}) /\ IsFiniteSet(Above(s))
        BY <2>4, FS_Subset, ReportAssumption
      <4>. QED
        BY <3>2, <4>1, FS_Subset, FS_CardinalityType
    <3>5. card[s].position = Ranking(s) /\ card[t].position = Ranking(t)
      BY <2>1, <2>6 DEF Right
    <3>6. card[s].position < card[t].position
      BY <2>3, <3>3, <3>4, <3>5
    <3>7. card[s].average # card[t].average
      BY <2>1, <3>1 DEF Right
    <3>. QED
      BY <2>1, <3>6, <3>7 DEF Right
  <2>. QED
    BY <2>1, <2>5, <2>6 DEF Right
<1>2. BookOK /\ GenOK /\ FreshInv => StandingsAgree
  BY <1>1 DEF StandingsAgree
<1>3. Init => FreshInv
  BY DEF Init, FreshInv, Fresh, NoCard
<1>4. BookOK /\ GenOK /\ MomentOK /\ FreshInv /\ [Next]_vars => GenOK' /\ MomentOK' /\ FreshInv'
  BY GenOKStep, MomentStep, FreshStep
<1>. QED
  BY <1>2, <1>3, <1>4, InitGenOK, InitMomentOK, BookOKHolds, PTL DEF Spec
==============================================================================
