------------------------------ MODULE Gradebook ------------------------------
(***************************************************************************)
(* The subjects of one class, their timetable and their assessments        *)
(* (subjects.service.ts, assessments.service.ts): subjects come and go,    *)
(* periods are placed where none overlaps, assessments are set, scores are *)
(* entered and maximum scores changed.                                     *)
(*                                                                         *)
(* Nothing here is a transaction but the writing of a list of scores.  One *)
(* action is one database call with the code up to the next `await`; a     *)
(* check and the write it guards are two.  Rows are never recreated: a     *)
(* subject or an assessment that is gone had another id than a later one.  *)
(***************************************************************************)
EXTENDS Integers, FiniteSets

CONSTANTS
    Schedulers,   \* requests that place periods
    Heads,        \* requests that set assessments and delete subjects
    Graders,      \* requests that enter scores and edit assessments
    Subjects,     \* identities of subject rows
    Periods,      \* identities of timetable periods
    Assessments,  \* identities of assessment rows
    Imported,     \* assessments that have a term (see Init)
    Students,     \* students of the class
    Times,        \* times of one week day
    Marks,        \* scores somebody may enter
    MaxScores,    \* maxima an assessment may have
    None,         \* null in a row, undefined in a variable
    MaxWrites     \* bound: requests begun, and rows deleted

Clerks == UNION {Schedulers, Heads, Graders}

ASSUME GradebookAssumption ==
    /\ Imported \subseteq Assessments
    /\ Times \subseteq Nat
    /\ Marks \subseteq Nat
    /\ MaxScores \subseteq Nat \ {0}
    /\ MaxWrites \in Nat
    /\ None \notin Nat
    /\ \A x \in UNION {Subjects, Periods, Assessments} : x # None

VARIABLES
    subject,     \* table subjects
    period,      \* table timetable_periods
    assessment,  \* table assessments
    score,       \* table scores, one row per assessment and student
    pc,          \* the next database call of each request
    req,         \* the local variables of each request
    writes       \* number of requests begun so far

bookTables == <<subject, period, assessment, score>>
bookVars == <<subject, period, assessment, score, pc, req, writes>>

RowState == {"absent", "there", "gone"}

Period == [state : RowState, subject : Subjects \union {None},
           from : Times \union {None}, to : Times \union {None}]

Assessment == [state : RowState, subject : Subjects \union {None},
               max : MaxScores \union {None}, term : BOOLEAN]

Sheet == UNION {[S -> Marks] : S \in SUBSET Students}

Request == [subject    : Subjects \union {None},
            assessment : Assessments \union {None},
            from       : Times \union {None},
            to         : Times \union {None},
            max        : MaxScores \union {None},
            sheet      : Sheet]

NoRequest == [subject |-> None, assessment |-> None, from |-> None, to |-> None,
              max |-> None, sheet |-> [s \in {} |-> None]]

There(row) == {x \in DOMAIN row : row[x].state = "there"}

BookTypeOK ==
    /\ subject \in [Subjects -> [state : RowState]]
    /\ period \in [Periods -> Period]
    /\ assessment \in [Assessments -> Assessment]
    /\ score \in [Assessments -> [Students -> Marks \union {None}]]
    /\ pc \in [Clerks -> {"idle", "deleteSubject", "insertAssessment", "insertPeriod",
                          "writeScores", "writeMax"}]
    /\ req \in [Clerks -> Request]
    /\ writes \in 0..MaxWrites

\* No code writes assessments.term and academic_year: neither create nor update
\* stores them.  An assessment that has them got them in the database.
BookInit ==
    /\ assessment \in [Assessments -> Assessment]
    /\ \A a \in Imported :
          /\ assessment[a].state = "there"
          /\ assessment[a].term
          /\ assessment[a].subject # None
          /\ assessment[a].max # None
    /\ \A a \in Assessments \ Imported :
          assessment[a] = [state |-> "absent", subject |-> None, max |-> None, term |-> FALSE]
    /\ subject = [m \in Subjects |-> [state |->
                     IF \E a \in Imported : assessment[a].subject = m THEN "there" ELSE "absent"]]
    /\ period = [p \in Periods |-> [state |-> "absent", subject |-> None,
                                    from |-> None, to |-> None]]
    /\ score = [a \in Assessments |-> [s \in Students |-> None]]
    /\ pc = [w \in Clerks |-> "idle"]
    /\ req = [w \in Clerks |-> NoRequest]
    /\ writes = 0

Goto(w, next) == pc' = [pc EXCEPT ![w] = next]

Finish(w) == Goto(w, "idle") /\ req' = [req EXCEPT ![w] = NoRequest]

Begin == writes < MaxWrites /\ writes' = writes + 1

-----------------------------------------------------------------------------
(* Subjects.                                                                *)

CreateSubject(m) ==
    /\ Begin
    /\ subject[m].state = "absent"
    /\ subject' = [subject EXCEPT ![m].state = "there"]
    /\ UNCHANGED <<period, assessment, score, pc, req>>

AssessmentsOf(m) == {a \in There(assessment) : assessment[a].subject = m}

\* remove: the subject must have no assessment ...
CountAssessments(w, m) ==
    /\ pc[w] = "idle"
    /\ Begin
    /\ m \in There(subject)
    /\ AssessmentsOf(m) = {}
    /\ req' = [req EXCEPT ![w].subject = m]
    /\ Goto(w, "deleteSubject")
    /\ UNCHANGED bookTables

\* The rows of a table that go with the subject, and those that stay.
Cascade(row, m) ==
    [x \in DOMAIN row |-> IF row[x].subject = m THEN [row[x] EXCEPT !.state = "gone"] ELSE row[x]]

\* ... and is deleted, with its periods, its assessments and their scores.
DeleteSubject(w) ==
    /\ pc[w] = "deleteSubject"
    /\ LET m == req[w].subject
       IN  /\ m \in There(subject)
           /\ subject' = [subject EXCEPT ![m].state = "gone"]
           /\ period' = Cascade(period, m)
           /\ assessment' = Cascade(assessment, m)
           /\ score' = [a \in Assessments |->
                           IF a \in AssessmentsOf(m) THEN [s \in Students |-> None] ELSE score[a]]
    /\ Finish(w)
    /\ UNCHANGED writes

-----------------------------------------------------------------------------
(* The timetable.                                                           *)

\* Mutant of Overlaps: only a period that starts inside the new one counts.
StartsInside(p, from, to) == period[p].from >= from /\ period[p].from < to

\* startTime: { lt: endTime }, endTime: { gt: startTime }
Overlaps(p, from, to) == period[p].from < to /\ period[p].to > from

FindSlot(w, m, from, to) ==
    /\ pc[w] = "idle"
    /\ Begin
    /\ m \in There(subject)
    /\ from < to
    /\ \A p \in There(period) : ~Overlaps(p, from, to)
    /\ req' = [req EXCEPT ![w] = [@ EXCEPT !.subject = m, !.from = from, !.to = to]]
    /\ Goto(w, "insertPeriod")
    /\ UNCHANGED bookTables

\* The foreign key wants the subject to be there still.
InsertPeriod(w) ==
    /\ pc[w] = "insertPeriod"
    /\ req[w].subject \in There(subject)
    /\ \E p \in Periods :
          /\ period[p].state = "absent"
          /\ period' = [period EXCEPT ![p] = [state |-> "there", subject |-> req[w].subject,
                                              from |-> req[w].from, to |-> req[w].to]]
    /\ Finish(w)
    /\ UNCHANGED <<subject, assessment, score, writes>>

DeleteTimetablePeriod(p) ==
    /\ Begin
    /\ p \in There(period)
    /\ period' = [period EXCEPT ![p].state = "gone"]
    /\ UNCHANGED <<subject, assessment, score, pc, req>>

-----------------------------------------------------------------------------
(* Assessments.                                                             *)

FindSubject(w, m, max) ==
    /\ pc[w] = "idle"
    /\ Begin
    /\ m \in There(subject)
    /\ req' = [req EXCEPT ![w] = [@ EXCEPT !.subject = m, !.max = max]]
    /\ Goto(w, "insertAssessment")
    /\ UNCHANGED bookTables

\* Without term and year, whatever the teacher meant.
InsertAssessment(w) ==
    /\ pc[w] = "insertAssessment"
    /\ req[w].subject \in There(subject)
    /\ \E a \in Assessments :
          /\ assessment[a].state = "absent"
          /\ assessment' = [assessment EXCEPT ![a] = [state |-> "there", subject |-> req[w].subject,
                                                      max |-> req[w].max, term |-> FALSE]]
    /\ Finish(w)
    /\ UNCHANGED <<subject, period, score, writes>>

\* remove: the scores go with the assessment.
RemoveAssessment(a) ==
    /\ Begin
    /\ a \in There(assessment)
    /\ assessment' = [assessment EXCEPT ![a].state = "gone"]
    /\ score' = [score EXCEPT ![a] = [s \in Students |-> None]]
    /\ UNCHANGED <<subject, period, pc, req>>

\* Mutant of ReadHighest: the scores of the assessment are not looked at.
ReadNothing(w, a, max) ==
    /\ pc[w] = "idle"
    /\ Begin
    /\ a \in There(assessment)
    /\ req' = [req EXCEPT ![w] = [@ EXCEPT !.assessment = a, !.max = max]]
    /\ Goto(w, "writeMax")
    /\ UNCHANGED bookTables

\* update: a new maximum must not be below the highest score ...
ReadHighest(w, a, max) ==
    /\ pc[w] = "idle"
    /\ Begin
    /\ a \in There(assessment)
    /\ \A s \in Students : score[a][s] # None => max >= score[a][s]
    /\ req' = [req EXCEPT ![w] = [@ EXCEPT !.assessment = a, !.max = max]]
    /\ Goto(w, "writeMax")
    /\ UNCHANGED bookTables

\* ... and is written; a term that came with it is not.
WriteMax(w) ==
    /\ pc[w] = "writeMax"
    /\ req[w].assessment \in There(assessment)
    /\ assessment' = [assessment EXCEPT ![req[w].assessment].max = req[w].max]
    /\ Finish(w)
    /\ UNCHANGED <<subject, period, score, writes>>

\* Mutant of ReadMax: the highest mark is not compared.
ReadMaxLoosely(w, a, sheet) ==
    /\ pc[w] = "idle"
    /\ Begin
    /\ a \in There(assessment)
    /\ \E s \in DOMAIN sheet : sheet[s] <= assessment[a].max
    /\ req' = [req EXCEPT ![w] = [@ EXCEPT !.assessment = a, !.sheet = sheet]]
    /\ Goto(w, "writeScores")
    /\ UNCHANGED bookTables

\* bulkSubmitScores: no score may exceed the maximum ...
ReadMax(w, a, sheet) ==
    /\ pc[w] = "idle"
    /\ Begin
    /\ a \in There(assessment)
    /\ \A s \in DOMAIN sheet : sheet[s] <= assessment[a].max
    /\ req' = [req EXCEPT ![w] = [@ EXCEPT !.assessment = a, !.sheet = sheet]]
    /\ Goto(w, "writeScores")
    /\ UNCHANGED bookTables

\* ... and all are written, over what was there, in one transaction.
WriteScores(w) ==
    /\ pc[w] = "writeScores"
    /\ req[w].assessment \in There(assessment)
    /\ score' = [score EXCEPT ![req[w].assessment] =
          [s \in Students |-> IF s \in DOMAIN req[w].sheet THEN req[w].sheet[s] ELSE @[s]]]
    /\ Finish(w)
    /\ UNCHANGED <<subject, period, assessment, writes>>

\* A request ends before its write: the database refuses the call, for one
\* because the row it names is gone, or the process is restarted.
Fail(w) ==
    /\ pc[w] # "idle"
    /\ Finish(w)
    /\ UNCHANGED <<bookTables, writes>>

-----------------------------------------------------------------------------
Write(w) ==
    \/ DeleteSubject(w) \/ InsertPeriod(w) \/ InsertAssessment(w)
    \/ WriteMax(w) \/ WriteScores(w)

BookNext ==
    \/ \E w \in Clerks : Write(w) \/ Fail(w)
    \/ \E m \in Subjects : CreateSubject(m)
    \/ \E w \in Heads, m \in Subjects : CountAssessments(w, m)
    \/ \E w \in Heads, m \in Subjects, max \in MaxScores : FindSubject(w, m, max)
    \/ \E w \in Schedulers, m \in Subjects, from, to \in Times : FindSlot(w, m, from, to)
    \/ \E p \in Periods : DeleteTimetablePeriod(p)
    \/ \E a \in Assessments : RemoveAssessment(a)
    \/ \E w \in Graders, a \in Assessments, max \in MaxScores : ReadHighest(w, a, max)
    \/ \E w \in Graders, a \in Assessments, S \in SUBSET Students \ {{}} :
          \E sheet \in [S -> Marks] : ReadMax(w, a, sheet)

-----------------------------------------------------------------------------
(* Properties.                                                              *)

\* No two periods of the class are at the same time ("This time slot overlaps
\* with an existing period for this class").  True while one person at a time
\* places periods; two at a time both find the slot free.
NoDoubleBooking ==
    \A p, q \in There(period) : p # q => period[p].to <= period[q].from \/ period[q].to <= period[p].from

\* No score is above the maximum of its assessment ("Raw score - must not exceed
\* assessment maxScore"), whichever of the two was written last.  True while one
\* person grades an assessment.
ScoreWithinMax ==
    \A a \in There(assessment), s \in Students :
        score[a][s] # None => score[a][s] <= assessment[a].max
==============================================================================
