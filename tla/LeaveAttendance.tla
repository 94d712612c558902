--------------------------- MODULE LeaveAttendance ---------------------------
(***************************************************************************)
(* Leave requests (leave-requests.service.ts) and the attendance register  *)
(* they write to (attendance.service.ts).  A parent asks for leave, the    *)
(* office decides, an approval excuses the school days of the leave;       *)
(* teachers submit attendance sheets, and a background loop alerts the     *)
(* parents of the pupils marked absent.                                    *)
(*                                                                         *)
(* As everywhere in this process each `await` lets other requests run.     *)
(* One action is one database call (a $transaction([...]) is one call) and *)
(* the code up to the next `await`.                                        *)
(***************************************************************************)
EXTENDS Integers, FiniteSets

CONSTANTS
    Parents,     \* requests of parents the process may have in flight
    Office,      \* requests of people who decide on leave
    Teachers,    \* requests of teachers
    Leaves,      \* identities of leave requests
    Students,
    Away,        \* bound: the students leave is asked for
    Days,        \* dates, as days since some Sunday
    Offset,      \* hours the process's time zone is ahead of UTC
    None,        \* undefined in a variable
    MaxAborts,   \* bound: requests that die before they finish
    MaxSheets    \* bound: attendance sheets submitted

Workers == Parents \union Office \union Teachers

ASSUME LeaveAssumption ==
    /\ None \notin Leaves \union Students
    /\ Away \subseteq Students
    /\ Days \subseteq Int
    /\ Offset \in -12..14
    /\ MaxAborts \in Nat
    /\ MaxSheets \in Nat

VARIABLES
    leave,       \* table leave_requests
    attendance,  \* table attendance, one row per student and date
    placed,      \* students that are in a class
    told,        \* "Leave Request Approved/Rejected" notifications sent
    alerts,      \* "Attendance Alert" notifications sent
    pc,          \* the next database call of each request
    req,         \* the local variables of each request
    aborts,      \* number of requests that died so far
    sheets       \* number of sheets submitted so far

tables == <<leave, attendance, placed>>
sent == <<told, alerts>>
vars == <<leave, attendance, placed, told, alerts, pc, req, aborts, sheets>>

\* "onLeave" is status excused with the reason of an approved leave; "excused"
\* is what a teacher may enter; the other statuses behave like "present".
Marks == {"present", "absent", "excused"}
AttendanceStatus == Marks \union {"none", "onLeave"}

Decisions == {"approved", "rejected"}

Leave == [status  : {"none", "pending"} \union Decisions,
          student : Students \union {None},
          from    : Days \union {None},
          to      : Days \union {None}]

Request == [leave    : Leaves \union {None},
            student  : Students \union {None},
            from     : Days \union {None},
            to       : Days \union {None},
            decision : Decisions \union {None},
            absent   : SUBSET Students]

NoRequest == [leave |-> None, student |-> None, from |-> None, to |-> None,
              decision |-> None, absent |-> {}]

LeaveTypeOK ==
    /\ leave \in [Leaves -> Leave]
    /\ attendance \in [Students -> [Days -> AttendanceStatus]]
    /\ placed \subseteq Students
    /\ told \in [Leaves -> SUBSET Decisions]
    /\ alerts \subseteq Students \X Days
    /\ pc \in [Workers -> {"idle", "insert", "tellTeacher", "record", "findClass",
                           "excuse", "tell", "alert"}]
    /\ req \in [Workers -> Request]
    /\ aborts \in 0..MaxAborts
    /\ sheets \in 0..MaxSheets

Init ==
    /\ leave = [r \in Leaves |-> [status |-> "none", student |-> None, from |-> None, to |-> None]]
    /\ attendance = [s \in Students |-> [d \in Days |-> "none"]]
    /\ placed \in SUBSET Students
    /\ told = [r \in Leaves |-> {}]
    /\ alerts = {}
    /\ pc = [w \in Workers |-> "idle"]
    /\ req = [w \in Workers |-> NoRequest]
    /\ aborts = 0
    /\ sheets = 0

Goto(w, next) == pc' = [pc EXCEPT ![w] = next]

Finish(w) == Goto(w, "idle") /\ req' = [req EXCEPT ![w] = NoRequest]

-----------------------------------------------------------------------------
(* create.                                                                  *)

\* Mutant of Overlaps: lt and gt where the query has lte and gte.
OverlapsInside(a, b, from, to) == a < to /\ b > from

\* fromDate: { lte: toDate }, toDate: { gte: fromDate }
Overlaps(a, b, from, to) == a <= to /\ b >= from

Active(r) == leave[r].status \in {"pending", "approved"}

\* The dates are checked, then the table is searched for an overlap; with one
\* the request is refused and nothing changes.
Submit(w, s, from, to) ==
    /\ pc[w] = "idle"
    /\ from <= to
    /\ \A r \in Leaves :
          Active(r) /\ leave[r].student = s => ~Overlaps(leave[r].from, leave[r].to, from, to)
    /\ req' = [req EXCEPT ![w].student = s, ![w].from = from, ![w].to = to]
    /\ Goto(w, "insert")
    /\ UNCHANGED <<tables, sent, aborts, sheets>>

Insert(w) ==
    /\ pc[w] = "insert"
    /\ \E r \in Leaves :
          /\ leave[r].status = "none"
          /\ r = CHOOSE q \in Leaves : leave[q].status = "none"
          /\ leave' = [leave EXCEPT ![r] = [status |-> "pending", student |-> req[w].student,
                                            from |-> req[w].from, to |-> req[w].to]]
    /\ Goto(w, "tellTeacher")
    /\ UNCHANGED <<attendance, placed, sent, req, aborts, sheets>>

\* The class teacher, if there is one, gets a notification.
TellTeacher(w) ==
    /\ pc[w] = "tellTeacher"
    /\ Finish(w)
    /\ UNCHANGED <<tables, sent, aborts, sheets>>

-----------------------------------------------------------------------------
(* decide.                                                                  *)

\* Mutant of Decide: the status is not looked at.
DecideAgain(w, r, decision) ==
    /\ pc[w] = "idle"
    /\ leave[r].status # "none"
    /\ req' = [req EXCEPT ![w].leave = r, ![w].decision = decision]
    /\ Goto(w, "record")
    /\ UNCHANGED <<tables, sent, aborts, sheets>>

\* The request is read and must be pending.
Decide(w, r, decision) ==
    /\ pc[w] = "idle"
    /\ leave[r].status = "pending"
    /\ req' = [req EXCEPT ![w].leave = r, ![w].decision = decision]
    /\ Goto(w, "record")
    /\ UNCHANGED <<tables, sent, aborts, sheets>>

\* Mutant of RecordDecision: the status is taken from a field that is not set.
RecordDecisionUnset(w) ==
    /\ pc[w] = "record"
    /\ leave' = [leave EXCEPT ![req[w].leave].status = None]
    /\ Goto(w, IF req[w].decision = "approved" THEN "findClass" ELSE "tell")
    /\ UNCHANGED <<attendance, placed, sent, req, aborts, sheets>>

\* The update names the row by its id only.
RecordDecision(w) ==
    /\ pc[w] = "record"
    /\ leave' = [leave EXCEPT ![req[w].leave].status = req[w].decision]
    /\ Goto(w, IF req[w].decision = "approved" THEN "findClass" ELSE "tell")
    /\ UNCHANGED <<attendance, placed, sent, req, aborts, sheets>>

\* getWeekdaysInRange.  The loop runs over the process's local midnights; a
\* date column keeps the UTC date of the moment it is given.
LocalDate(d) == (24 * d + Offset) \div 24
StoredDate(c) == (24 * c - Offset) \div 24
Weekday(c) == c % 7 \notin {0, 6}

\* Mutant of WeekdaysInRange: the loop stops before the last day.
WeekdaysBeforeEnd(from, to) ==
    {StoredDate(c) : c \in {d \in LocalDate(from)..(LocalDate(to) - 1) : Weekday(d)}}

\* Mutant of WeekdaysInRange: weekends are not skipped.
AllDaysInRange(from, to) == {StoredDate(c) : c \in LocalDate(from)..LocalDate(to)}

WeekdaysInRange(from, to) ==
    {StoredDate(c) : c \in {d \in LocalDate(from)..LocalDate(to) : Weekday(d)}}

\* A student without a class, or a leave without a school day, excuses nothing.
FindClass(w) ==
    /\ pc[w] = "findClass"
    /\ LET r == leave[req[w].leave]
       IN  Goto(w, IF r.student \in placed /\ WeekdaysInRange(r.from, r.to) # {}
                     THEN "excuse" ELSE "tell")
    /\ UNCHANGED <<tables, sent, req, aborts, sheets>>

\* One transaction of upserts, over what the register said before.
Excuse(w) ==
    /\ pc[w] = "excuse"
    /\ LET r == leave[req[w].leave]
       IN  attendance' = [attendance EXCEPT ![r.student] =
               [d \in Days |-> IF d \in WeekdaysInRange(r.from, r.to) THEN "onLeave" ELSE @[d]]]
    /\ Goto(w, "tell")
    /\ UNCHANGED <<leave, placed, sent, req, aborts, sheets>>

\* The parent who submitted the request is told.
TellDecision(w) ==
    /\ pc[w] = "tell"
    /\ told' = [told EXCEPT ![req[w].leave] = @ \union {req[w].decision}]
    /\ Finish(w)
    /\ UNCHANGED <<tables, alerts, aborts, sheets>>

-----------------------------------------------------------------------------
(* bulkSubmit: the sheet of one date, a mark for each pupil on it.          *)

\* One transaction writes the sheet; it replaces what the register said.  The
\* request is answered, and the alerts go on in the background.
BulkSubmit(w, d, sheet) ==
    /\ pc[w] = "idle"
    /\ sheets < MaxSheets
    /\ sheets' = sheets + 1
    /\ attendance' = [s \in Students |->
          IF s \in DOMAIN sheet THEN [attendance[s] EXCEPT ![d] = sheet[s]] ELSE attendance[s]]
    /\ LET absent == {s \in DOMAIN sheet : sheet[s] = "absent"}
       IN  IF absent = {}
             THEN UNCHANGED <<pc, req>>
             ELSE req' = [req EXCEPT ![w].from = d, ![w].absent = absent] /\ Goto(w, "alert")
    /\ UNCHANGED <<leave, placed, sent, aborts>>

\* Mutant of StudentSummary: who is not present is absent.
SummaryByPresence(s) ==
    LET days == {d \in Days : attendance[s][d] # "none"}
        present == Cardinality({d \in days : attendance[s][d] = "present"})
    IN  [present |-> present, absent |-> Cardinality(days) - present, total |-> Cardinality(days)]

\* getStudentSummary: days excused are in no column and not in the total.
StudentSummary(s) ==
    LET count(status) == Cardinality({d \in Days : attendance[s][d] = status})
    IN  [present |-> count("present"), absent |-> count("absent"),
         total |-> count("present") + count("absent")]

\* findByClass, one day of the class: the total counts every row of the register,
\* those of a status without a column too.
ClassDay(d) ==
    LET rows(marks) == Cardinality({s \in Students : attendance[s][d] \in marks})
    IN  [present |-> rows({"present"}), absent |-> rows({"absent"}),
         total |-> rows(AttendanceStatus \ {"none"})]

\* Mutant of AlertParents: the loop returns after the first pupil.
AlertOneParent(w) ==
    /\ pc[w] = "alert"
    /\ \E s \in req[w].absent : alerts' = alerts \union {<<s, req[w].from>>}
    /\ Finish(w)
    /\ UNCHANGED <<tables, told, aborts, sheets>>

\* notifyAbsentParents, one pupil of the sheet.
AlertParents(w) ==
    /\ pc[w] = "alert"
    /\ \E s \in req[w].absent :
          /\ alerts' = alerts \union {<<s, req[w].from>>}
          /\ IF req[w].absent = {s}
               THEN Finish(w)
               ELSE req' = [req EXCEPT ![w].absent = @ \ {s}] /\ UNCHANGED pc
    /\ UNCHANGED <<tables, told, aborts, sheets>>

-----------------------------------------------------------------------------
\* The database rejects the call or the process is restarted.
Abort(w) ==
    /\ pc[w] # "idle"
    /\ aborts < MaxAborts
    /\ aborts' = aborts + 1
    /\ Finish(w)
    /\ UNCHANGED <<tables, sent, sheets>>

Advance(w) ==
    \/ Insert(w) \/ TellTeacher(w)
    \/ RecordDecision(w) \/ FindClass(w) \/ Excuse(w) \/ TellDecision(w)
    \/ AlertParents(w)

Sheets == UNION {[S -> Marks] : S \in SUBSET Students \ {{}}}

Next ==
    \/ \E w \in Workers : Advance(w) \/ Abort(w)
    \/ \E w \in Parents, s \in Away, from, to \in Days : Submit(w, s, from, to)
    \/ \E w \in Office, r \in Leaves, decision \in Decisions : Decide(w, r, decision)
    \/ \E w \in Teachers, d \in Days, sheet \in Sheets : BulkSubmit(w, d, sheet)

Spec == Init /\ [][Next]_vars

\* The event loop comes back to every request that is waiting for a call.
FairSpec == Spec /\ \A w \in Workers : WF_vars(Advance(w))

-----------------------------------------------------------------------------
(* Properties.                                                              *)

\* A student has no two leaves, pending or approved, on one day ("An
\* overlapping leave request already exists").  True while a parent's request
\* is handled alone; two at a time both find no overlap.
NoOverlap ==
    \A q, r \in Leaves :
        Active(q) /\ Active(r) /\ leave[q].student = leave[r].student /\ q # r =>
            (leave[q].from..leave[q].to) \intersect (leave[r].from..leave[r].to) = {}

\* A decision is made once ("cannot change decision").  True while one person
\* decides; two at a time both read "pending".
DecisionIsFinal ==
    [][\A r \in Leaves : leave[r].status \in Decisions => leave'[r].status = leave[r].status]_vars

\* The days between the first and the last of a leave that are school days.
SchoolDays(r) == {d \in leave[r].from..leave[r].to : Weekday(d)}

\* The register excuses a pupil for a leave only on a school day of a leave that
\* was approved, however sheets and decisions interleave.
OnLeaveApproved ==
    \A s \in Students, d \in Days : attendance[s][d] = "onLeave" =>
        \E r \in Leaves : leave[r].status = "approved" /\ leave[r].student = s /\ d \in SchoolDays(r)

\* "On approval, attendance records in the date range are automatically set to
\* excused": all of them at one moment, whatever the sheets of that day say
\* before and after, unless a request died.
Granted(r) == leave[r].status = "approved" /\ leave[r].student \in placed

Excused(r) == Granted(r) /\ \A d \in SchoolDays(r) : attendance[leave[r].student][d] = "onLeave"

ApprovalExcuses == \A r \in Leaves : <>Granted(r) => <>(Excused(r) \/ aborts > 0)

\* The parents of a pupil marked absent are alerted in the end, unless a request
\* died.
AbsenceAlerted ==
    \A s \in Students, d \in Days :
        attendance[s][d] = "absent" ~> <<s, d>> \in alerts \/ aborts > 0

\* Leave counts neither for nor against a pupil: excusing the days of a leave
\* adds to nobody's absences, whatever the register said of them, and takes from
\* the days that count just those it excuses.  The class's own sheet of a day,
\* which counts its rows, loses none of them.
LeaveCountsNeither ==
    [][\A w \in Office : Excuse(w) =>
          /\ \A s \in Students :
                /\ StudentSummary(s)'.absent <= StudentSummary(s).absent
                /\ StudentSummary(s)'.total <= StudentSummary(s).total
                /\ StudentSummary(s)'.total + Cardinality({d \in Days : attendance'[s][d] = "onLeave"})
                     >= StudentSummary(s).total
          /\ \A d \in Days :
                /\ ClassDay(d)'.absent <= ClassDay(d).absent
                /\ ClassDay(d)'.total >= ClassDay(d).total
      ]_vars
==============================================================================
