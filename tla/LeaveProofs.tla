----------------------------- MODULE LeaveProofs ------------------------------
(***************************************************************************)
(* Proofs about LeaveAttendance for any number of students, leaves and     *)
(* days, and any number of requests that die.  The tables stay typed       *)
(* whoever is at work.  While no two decisions on one leave overlap, a     *)
(* decision is final, and with the process in UTC the register excuses     *)
(* only school days of approved leaves; if no two submissions for one      *)
(* student overlap either, leaves do not.                                  *)
(***************************************************************************)
EXTENDS LeaveAttendance, FiniteSetTheorems, TLAPS

\* At most one request of a kind at a time.
OneOf(S) == \A v, w \in S : v = w

\* Calls of a decision.
Deciding == {"record", "findClass", "excuse", "tell"}

\* No two decisions on one leave are under way.
DecisionsApart ==
    \A v, w \in Workers :
        pc[v] \in Deciding /\ pc[w] \in Deciding /\ req[v].leave = req[w].leave => v = w

\* No two submissions for one student are under way.
SubmissionsApart ==
    \A v, w \in Workers :
        pc[v] = "insert" /\ pc[w] = "insert" /\ req[v].student = req[w].student => v = w

\* What a request has looked up before it gets to a call.
RequestOK ==
    \A w \in Workers :
        /\ pc[w] \in {"insert", "tellTeacher"} =>
              /\ w \in Parents
              /\ req[w].student \in Students
              /\ req[w].from \in Days
              /\ req[w].to \in Days
        /\ pc[w] \in Deciding =>
              /\ w \in Office
              /\ req[w].leave \in Leaves
              /\ leave[req[w].leave].status # "none"
              /\ req[w].decision \in Decisions
        /\ pc[w] \in {"findClass", "excuse"} => req[w].decision = "approved"
        /\ pc[w] = "alert" => req[w].from \in Days

\* A leave that was asked for names its student and its days.
RowsOK ==
    \A r \in Leaves : leave[r].status # "none" =>
        leave[r].student \in Students /\ leave[r].from \in Days /\ leave[r].to \in Days

TypeInv == LeaveTypeOK /\ RequestOK /\ RowsOK

\* What was read as pending still is when it is written, and what was approved
\* still is while its days are excused.
DecisionInv ==
    \A w \in Workers :
        /\ pc[w] = "record" => leave[req[w].leave].status = "pending"
        /\ pc[w] \in {"findClass", "excuse"} => leave[req[w].leave].status = "approved"

\* No overlap was found, and none has come up since.
SubmissionInv ==
    \A w \in Workers : pc[w] = "insert" =>
        \A r \in Leaves : Active(r) /\ leave[r].student = req[w].student =>
            ~Overlaps(leave[r].from, leave[r].to, req[w].from, req[w].to)

-----------------------------------------------------------------------------
\* The tables are empty at the start.
LEMMA TypeInit == Init => TypeInv
BY LeaveAssumption
   DEF Init, TypeInv, LeaveTypeOK, RequestOK, RowsOK, Leave, Request, NoRequest, AttendanceStatus,
       Deciding

\* A new leave is a row that was not used, and nothing else changes in the table.
LEMMA InsertedRow ==
    ASSUME TypeInv, NEW w \in Workers, Insert(w)
    PROVE  \E r \in Leaves :
              /\ leave[r].status = "none"
              /\ leave' = [leave EXCEPT ![r] = [status |-> "pending", student |-> req[w].student,
                                                from |-> req[w].from, to |-> req[w].to]]
BY DEF Insert

\* Whatever a request writes is typed, and what it goes on with is there.
LEMMA TypeStep == TypeInv /\ [Next]_vars => TypeInv'
<1> SUFFICES ASSUME TypeInv, [Next]_vars PROVE TypeInv'
  OBVIOUS
<1> USE DEF TypeInv
<1>1. ASSUME NEW w \in Workers, Insert(w) PROVE TypeInv'
  <2> PICK r \in Leaves :
         leave' = [leave EXCEPT ![r] = [status |-> "pending", student |-> req[w].student,
                                        from |-> req[w].from, to |-> req[w].to]]
    BY <1>1, InsertedRow
  <2>1. req[w].student \in Students /\ req[w].from \in Days /\ req[w].to \in Days
    BY <1>1 DEF Insert, RequestOK
  <2>2. leave' \in [Leaves -> Leave] /\ RowsOK'
    BY <2>1 DEF LeaveTypeOK, RowsOK, Leave
  <2>3. LeaveTypeOK' /\ RequestOK'
    BY <1>1, <2>2 DEF LeaveTypeOK, RequestOK, Insert, Goto, sent, Deciding
  <2> QED
    BY <2>2, <2>3
<1>2. ASSUME NEW w \in Workers, TellTeacher(w) PROVE TypeInv'
  BY <1>2 DEF LeaveTypeOK, RequestOK, RowsOK, TellTeacher, Finish, Goto, NoRequest, Request, tables,
              sent, Deciding
<1>3. ASSUME NEW w \in Workers, RecordDecision(w) PROVE TypeInv'
  <2>1. req[w].leave \in Leaves /\ req[w].decision \in Decisions /\ w \in Office
        /\ leave[req[w].leave].status # "none"
    BY <1>3 DEF RecordDecision, RequestOK, Deciding
  <2>2. leave' \in [Leaves -> Leave] /\ RowsOK'
    BY <1>3, <2>1 DEF RecordDecision, LeaveTypeOK, RowsOK, Leave
  <2>3. LeaveTypeOK' /\ RequestOK'
    BY <1>3, <2>1, <2>2 DEF RecordDecision, LeaveTypeOK, RequestOK, Goto, sent, Deciding, Decisions
  <2> QED
    BY <2>2, <2>3
<1>4. ASSUME NEW w \in Workers, FindClass(w) PROVE TypeInv'
  BY <1>4 DEF LeaveTypeOK, RequestOK, RowsOK, FindClass, Goto, tables, sent, Deciding
<1>5. ASSUME NEW w \in Workers, Excuse(w) PROVE TypeInv'
  <2>1. attendance' \in [Students -> [Days -> AttendanceStatus]]
    BY <1>5 DEF LeaveTypeOK, Excuse, AttendanceStatus
  <2> QED
    BY <1>5, <2>1 DEF LeaveTypeOK, RequestOK, RowsOK, Excuse, Goto, sent, Deciding
<1>6. ASSUME NEW w \in Workers, TellDecision(w) PROVE TypeInv'
  <2>1. req[w].leave \in Leaves /\ req[w].decision \in Decisions
    BY <1>6 DEF TellDecision, RequestOK, Deciding
  <2>2. told' \in [Leaves -> SUBSET Decisions]
    BY <1>6, <2>1 DEF LeaveTypeOK, TellDecision
  <2> QED
    BY <1>6, <2>2 DEF LeaveTypeOK, RequestOK, RowsOK, TellDecision, Finish, Goto, NoRequest, Request,
                      tables, Deciding
<1>7. ASSUME NEW w \in Workers, AlertParents(w) PROVE TypeInv'
  <2>1. req[w].from \in Days /\ req[w].absent \subseteq Students /\ pc[w] = "alert"
    BY <1>7 DEF AlertParents, RequestOK, LeaveTypeOK, Request
  <2>2. alerts' \subseteq Students \X Days
    BY <1>7, <2>1 DEF LeaveTypeOK, AlertParents
  <2>3. PICK s \in req[w].absent :
           \/ Finish(w)
           \/ req' = [req EXCEPT ![w].absent = @ \ {s}] /\ UNCHANGED pc
    BY <1>7 DEF AlertParents
  <2> DEFINE c == [req[w] EXCEPT !.absent = @ \ {s}]
  <2>4. c \in Request /\ NoRequest \in Request /\ c.from = req[w].from
    BY DEF LeaveTypeOK, NoRequest, Request
  <2>5. \/ pc' = pc /\ req' = [req EXCEPT ![w] = c]
        \/ pc' = [pc EXCEPT ![w] = "idle"] /\ req' = [req EXCEPT ![w] = NoRequest]
    BY <2>3 DEF Finish, Goto
  <2> HIDE DEF c
  <2>6. req' \in [Workers -> Request] /\ (pc' = pc \/ pc' = [pc EXCEPT ![w] = "idle"])
    BY <2>4, <2>5 DEF LeaveTypeOK
  <2>7. leave' = leave
    BY <1>7 DEF AlertParents, tables
  <2>8. RequestOK'
    BY <2>1, <2>4, <2>5, <2>7 DEF RequestOK, LeaveTypeOK, Deciding
  <2> QED
    BY <1>7, <2>2, <2>6, <2>8 DEF LeaveTypeOK, RowsOK, AlertParents, tables
<1>8. ASSUME NEW w \in Workers, Abort(w) PROVE TypeInv'
  BY <1>8, LeaveAssumption
     DEF LeaveTypeOK, RequestOK, RowsOK, Abort, Finish, Goto, NoRequest, Request, tables, sent, Deciding
<1>9. ASSUME NEW w \in Parents, NEW s \in Away, NEW from \in Days, NEW to \in Days, Submit(w, s, from, to)
      PROVE TypeInv'
  <2> DEFINE c == [req[w] EXCEPT !.student = s, !.from = from, !.to = to]
  <2>1. w \in Workers /\ c \in Request /\ c.student = s /\ c.from = from /\ c.to = to /\ s \in Students
    BY LeaveAssumption DEF LeaveTypeOK, Request, Workers
  <2>2. req' = [req EXCEPT ![w] = c]
    BY <1>9, <2>1 DEF Submit, LeaveTypeOK, Request
  <2> HIDE DEF c
  <2>3. pc' = [pc EXCEPT ![w] = "insert"] /\ leave' = leave
    BY <1>9 DEF Submit, Goto, tables
  <2>4. RequestOK'
    BY <1>9, <2>1, <2>2, <2>3 DEF LeaveTypeOK, RequestOK, Deciding
  <2>5. req' \in [Workers -> Request] /\ pc' \in [Workers -> {"idle", "insert", "tellTeacher", "record",
                                                 "findClass", "excuse", "tell", "alert"}]
    BY <2>1, <2>2, <2>3 DEF LeaveTypeOK
  <2> QED
    BY <1>9, <2>3, <2>4, <2>5 DEF LeaveTypeOK, RowsOK, Submit, tables, sent
<1>10. ASSUME NEW w \in Office, NEW r \in Leaves, NEW decision \in Decisions, Decide(w, r, decision)
      PROVE TypeInv'
  <2> DEFINE c == [req[w] EXCEPT !.leave = r, !.decision = decision]
  <2>1. w \in Workers /\ c \in Request /\ c.leave = r /\ c.decision = decision
    BY DEF LeaveTypeOK, Request, Workers
  <2>2. req' = [req EXCEPT ![w] = c]
    BY <1>10, <2>1 DEF Decide, LeaveTypeOK, Request
  <2> HIDE DEF c
  <2>3. pc' = [pc EXCEPT ![w] = "record"] /\ leave' = leave /\ leave[r].status # "none"
    BY <1>10 DEF Decide, Goto, tables
  <2>4. RequestOK'
    BY <1>10, <2>1, <2>2, <2>3 DEF LeaveTypeOK, RequestOK, Deciding
  <2> QED
    BY <1>10, <2>1, <2>2, <2>3, <2>4 DEF LeaveTypeOK, RowsOK, Decide, tables, sent
<1>11. ASSUME NEW w \in Teachers, NEW d \in Days, NEW sheet \in Sheets, BulkSubmit(w, d, sheet)
      PROVE TypeInv'
  <2>1. DOMAIN sheet \subseteq Students /\ \A s \in DOMAIN sheet : sheet[s] \in Marks
    BY DEF Sheets
  <2>2. attendance' \in [Students -> [Days -> AttendanceStatus]]
    BY <1>11, <2>1 DEF LeaveTypeOK, BulkSubmit, AttendanceStatus
  <2>3. sheets' \in 0..MaxSheets
    BY <1>11, LeaveAssumption DEF LeaveTypeOK, BulkSubmit
  <2> DEFINE c == [req[w] EXCEPT !.from = d, !.absent = {s \in DOMAIN sheet : sheet[s] = "absent"}]
  <2>4. w \in Workers /\ c \in Request /\ c.from = d
    BY <2>1 DEF LeaveTypeOK, Request, Workers
  <2>5. \/ pc' = pc /\ req' = req
        \/ pc[w] = "idle" /\ pc' = [pc EXCEPT ![w] = "alert"] /\ req' = [req EXCEPT ![w] = c]
    BY <1>11, <2>4 DEF LeaveTypeOK, BulkSubmit, Goto, Request
  <2> HIDE DEF c
  <2>6. /\ RequestOK'
        /\ req' \in [Workers -> Request]
        /\ pc' = pc \/ pc' = [pc EXCEPT ![w] = "alert"]
    BY <1>11, <2>4, <2>5 DEF RequestOK, LeaveTypeOK, Deciding, BulkSubmit
  <2> QED
    BY <1>11, <2>2, <2>3, <2>6 DEF LeaveTypeOK, RowsOK, BulkSubmit, sent
<1>12. CASE UNCHANGED vars
  BY <1>12 DEF LeaveTypeOK, RequestOK, RowsOK, vars
<1> QED
  BY <1>1, <1>2, <1>3, <1>4, <1>5, <1>6, <1>7, <1>8, <1>9, <1>10, <1>11, <1>12 DEF Next, Advance

\* The tables of leaves and attendance stay typed, and every request has looked
\* up what it goes on with, whatever interleaves (leave-requests.service.ts,
\* attendance.service.ts).
THEOREM InvariantHolds == Spec => []TypeInv
BY TypeInit, TypeStep, PTL DEF Spec

\* The tables of leaves and attendance stay typed.
THEOREM TypeCorrect == Spec => []LeaveTypeOK
<1>1. TypeInv => LeaveTypeOK
  BY DEF TypeInv
<1> QED
  BY <1>1, InvariantHolds, PTL

-----------------------------------------------------------------------------
(* Decisions on one leave that do not overlap.                              *)

\* Steps that write neither a leave nor make a request wait to record, excuse
\* or insert leave what those requests rely on.
Bystanding ==
    /\ leave' = leave
    /\ \A v \in Workers : pc'[v] \in {"record", "findClass", "excuse", "insert"} =>
          pc'[v] = pc[v] /\ req'[v] = req[v]

\* Every other step is one of the five that matter to leaves.
LEMMA StepKinds ==
    ASSUME TypeInv, [Next]_vars
    PROVE  \/ Bystanding
           \/ \E w \in Workers : Insert(w) \/ RecordDecision(w) \/ FindClass(w)
           \/ \E w \in Parents, s \in Away, from, to \in Days : Submit(w, s, from, to)
           \/ \E w \in Office, r \in Leaves, decision \in Decisions : Decide(w, r, decision)
<1> USE DEF TypeInv, LeaveTypeOK
<1>1. ASSUME NEW w \in Workers, TellTeacher(w) \/ TellDecision(w) PROVE Bystanding
  BY <1>1 DEF Bystanding, TellTeacher, TellDecision, Finish, Goto, tables
<1>2. ASSUME NEW w \in Workers, Excuse(w) PROVE Bystanding
  BY <1>2 DEF Bystanding, Excuse, Goto, tables
<1>3. ASSUME NEW w \in Workers, AlertParents(w) PROVE Bystanding
  <2>1. leave' = leave /\ pc[w] = "alert"
    BY <1>3 DEF AlertParents, tables
  <2>2. PICK s : Finish(w) \/ (req' = [req EXCEPT ![w].absent = @ \ {s}] /\ UNCHANGED pc)
    BY <1>3 DEF AlertParents
  <2> QED
    BY <2>1, <2>2 DEF Bystanding, Finish, Goto
<1>4. ASSUME NEW w \in Workers, Abort(w) PROVE Bystanding
  BY <1>4 DEF Bystanding, Abort, Finish, Goto, tables
<1>5. ASSUME NEW w \in Teachers, NEW d, NEW sheet, BulkSubmit(w, d, sheet) PROVE Bystanding
  <2>1. w \in Workers /\ leave' = leave /\ pc[w] = "idle"
    BY <1>5 DEF BulkSubmit, Workers
  <2>2. \/ pc' = pc /\ req' = req
        \/ pc' = [pc EXCEPT ![w] = "alert"] /\ \A v \in Workers \ {w} : req'[v] = req[v]
    BY <1>5 DEF BulkSubmit, Goto
  <2> QED
    BY <2>1, <2>2 DEF Bystanding
<1>6. CASE UNCHANGED vars
  BY <1>6 DEF Bystanding, vars
<1> QED
  BY <1>1, <1>2, <1>3, <1>4, <1>5, <1>6 DEF Next, Advance

\* Nobody decides or asks at the start.
LEMMA DecisionInit == Init => DecisionInv /\ SubmissionInv /\ NoOverlap
BY DEF Init, DecisionInv, SubmissionInv, NoOverlap, Active

\* Nobody overtakes a decision: the others under way are on other leaves.
LEMMA DecisionStep ==
    ASSUME DecisionsApart, TypeInv, DecisionInv, [Next]_vars
    PROVE  DecisionInv'
<1> USE DEF TypeInv, LeaveTypeOK
<1>1. CASE Bystanding
  BY <1>1 DEF Bystanding, DecisionInv
<1>2. ASSUME NEW w \in Workers, Insert(w) PROVE DecisionInv'
  <2> PICK r \in Leaves :
         /\ leave[r].status = "none"
         /\ leave' = [leave EXCEPT ![r] = [status |-> "pending", student |-> req[w].student,
                                           from |-> req[w].from, to |-> req[w].to]]
    BY <1>2, InsertedRow
  <2>1. req' = req /\ pc' = [pc EXCEPT ![w] = "tellTeacher"]
    BY <1>2 DEF Insert, Goto
  <2> QED
    BY <2>1 DEF DecisionInv, RequestOK, Deciding
<1>3. ASSUME NEW w \in Workers, RecordDecision(w) PROVE DecisionInv'
  <2>1. /\ w \in Office /\ req[w].leave \in Leaves /\ pc[w] = "record" /\ req' = req
        /\ leave' = [leave EXCEPT ![req[w].leave].status = req[w].decision]
        /\ pc' = [pc EXCEPT ![w] = IF req[w].decision = "approved" THEN "findClass" ELSE "tell"]
    BY <1>3 DEF RecordDecision, RequestOK, Deciding, Goto
  <2>2. \A v \in Workers \ {w} : pc[v] \in Deciding => req[v].leave # req[w].leave
    BY <2>1 DEF DecisionsApart, Deciding
  <2>4. ASSUME NEW v \in Workers \ {w}, pc[v] \in Deciding PROVE leave'[req[v].leave] = leave[req[v].leave]
    BY <2>1, <2>2, <2>4 DEF RequestOK
  <2>3. leave'[req[w].leave].status = req[w].decision
    BY <2>1 DEF Leave
  <2> QED
    BY <2>1, <2>3, <2>4 DEF DecisionInv, Deciding
<1>4. ASSUME NEW w \in Workers, FindClass(w) PROVE DecisionInv'
  BY <1>4 DEF FindClass, DecisionInv, Goto, tables
<1>5. ASSUME NEW w \in Parents, NEW s, NEW from, NEW to, Submit(w, s, from, to) PROVE DecisionInv'
  BY <1>5 DEF Submit, DecisionInv, Goto, tables, Workers
<1>6. ASSUME NEW w \in Office, NEW r \in Leaves, NEW decision, Decide(w, r, decision)
      PROVE DecisionInv'
  <2>1. /\ w \in Workers /\ leave' = leave /\ leave[r].status = "pending"
        /\ pc' = [pc EXCEPT ![w] = "record"]
        /\ \A v \in Workers \ {w} : req'[v] = req[v]
    BY <1>6 DEF Decide, Goto, tables, Workers
  <2>2. req'[w].leave = r
    BY <1>6, <2>1 DEF Decide, Request
  <2> QED
    BY <2>1, <2>2 DEF DecisionInv
<1> QED
  BY <1>1, <1>2, <1>3, <1>4, <1>5, <1>6, StepKinds

\* A decision is written over nothing but a request that is pending.
LEMMA DecisionWritten ==
    ASSUME TypeInv, DecisionInv, [Next]_vars
    PROVE  \A r \in Leaves : leave[r].status \in Decisions => leave'[r] = leave[r]
<1> USE DEF TypeInv, LeaveTypeOK
<1>1. CASE Bystanding
  BY <1>1 DEF Bystanding
<1>2. ASSUME NEW w \in Workers, Insert(w)
      PROVE  \A r \in Leaves : leave[r].status \in Decisions => leave'[r] = leave[r]
  BY <1>2, InsertedRow DEF Decisions
<1>3. ASSUME NEW w \in Workers, RecordDecision(w)
      PROVE  \A r \in Leaves : leave[r].status \in Decisions => leave'[r] = leave[r]
  BY <1>3 DEF RecordDecision, DecisionInv, Decisions
<1> QED
  BY <1>1, <1>2, <1>3, StepKinds DEF FindClass, Submit, Decide, tables

\* While no two decisions on one leave overlap, no request waits with a decision
\* that is out of date.
THEOREM DecisionsInOrder == Spec /\ []DecisionsApart => [](TypeInv /\ DecisionInv)
<1>1. Init => TypeInv /\ DecisionInv
  BY TypeInit, DecisionInit
<1>2. DecisionsApart /\ TypeInv /\ DecisionInv /\ [Next]_vars => (TypeInv /\ DecisionInv)'
  BY TypeStep, DecisionStep
<1> QED
  BY <1>1, <1>2, PTL DEF Spec

\* "cannot change decision" (leave-requests.service.ts):
\* while no two decisions on one leave overlap, however many are under way on
\* others, whatever parents and teachers do meanwhile and wherever requests die, a
\* decision is never changed.
THEOREM DecisionsApartFinal == Spec /\ []DecisionsApart => DecisionIsFinal
<1>1. TypeInv /\ DecisionInv /\ [Next]_vars =>
         [\A r \in Leaves : leave[r].status \in Decisions => leave'[r].status = leave[r].status]_vars
  BY DecisionWritten
<1>2. Spec /\ []DecisionsApart => [](TypeInv /\ DecisionInv)
  BY DecisionsInOrder
<1> QED
  BY <1>1, <1>2, PTL DEF Spec, DecisionIsFinal

-----------------------------------------------------------------------------
(* Submissions for one student that do not overlap besides.                 *)

\* A leave that is active after a step was active before it, as it is now, or
\* has just been inserted.
LEMMA ActiveBefore ==
    ASSUME TypeInv, DecisionInv, [Next]_vars,
           \A w \in Workers : ~Insert(w)
    PROVE  \A r \in Leaves : Active(r)' =>
              /\ Active(r)
              /\ leave'[r].student = leave[r].student
              /\ leave'[r].from = leave[r].from
              /\ leave'[r].to = leave[r].to
<1> USE DEF TypeInv, LeaveTypeOK
<1>1. CASE Bystanding
  BY <1>1 DEF Bystanding, Active
<1>2. ASSUME NEW w \in Workers, RecordDecision(w), NEW r \in Leaves, Active(r)'
      PROVE  /\ Active(r)
             /\ leave'[r].student = leave[r].student
             /\ leave'[r].from = leave[r].from
             /\ leave'[r].to = leave[r].to
  BY <1>2 DEF RecordDecision, DecisionInv, Active, Leave
<1> QED
  BY <1>1, <1>2, StepKinds DEF FindClass, Submit, Decide, tables, Active

\* What a parent found free is free until the leave is there, because the others
\* under way are for other students.
LEMMA OverlapStep ==
    ASSUME SubmissionsApart, TypeInv, DecisionInv, SubmissionInv, NoOverlap, [Next]_vars
    PROVE  SubmissionInv' /\ NoOverlap'
<1> USE DEF TypeInv, LeaveTypeOK
<1>1. ASSUME NEW w \in Workers, Insert(w) PROVE SubmissionInv' /\ NoOverlap'
  <2> PICK r \in Leaves :
         /\ leave[r].status = "none"
         /\ leave' = [leave EXCEPT ![r] = [status |-> "pending", student |-> req[w].student,
                                           from |-> req[w].from, to |-> req[w].to]]
    BY <1>1, InsertedRow
  <2>1. pc[w] = "insert" /\ w \in Parents /\ pc' = [pc EXCEPT ![w] = "tellTeacher"]
    BY <1>1 DEF Insert, Goto, RequestOK
  <2>2. req' = req /\ \A v \in Workers : pc'[v] = "insert" =>
           pc[v] = "insert" /\ req[v].student # req[w].student
    BY <1>1, <2>1 DEF SubmissionsApart, Insert
  <2>3. /\ leave'[r].student = req[w].student
        /\ leave'[r].from = req[w].from
        /\ leave'[r].to = req[w].to
        /\ \A q \in Leaves \ {r} : leave'[q] = leave[q]
    OBVIOUS
  <2>4. req[w].from \in Int /\ req[w].to \in Int
    BY <2>1, LeaveAssumption DEF RequestOK
  <2>5. ASSUME NEW q \in Leaves \ {r}, Active(q), leave[q].student = req[w].student
        PROVE  (leave[q].from..leave[q].to) \intersect (req[w].from..req[w].to) = {}
    <3>1. leave[q].from \in Int /\ leave[q].to \in Int
      BY <2>5, LeaveAssumption DEF RowsOK, Active
    <3>2. ~(leave[q].from <= req[w].to /\ leave[q].to >= req[w].from)
      BY <2>1, <2>5 DEF SubmissionInv, Overlaps
    <3> QED
      BY <2>4, <3>1, <3>2
  <2>6. ASSUME NEW p \in Leaves, NEW q \in Leaves, Active(p)', Active(q)',
               leave'[p].student = leave'[q].student, p # q
        PROVE  (leave'[p].from..leave'[p].to) \intersect (leave'[q].from..leave'[q].to) = {}
    <3>1. CASE p = r
      BY <2>3, <2>5, <2>6, <3>1 DEF Active
    <3>2. CASE q = r
      BY <2>3, <2>5, <2>6, <3>2 DEF Active
    <3>3. CASE p # r /\ q # r
      BY <2>3, <2>6, <3>3 DEF Active, NoOverlap
    <3> QED
      BY <3>1, <3>2, <3>3
  <2>7. ASSUME NEW v \in Workers, pc'[v] = "insert",
               NEW q \in Leaves, Active(q)', leave'[q].student = req'[v].student
        PROVE  /\ pc[v] = "insert" /\ req'[v] = req[v] /\ leave'[q] = leave[q]
               /\ Active(q) /\ leave[q].student = req[v].student
    BY <2>2, <2>3, <2>7 DEF Active
  <2>8. SubmissionInv'
    BY <2>7 DEF SubmissionInv, Overlaps
  <2> QED
    BY <2>6, <2>8 DEF NoOverlap
<1>2. CASE \A w \in Workers : ~Insert(w)
  <2>1. \A r \in Leaves : Active(r)' =>
           /\ Active(r)
           /\ leave'[r].student = leave[r].student
           /\ leave'[r].from = leave[r].from
           /\ leave'[r].to = leave[r].to
    BY <1>2, ActiveBefore
  <2>2. NoOverlap'
    BY <2>1 DEF NoOverlap
  <2>3. (\A v \in Workers : pc'[v] = "insert" => pc[v] = "insert" /\ req'[v] = req[v])
           => SubmissionInv'
    BY <2>1 DEF SubmissionInv, Overlaps
  <2>4. CASE Bystanding
    <3>1. \A v \in Workers : pc'[v] = "insert" => pc[v] = "insert" /\ req'[v] = req[v]
      BY <2>4 DEF Bystanding
    <3> QED
      BY <2>2, <2>3, <3>1
  <2>5. ASSUME NEW w \in Workers, RecordDecision(w) \/ FindClass(w) PROVE SubmissionInv'
    BY <2>3, <2>5 DEF RecordDecision, FindClass, Goto
  <2>6. ASSUME NEW w \in Office, NEW r, NEW decision, Decide(w, r, decision) PROVE SubmissionInv'
    <3>1. w \in Workers /\ pc' = [pc EXCEPT ![w] = "record"]
          /\ \A v \in Workers \ {w} : req'[v] = req[v]
      BY <2>6 DEF Decide, Goto, Workers
    <3> QED
      BY <2>3, <3>1
  <2>7. ASSUME NEW w \in Parents, NEW s \in Away, NEW from \in Days, NEW to \in Days, Submit(w, s, from, to)
        PROVE  SubmissionInv'
    <3>1. /\ w \in Workers /\ leave' = leave /\ pc' = [pc EXCEPT ![w] = "insert"]
          /\ \A v \in Workers \ {w} : req'[v] = req[v]
          /\ \A r \in Leaves : Active(r) /\ leave[r].student = s =>
                ~Overlaps(leave[r].from, leave[r].to, from, to)
      BY <2>7 DEF Submit, Goto, tables, Workers
    <3>2. req'[w].student = s /\ req'[w].from = from /\ req'[w].to = to
      BY <2>7, <3>1 DEF Submit, Request
    <3> QED
      BY <3>1, <3>2 DEF SubmissionInv, Active, Overlaps
  <2> QED
    BY <1>2, <2>2, <2>4, <2>5, <2>6, <2>7, StepKinds
<1> QED
  BY <1>1, <1>2

\* "An overlapping leave request already exists" (leave-requests.service.ts):
\* while no two submissions for one student and no two decisions on one leave
\* overlap, a student has no two leaves, pending or approved, on one day.  Otherwise
\* there are behaviours with an overlap: two parents find the same days free; two
\* deciders turn a rejected leave, whose days were asked for again, into an approved one.
THEOREM ApartNoOverlap == Spec /\ []DecisionsApart /\ []SubmissionsApart => []NoOverlap
<1>1. Init => SubmissionInv /\ NoOverlap
  BY DecisionInit
<1>2. SubmissionsApart /\ TypeInv /\ DecisionInv /\ SubmissionInv /\ NoOverlap /\ [Next]_vars
         => SubmissionInv' /\ NoOverlap'
  BY OverlapStep
<1> QED
  BY <1>1, <1>2, DecisionsInOrder, PTL DEF Spec

\* In particular one person who decides changes no decision, and with one parent
\* at a time besides no leaves overlap.
THEOREM OneOfEach ==
    OneOf(Office) /\ Spec => DecisionIsFinal /\ (OneOf(Parents) => []NoOverlap)
<1>1. OneOf(Office) /\ TypeInv => DecisionsApart
  BY DEF TypeInv, RequestOK, OneOf, DecisionsApart
<1>2. OneOf(Parents) /\ TypeInv => SubmissionsApart
  BY DEF TypeInv, RequestOK, OneOf, SubmissionsApart
<1>3. ASSUME OneOf(Office) PROVE Spec => []DecisionsApart
  BY <1>1, <1>3, InvariantHolds, PTL
<1>4. ASSUME OneOf(Parents) PROVE Spec => []SubmissionsApart
  BY <1>2, <1>4, InvariantHolds, PTL
<1> QED
  BY <1>3, <1>4, DecisionsApartFinal, ApartNoOverlap

-----------------------------------------------------------------------------
(* The register.                                                            *)

\* A process in UTC stores the date its loop is at: what getWeekdaysInRange gives
\* are the week days of the range.
LEMMA WeekdaysInUTC ==
    ASSUME Offset = 0, NEW from \in Int, NEW to \in Int
    PROVE  WeekdaysInRange(from, to) = {d \in from..to : Weekday(d)}
<1>1. \A d \in Int : (24 * d + 0) \div 24 = d /\ (24 * d - 0) \div 24 = d
  OBVIOUS
<1>2. \A d \in Int : LocalDate(d) = d /\ StoredDate(d) = d
  BY <1>1 DEF LocalDate, StoredDate
<1>3. LocalDate(from)..LocalDate(to) = from..to /\ from..to \subseteq Int
  BY <1>2
<1> QED
  BY <1>2, <1>3 DEF WeekdaysInRange

\* Nobody is excused without an approved leave, whatever is written next.
LEMMA RegisterStep ==
    ASSUME Offset = 0, TypeInv, DecisionInv, OnLeaveApproved, [Next]_vars
    PROVE  OnLeaveApproved'
<1> USE DEF TypeInv, LeaveTypeOK
<1>1. \A r \in Leaves : leave[r].status = "approved" => leave'[r] = leave[r]
  BY DecisionWritten DEF Decisions
<1>2. ASSUME \A s \in Students, d \in Days :
                attendance'[s][d] = "onLeave" => attendance[s][d] = "onLeave"
      PROVE  OnLeaveApproved'
  BY <1>1, <1>2 DEF OnLeaveApproved, SchoolDays
<1>3. ASSUME NEW w \in Workers, Excuse(w) PROVE OnLeaveApproved'
  <2> DEFINE r == req[w].leave
  <2>1. /\ r \in Leaves /\ leave[r].status = "approved"
        /\ leave[r].student \in Students /\ leave[r].from \in Int /\ leave[r].to \in Int
    BY <1>3, LeaveAssumption DEF Excuse, RequestOK, RowsOK, DecisionInv, Deciding
  <2>2. WeekdaysInRange(leave[r].from, leave[r].to) = SchoolDays(r)
    BY <2>1, WeekdaysInUTC DEF SchoolDays
  <2>3. attendance' = [attendance EXCEPT ![leave[r].student] =
                          [d \in Days |-> IF d \in SchoolDays(r) THEN "onLeave" ELSE @[d]]]
        /\ leave' = leave
    BY <1>3, <2>2 DEF Excuse
  <2> HIDE DEF r
  <2>4. ASSUME NEW s \in Students, NEW d \in Days, attendance'[s][d] = "onLeave"
        PROVE  attendance[s][d] = "onLeave" \/ (s = leave[r].student /\ d \in SchoolDays(r))
    BY <2>1, <2>3, <2>4
  <2> QED
    BY <2>1, <2>3, <2>4 DEF OnLeaveApproved, SchoolDays
<1>4. ASSUME NEW w \in Teachers, NEW d \in Days, NEW sheet \in Sheets, BulkSubmit(w, d, sheet)
      PROVE  OnLeaveApproved'
  <2>1. \A s \in DOMAIN sheet : sheet[s] \in Marks
    BY DEF Sheets
  <2>2. \A s \in Students, e \in Days : attendance'[s][e] = attendance[s][e] \/ attendance'[s][e] \in Marks
    BY <1>4, <2>1 DEF BulkSubmit
  <2> QED
    BY <1>2, <2>2 DEF Marks
<1>5. ASSUME attendance' = attendance PROVE OnLeaveApproved'
  BY <1>2, <1>5
<1> QED
  BY <1>3, <1>4, <1>5
     DEF Next, Advance, Insert, TellTeacher, RecordDecision, FindClass, TellDecision, AlertParents,
         Abort, Submit, Decide, tables, vars

\* "Attendance records in the date range are automatically set to excused", and
\* nothing else is: while no two decisions on one leave overlap and the process runs
\* in UTC, as the container does, the register excuses a pupil for a leave only on a
\* school day of a leave that was approved.
THEOREM ApartOnLeaveApproved == Offset = 0 /\ Spec /\ []DecisionsApart => []OnLeaveApproved
<1> SUFFICES ASSUME Offset = 0 PROVE Spec /\ []DecisionsApart => []OnLeaveApproved
  OBVIOUS
<1>1. Init => OnLeaveApproved
  BY DEF Init, OnLeaveApproved
<1>2. TypeInv /\ DecisionInv /\ OnLeaveApproved /\ [Next]_vars => OnLeaveApproved'
  BY RegisterStep
<1> QED
  BY <1>1, <1>2, DecisionsInOrder, PTL DEF Spec

-----------------------------------------------------------------------------
(* What the summaries say.                                                  *)

\* Counting: parts of one finite set.
LEMMA CountParts ==
    ASSUME NEW S, IsFiniteSet(S), NEW A \in SUBSET S, NEW B \in SUBSET S
    PROVE  /\ IsFiniteSet(A) /\ Cardinality(A) \in Nat
           /\ IsFiniteSet(B) /\ Cardinality(B) \in Nat
           /\ A \subseteq B => Cardinality(A) <= Cardinality(B)
           /\ Cardinality(A \union B) <= Cardinality(A) + Cardinality(B)
<1>1. IsFiniteSet(A) /\ IsFiniteSet(B) /\ IsFiniteSet(A \intersect B)
  <2>1. A \intersect B \in SUBSET S
    OBVIOUS
  <2> QED
    BY <2>1, FS_Subset
<1>2. Cardinality(A) \in Nat /\ Cardinality(B) \in Nat /\ Cardinality(A \intersect B) \in Nat
  BY <1>1, FS_CardinalityType
<1>3. A \subseteq B => Cardinality(A) <= Cardinality(B)
  BY <1>1, FS_Subset
<1>4. Cardinality(A \union B) = Cardinality(A) + Cardinality(B) - Cardinality(A \intersect B)
  BY <1>1, FS_Union
<1> QED
  BY <1>1, <1>2, <1>3, <1>4

\* Two parts with nothing in common count as their sum.
LEMMA CountDisjoint ==
    ASSUME NEW S, IsFiniteSet(S), NEW A \in SUBSET S, NEW B \in SUBSET S, A \intersect B = {}
    PROVE  Cardinality(A \union B) = Cardinality(A) + Cardinality(B)
<1>1. IsFiniteSet(A) /\ IsFiniteSet(B)
  BY FS_Subset
<1>2. Cardinality(A \union B) = Cardinality(A) + Cardinality(B) - Cardinality(A \intersect B)
  BY <1>1, FS_Union
<1>3. Cardinality(A \intersect B) = 0
  BY FS_EmptySet
<1>4. Cardinality(A) \in Nat /\ Cardinality(B) \in Nat
  BY <1>1, FS_CardinalityType
<1> QED
  BY <1>2, <1>3, <1>4

\* Excusing a leave turns some days of one row into days of leave.
LEMMA ExcusedDays ==
    ASSUME TypeInv, NEW w \in Workers, Excuse(w), NEW s \in Students, NEW d \in Days
    PROVE  attendance'[s][d] \in {attendance[s][d], "onLeave"}
BY DEF TypeInv, LeaveTypeOK, Excuse

\* A step that turns some marks into leave, and no others, adds to no column of
\* the summary of a pupil, and takes from its total what has become leave.
LEMMA SummaryOfLeave ==
    ASSUME IsFiniteSet(Days), NEW s \in Students,
           \A d \in Days : attendance'[s][d] \in {attendance[s][d], "onLeave"}
    PROVE  /\ StudentSummary(s)'.absent <= StudentSummary(s).absent
           /\ StudentSummary(s)'.total <= StudentSummary(s).total
           /\ StudentSummary(s)'.total + Cardinality({d \in Days : attendance'[s][d] = "onLeave"})
                >= StudentSummary(s).total
<1> DEFINE P == {d \in Days : attendance[s][d] = "present"}
           A == {d \in Days : attendance[s][d] = "absent"}
           Pn == {d \in Days : attendance'[s][d] = "present"}
           An == {d \in Days : attendance'[s][d] = "absent"}
           L == {d \in Days : attendance'[s][d] = "onLeave"}
<1>1. /\ StudentSummary(s).absent = Cardinality(A)
      /\ StudentSummary(s).total = Cardinality(P) + Cardinality(A)
      /\ StudentSummary(s)'.absent = Cardinality(An)
      /\ StudentSummary(s)'.total = Cardinality(Pn) + Cardinality(An)
  BY DEF StudentSummary
<1>2. /\ Pn \subseteq P /\ An \subseteq A
      /\ P \union A \subseteq (Pn \union An) \union L
      /\ P \intersect A = {} /\ Pn \intersect An = {}
      /\ P \in SUBSET Days /\ A \in SUBSET Days /\ Pn \in SUBSET Days
      /\ An \in SUBSET Days /\ L \in SUBSET Days
  OBVIOUS
<1> HIDE DEF P, A, Pn, An, L
<1>3. /\ Cardinality(P) \in Nat /\ Cardinality(A) \in Nat /\ Cardinality(Pn) \in Nat
      /\ Cardinality(An) \in Nat /\ Cardinality(L) \in Nat
      /\ Cardinality(Pn) <= Cardinality(P) /\ Cardinality(An) <= Cardinality(A)
  BY <1>2, CountParts
<1>4. Cardinality(P \union A) = Cardinality(P) + Cardinality(A)
  BY <1>2, CountDisjoint
<1>5. Cardinality(Pn \union An) = Cardinality(Pn) + Cardinality(An)
  BY <1>2, CountDisjoint
<1>6. /\ Cardinality(P \union A) <= Cardinality((Pn \union An) \union L)
      /\ Cardinality((Pn \union An) \union L) <= Cardinality(Pn \union An) + Cardinality(L)
  <2>1. P \union A \in SUBSET Days /\ Pn \union An \in SUBSET Days
        /\ (Pn \union An) \union L \in SUBSET Days
    BY <1>2
  <2>2. Cardinality(P \union A) <= Cardinality((Pn \union An) \union L)
    BY <1>2, <2>1, CountParts
  <2>3. Cardinality((Pn \union An) \union L) <= Cardinality(Pn \union An) + Cardinality(L)
    BY <1>2, <2>1, CountParts
  <2>4. Cardinality((Pn \union An) \union L) \in Nat
    BY <2>1, CountParts
  <2> QED
    BY <2>2, <2>3
<1>7. Cardinality((Pn \union An) \union L) \in Nat
  BY <1>2, CountParts
<1>8. Cardinality(P) + Cardinality(A) <= Cardinality(Pn) + Cardinality(An) + Cardinality(L)
  BY <1>3, <1>4, <1>5, <1>6, <1>7
<1>9. Cardinality(L) = Cardinality({d \in Days : attendance'[s][d] = "onLeave"})
  BY DEF L
<1> QED
  BY <1>1, <1>3, <1>8, <1>9

\* The same step adds to no absences on the sheet of a day, and takes no row
\* from it.
LEMMA ClassDayOfLeave ==
    ASSUME IsFiniteSet(Students), NEW d \in Days,
           \A s \in Students : attendance'[s][d] \in {attendance[s][d], "onLeave"}
    PROVE  /\ ClassDay(d)'.absent <= ClassDay(d).absent
           /\ ClassDay(d)'.total >= ClassDay(d).total
<1> DEFINE A == {s \in Students : attendance[s][d] \in {"absent"}}
           An == {s \in Students : attendance'[s][d] \in {"absent"}}
           T == {s \in Students : attendance[s][d] \in AttendanceStatus \ {"none"}}
           Tn == {s \in Students : attendance'[s][d] \in AttendanceStatus \ {"none"}}
<1>1. /\ ClassDay(d).absent = Cardinality(A) /\ ClassDay(d).total = Cardinality(T)
      /\ ClassDay(d)'.absent = Cardinality(An) /\ ClassDay(d)'.total = Cardinality(Tn)
  BY DEF ClassDay
<1>2. An \subseteq A /\ T \subseteq Tn /\ {A, An, T, Tn} \subseteq SUBSET Students
  BY DEF AttendanceStatus
<1> HIDE DEF A, An, T, Tn
<1>3. Cardinality(An) <= Cardinality(A) /\ Cardinality(T) <= Cardinality(Tn)
      /\ Cardinality(T) \in Nat /\ Cardinality(Tn) \in Nat
  BY <1>2, CountParts
<1> QED
  BY <1>1, <1>3

\* Excusing a leave counts neither for nor against a pupil in getStudentSummary
\* and takes nobody from the day's sheet of findByClass, whoever decides and
\* whatever the register said before (attendance.service.ts).
THEOREM ExcusingCountsNeither ==
    IsFiniteSet(Students) /\ IsFiniteSet(Days) /\ Spec => LeaveCountsNeither
<1> SUFFICES ASSUME IsFiniteSet(Students), IsFiniteSet(Days) PROVE Spec => LeaveCountsNeither
  OBVIOUS
<1> DEFINE Neither ==
      /\ \A s \in Students :
            /\ StudentSummary(s)'.absent <= StudentSummary(s).absent
            /\ StudentSummary(s)'.total <= StudentSummary(s).total
            /\ StudentSummary(s)'.total + Cardinality({d \in Days : attendance'[s][d] = "onLeave"})
                 >= StudentSummary(s).total
      /\ \A d \in Days :
            /\ ClassDay(d)'.absent <= ClassDay(d).absent
            /\ ClassDay(d)'.total >= ClassDay(d).total
<1>1. ASSUME TypeInv, NEW w \in Office, Excuse(w) PROVE Neither
  <2>1. \A s \in Students, d \in Days : attendance'[s][d] \in {attendance[s][d], "onLeave"}
    BY <1>1, ExcusedDays DEF Workers
  <2> QED
    BY <2>1, SummaryOfLeave, ClassDayOfLeave
<1>2. TypeInv /\ [Next]_vars => [\A w \in Office : Excuse(w) => Neither]_vars
  BY <1>1
<1> QED
  BY <1>2, InvariantHolds, PTL DEF Spec, LeaveCountsNeither
===============================================================================
