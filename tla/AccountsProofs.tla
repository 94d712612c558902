---------------------------- MODULE AccountsProofs -----------------------------
(***************************************************************************)
(* For any number of clerks, users, schools and phones, and whatever the   *)
(* rest of the office does meanwhile: what is written together stays       *)
(* together (RowsTogether) and the staff row follows the user row          *)
(* (StaffFollowsUser).                                                     *)
(*                                                                         *)
(* The invariant follows a request from its lookup to its write: the row   *)
(* it looked up is never deleted, and of two requests between the two      *)
(* switches of one user both know that they crossed.                       *)
(***************************************************************************)
EXTENDS SessionsProofs

Calls == {"idle", "onboard", "staff", "parent", "unlink", "conflict", "phone", "edit",
          "switchUser", "switchStaff"}

\* AccountTypeOK without the budget, which all parts of the office share.
AccountsTyped ==
    /\ school \in [Schools -> {"none", "active", "closed"}]
    /\ user \in [Users -> UserRow]
    /\ staff \in [Users -> {"none", "active", "inactive"}]
    /\ parent \subseteq Users
    /\ child \subseteq parent \X Students
    /\ clerk \in [Clerks -> Calls]
    /\ task \in [Clerks -> Task]
    /\ apart \subseteq Users

\* A row that is not there is blank, one that is there has its school and its
\* phone; nobody is both a member of staff and a parent.
RowsOK ==
    /\ \A u \in Users : ~Exists(u) => user[u] = NoUser /\ staff[u] = "none" /\ u \notin parent
    /\ \A u \in Users : Exists(u) => user[u].school \in Schools /\ user[u].phone \in Phones
    /\ \A u \in Users : Pupil(u) => Exists(u) /\ staff[u] = "none" /\ u \notin parent

PeopleInv == RowsOK /\ RowsTogether

AtUser == {"conflict", "phone", "edit", "switchUser", "switchStaff"}

\* What request r has in its locals when call k is next.
TaskFits(k, r) ==
    /\ k \in {"onboard", "staff", "parent"} => r.school \in Schools /\ r.phone \in Phones
    /\ k = "staff" => r.role \in ALLOWED_STAFF_ROLES
    /\ k \in AtUser => r.user \in Users /\ Exists(r.user)
    /\ k \in {"conflict", "phone"} => r.phone \in Phones

TaskOK == \A c \in Clerks : TaskFits(clerk[c], task[c])

\* A request that is between the two switches of a user and was not crossed is
\* the only one there, and the user row is as it left it.
SwitchInv ==
    \A c \in Clerks : clerk[c] = "switchStaff" /\ ~task[c].crossed =>
        /\ staff[task[c].user] # "none" => user[task[c].user].active = task[c].to
        /\ \A d \in Clerks : clerk[d] = "switchStaff" /\ task[d].user = task[c].user => c = d

AccountInv == AccountsTyped /\ PeopleInv /\ TaskOK /\ SwitchInv /\ StaffFollowsUser

LEMMA NoTaskTyped == NoTask \in Task /\ ~NoTask.crossed
  BY DEF NoTask, Task

LEMMA AccountInit == Init => AccountInv
<1> SUFFICES ASSUME Init PROVE AccountInv
  OBVIOUS
<1> USE AccountsAssumption DEF Init, AccountsInit, Exists
<1>1. /\ \A u \in DOMAIN FirstUsers :
            /\ user[u] = [role |-> FirstUsers[u], school |-> FirstSchool, phone |-> FirstPhone[u],
                          active |-> TRUE]
            /\ FirstUsers[u] \in RoleOfUser /\ FirstPhone[u] \in Phones
      /\ \A u \in Users \ DOMAIN FirstUsers : user[u] = NoUser
      /\ DOMAIN FirstUsers \subseteq Users
  OBVIOUS
<1>2. AccountsTyped
  <2>1. user \in [Users -> UserRow]
    <3>1. NoUser \in UserRow
      BY DEF NoUser, UserRow
    <3>2. \A u \in Users : user[u] \in UserRow
      BY <1>1, <3>1 DEF UserRow
    <3> QED
      BY <3>2
  <2>2. parent \subseteq Users /\ child \subseteq parent \X Students
    OBVIOUS
  <2>3. staff \in [Users -> {"none", "active", "inactive"}]
    OBVIOUS
  <2>4. clerk \in [Clerks -> Calls] /\ task \in [Clerks -> Task]
    BY NoTaskTyped DEF Calls
  <2> QED
    BY <2>1, <2>2, <2>3, <2>4 DEF AccountsTyped
<1>3. \A u \in Users : Exists(u) <=> u \in DOMAIN FirstUsers
  BY <1>1 DEF NoUser
<1>4. RowsOK
  BY <1>1, <1>3 DEF RowsOK, Pupil, ALLOWED_STAFF_ROLES
<1>5. RowsTogether
  <2>1. \A u, v \in Users : Exists(u) /\ user[u].phone = user[v].phone => u = v
    BY <1>1, <1>3 DEF NoUser
  <2>2. \A u \in Users : Exists(u) /\ ~Pupil(u) => (staff[u] # "none") # (u \in parent)
    <3>1. TAKE u \in Users
    <3>2. HAVE Exists(u) /\ ~Pupil(u)
    <3>3. u \in DOMAIN FirstUsers /\ FirstUsers[u] # "student" /\ FirstUsers[u] \in RoleOfUser
      BY <1>1, <1>3, <3>2 DEF Pupil
    <3>4. staff[u] # "none" <=> FirstUsers[u] # "parent"
      BY <3>3 DEF ALLOWED_STAFF_ROLES
    <3>5. u \in parent <=> FirstUsers[u] = "parent"
      BY <3>3
    <3> QED
      BY <3>4, <3>5
  <2>3. \A h \in Schools : school[h] # "none" =>
           \E u \in Users : user[u].school = h /\ staff[u] # "none"
    <3>1. PICK u \in DOMAIN FirstUsers : FirstUsers[u] = "admin"
      OBVIOUS
    <3>2. u \in Users /\ user[u].school = FirstSchool /\ staff[u] = "active"
      BY <1>1, <3>1 DEF ALLOWED_STAFF_ROLES, RoleOfUser
    <3> QED
      BY <3>2
  <2> QED
    BY <2>1, <2>2, <2>3 DEF RowsTogether
<1>6. \A c \in Clerks : clerk[c] = "idle"
  OBVIOUS
<1>7. TaskOK /\ SwitchInv
  BY <1>6 DEF TaskOK, TaskFits, SwitchInv, AtUser
<1>8. StaffFollowsUser
  BY <1>1 DEF StaffFollowsUser
<1> QED
  BY <1>2, <1>4, <1>5, <1>7, <1>8 DEF AccountInv, PeopleInv

-----------------------------------------------------------------------------
(* Requests that look up.                                                   *)

\* A request that only looks takes what it found with it.
LEMMA LookingKeeps ==
    ASSUME AccountInv, NEW c \in Clerks, NEW k \in Calls \ {"switchStaff"}, NEW r \in Task,
           clerk[c] # "switchStaff", TaskFits(k, r),
           clerk' = [clerk EXCEPT ![c] = k], task' = [task EXCEPT ![c] = r],
           UNCHANGED <<people, apart>>
    PROVE  AccountInv'
<1>1. UNCHANGED <<school, user, staff, parent, child, apart>>
  BY DEF people
<1>2. /\ clerk'[c] = k /\ task'[c] = r
      /\ \A d \in Clerks : d # c => clerk'[d] = clerk[d] /\ task'[d] = task[d]
  BY DEF AccountInv, AccountsTyped
<1>3. AccountsTyped'
  BY <1>1 DEF AccountInv, AccountsTyped
<1>4. PeopleInv'
  BY <1>1 DEF AccountInv, PeopleInv, RowsOK, RowsTogether, Exists
<1>5. TaskOK'
  BY <1>1, <1>2 DEF AccountInv, TaskOK, TaskFits, Exists
<1>6. SwitchInv'
  BY <1>1, <1>2 DEF AccountInv, SwitchInv
<1>7. \A u : Switching(u)' <=> Switching(u)
  BY <1>2 DEF Switching
<1>8. StaffFollowsUser'
  BY <1>1, <1>7 DEF AccountInv, StaffFollowsUser
<1> QED
  BY <1>3, <1>4, <1>5, <1>6, <1>8 DEF AccountInv

\* A school somebody is served in is there.
LEMMA ServedSchools ==
    ASSUME AccountInv
    PROVE  /\ Served \subseteq Schools
           /\ \A u \in Users : user[u].school \in Served => Exists(u)
<1>1. \A u \in Users : Exists(u) => user[u].school \in Schools
  BY DEF AccountInv, PeopleInv, RowsOK
<1>2. \A u \in Users : ~Exists(u) => user[u].school = None
  BY DEF AccountInv, PeopleInv, RowsOK, NoUser
<1>3. Served \subseteq Schools
  BY <1>1 DEF Served, Authenticated
<1> QED
  BY <1>2, <1>3, AccountsAssumption

LEMMA AskingSchools ==
    ASSUME AccountInv, NEW c \in Clerks, clerk[c] = "idle",
           NEW h \in Schools, NEW f \in Phones, Onboard(c, h, f)
    PROVE  AccountInv'
<1> DEFINE r == [task[c] EXCEPT !.school = h, !.phone = f]
<1>1. r \in Task /\ TaskFits("onboard", r)
  BY DEF AccountInv, AccountsTyped, Task, TaskFits, AtUser
<1>2. task' = [task EXCEPT ![c] = r] /\ clerk' = [clerk EXCEPT ![c] = "onboard"]
  BY DEF Onboard, Await
<1>3. UNCHANGED <<people, apart>>
  BY DEF Onboard
<1> HIDE DEF r
<1> QED
  BY <1>1, <1>2, <1>3, LookingKeeps DEF Calls

LEMMA AskingStaff ==
    ASSUME AccountInv, NEW c \in Clerks, clerk[c] = "idle",
           NEW h \in Served, NEW f \in Phones, NEW role \in NewRoles, AddStaff(c, h, f, role)
    PROVE  AccountInv'
<1> DEFINE r == [task[c] EXCEPT !.school = h, !.phone = f, !.role = role]
<1>1. role \in RoleOfUser /\ role \in ALLOWED_STAFF_ROLES /\ h \in Schools
  BY ServedSchools, AccountsAssumption DEF AddStaff
<1>2. r \in Task /\ TaskFits("staff", r)
  BY <1>1 DEF AccountInv, AccountsTyped, Task, TaskFits, AtUser
<1>3. /\ task' = [task EXCEPT ![c] = r] /\ clerk' = [clerk EXCEPT ![c] = "staff"]
      /\ UNCHANGED <<people, apart>>
  BY DEF AddStaff, Await
<1> HIDE DEF r
<1> QED
  BY <1>2, <1>3, LookingKeeps DEF Calls

LEMMA AddingParents ==
    ASSUME AccountInv, NEW c \in Clerks, clerk[c] = "idle",
           NEW h \in Served, NEW f \in Phones, AddParent(c, h, f)
    PROVE  AccountInv'
<1> DEFINE r == [task[c] EXCEPT !.school = h, !.phone = f]
<1>1. h \in Schools
  BY ServedSchools
<1>2. r \in Task /\ TaskFits("parent", r)
  BY <1>1 DEF AccountInv, AccountsTyped, Task, TaskFits, AtUser
<1>3. /\ task' = [task EXCEPT ![c] = r] /\ clerk' = [clerk EXCEPT ![c] = "parent"]
      /\ UNCHANGED <<people, apart>>
  BY DEF AddParent, Await
<1> HIDE DEF r
<1> QED
  BY <1>2, <1>3, LookingKeeps DEF Calls

LEMMA FindingLinks ==
    ASSUME AccountInv, NEW c \in Clerks, clerk[c] = "idle",
           NEW u \in Users, NEW s \in Students, FindLink(c, u, s)
    PROVE  AccountInv'
<1> DEFINE r == [task[c] EXCEPT !.user = u, !.student = s]
<1>1. r \in Task /\ TaskFits("unlink", r)
  BY DEF AccountInv, AccountsTyped, Task, TaskFits, AtUser
<1>2. /\ task' = [task EXCEPT ![c] = r] /\ clerk' = [clerk EXCEPT ![c] = "unlink"]
      /\ UNCHANGED <<people, apart>>
  BY DEF FindLink, Await
<1> HIDE DEF r
<1> QED
  BY <1>1, <1>2, LookingKeeps DEF Calls

LEMMA AskingUsers ==
    ASSUME AccountInv, NEW c \in Clerks, clerk[c] = "idle", AskUsers(c)
    PROVE  AccountInv'
<1>1. PICK caller \in Users, u \in Users :
         /\ Authenticated(caller) /\ user[u].school = user[caller].school
         /\ \/ Deactivate(c, u, caller) \/ Reactivate(c, u)
            \/ \E f \in Phones : EditPhone(c, u, caller, f)
            \/ \E role \in NewRoles : EditRole(c, u, caller, role)
            \/ \E to \in BOOLEAN : EditActive(c, u, caller, to)
  BY DEF AskUsers
<1>2. Exists(u)
  BY <1>1, ServedSchools DEF Served
<1>3. UNCHANGED <<people, apart>>
  BY <1>1 DEF Deactivate, Reactivate, EditPhone, EditRole, EditActive
<1>4. ASSUME NEW k \in AtUser \ {"switchStaff"}, NEW r \in Task, r.user = u,
             k \in {"conflict", "phone"} => r.phone \in Phones,
             task' = [task EXCEPT ![c] = r], clerk' = [clerk EXCEPT ![c] = k]
      PROVE  AccountInv'
  <2>1. TaskFits(k, r)
    BY <1>2, <1>4 DEF TaskFits, AtUser
  <2>2. k \in Calls \ {"switchStaff"}
    BY DEF AtUser, Calls
  <2> QED
    BY <1>3, <1>4, <2>1, <2>2, LookingKeeps
<1>5. ASSUME NEW f \in Phones, EditPhone(c, u, caller, f) PROVE AccountInv'
  <2> DEFINE r == [task[c] EXCEPT !.user = u, !.phone = f]
  <2>1. r \in Task /\ r.user = u /\ r.phone \in Phones
    BY DEF AccountInv, AccountsTyped, Task
  <2>2. task' = [task EXCEPT ![c] = r] /\ clerk' = [clerk EXCEPT ![c] = "conflict"]
    BY <1>5 DEF EditPhone, Await
  <2> HIDE DEF r
  <2> QED
    BY <1>4, <2>1, <2>2 DEF AtUser
<1>6. ASSUME NEW role \in NewRoles, EditRole(c, u, caller, role) PROVE AccountInv'
  <2> DEFINE r == [task[c] EXCEPT !.user = u, !.role = role]
  <2>0. role \in RoleOfUser
    BY AccountsAssumption
  <2>1. r \in Task /\ r.user = u
    BY <2>0 DEF AccountInv, AccountsTyped, Task
  <2>2. task' = [task EXCEPT ![c] = r] /\ clerk' = [clerk EXCEPT ![c] = "edit"]
    BY <1>6 DEF EditRole, Await
  <2> HIDE DEF r
  <2> QED
    BY <1>4, <2>1, <2>2 DEF AtUser
<1>7. ASSUME NEW to \in BOOLEAN, NEW k \in {"edit", "switchUser"},
             task' = [task EXCEPT ![c].user = u, ![c].to = to], clerk' = [clerk EXCEPT ![c] = k]
      PROVE  AccountInv'
  <2> DEFINE r == [task[c] EXCEPT !.user = u, !.to = to]
  <2>1. r \in Task /\ r.user = u
    BY DEF AccountInv, AccountsTyped, Task
  <2>2. task' = [task EXCEPT ![c] = r]
    BY <1>7
  <2> HIDE DEF r
  <2> QED
    BY <1>4, <1>7, <2>1, <2>2 DEF AtUser
<1>8. ASSUME NEW to \in BOOLEAN, EditActive(c, u, caller, to) PROVE AccountInv'
  BY <1>7, <1>8 DEF EditActive, Await
<1>9. CASE Deactivate(c, u, caller) \/ Reactivate(c, u)
  BY <1>7, <1>9 DEF Deactivate, Reactivate, Await
<1> QED
  BY <1>1, <1>5, <1>6, <1>8, <1>9

-----------------------------------------------------------------------------
(* Requests that write.                                                     *)

\* A request that ends outside the two switches, or with others told of it.
LEMMA AnswerFits ==
    ASSUME AccountInv, NEW c \in Clerks, Answer(c),
           \A u \in Users : Exists(u) => Exists(u)'
    PROVE  /\ clerk' \in [Clerks -> Calls] /\ task' \in [Clerks -> Task]
           /\ clerk'[c] = "idle" /\ task'[c] = NoTask
           /\ \A d \in Clerks : d # c => clerk'[d] = clerk[d] /\ task'[d] = task[d]
           /\ TaskOK'
<1>1. /\ clerk' \in [Clerks -> Calls] /\ task' \in [Clerks -> Task]
      /\ clerk'[c] = "idle" /\ task'[c] = NoTask
      /\ \A d \in Clerks : d # c => clerk'[d] = clerk[d] /\ task'[d] = task[d]
  BY NoTaskTyped DEF Answer, Await, AccountInv, AccountsTyped, Calls
<1>2. TaskOK'
  BY <1>1 DEF AccountInv, TaskOK, TaskFits, AtUser
<1> QED
  BY <1>1, <1>2

\* A new account: its user row, its school if that is new too, and the one
\* profile it has.
NewAccount(u, row) ==
    /\ u \in Users /\ ~Exists(u)
    /\ row \in UserRow /\ row.role # None /\ row.school \in Schools /\ row.phone \in Phones
    /\ row.active
    /\ PhoneIsFree(row.phone)
    /\ user' = [user EXCEPT ![u] = row]
    /\ \/ staff' = [staff EXCEPT ![u] = "active"] /\ parent' = parent
          /\ school' \in {school, [school EXCEPT ![row.school] = "active"]}
       \/ parent' = parent \union {u} /\ UNCHANGED <<staff, school>>
    /\ UNCHANGED <<child, apart>>

LEMMA NewAccountKeeps ==
    ASSUME AccountInv, NEW c \in Clerks, clerk[c] \in {"onboard", "staff", "parent"},
           NEW u, NEW row, NewAccount(u, row), Answer(c)
    PROVE  AccountInv'
<1>1. /\ u \in Users /\ user'[u] = row /\ \A v \in Users : v # u => user'[v] = user[v]
      /\ \A v \in Users : v # u => staff'[v] = staff[v] /\ (v \in parent' <=> v \in parent)
      /\ staff[u] = "none" /\ u \notin parent /\ user[u] = NoUser
      /\ row.role # None /\ row.school \in Schools /\ row.phone \in Phones /\ row.active
      /\ \/ staff'[u] = "active" /\ u \notin parent'
         \/ staff'[u] = "none" /\ u \in parent'
  BY DEF NewAccount, AccountInv, AccountsTyped, PeopleInv, RowsOK
<1>2. /\ \A v \in Users : Exists(v)' <=> Exists(v) \/ v = u
      /\ ~Exists(u)
  BY <1>1 DEF Exists, NewAccount
<1>3. /\ clerk' \in [Clerks -> Calls] /\ task' \in [Clerks -> Task]
      /\ clerk'[c] = "idle" /\ task'[c] = NoTask
      /\ \A d \in Clerks : d # c => clerk'[d] = clerk[d] /\ task'[d] = task[d]
      /\ TaskOK'
  BY <1>2, AnswerFits
<1>4. AccountsTyped'
  BY <1>1, <1>3 DEF AccountInv, AccountsTyped, NewAccount
<1>5. RowsOK'
  <2>1. \A v \in Users : Pupil(v)' <=> Pupil(v)
    BY DEF Pupil
  <2>2. \A v \in Users : Pupil(v) => v # u
    BY <1>2 DEF AccountInv, PeopleInv, RowsOK
  <2> QED
    BY <1>1, <1>2, <2>1, <2>2 DEF AccountInv, PeopleInv, RowsOK
<1>6. RowsTogether'
  <2>1. \A v \in Users : user[v].phone # row.phone
    BY DEF NewAccount, PhoneIsFree
  <2>2. \A v, w \in Users : Exists(v)' /\ user'[v].phone = user'[w].phone => v = w
    <3>1. \A v, w \in Users : Exists(v) /\ user[v].phone = user[w].phone => v = w
      BY DEF AccountInv, PeopleInv, RowsTogether
    <3> QED
      BY <1>1, <1>2, <2>1, <3>1
  <2>3. \A v \in Users : Exists(v)' /\ ~Pupil(v)' => (staff'[v] # "none") # (v \in parent')
    <3>1. \A v \in Users : Exists(v) /\ ~Pupil(v) => (staff[v] # "none") # (v \in parent)
      BY DEF AccountInv, PeopleInv, RowsTogether
    <3>2. TAKE v \in Users
    <3>3. HAVE Exists(v)' /\ ~Pupil(v)'
    <3>4. CASE v = u
      BY <1>1, <3>4
    <3>5. CASE v # u
      BY <1>1, <1>2, <3>1, <3>3, <3>5 DEF Pupil
    <3> QED
      BY <3>4, <3>5
  <2>4. ASSUME NEW h \in Schools, school'[h] # "none"
        PROVE  \E v \in Users : user'[v].school = h /\ staff'[v] # "none"
    <3>1. CASE school[h] # "none"
      <4>1. PICK v \in Users : user[v].school = h /\ staff[v] # "none"
        BY <3>1 DEF AccountInv, PeopleInv, RowsTogether
      <4> QED
        BY <1>1, <4>1
    <3>2. CASE school[h] = "none"
      <4>1. h = row.school /\ staff'[u] = "active"
        BY <2>4, <3>2 DEF NewAccount, AccountInv, AccountsTyped
      <4> QED
        BY <1>1, <4>1
    <3> QED
      BY <3>1, <3>2
  <2> QED
    BY <2>2, <2>3, <2>4 DEF RowsTogether
<1>7. \A d \in Clerks : clerk'[d] = "switchStaff" =>
         /\ d # c /\ clerk[d] = "switchStaff" /\ task'[d] = task[d]
         /\ task[d].user \in Users /\ task[d].user # u
  BY <1>2, <1>3 DEF AccountInv, TaskOK, TaskFits, AtUser
<1>8. SwitchInv'
  BY <1>1, <1>7 DEF AccountInv, SwitchInv
<1>9. \A v : Switching(v)' <=> Switching(v)
  BY <1>3 DEF Switching
<1>10. StaffFollowsUser'
  <2>1. row.active = TRUE
    BY DEF NewAccount, UserRow
  <2>2. staff'[u] # "none" => (staff'[u] = "active") = user'[u].active
    BY <1>1, <2>1
  <2>3. \A v \in Users : v # u /\ staff[v] # "none" /\ ~Switching(v) /\ v \notin apart =>
           (staff[v] = "active") = user[v].active
    BY DEF AccountInv, StaffFollowsUser
  <2>4. \A v \in Users : v # u /\ staff'[v] # "none" /\ ~Switching(v) /\ v \notin apart =>
           (staff'[v] = "active") = user'[v].active
    BY <1>1, <2>3
  <2> QED
    BY <1>9, <2>2, <2>4 DEF NewAccount, StaffFollowsUser
<1> QED
  BY <1>3, <1>4, <1>5, <1>6, <1>8, <1>10 DEF AccountInv, PeopleInv

\* A request that answers and writes nothing to the accounts.
LEMMA AnsweringKeeps ==
    ASSUME AccountInv, NEW c \in Clerks, clerk[c] # "switchStaff", Answer(c), UNCHANGED <<people, apart>>
    PROVE  AccountInv'
<1>1. TaskFits("idle", NoTask)
  BY DEF TaskFits, AtUser
<1> QED
  BY <1>1, NoTaskTyped, LookingKeeps DEF Answer, Await, Calls

LEMMA CreatingKeeps ==
    ASSUME AccountInv, NEW c \in Clerks, CreateSchool(c) \/ CreateStaff(c) \/ CreateParent(c)
    PROVE  AccountInv'
<1>1. /\ clerk[c] \in {"onboard", "staff", "parent"} /\ Answer(c)
      /\ task[c].school \in Schools /\ task[c].phone \in Phones
      /\ clerk[c] = "staff" => task[c].role \in ALLOWED_STAFF_ROLES
  BY DEF CreateSchool, CreateStaff, CreateParent, AccountInv, TaskOK, TaskFits
<1>2. ASSUME NEW role \in RoleOfUser
      PROVE  /\ NewUser(c, role) \in UserRow /\ NewUser(c, role).role # None
             /\ NewUser(c, role).school = task[c].school /\ NewUser(c, role).phone = task[c].phone
             /\ NewUser(c, role).active
  BY <1>1, AccountsAssumption DEF NewUser, UserRow
<1>3. CASE UNCHANGED people
  BY <1>1, <1>3, AnsweringKeeps DEF CreateSchool, CreateStaff, CreateParent
<1>4. ASSUME CreateSchool(c), ~UNCHANGED people PROVE AccountInv'
  <2>1. PICK u \in Users :
          /\ Fresh(u) /\ PhoneIsFree(task[c].phone)
          /\ school' = [school EXCEPT ![task[c].school] = "active"]
          /\ user' = [user EXCEPT ![u] = NewUser(c, "admin")]
          /\ staff' = [staff EXCEPT ![u] = "active"]
    BY <1>4 DEF CreateSchool, people
  <2>2. "admin" \in RoleOfUser
    BY DEF RoleOfUser
  <2>3. NewAccount(u, NewUser(c, "admin"))
    BY <1>1, <1>2, <1>4, <2>1, <2>2 DEF NewAccount, CreateSchool, Fresh
  <2> QED
    BY <1>1, <2>3, NewAccountKeeps
<1>5. ASSUME CreateStaff(c), ~UNCHANGED people PROVE AccountInv'
  <2>1. PICK u \in Users :
          /\ Fresh(u) /\ PhoneIsFree(task[c].phone)
          /\ user' = [user EXCEPT ![u] = NewUser(c, task[c].role)]
          /\ staff' = [staff EXCEPT ![u] = "active"]
    BY <1>5 DEF CreateStaff, people
  <2>2. task[c].role \in RoleOfUser
    BY <1>1, <1>5 DEF CreateStaff, ALLOWED_STAFF_ROLES
  <2>3. NewAccount(u, NewUser(c, task[c].role))
    BY <1>1, <1>2, <1>5, <2>1, <2>2 DEF NewAccount, CreateStaff, Fresh
  <2> QED
    BY <1>1, <2>3, NewAccountKeeps
<1>6. ASSUME CreateParent(c), ~UNCHANGED people PROVE AccountInv'
  <2>1. PICK u \in Users :
          /\ Fresh(u) /\ PhoneIsFree(task[c].phone)
          /\ user' = [user EXCEPT ![u] = NewUser(c, "parent")]
          /\ parent' = parent \union {u}
    BY <1>6 DEF CreateParent, people
  <2>2. "parent" \in RoleOfUser
    BY DEF RoleOfUser
  <2>3. NewAccount(u, NewUser(c, "parent"))
    BY <1>1, <1>2, <1>6, <2>1, <2>2 DEF NewAccount, CreateParent, Fresh
  <2> QED
    BY <1>1, <2>3, NewAccountKeeps
<1> QED
  BY <1>3, <1>4, <1>5, <1>6

\* Steps that leave who is switched, by whom and to what as it is: columns of
\* rows that are there are written, no row comes and none goes.
LEMMA EditingKeeps ==
    ASSUME AccountInv, NEW c \in Clerks,
           \/ UNCHANGED <<clerk, task>>
           \/ clerk[c] # "switchStaff" /\ Answer(c),
           school' \in [Schools -> {"none", "active", "closed"}],
           \A h \in Schools : school'[h] = "none" <=> school[h] = "none",
           user' \in [Users -> UserRow],
           \A u \in Users :
              \/ user'[u] = user[u]
              \/ /\ Exists(u)
                 /\ user'[u].role # None /\ user'[u].school = user[u].school
                 /\ user'[u].active = user[u].active \/ staff[u] = "none"
                 /\ user'[u].phone \in Phones
                 /\ \A v \in Users \ {u} :
                       user'[u].phone # user[v].phone /\ user'[v].phone = user[v].phone,
           child' \subseteq parent \X Students,
           UNCHANGED <<staff, parent, apart>>
    PROVE  AccountInv'
<1>1. \A u \in Users : /\ Exists(u)' <=> Exists(u)
                       /\ user'[u].school = user[u].school
                       /\ user'[u].active = user[u].active \/ staff[u] = "none"
                       /\ ~Exists(u) => user'[u] = user[u]
                       /\ user'[u] # user[u] => user'[u].phone \in Phones
                       /\ Pupil(u)' <=> Pupil(u)
  BY DEF Exists, Pupil
<1>2. /\ clerk' \in [Clerks -> Calls] /\ task' \in [Clerks -> Task] /\ TaskOK'
      /\ \A d \in Clerks : clerk'[d] = "switchStaff" <=> clerk[d] = "switchStaff"
      /\ \A d \in Clerks : clerk[d] = "switchStaff" => task'[d] = task[d]
  <2>1. CASE UNCHANGED <<clerk, task>>
    BY <1>1, <2>1 DEF AccountInv, AccountsTyped, TaskOK, TaskFits, AtUser
  <2>2. CASE clerk[c] # "switchStaff" /\ Answer(c)
    BY <1>1, <2>2, AnswerFits
  <2> QED
    BY <2>1, <2>2
<1>3. AccountsTyped'
  BY <1>2 DEF AccountInv, AccountsTyped
<1>4. RowsOK'
  BY <1>1 DEF AccountInv, PeopleInv, RowsOK
<1>5. RowsTogether'
  <2>1. \A u, v \in Users : Exists(u)' /\ user'[u].phone = user'[v].phone => u = v
    <3>1. \A u, v \in Users : Exists(u) /\ user[u].phone = user[v].phone => u = v
      BY DEF AccountInv, PeopleInv, RowsTogether
    <3> QED
      BY <1>1, <3>1
  <2>2. \A h \in Schools : school'[h] # "none" => \E u \in Users : user'[u].school = h /\ staff'[u] # "none"
    BY <1>1 DEF AccountInv, PeopleInv, RowsTogether
  <2>3. \A u \in Users : Exists(u)' /\ ~Pupil(u)' => (staff'[u] # "none") # (u \in parent')
    BY <1>1 DEF AccountInv, PeopleInv, RowsTogether
  <2> QED
    BY <2>1, <2>2, <2>3 DEF RowsTogether
<1>6. SwitchInv'
  <2>1. \A d \in Clerks : clerk[d] = "switchStaff" => task[d].user \in Users
    BY DEF AccountInv, TaskOK, TaskFits, AtUser
  <2> QED
    BY <1>1, <1>2, <2>1 DEF AccountInv, SwitchInv
<1>7. \A v : Switching(v)' <=> Switching(v)
  BY <1>2 DEF Switching
<1>8. StaffFollowsUser'
  BY <1>1, <1>7 DEF AccountInv, StaffFollowsUser
<1> QED
  BY <1>2, <1>3, <1>4, <1>5, <1>6, <1>8 DEF AccountInv, PeopleInv

LEMMA ParentsNoStaff ==
    ASSUME AccountInv, NEW u \in parent
    PROVE  u \in Users /\ staff[u] = "none"
<1>1. u \in Users /\ (u \in parent) = TRUE
  BY DEF AccountInv, AccountsTyped
<1>2. Exists(u) /\ ~Pupil(u)
  BY <1>1 DEF AccountInv, PeopleInv, RowsOK
<1>3. (staff[u] # "none") # (u \in parent)
  BY <1>1, <1>2 DEF AccountInv, PeopleInv, RowsTogether
<1> QED
  BY <1>1, <1>3

\* The account of a pupil has no profile.
LEMMA PupilAccounts ==
    ASSUME AccountInv, NEW s \in Students, AccountOf[s] # None
    PROVE  AccountOf[s] \in Users /\ Exists(AccountOf[s]) /\ staff[AccountOf[s]] = "none"
<1>1. AccountOf[s] \in DOMAIN FirstUsers /\ FirstUsers[AccountOf[s]] = "student"
  BY MessagingAssumption
<1> QED
  BY <1>1, AccountsAssumption DEF AccountInv, PeopleInv, RowsOK, Pupil

LEMMA ColumnsKeep ==
    ASSUME AccountInv, NEW c \in Clerks,
           \/ WritePhone(c) \/ WriteRole(c) \/ DeleteLink(c)
           \/ \E h \in Schools : CloseSchool(c, h)
           \/ \E u \in parent, s \in Students : LinkStudent(c, u, s)
           \/ \E u \in Users, role \in NewRoles : EditStaffRole(c, u, role)
           \/ \E u \in parent : RemoveParent(c, u)
           \/ \E s \in Students : DeactivateStudent(c, s)
    PROVE  AccountInv'
<1>1. AccountsTyped
  BY DEF AccountInv
<1>2. \A u \in Users : staff[u] # "none" \/ u \in parent => Exists(u)
  BY DEF AccountInv, PeopleInv, RowsOK
<1>3. \A u \in parent : u \in Users /\ staff[u] = "none"
  BY ParentsNoStaff
<1>4. \A u, v \in Users : u # v /\ Exists(u) => user[u].phone # user[v].phone
  BY DEF AccountInv, PeopleInv, RowsTogether
<1>5. \A u \in Users : Exists(u) => user[u].phone \in Phones /\ user[u].role # None
  BY DEF AccountInv, PeopleInv, RowsOK, Exists
<1>6. CASE WritePhone(c)
  <2> DEFINE u == task[c].user
             f == task[c].phone
  <2>1. u \in Users /\ Exists(u) /\ f \in Phones /\ clerk[c] # "switchStaff"
    BY <1>6 DEF WritePhone, AccountInv, TaskOK, TaskFits, AtUser
  <2>2. CASE PhoneOfOther(c)
    BY <1>1, <1>6, <2>1, <2>2, AnsweringKeeps DEF WritePhone, people
  <2>3. CASE ~PhoneOfOther(c)
    <3>1. \A v \in Users \ {u} : user[v].phone # f
      BY <2>3 DEF PhoneOfOther
    <3>2. user' = [user EXCEPT ![u].phone = f]
      BY <1>6, <2>3 DEF WritePhone
    <3> HIDE DEF u, f
    <3>3. user' \in [Users -> UserRow]
      BY <1>1, <2>1, <3>2 DEF AccountsTyped, UserRow
    <3>4. /\ user'[u].role = user[u].role /\ user'[u].school = user[u].school
          /\ user'[u].active = user[u].active /\ user'[u].phone = f
          /\ \A v \in Users \ {u} : user'[v] = user[v]
      BY <1>1, <2>1, <3>2 DEF AccountsTyped, UserRow
    <3>5. UNCHANGED <<school, staff, parent, child, apart>> /\ Answer(c)
      BY <1>6 DEF WritePhone
    <3> QED
      BY <1>1, <1>5, <2>1, <3>1, <3>3, <3>4, <3>5, EditingKeeps DEF AccountsTyped
  <2> QED
    BY <2>2, <2>3
<1>7. ASSUME NEW u \in Users, Exists(u), NEW role \in RoleOfUser, user' = [user EXCEPT ![u].role = role],
             UNCHANGED <<school, staff, parent, child, apart>>,
             UNCHANGED <<clerk, task>> \/ (clerk[c] # "switchStaff" /\ Answer(c))
      PROVE  AccountInv'
  <2>1. role # None
    BY AccountsAssumption
  <2>2. user' \in [Users -> UserRow]
    BY <1>1, <1>7 DEF AccountsTyped, UserRow
  <2>3. /\ user'[u].role = role /\ user'[u].school = user[u].school
        /\ user'[u].active = user[u].active /\ user'[u].phone = user[u].phone
        /\ \A v \in Users \ {u} : user'[v] = user[v]
    BY <1>1, <1>7 DEF AccountsTyped, UserRow
  <2> QED
    BY <1>1, <1>4, <1>5, <1>7, <2>1, <2>2, <2>3, EditingKeeps DEF AccountsTyped
<1>8. CASE WriteRole(c)
  <2>1. /\ task[c].user \in Users /\ Exists(task[c].user) /\ clerk[c] # "switchStaff"
        /\ task[c].role \in RoleOfUser
    BY <1>1, <1>8 DEF WriteRole, AccountInv, TaskOK, TaskFits, AtUser, AccountsTyped, Task
  <2> QED
    BY <1>7, <1>8, <2>1 DEF WriteRole
<1>9. ASSUME NEW u \in Users, NEW role \in NewRoles, EditStaffRole(c, u, role) PROVE AccountInv'
  <2>1. role \in RoleOfUser
    BY AccountsAssumption
  <2> QED
    BY <1>2, <1>7, <1>9, <2>1 DEF EditStaffRole
<1>10. ASSUME NEW u \in Users,
              RemoveParent(c, u) \/ \E s \in Students : AccountOf[s] = u /\ DeactivateStudent(c, s)
       PROVE  AccountInv'
  <2>1. Exists(u) /\ staff[u] = "none"
    <3>1. CASE RemoveParent(c, u)
      BY <1>2, <1>3, <3>1 DEF RemoveParent
    <3>2. ASSUME NEW s \in Students, AccountOf[s] = u, DeactivateStudent(c, s)
          PROVE  Exists(u) /\ staff[u] = "none"
      BY <1>10, <3>2, PupilAccounts DEF DeactivateStudent
    <3> QED
      BY <1>10, <3>1, <3>2
  <2>2. /\ user' = [user EXCEPT ![u].active = FALSE]
        /\ UNCHANGED <<school, staff, parent, child, clerk, task, apart>>
    BY <1>10 DEF RemoveParent, DeactivateStudent
  <2>3. user' \in [Users -> UserRow]
    BY <1>1, <2>1, <2>2 DEF AccountsTyped, UserRow
  <2>4. /\ user'[u].role = user[u].role /\ user'[u].school = user[u].school
        /\ user'[u].phone = user[u].phone
        /\ \A v \in Users \ {u} : user'[v] = user[v]
    BY <1>1, <2>1, <2>2 DEF AccountsTyped, UserRow
  <2>5. \A v \in Users :
          \/ user'[v] = user[v]
          \/ /\ Exists(v)
             /\ user'[v].role # None /\ user'[v].school = user[v].school
             /\ user'[v].active = user[v].active \/ staff[v] = "none"
             /\ user'[v].phone \in Phones
             /\ \A x \in Users \ {v} :
                   user'[v].phone # user[x].phone /\ user'[x].phone = user[x].phone
    BY <1>4, <1>5, <2>1, <2>4
  <2>6. /\ school' \in [Schools -> {"none", "active", "closed"}]
        /\ child' \subseteq parent \X Students
    BY <1>1, <2>2 DEF AccountsTyped
  <2> QED
    BY <2>2, <2>3, <2>5, <2>6, EditingKeeps
<1>11. CASE DeleteLink(c)
  BY <1>1, <1>11, EditingKeeps DEF DeleteLink, AccountsTyped
<1>12. ASSUME NEW h \in Schools, CloseSchool(c, h) PROVE AccountInv'
  <2>1. /\ school' = [school EXCEPT ![h] = "closed"] /\ school[h] = "active"
        /\ UNCHANGED <<user, staff, parent, child, clerk, task, apart>>
    BY <1>12 DEF CloseSchool
  <2> QED
    BY <1>1, <2>1, EditingKeeps DEF AccountsTyped
<1>13. ASSUME NEW u \in parent, NEW s \in Students, LinkStudent(c, u, s) PROVE AccountInv'
  BY <1>1, <1>13, EditingKeeps DEF LinkStudent, AccountsTyped
<1>14. ASSUME NEW s \in Students, DeactivateStudent(c, s) PROVE AccountInv'
  <2>1. AccountOf[s] \in Users
    BY <1>14, PupilAccounts DEF DeactivateStudent
  <2> QED
    BY <1>10, <1>14, <2>1
<1>15. \A u \in parent : u \in Users
  BY <1>3
<1> QED
  BY <1>6, <1>8, <1>9, <1>10, <1>11, <1>12, <1>13, <1>14, <1>15

-----------------------------------------------------------------------------
(* The two switches.                                                        *)

LEMMA CrossedTask ==
    ASSUME AccountInv, NEW u, NEW d \in Clerks
    PROVE  /\ Crossed(u)[d] \in Task
           /\ \A k : TaskFits(k, task[d]) <=> TaskFits(k, Crossed(u)[d])
           /\ Crossed(u)[d].user = task[d].user /\ Crossed(u)[d].to = task[d].to
           /\ clerk[d] = "switchStaff" /\ task[d].user = u => Crossed(u)[d].crossed
           /\ ~(clerk[d] = "switchStaff" /\ task[d].user = u) => Crossed(u)[d] = task[d]
<1>1. task[d] \in Task
  BY DEF AccountInv, AccountsTyped
<1>2. CASE clerk[d] = "switchStaff" /\ task[d].user = u
  <2> DEFINE r == [task[d] EXCEPT !.crossed = TRUE]
  <2>1. Crossed(u)[d] = r
    BY <1>2 DEF Crossed
  <2>2. /\ r \in Task /\ r.user = task[d].user /\ r.to = task[d].to /\ r.school = task[d].school
        /\ r.phone = task[d].phone /\ r.role = task[d].role /\ r.crossed
    BY <1>1 DEF Task
  <2> HIDE DEF r
  <2> QED
    BY <1>2, <2>1, <2>2 DEF TaskFits
<1>3. CASE ~(clerk[d] = "switchStaff" /\ task[d].user = u)
  <2>1. Crossed(u)[d] = task[d]
    BY <1>3 DEF Crossed
  <2> QED
    BY <1>1, <1>3, <2>1
<1> QED
  BY <1>2, <1>3

\* A step of request c on user u: it may write either switch, begin or end the
\* stretch between them, and tells those in theirs.
SwitchStep(c, u) ==
    /\ u \in Users /\ Exists(u)
    /\ \E b \in BOOLEAN : user' \in {user, [user EXCEPT ![u].active = b]}
    /\ staff' \in [Users -> {"none", "active", "inactive"}]
    /\ \A v \in Users : v # u => staff'[v] = staff[v]
    /\ staff'[u] = "none" <=> staff[u] = "none"
    /\ apart' \in {apart, apart \union {u}, apart \ {u}}
    /\ UNCHANGED <<school, parent, child>>
    /\ clerk' \in [Clerks -> Calls] /\ task' \in [Clerks -> Task]
    /\ \A d \in Clerks : d # c => clerk'[d] = clerk[d] /\ task'[d] \in {task[d], Crossed(u)[d]}
    /\ \/ user' = user /\ clerk'[c] # "switchStaff"
       \/ \A d \in Clerks : d # c => task'[d] = Crossed(u)[d]
    /\ TaskFits(clerk'[c], task'[c])
    /\ clerk[c] = "switchStaff" => task[c].user = u
    /\ clerk'[c] = "switchStaff" =>
          /\ task'[c].user = u
          /\ ~task'[c].crossed =>
                /\ user'[u].active = task'[c].to
                /\ \A d \in Clerks : clerk[d] = "switchStaff" /\ task[d].user = u => d = c
    /\ staff'[u] # "none" /\ ~Switching(u)' /\ u \notin apart' =>
          (staff'[u] = "active") = user'[u].active

LEMMA SwitchStepKeeps ==
    ASSUME AccountInv, NEW c \in Clerks, NEW u, SwitchStep(c, u)
    PROVE  AccountInv'
<1>1. user' \in [Users -> UserRow]
  BY DEF SwitchStep, AccountInv, AccountsTyped, UserRow
<1>2. /\ \A v \in Users : v # u => user'[v] = user[v]
      /\ \A v \in Users : user'[v].role = user[v].role /\ user'[v].school = user[v].school
                          /\ user'[v].phone = user[v].phone
  BY DEF SwitchStep, AccountInv, AccountsTyped, UserRow
<1>3. \A v \in Users : /\ Exists(v)' <=> Exists(v)
                       /\ Pupil(v)' <=> Pupil(v)
                       /\ ~Exists(v) => user'[v] = user[v]
                       /\ staff'[v] = "none" <=> staff[v] = "none"
  BY <1>2 DEF Exists, Pupil, SwitchStep
<1>4. AccountsTyped'
  BY <1>1 DEF AccountInv, AccountsTyped, SwitchStep
<1>5. RowsOK'
  BY <1>2, <1>3 DEF AccountInv, PeopleInv, RowsOK, SwitchStep
<1>6. RowsTogether'
  BY <1>2, <1>3 DEF AccountInv, PeopleInv, RowsTogether, SwitchStep
<1>7. \A d \in Clerks : d # c =>
         /\ clerk'[d] = clerk[d]
         /\ task'[d].user = task[d].user /\ task'[d].to = task[d].to
         /\ TaskFits(clerk[d], task'[d])
         /\ ~task'[d].crossed /\ clerk[d] = "switchStaff" =>
               /\ ~task[d].crossed
               /\ task[d].user = u => user' = user /\ clerk'[c] # "switchStaff"
  <2>1. TAKE d \in Clerks
  <2>2. HAVE d # c
  <2>3. task'[d] \in {task[d], Crossed(u)[d]} /\ clerk'[d] = clerk[d]
    BY <2>2 DEF SwitchStep
  <2>4. TaskFits(clerk[d], task[d])
    BY DEF AccountInv, TaskOK
  <2>5. CASE task'[d] = Crossed(u)[d]
    BY <2>3, <2>4, <2>5, CrossedTask
  <2>6. CASE task'[d] = task[d] /\ task[d] # Crossed(u)[d]
    BY <2>2, <2>3, <2>4, <2>6 DEF SwitchStep
  <2> QED
    BY <2>3, <2>5, <2>6
<1>8. TaskOK'
  BY <1>3, <1>7 DEF TaskOK, TaskFits, SwitchStep
<1>9. SwitchInv'
  <2>1. ASSUME NEW d \in Clerks, clerk'[d] = "switchStaff", ~task'[d].crossed
        PROVE  /\ staff'[task'[d].user] # "none" => user'[task'[d].user].active = task'[d].to
               /\ \A e \in Clerks : clerk'[e] = "switchStaff" /\ task'[e].user = task'[d].user => d = e
    <3>1. CASE d = c
      BY <1>7, <2>1, <3>1 DEF SwitchStep
    <3>2. CASE d # c
      <4>1. /\ clerk[d] = "switchStaff" /\ ~task[d].crossed /\ task'[d].user = task[d].user
            /\ task'[d].to = task[d].to
            /\ task[d].user \in Users
            /\ task[d].user = u => user' = user /\ clerk'[c] # "switchStaff"
        BY <1>7, <2>1, <3>2 DEF AccountInv, TaskOK, TaskFits, AtUser
      <4>2. staff'[task'[d].user] # "none" => user'[task'[d].user].active = task'[d].to
        BY <1>2, <1>3, <4>1 DEF AccountInv, SwitchInv
      <4>3. \A e \in Clerks : clerk'[e] = "switchStaff" /\ task'[e].user = task'[d].user => d = e
        <5>1. TAKE e \in Clerks
        <5>2. HAVE clerk'[e] = "switchStaff" /\ task'[e].user = task'[d].user
        <5>3. CASE e = c
          BY <4>1, <5>2, <5>3 DEF SwitchStep
        <5>4. CASE e # c
          BY <1>7, <4>1, <5>2, <5>4 DEF AccountInv, SwitchInv
        <5> QED
          BY <5>3, <5>4
      <4> QED
        BY <4>2, <4>3
    <3> QED
      BY <3>1, <3>2
  <2> QED
    BY <2>1 DEF SwitchInv
<1>10. StaffFollowsUser'
  <2>1. \A v \in Users : v # u => (Switching(v)' <=> Switching(v))
    BY <1>7 DEF Switching, SwitchStep
  <2>2. \A v \in Users : v # u => (v \in apart' <=> v \in apart) /\ staff'[v] = staff[v]
    BY DEF SwitchStep
  <2>3. staff'[u] # "none" /\ ~Switching(u)' /\ u \notin apart' =>
          (staff'[u] = "active") = user'[u].active
    BY DEF SwitchStep
  <2> QED
    BY <1>2, <2>1, <2>2, <2>3 DEF AccountInv, StaffFollowsUser
<1> QED
  BY <1>4, <1>5, <1>6, <1>8, <1>9, <1>10 DEF AccountInv, PeopleInv

LEMMA SwitchingSteps ==
    ASSUME AccountInv, NEW c \in Clerks, NEW u, u = task[c].user,
           \/ WriteActive(c) \/ SwitchUser(c) \/ SwitchStaff(c)
           \/ clerk[c] = "switchStaff" /\ LeaveOff(c)
    PROVE  SwitchStep(c, u)
<1>1. AccountsTyped
  BY DEF AccountInv
<1>2. /\ u \in Users /\ Exists(u)
      /\ task[c] \in Task /\ task[c].to \in BOOLEAN
      /\ TaskFits(clerk[c], task[c])
  BY <1>1 DEF WriteActive, SwitchUser, SwitchStaff, AccountInv, TaskOK, TaskFits, AtUser, AccountsTyped,
              Task
<1>3. TaskFits("idle", NoTask) /\ NoTask \in Task
  BY NoTaskTyped DEF TaskFits, AtUser
<1>4. \A d \in Clerks : Crossed(u)[d] \in Task
  BY CrossedTask
<1>5. DOMAIN Crossed(u) = Clerks
  BY DEF Crossed
<1>6. (clerk[c] = "switchStaff" => task[c].user = u)
  OBVIOUS
<1>7. CASE WriteActive(c)
  <2>1. /\ user' = [user EXCEPT ![u].active = task[c].to]
        /\ apart' = apart \union {u}
        /\ task' = [Crossed(u) EXCEPT ![c] = NoTask]
        /\ clerk' = [clerk EXCEPT ![c] = "idle"]
        /\ UNCHANGED <<school, staff, parent, child>>
    BY <1>7 DEF WriteActive, Await
  <2>2. /\ clerk' \in [Clerks -> Calls] /\ task' \in [Clerks -> Task]
        /\ clerk'[c] = "idle" /\ task'[c] = NoTask
        /\ \A d \in Clerks : d # c => clerk'[d] = clerk[d] /\ task'[d] = Crossed(u)[d]
    BY <1>1, <1>3, <1>4, <1>5, <2>1 DEF AccountsTyped, Calls
  <2> QED
    BY <1>1, <1>2, <1>3, <1>6, <2>1, <2>2 DEF SwitchStep, AccountsTyped
<1>8. CASE SwitchUser(c)
  <2> DEFINE crossed == \E d \in Clerks : clerk[d] = "switchStaff" /\ task[d].user = u
             r == [task[c] EXCEPT !.crossed = crossed]
  <2>1. /\ user' = [user EXCEPT ![u].active = task[c].to]
        /\ task' = [Crossed(u) EXCEPT ![c] = r]
        /\ clerk' = [clerk EXCEPT ![c] = "switchStaff"]
        /\ UNCHANGED <<school, staff, parent, child, apart>>
    BY <1>8 DEF SwitchUser, Await
  <2>2. /\ r \in Task /\ r.user = u /\ r.to = task[c].to /\ (r.crossed <=> crossed)
    BY <1>2 DEF Task
  <2>3. /\ clerk' \in [Clerks -> Calls] /\ task' \in [Clerks -> Task]
        /\ clerk'[c] = "switchStaff" /\ task'[c] = r
        /\ \A d \in Clerks : d # c => clerk'[d] = clerk[d] /\ task'[d] = Crossed(u)[d]
    <3> HIDE DEF r
    <3> QED
      BY <1>1, <1>4, <1>5, <2>1, <2>2 DEF AccountsTyped, Calls
  <2>4. TaskFits("switchStaff", r)
    <3> HIDE DEF r
    <3> QED
      BY <1>2, <2>2 DEF TaskFits, AtUser
  <2>5. user'[u].active = task[c].to
    BY <1>1, <1>2, <2>1 DEF AccountsTyped, UserRow
  <2>6. Switching(u)'
    BY <2>2, <2>3 DEF Switching
  <2>7. ~r.crossed => \A d \in Clerks : clerk[d] = "switchStaff" /\ task[d].user = u => d = c
    BY <2>2
  <2> HIDE DEF r, crossed
  <2> QED
    BY <1>1, <1>2, <1>6, <2>1, <2>2, <2>3, <2>4, <2>5, <2>6, <2>7 DEF SwitchStep, AccountsTyped
<1>9. CASE SwitchStaff(c)
  <2>1. /\ staff' = IF staff[u] = "none" THEN staff
                      ELSE [staff EXCEPT ![u] = IF task[c].to THEN "active" ELSE "inactive"]
        /\ apart' = IF task[c].crossed THEN apart \union {u} ELSE apart \ {u}
        /\ task' = [Crossed(u) EXCEPT ![c] = NoTask]
        /\ clerk' = [clerk EXCEPT ![c] = "idle"]
        /\ UNCHANGED <<school, user, parent, child>>
    BY <1>9 DEF SwitchStaff, Await
  <2>2. /\ clerk' \in [Clerks -> Calls] /\ task' \in [Clerks -> Task]
        /\ clerk'[c] = "idle" /\ task'[c] = NoTask
        /\ \A d \in Clerks : d # c => clerk'[d] = clerk[d] /\ task'[d] = Crossed(u)[d]
    BY <1>1, <1>3, <1>4, <1>5, <2>1 DEF AccountsTyped, Calls
  <2>3. /\ staff' \in [Users -> {"none", "active", "inactive"}]
        /\ \A v \in Users : v # u => staff'[v] = staff[v]
        /\ staff'[u] = "none" <=> staff[u] = "none"
    BY <1>1, <1>2, <2>1 DEF AccountsTyped
  <2>4. ~task[c].crossed /\ staff[u] # "none" => (staff'[u] = "active") = user'[u].active
    <3>1. clerk[c] = "switchStaff"
      BY <1>9 DEF SwitchStaff
    <3>2. ~task[c].crossed /\ staff[u] # "none" => user[u].active = task[c].to
      BY <3>1 DEF AccountInv, SwitchInv
    <3>3. staff[u] # "none" => staff'[u] = IF task[c].to THEN "active" ELSE "inactive"
      BY <1>1, <1>2, <2>1 DEF AccountsTyped
    <3> QED
      BY <1>2, <2>1, <3>2, <3>3
  <2> QED
    BY <1>1, <1>2, <1>3, <1>6, <2>1, <2>2, <2>3, <2>4 DEF SwitchStep, AccountsTyped
<1>10. CASE clerk[c] = "switchStaff" /\ LeaveOff(c)
  <2>1. /\ apart' = apart \union {u} /\ Answer(c)
        /\ UNCHANGED <<school, user, staff, parent, child>>
    BY <1>10 DEF LeaveOff, people
  <2>2. /\ clerk' \in [Clerks -> Calls] /\ task' \in [Clerks -> Task]
        /\ clerk'[c] = "idle" /\ task'[c] = NoTask
        /\ \A d \in Clerks : d # c => clerk'[d] = clerk[d] /\ task'[d] = task[d]
    BY <1>1, <1>3, <2>1 DEF Answer, Await, AccountsTyped, Calls
  <2> QED
    BY <1>1, <1>2, <1>3, <1>6, <2>1, <2>2 DEF SwitchStep, AccountsTyped
<1> QED
  BY <1>7, <1>8, <1>9, <1>10

LEMMA RemovingStaff ==
    ASSUME AccountInv, NEW c \in Clerks, clerk[c] = "idle", NEW u \in Users, RemoveStaff(c, u)
    PROVE  SwitchStep(c, u)
<1>1. AccountsTyped
  BY DEF AccountInv
<1>2. Exists(u)
  BY DEF AccountInv, PeopleInv, RowsOK, RemoveStaff
<1>3. /\ task'[c] = task[c] /\ task' \in [Clerks -> Task]
      /\ \A d \in Clerks : task'[d] = Crossed(u)[d]
  <2>1. task' = Crossed(u) /\ DOMAIN Crossed(u) = Clerks
    BY DEF RemoveStaff, Crossed
  <2>2. \A d \in Clerks : Crossed(u)[d] \in Task
    BY CrossedTask
  <2>3. task' = [d \in Clerks |-> task'[d]]
    BY <2>1 DEF Crossed
  <2> QED
    BY <2>1, <2>2, <2>3, CrossedTask
<1>4. TaskFits(clerk'[c], task'[c]) /\ clerk'[c] = "idle"
  BY <1>3 DEF RemoveStaff, TaskFits, AtUser
<1>5. /\ user' = [user EXCEPT ![u].active = FALSE]
      /\ staff' = [staff EXCEPT ![u] = "inactive"] /\ staff[u] # "none"
      /\ UNCHANGED <<school, parent, child, clerk>> /\ apart' = apart \ {u}
  BY DEF RemoveStaff
<1>6. user'[u].active = FALSE /\ staff'[u] = "inactive"
  BY <1>1, <1>5 DEF AccountsTyped, UserRow
<1> QED
  BY <1>1, <1>2, <1>3, <1>4, <1>5, <1>6 DEF SwitchStep, AccountsTyped

\* The process dies between any two calls of anybody.
LEMMA RestartKeepsAccounts == ASSUME AccountInv, Restart PROVE AccountInv'
<1>1. /\ UNCHANGED <<school, user, staff, parent, child>>
      /\ apart' = apart \union {u \in Users : Switching(u)}
      /\ clerk' = [c \in Clerks |-> "idle"] /\ task' = [c \in Clerks |-> NoTask]
  BY DEF Restart, people
<1>2. AccountsTyped'
  BY <1>1, NoTaskTyped DEF AccountInv, AccountsTyped, Calls
<1>3. PeopleInv'
  BY <1>1 DEF AccountInv, PeopleInv, RowsOK, RowsTogether, Exists
<1>4. TaskOK' /\ SwitchInv'
  BY <1>1 DEF TaskOK, TaskFits, SwitchInv, AtUser
<1>5. StaffFollowsUser'
  BY <1>1 DEF AccountInv, StaffFollowsUser
<1> QED
  BY <1>2, <1>3, <1>4, <1>5 DEF AccountInv

LEMMA AccountStep == AccountInv /\ [Next]_officeVars => AccountInv'
<1> SUFFICES ASSUME AccountInv, [Next]_officeVars PROVE AccountInv'
  OBVIOUS
<1>1. CASE UNCHANGED accountVars
  BY <1>1 DEF accountVars, AccountInv, AccountsTyped, PeopleInv, RowsOK, RowsTogether, TaskOK, TaskFits,
              SwitchInv, StaffFollowsUser, Switching, Exists
<1>2. ASSUME NEW c \in Clerks, AskAccounts(c) PROVE AccountInv'
  <2>1. clerk[c] = "idle"
    BY <1>2 DEF AskAccounts, Begin
  <2>2. parent \subseteq Users
    BY DEF AccountInv, AccountsTyped
  <2>3. CASE AskSchools(c)
    BY <2>1, <2>3, AskingSchools, ColumnsKeep DEF AskSchools
  <2>4. CASE AskUsers(c)
    BY <2>1, <2>4, AskingUsers
  <2>5. CASE AskStaff(c)
    <3>1. ASSUME NEW h \in Served, NEW f \in Phones, NEW role \in NewRoles, AddStaff(c, h, f, role)
          PROVE  AccountInv'
      BY <2>1, <3>1, AskingStaff
    <3>2. ASSUME NEW u \in Users, RemoveStaff(c, u) PROVE AccountInv'
      BY <2>1, <3>2, RemovingStaff, SwitchStepKeeps
    <3> QED
      BY <2>5, <3>1, <3>2, ColumnsKeep DEF AskStaff
  <2>6. CASE AskParents(c)
    <3>1. ASSUME NEW h \in Served, NEW f \in Phones, AddParent(c, h, f) PROVE AccountInv'
      BY <2>1, <3>1, AddingParents
    <3>2. ASSUME NEW u \in Users, NEW s \in Students, FindLink(c, u, s) PROVE AccountInv'
      BY <2>1, <3>2, FindingLinks
    <3> QED
      BY <2>2, <2>6, <3>1, <3>2, ColumnsKeep DEF AskParents
  <2> QED
    BY <1>2, <2>3, <2>4, <2>5, <2>6 DEF AskAccounts
<1>3. ASSUME NEW c \in Clerks, FindConflict(c) PROVE AccountInv'
  <2>1. clerk[c] = "conflict" /\ UNCHANGED <<people, apart>>
    BY <1>3 DEF FindConflict
  <2>2. CASE Answer(c)
    BY <2>1, <2>2, AnsweringKeeps
  <2>3. CASE Await(c, "phone") /\ UNCHANGED task
    <3>1. task[c] \in Task /\ TaskFits("phone", task[c])
      BY <2>1 DEF AccountInv, AccountsTyped, TaskOK, TaskFits, AtUser
    <3>2. task' = [task EXCEPT ![c] = task[c]]
      BY <2>3 DEF AccountInv, AccountsTyped
    <3> QED
      BY <2>1, <2>3, <3>1, <3>2, LookingKeeps DEF Await, Calls
  <2> QED
    BY <1>3, <2>2, <2>3 DEF FindConflict
<1>4. ASSUME NEW c \in Clerks, ProceedAccounts(c) PROVE AccountInv'
  <2>1. PICK u : u = task[c].user
    OBVIOUS
  <2>2. WriteActive(c) \/ SwitchUser(c) \/ SwitchStaff(c) => SwitchStep(c, u)
    BY <2>1, SwitchingSteps
  <2> QED
    BY <1>3, <1>4, <2>2, CreatingKeeps, ColumnsKeep, SwitchStepKeeps DEF ProceedAccounts
<1>5. ASSUME NEW c \in Clerks, LeaveOff(c) PROVE AccountInv'
  <2>1. CASE clerk[c] = "switchStaff"
    <3>1. PICK u : u = task[c].user
      OBVIOUS
    <3> QED
      BY <1>5, <2>1, <3>1, SwitchingSteps, SwitchStepKeeps
  <2>2. CASE clerk[c] # "switchStaff"
    BY <1>5, <2>2, AnsweringKeeps DEF LeaveOff
  <2> QED
    BY <2>1, <2>2
<1>6. ASSUME NEW c \in Clerks, NEW w \in Logins, Register(c, w) PROVE AccountInv'
  BY <1>6, CreatingKeeps DEF Register
<1>7. ASSUME NEW c \in Clerks, AskStudents(c) PROVE AccountInv'
  <2>1. PICK s \in Students : DeactivateStudent(c, s)
    BY <1>7 DEF AskStudents
  <2> QED
    BY <2>1, ColumnsKeep
<1> QED
  BY <1>1, <1>2, <1>4, <1>5, <1>6, <1>7, RestartKeepsAccounts DEF Next, AccountsNext, officeVars

LEMMA AccountsAlways == Spec => []AccountInv
  BY AccountInit, AccountStep, PTL DEF Spec

\* A phone belongs to one user although creations look for it in their own
\* school only and run side by side, an account has the one profile it was
\* made with, and an open school has an account: the unique index of
\* users.phone and the transactions of schools, staff and parents see to it
\* (schema.prisma; schools.service.ts, onboard; staff.service.ts and
\* parents.service.ts, create).
THEOREM RowsStayTogether == Spec => []RowsTogether
<1>1. AccountInv => RowsTogether
  BY DEF AccountInv, PeopleInv
<1> QED
  BY <1>1, AccountsAlways, PTL

\* The staff row says what the user row says (users.service.ts, deactivate and
\* reactivate; staff.service.ts, remove), however many requests switch however
\* many users, unless two of them switched one user at the same time, one died
\* between its two writes, or an edit wrote the user row alone.
THEOREM StaffFollowsUsers == Spec => []StaffFollowsUser
<1>1. AccountInv => StaffFollowsUser
  BY DEF AccountInv
<1> QED
  BY <1>1, AccountsAlways, PTL
===============================================================================
