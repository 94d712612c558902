------------------------------- MODULE Accounts -------------------------------
(***************************************************************************)
(* The people of a school: onboarding (schools.service.ts), the user       *)
(* accounts (users.service.ts) and the two profiles an account can have,   *)
(* staff (staff.service.ts) and parent (parents.service.ts), with the      *)
(* links between parents and pupils.                                       *)
(*                                                                         *)
(* An action is one database call and the code up to the next `await`;     *)
(* requests run side by side, one per clerk.  Lookups that follow each     *)
(* other and are decided again by a unique index, or that ask for rows     *)
(* nothing deletes, are one action.  A request that is refused at its      *)
(* first lookups changes nothing and is not an action.                     *)
(***************************************************************************)
EXTENDS Integers, FiniteSets

CONSTANTS
    Clerks,      \* requests about accounts the process may have in flight
    Users,       \* identities of rows of table users
    Schools,
    Phones,
    Students,
    None,        \* null
    FirstSchool, \* the school there is at the start
    FirstUsers,  \* its users, as a function to their role
    FirstPhone,  \* and to their phone
    NewRoles,    \* roles that requests ask for
    Agendas      \* bound: how many requests of each kind a behaviour has

RoleOfUser == {"admin", "class_teacher", "subject_teacher", "parent", "student",
               "principal", "vice_principal", "bursar", "counsellor"}

ALLOWED_STAFF_ROLES == RoleOfUser \ {"parent", "student"}

Budget == [accounts : Nat, sessions : Nat, mail : Nat, deaths : Nat]

ASSUME AccountsAssumption ==
    /\ None \notin Users \union Schools \union Phones \union Students \union RoleOfUser
    /\ FirstSchool \in Schools
    /\ DOMAIN FirstUsers \subseteq Users
    /\ FirstUsers \in [DOMAIN FirstUsers -> RoleOfUser]
    /\ FirstPhone \in [DOMAIN FirstUsers -> Phones]
    /\ \A u, v \in DOMAIN FirstUsers : FirstPhone[u] = FirstPhone[v] => u = v
    /\ \E u \in DOMAIN FirstUsers : FirstUsers[u] = "admin"  \* onboarding makes one
    /\ NewRoles \subseteq RoleOfUser
    /\ Agendas \subseteq Budget

VARIABLES
    school,   \* table schools: whether a row is there and isActive
    user,     \* table users
    staff,    \* table staff, by userId: whether a row is there and isActive
    parent,   \* table parents, by userId
    child,    \* table parent_student
    clerk,    \* the next database call of each request
    task,     \* the local variables of each request
    apart,    \* history: users whose staff row may be switched otherwise
    budget    \* requests a behaviour still has

people == <<school, user, staff, parent, child>>
accountVars == <<school, user, staff, parent, child, clerk, task, apart>>

NoUser == [role |-> None, school |-> None, phone |-> None, active |-> FALSE]

UserRow == [role   : RoleOfUser \union {None}, school : Schools \union {None},
            phone  : Phones \union {None},     active : BOOLEAN]

NoTask == [user |-> None, school |-> None, phone |-> None, role |-> None, student |-> None,
           to |-> FALSE, crossed |-> FALSE]

Task == [user    : Users \union {None},    school : Schools \union {None},
         phone   : Phones \union {None},   role   : RoleOfUser \union {None},
         student : Students \union {None}, to     : BOOLEAN,
         crossed : BOOLEAN]

AccountTypeOK ==
    /\ school \in [Schools -> {"none", "active", "closed"}]
    /\ user \in [Users -> UserRow]
    /\ staff \in [Users -> {"none", "active", "inactive"}]
    /\ parent \subseteq Users
    /\ child \subseteq parent \X Students
    /\ clerk \in [Clerks -> {"idle", "onboard", "staff", "parent", "unlink", "conflict",
                             "phone", "edit", "switchUser", "switchStaff"}]
    /\ task \in [Clerks -> Task]
    /\ apart \subseteq Users
    /\ budget \in Budget

AccountsInit ==
    /\ school = [h \in Schools |-> IF h = FirstSchool THEN "active" ELSE "none"]
    /\ user = [u \in Users |->
          IF u \in DOMAIN FirstUsers
            THEN [role |-> FirstUsers[u], school |-> FirstSchool, phone |-> FirstPhone[u], active |-> TRUE]
            ELSE NoUser]
    /\ staff = [u \in Users |->
          IF u \in DOMAIN FirstUsers /\ FirstUsers[u] \in ALLOWED_STAFF_ROLES THEN "active" ELSE "none"]
    /\ parent = {u \in DOMAIN FirstUsers : FirstUsers[u] = "parent"}
    /\ child \in SUBSET (parent \X Students)
    /\ clerk = [c \in Clerks |-> "idle"]
    /\ task = [c \in Clerks |-> NoTask]
    /\ apart = {}
    /\ budget \in Agendas

Spend(kind) == budget[kind] > 0 /\ budget' = [budget EXCEPT ![kind] = @ - 1]

Begin(c) == clerk[c] = "idle" /\ Spend("accounts")

Await(c, call) == clerk' = [clerk EXCEPT ![c] = call]

Answer(c) == Await(c, "idle") /\ task' = [task EXCEPT ![c] = NoTask]

Exists(u) == user[u].role # None

\* The next user row; which one is of no consequence.
Fresh(u) == ~Exists(u) /\ u = CHOOSE v \in Users : ~Exists(v)

\* JwtAuthGuard and jwt.strategy.validate: the account of the caller's token is
\* there and active.
Authenticated(u) == Exists(u) /\ user[u].active

\* The role check of a route, in the controller.
AssertAdmin(u) == user[u].role = "admin"

\* users.phone is unique over all schools.
PhoneIsFree(f) == \A u \in Users : user[u].phone # f

\* What a service looks for before it adds an account: a user of this school.
PhoneInSchool(h, f) == \E u \in Users : user[u].phone = f /\ user[u].school = h

NewUser(c, role) == [role |-> role, school |-> task[c].school, phone |-> task[c].phone, active |-> TRUE]

-----------------------------------------------------------------------------
(* schools.service.ts                                                       *)

\* onboard: no school with this code and no user, of any school, with this
\* phone.
Onboard(c, h, f) ==
    /\ school[h] = "none"
    /\ PhoneIsFree(f)
    /\ task' = [task EXCEPT ![c].school = h, ![c].phone = f]
    /\ Await(c, "onboard")
    /\ UNCHANGED <<people, apart>>

\* One transaction: the school, its administrator, the staff row (and the
\* default classes).  A unique index that refuses is answered as a conflict.
CreateSchool(c) ==
    /\ clerk[c] = "onboard"
    /\ IF school[task[c].school] = "none" /\ PhoneIsFree(task[c].phone)
         THEN \E u \in Users :
                 /\ Fresh(u)
                 /\ school' = [school EXCEPT ![task[c].school] = "active"]
                 /\ user' = [user EXCEPT ![u] = NewUser(c, "admin")]
                 /\ staff' = [staff EXCEPT ![u] = "active"]
         ELSE UNCHANGED <<school, user, staff>>
    /\ Answer(c)
    /\ UNCHANGED <<parent, child, apart, budget>>

\* deactivate, by an admin of the school (update and uploadLogo write plain
\* columns).  Closing a school touches no user of it.
CloseSchool(c, h) ==
    /\ school[h] = "active"
    /\ school' = [school EXCEPT ![h] = "closed"]
    /\ UNCHANGED <<user, staff, parent, child, clerk, task, apart>>

-----------------------------------------------------------------------------
(* staff.service.ts and parents.service.ts                                  *)

\* create: the role is one of a staff member, and no user of the school has the
\* phone.
AddStaff(c, h, f, role) ==
    /\ role \in ALLOWED_STAFF_ROLES
    /\ ~PhoneInSchool(h, f)
    /\ task' = [task EXCEPT ![c].school = h, ![c].phone = f, ![c].role = role]
    /\ Await(c, "staff")
    /\ UNCHANGED <<people, apart>>

\* Mutant of CreateStaff: the index is not there, the lookup alone decides.
CreateStaffUnchecked(c) ==
    /\ clerk[c] = "staff"
    /\ \E u \in Users :
          /\ Fresh(u)
          /\ user' = [user EXCEPT ![u] = NewUser(c, task[c].role)]
          /\ staff' = [staff EXCEPT ![u] = "active"]
    /\ Answer(c)
    /\ UNCHANGED <<school, parent, child, apart, budget>>

\* One transaction: the user and the staff row, unless the index refuses.
CreateStaff(c) ==
    /\ clerk[c] = "staff"
    /\ IF PhoneIsFree(task[c].phone)
         THEN \E u \in Users :
                 /\ Fresh(u)
                 /\ user' = [user EXCEPT ![u] = NewUser(c, task[c].role)]
                 /\ staff' = [staff EXCEPT ![u] = "active"]
         ELSE UNCHANGED <<user, staff>>
    /\ Answer(c)
    /\ UNCHANGED <<school, parent, child, apart, budget>>

AddParent(c, h, f) ==
    /\ ~PhoneInSchool(h, f)
    /\ task' = [task EXCEPT ![c].school = h, ![c].phone = f]
    /\ Await(c, "parent")
    /\ UNCHANGED <<people, apart>>

CreateParent(c) ==
    /\ clerk[c] = "parent"
    /\ IF PhoneIsFree(task[c].phone)
         THEN \E u \in Users :
                 /\ Fresh(u)
                 /\ user' = [user EXCEPT ![u] = NewUser(c, "parent")]
                 /\ parent' = parent \union {u}
         ELSE UNCHANGED <<user, parent>>
    /\ Answer(c)
    /\ UNCHANGED <<school, staff, child, apart, budget>>

\* linkStudent: an upsert, the relationship is a plain column.
LinkStudent(c, u, s) ==
    /\ u \in parent
    /\ child' = child \union {<<u, s>>}
    /\ UNCHANGED <<school, user, staff, parent, clerk, task, apart>>

\* unlinkStudent: the link is looked up, then deleted; a second deletion of the
\* same link fails.
FindLink(c, u, s) ==
    /\ <<u, s>> \in child
    /\ task' = [task EXCEPT ![c].user = u, ![c].student = s]
    /\ Await(c, "unlink")
    /\ UNCHANGED <<people, apart>>

DeleteLink(c) ==
    /\ clerk[c] = "unlink"
    /\ child' = child \ {<<task[c].user, task[c].student>>}
    /\ Answer(c)
    /\ UNCHANGED <<school, user, staff, parent, apart, budget>>

-----------------------------------------------------------------------------
(* users.service.ts, and what staff and parents do to the user row.         *)

\* update, phone: an admin edits any active user of the school, others
\* themselves.
EditPhone(c, u, caller, f) ==
    /\ user[u].active
    /\ AssertAdmin(caller) \/ u = caller
    /\ task' = [task EXCEPT ![c].user = u, ![c].phone = f]
    /\ Await(c, "conflict")
    /\ UNCHANGED <<people, apart>>

PhoneOfOther(c) == \E u \in Users \ {task[c].user} : user[u].phone = task[c].phone

FindConflict(c) ==
    /\ clerk[c] = "conflict"
    /\ IF \E u \in Users \ {task[c].user} :
             user[u].phone = task[c].phone /\ user[u].school = user[task[c].user].school
         THEN Answer(c)
         ELSE Await(c, "phone") /\ UNCHANGED task
    /\ UNCHANGED <<people, apart, budget>>

\* The update, unless the unique index refuses.
WritePhone(c) ==
    /\ clerk[c] = "phone"
    /\ user' = IF PhoneOfOther(c) THEN user ELSE [user EXCEPT ![task[c].user].phone = task[c].phone]
    /\ Answer(c)
    /\ UNCHANGED <<school, staff, parent, child, apart, budget>>

\* update, role, by an admin.  The profile rows stay what they were.
EditRole(c, u, caller, role) ==
    /\ user[u].active /\ AssertAdmin(caller)
    /\ task' = [task EXCEPT ![c].user = u, ![c].role = role]
    /\ Await(c, "edit")
    /\ UNCHANGED <<people, apart>>

\* staff.update: one transaction writes the staff row and the role.
EditStaffRole(c, u, role) ==
    /\ staff[u] # "none"
    /\ role \in ALLOWED_STAFF_ROLES
    /\ user' = [user EXCEPT ![u].role = role]
    /\ UNCHANGED <<school, staff, parent, child, clerk, task, apart>>

\* update, isActive, by an admin: of the user row only.
EditActive(c, u, caller, to) ==
    /\ user[u].active /\ AssertAdmin(caller)
    /\ task' = [task EXCEPT ![c].user = u, ![c].to = to]
    /\ Await(c, "edit")
    /\ UNCHANGED <<people, apart>>

\* History: requests between the two switches of u learn that another wrote.
Crossed(u) ==
    [d \in Clerks |-> IF clerk[d] = "switchStaff" /\ task[d].user = u
                        THEN [task[d] EXCEPT !.crossed = TRUE] ELSE task[d]]

WriteRole(c) ==
    /\ clerk[c] = "edit" /\ task[c].role # None
    /\ user' = [user EXCEPT ![task[c].user].role = task[c].role]
    /\ Answer(c)
    /\ UNCHANGED <<school, staff, parent, child, apart, budget>>

WriteActive(c) ==
    /\ clerk[c] = "edit" /\ task[c].role = None
    /\ LET u == task[c].user
       IN  /\ user' = [user EXCEPT ![u].active = task[c].to]
           /\ apart' = apart \union {u}
           /\ task' = [Crossed(u) EXCEPT ![c] = NoTask]
    /\ Await(c, "idle")
    /\ UNCHANGED <<school, staff, parent, child, budget>>

\* deactivate: not oneself, and the user must be active.
Deactivate(c, u, caller) ==
    /\ u # caller
    /\ user[u].active
    /\ task' = [task EXCEPT ![c].user = u, ![c].to = FALSE]
    /\ Await(c, "switchUser")
    /\ UNCHANGED <<people, apart>>

\* reactivate: any user of the school.
Reactivate(c, u) ==
    /\ task' = [task EXCEPT ![c].user = u, ![c].to = TRUE]
    /\ Await(c, "switchUser")
    /\ UNCHANGED <<people, apart>>

SwitchUser(c) ==
    /\ clerk[c] = "switchUser"
    /\ LET u == task[c].user
           crossed == \E d \in Clerks : clerk[d] = "switchStaff" /\ task[d].user = u
       IN  /\ user' = [user EXCEPT ![u].active = task[c].to]
           /\ task' = [Crossed(u) EXCEPT ![c] = [task[c] EXCEPT !.crossed = crossed]]
    /\ Await(c, "switchStaff")
    /\ UNCHANGED <<school, staff, parent, child, apart, budget>>

\* Mutant of SwitchStaff: the cascade is forgotten.
SwitchNothing(c) ==
    /\ clerk[c] = "switchStaff"
    /\ apart' = IF task[c].crossed THEN apart \union {task[c].user} ELSE apart \ {task[c].user}
    /\ Answer(c)
    /\ UNCHANGED <<people, budget>>

\* "Cascade": the staff row follows, if there is one.
SwitchStaff(c) ==
    /\ clerk[c] = "switchStaff"
    /\ LET u == task[c].user
       IN  /\ staff' = IF staff[u] = "none" THEN staff
                         ELSE [staff EXCEPT ![u] = IF task[c].to THEN "active" ELSE "inactive"]
           /\ apart' = IF task[c].crossed THEN apart \union {u} ELSE apart \ {u}
           /\ task' = [Crossed(u) EXCEPT ![c] = NoTask]
    /\ Await(c, "idle")
    /\ UNCHANGED <<school, user, parent, child, budget>>

\* staff.remove: one transaction switches both rows off.
RemoveStaff(c, u) ==
    /\ staff[u] # "none"
    /\ staff' = [staff EXCEPT ![u] = "inactive"]
    /\ user' = [user EXCEPT ![u].active = FALSE]
    /\ task' = Crossed(u)
    /\ apart' = apart \ {u}
    /\ UNCHANGED <<school, parent, child, clerk>>

\* Mutant of RemoveParent: the row is deleted.
RemoveParentRow(c, u) ==
    /\ u \in parent
    /\ parent' = parent \ {u}
    /\ UNCHANGED <<school, user, staff, child, clerk, task, apart>>

\* parents.remove: a parent row has no switch of its own.
RemoveParent(c, u) ==
    /\ u \in parent
    /\ user' = [user EXCEPT ![u].active = FALSE]
    /\ UNCHANGED <<school, staff, parent, child, clerk, task, apart>>

-----------------------------------------------------------------------------
\* The database rejects the next call of a request, or the process dies.
LeaveOff(c) ==
    /\ clerk[c] # "idle"
    /\ Spend("deaths")
    /\ apart' = IF clerk[c] = "switchStaff" THEN apart \union {task[c].user} ELSE apart
    /\ Answer(c)
    /\ UNCHANGED people

ProceedAccounts(c) ==
    \/ CreateSchool(c) \/ CreateStaff(c) \/ CreateParent(c) \/ DeleteLink(c)
    \/ FindConflict(c) \/ WritePhone(c) \/ WriteRole(c) \/ WriteActive(c)
    \/ SwitchUser(c) \/ SwitchStaff(c)

\* The routes, with the checks the controllers make.  Onboarding is public; of
\* staff and parents any user of the school may make and remove rows.
Served == {user[v].school : v \in {u \in Users : Authenticated(u)}}

AskSchools(c) ==
    \/ \E h \in Schools, f \in Phones : Onboard(c, h, f)
    \/ \E h \in Schools, caller \in Users :
          Authenticated(caller) /\ user[caller].school = h /\ AssertAdmin(caller) /\ CloseSchool(c, h)

AskUsers(c) ==
    \E caller \in {v \in Users : Authenticated(v)}, u \in Users :
       /\ user[u].school = user[caller].school
       /\ \/ AssertAdmin(caller) /\ (Deactivate(c, u, caller) \/ Reactivate(c, u))
          \/ \E f \in Phones : EditPhone(c, u, caller, f)
          \/ \E role \in NewRoles : EditRole(c, u, caller, role)
          \/ \E to \in BOOLEAN : EditActive(c, u, caller, to)

AskStaff(c) ==
    \/ \E h \in Served, f \in Phones, role \in NewRoles : AddStaff(c, h, f, role)
    \/ \E u \in Users :
          /\ user[u].school \in Served
          /\ RemoveStaff(c, u) \/ \E role \in NewRoles : EditStaffRole(c, u, role)

AskParents(c) ==
    \/ \E h \in Served, f \in Phones : AddParent(c, h, f)
    \/ \E u \in parent :
          /\ user[u].school \in Served
          /\ RemoveParent(c, u) \/ \E s \in Students : LinkStudent(c, u, s) \/ FindLink(c, u, s)

AskAccounts(c) == Begin(c) /\ (AskSchools(c) \/ AskUsers(c) \/ AskStaff(c) \/ AskParents(c))

AccountsNext == \E c \in Clerks : AskAccounts(c) \/ ProceedAccounts(c) \/ LeaveOff(c)

-----------------------------------------------------------------------------
(* Properties.                                                              *)

\* Accounts of pupils are made by students.create.
Pupil(u) == u \in DOMAIN FirstUsers /\ FirstUsers[u] = "student"

\* What is written together is there together, and a phone belongs to one user,
\* although creations only look in their own school and run side by side: every
\* account has the profile it was made with, every open school an account.
RowsTogether ==
    /\ \A u, v \in Users : Exists(u) /\ user[u].phone = user[v].phone => u = v
    /\ \A u \in Users : Exists(u) /\ ~Pupil(u) => (staff[u] # "none") # (u \in parent)
    /\ \A h \in Schools : school[h] # "none" => \E u \in Users : user[u].school = h /\ staff[u] # "none"

Switching(u) == \E c \in Clerks : clerk[c] = "switchStaff" /\ task[c].user = u

\* The staff row says what the user row says, unless the user row alone was
\* edited, two requests switched the user at the same time, or one of them died
\* between its two writes.
StaffFollowsUser ==
    \A u \in Users : staff[u] # "none" /\ ~Switching(u) /\ u \notin apart =>
        (staff[u] = "active") = user[u].active
==============================================================================
