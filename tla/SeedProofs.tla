------------------------------ MODULE SeedProofs ------------------------------
(***************************************************************************)
(* Proofs about Seed for any school, any lists and any number of runs and  *)
(* deaths: a run that comes to its end leaves the school complete, with    *)
(* nothing twice that the script looks for, and each death costs at most   *)
(* one account.                                                            *)
(*                                                                         *)
(* What the tables hold follows from what is left of the lists (Left): the *)
(* sections come in a fixed order, so a list is done once the script is    *)
(* past it, however often it was begun before.                             *)
(***************************************************************************)
EXTENDS Seed, FiniteSetTheorems, TLAPS

Roles == ADMIN_STAFF \union {"class_teacher", "student"}

Rank == [idle |-> 0, admins |-> 1, classes |-> 2, subjects |-> 3,
         teachers |-> 4, pupils |-> 5, summary |-> 6]

Calls == [idle |-> {"find"}, admins |-> {"find", "user", "staff"},
          classes |-> {"find", "class"}, subjects |-> {"find", "subject"},
          teachers |-> {"find", "staff", "assign"},
          pupils |-> {"find", "student", "enroll"}, summary |-> {"find"}]

\* The role of the account that is made for an entry.
RoleMade == IF section = "admins" THEN entry
            ELSE IF section = "teachers" THEN "class_teacher" ELSE "student"

\* The calls that come after the account of the entry at hand is made.
HasAccount == call \in {"staff", "assign", "student", "enroll"}

RowsTyped ==
    /\ role \in [Users -> Roles \union {None}]
    /\ staff \subseteq Users
    /\ classes \subseteq Classes
    /\ teacher \in [Classes -> Users \union {None}]
    /\ subjects \subseteq Lessons
    /\ pupils \subseteq Users \X Classes
    /\ enrolled \subseteq Users \X Classes
    /\ runs \in Nat /\ finished \in Nat /\ deaths \in Nat

\* The script has an entry at hand after it looked, and an account for it once
\* one was made.
ScriptTyped ==
    /\ section \in {"idle", "admins", "classes", "subjects", "teachers", "pupils", "summary"}
    /\ call \in Calls[section]
    /\ todo \subseteq List[section]
    /\ call # "find" => entry \in todo
    /\ ~HasAccount => made = None
    /\ HasAccount => made \in Users /\ role[made] = RoleMade

SeedType == RowsTyped /\ ScriptTyped

\* What the run still has to do of a list: all of it while no run is under way.
Left(name) == IF section = name THEN todo
              ELSE IF Rank[section] > Rank[name] THEN {} ELSE List[name]

\* What is not left of a list is there.
SoFar ==
    /\ \A r \in ADMIN_STAFF : finished > 0 \/ r \notin Left("admins") => \E u \in Users : role[u] = r
    /\ Existing \in classes
    /\ \A c \in CLASS_DEFS : finished > 0 \/ c \notin Left("classes") => c \in classes
    /\ \A l \in Lessons : finished > 0 \/ l \notin Left("subjects") => l \in subjects
    /\ \A c \in Classes : finished > 0 \/ c \notin Left("teachers") => teacher[c] # None

\* An administrator is made when nobody has the role.
AdminsOnce ==
    /\ \A u, v \in Users : role[u] \in ADMIN_STAFF /\ role[u] = role[v] => u = v
    /\ section = "admins" /\ call = "user" => \A u \in Users : role[u] # entry

\* A teacher is on the staff, and of one class.
TeachersOnce ==
    /\ \A c \in Classes : teacher[c] # None => teacher[c] \in staff /\ role[teacher[c]] = "class_teacher"
    /\ \A c, d \in Classes : teacher[c] # None /\ teacher[c] = teacher[d] => c = d
    /\ section = "teachers" /\ HasAccount => \A c \in Classes : teacher[c] # made
    /\ section = "teachers" /\ call = "assign" => made \in staff

\* The pupils of a class that the run has not enrolled yet.
LeftOf(c) == {i \in 1..PupilsPerClass : <<c, i>> \in Left("pupils")}

\* The runs begun, and the next one if none is under way.
Begun == IF section = "idle" THEN runs + 1 ELSE runs

\* Pupils enrolled and pupils left are those of the runs that finished and of
\* this one at least, and those of the runs begun at most.
Counted(c) ==
    /\ IsFiniteSet(PupilsOf(c))
    /\ Cardinality(PupilsOf(c)) + Cardinality(LeftOf(c)) >= (finished + 1) * PupilsPerClass
    /\ Cardinality(PupilsOf(c)) + Cardinality(LeftOf(c)) <= Begun * PupilsPerClass

\* A pupil is enrolled once, when the account is new.
PupilsCounted ==
    /\ \A u \in Users, c \in Classes : <<u, c>> \in enrolled => role[u] = "student"
    /\ section = "pupils" /\ HasAccount => \A c \in Classes : <<made, c>> \notin enrolled
    /\ \A c \in Classes : Counted(c)

\* The account at hand apart, each half-made account is the loss of a death.
TornCounted ==
    /\ IsFiniteSet(Torn)
    /\ Cardinality(Torn \ {made}) <= deaths

SeedInv == SeedType /\ SoFar /\ AdminsOnce /\ TeachersOnce /\ PupilsCounted /\ TornCounted

-----------------------------------------------------------------------------
(* The sections and their lists.                                             *)

Working == {"admins", "classes", "subjects", "teachers", "pupils"}

\* The lists and their order, one entry at a time.
LEMMA Lists ==
    /\ List["admins"] = ADMIN_STAFF /\ List["classes"] = CLASS_DEFS /\ List["subjects"] = Lessons
    /\ List["teachers"] = Classes /\ List["pupils"] = Classes \X (1..PupilsPerClass)
    /\ List["summary"] = {} /\ List["idle"] = {}
    /\ After["admins"] = "classes" /\ After["classes"] = "subjects" /\ After["subjects"] = "teachers"
    /\ After["teachers"] = "pupils" /\ After["pupils"] = "summary"
    /\ Rank["idle"] = 0 /\ Rank["admins"] = 1 /\ Rank["classes"] = 2 /\ Rank["subjects"] = 3
    /\ Rank["teachers"] = 4 /\ Rank["pupils"] = 5 /\ Rank["summary"] = 6
BY DEF List, After, Rank

LEMMA SectionCalls ==
    /\ Calls["idle"] = {"find"} /\ Calls["admins"] = {"find", "user", "staff"}
    /\ Calls["classes"] = {"find", "class"} /\ Calls["subjects"] = {"find", "subject"}
    /\ Calls["teachers"] = {"find", "staff", "assign"}
    /\ Calls["pupils"] = {"find", "student", "enroll"} /\ Calls["summary"] = {"find"}
BY DEF Calls

\* An entry that is done is no longer left, in no other list anything changes,
\* and the script looks at the next one.
LEMMA DoneLeft ==
    ASSUME ScriptTyped, section \in Working, NEW x \in todo, DoneWith(x)
    PROVE  /\ call' = "find" /\ entry' = None /\ made' = None
           /\ section' \in Working \union {"summary"} /\ todo' \subseteq List[section']
           /\ \A name \in Working :
                 Left(name)' = IF name = section THEN Left(name) \ {x} ELSE Left(name)
<1>1. call' = "find" /\ entry' = None /\ made' = None
  BY DEF DoneWith
<1>2. CASE todo \ {x} # {}
  <2>1. todo' = todo \ {x} /\ section' = section
    BY <1>2 DEF DoneWith
  <2>2. todo' \subseteq List[section']
    BY <2>1 DEF ScriptTyped
  <2>3. \A name \in Working :
           Left(name)' = IF name = section THEN Left(name) \ {x} ELSE Left(name)
    BY <2>1 DEF Left
  <2> QED
    BY <1>1, <2>1, <2>2, <2>3
<1>3. CASE todo \ {x} = {}
  <2>1. section' = After[section] /\ todo' = List[After[section]]
    BY <1>3 DEF DoneWith
  <2>2. section' \in Working \union {"summary"} /\ todo' \subseteq List[section']
    BY <2>1, Lists DEF Working
  <2>3. ASSUME NEW name \in Working
        PROVE  Left(name)' = IF name = section THEN Left(name) \ {x} ELSE Left(name)
    <3>1. CASE name = section
      <4>1. Rank[section'] > Rank[name] /\ section' # name
        BY <2>1, <3>1, Lists DEF Working
      <4> QED
        BY <1>3, <3>1, <4>1 DEF Left
    <3>2. CASE name = section' /\ name # section
      <4>1. ~(Rank[section] > Rank[name])
        BY <2>1, <3>2, Lists DEF Working
      <4> QED
        BY <2>1, <3>2, <4>1 DEF Left
    <3>3. CASE name # section' /\ name # section
      <4>1. Rank[section'] > Rank[name] <=> Rank[section] > Rank[name]
        BY <2>1, <3>3, Lists DEF Working
      <4> QED
        BY <3>3, <4>1 DEF Left
    <3> QED
      BY <3>1, <3>2, <3>3
  <2> QED
    BY <1>1, <2>2, <2>3
<1> QED
  BY <1>2, <1>3

\* What is left stays left while the script stays at its entry.
LEMMA StayLeft == UNCHANGED <<section, todo>> => \A name : Left(name)' = Left(name)
BY DEF Left

\* A run that begins, or dies, has everything to do again.
LEMMA RestLeft ==
    ASSUME ScriptTyped,
           \/ section = "idle" /\ section' = "admins" /\ todo' = List["admins"]
           \/ section' = "idle"
    PROVE  \A name \in Working : Left(name)' = List[name]
BY Lists DEF Left, Working

-----------------------------------------------------------------------------
(* Types.                                                                    *)

\* A new account is a row that was blank, and no other row changes.
LEMMA FreshUser ==
    ASSUME RowsTyped, NEW r \in Roles, MakeUser(r)
    PROVE  \E u \in Users : /\ role[u] = None /\ made' = u /\ role'[u] = r
                            /\ \A v \in Users \ {u} : role'[v] = role[v]
                            /\ role' \in [Users -> Roles \union {None}]
<1>1. PICK u \in Users : role[u] = None /\ role' = [role EXCEPT ![u] = r] /\ made' = u
  BY DEF MakeUser
<1> QED
  BY <1>1 DEF RowsTyped

LEMMA NoneIsNoRole == None \notin Roles
BY SeedAssumption DEF Roles

LEMMA DoneTyped ==
    ASSUME ScriptTyped, section \in Working, NEW x \in todo, DoneWith(x)
    PROVE  ScriptTyped'
<1>1. /\ call' = "find" /\ made' = None
      /\ section' \in Working \union {"summary"} /\ todo' \subseteq List[section']
  BY DoneLeft
<1>2. call' \in Calls[section']
  BY <1>1, SectionCalls DEF Working
<1> QED
  BY <1>1, <1>2 DEF ScriptTyped, HasAccount, Working

\* Where the script is when it makes a call.
LEMMA AtCall ==
    ASSUME ScriptTyped
    PROVE  /\ \A x : At("admins", x) => x \in ADMIN_STAFF
           /\ \A x : At("classes", x) => x \in CLASS_DEFS
           /\ \A x : At("subjects", x) => x \in Lessons
           /\ \A x : At("teachers", x) => x \in Classes
           /\ \A x : At("pupils", x) => x \in Classes \X (1..PupilsPerClass)
           /\ Calling("admins", "user") \/ Calling("admins", "staff") => entry \in ADMIN_STAFF
           /\ Calling("classes", "class") => entry \in CLASS_DEFS
           /\ Calling("subjects", "subject") => entry \in Lessons
           /\ Calling("teachers", "staff") \/ Calling("teachers", "assign") => entry \in Classes
           /\ Calling("pupils", "student") \/ Calling("pupils", "enroll") =>
                 entry \in Classes \X (1..PupilsPerClass)
           /\ call # "find" => entry \in todo
BY Lists DEF ScriptTyped, At, Calling

LEMMA TypeInit == Init => SeedType
<1> SUFFICES ASSUME Init PROVE SeedType
  OBVIOUS
<1>1. RowsTyped
  BY SeedAssumption DEF Init, RowsTyped, Roles, ADMIN_STAFF
<1>2. ScriptTyped
  BY Lists, SectionCalls DEF Init, ScriptTyped, HasAccount
<1> QED
  BY <1>1, <1>2 DEF SeedType

LEMMA TypeStep == SeedType /\ [Next]_vars => SeedType'
<1> SUFFICES ASSUME SeedType, [Next]_vars PROVE SeedType'
  OBVIOUS
<1> USE AtCall DEF SeedType, rows, counts
<1>1. ASSUME NEW r \in ADMIN_STAFF, FindAdmin(r) PROVE SeedType'
  <2>1. RowsTyped'
    BY <1>1 DEF FindAdmin, RowsTyped
  <2>2. CASE DoneWith(r)
    BY <1>1, <2>1, <2>2, DoneTyped DEF FindAdmin, At, Working
  <2>3. CASE entry' = r /\ Then("user") /\ UNCHANGED made
    BY <1>1, <2>1, <2>3, SectionCalls DEF FindAdmin, At, Then, ScriptTyped, HasAccount
  <2> QED
    BY <1>1, <2>2, <2>3 DEF FindAdmin
<1>2. ASSUME CreateAdmin PROVE SeedType'
  <2>1. entry \in Roles
    BY <1>2 DEF CreateAdmin, Roles
  <2>2. \E u \in Users : /\ made' = u /\ role'[u] = entry /\ role' \in [Users -> Roles \union {None}]
    BY <1>2, <2>1, FreshUser DEF CreateAdmin
  <2>3. RowsTyped'
    BY <1>2, <2>2 DEF CreateAdmin, RowsTyped
  <2>4. ScriptTyped'
    BY <1>2, <2>2, SectionCalls DEF CreateAdmin, Calling, Then, ScriptTyped, HasAccount, RoleMade
  <2> QED
    BY <2>3, <2>4
<1>3. ASSUME CreateAdminStaff PROVE SeedType'
  <2>1. RowsTyped'
    BY <1>3 DEF CreateAdminStaff, Calling, RowsTyped, ScriptTyped, HasAccount
  <2> QED
    BY <1>3, <2>1, DoneTyped DEF CreateAdminStaff, Calling, Working
<1>4. ASSUME NEW c \in CLASS_DEFS, FindClass(c) PROVE SeedType'
  <2>1. RowsTyped'
    BY <1>4 DEF FindClass, RowsTyped
  <2>2. CASE DoneWith(c)
    BY <1>4, <2>1, <2>2, DoneTyped DEF FindClass, At, Working
  <2>3. CASE entry' = c /\ Then("class") /\ UNCHANGED made
    BY <1>4, <2>1, <2>3, SectionCalls DEF FindClass, At, Then, ScriptTyped, HasAccount
  <2> QED
    BY <1>4, <2>2, <2>3 DEF FindClass
<1>5. ASSUME CreateClass PROVE SeedType'
  <2>1. RowsTyped'
    BY <1>5 DEF CreateClass, RowsTyped, CLASS_DEFS
  <2> QED
    BY <1>5, <2>1, DoneTyped DEF CreateClass, Calling, Working
<1>6. ASSUME NEW l \in Lessons, FindSubject(l) PROVE SeedType'
  <2>1. RowsTyped'
    BY <1>6 DEF FindSubject, RowsTyped
  <2>2. CASE DoneWith(l)
    BY <1>6, <2>1, <2>2, DoneTyped DEF FindSubject, At, Working
  <2>3. CASE entry' = l /\ Then("subject") /\ UNCHANGED made
    BY <1>6, <2>1, <2>3, SectionCalls DEF FindSubject, At, Then, ScriptTyped, HasAccount
  <2> QED
    BY <1>6, <2>2, <2>3 DEF FindSubject
<1>7. ASSUME CreateSubject PROVE SeedType'
  <2>1. RowsTyped'
    BY <1>7 DEF CreateSubject, RowsTyped
  <2> QED
    BY <1>7, <2>1, DoneTyped DEF CreateSubject, Calling, Working
<1>8. ASSUME NEW c \in Classes, CreateTeacherUser(c) PROVE SeedType'
  <2>1. \E u \in Users : /\ made' = u /\ role'[u] = "class_teacher"
                         /\ role' \in [Users -> Roles \union {None}]
    BY <1>8, FreshUser DEF CreateTeacherUser, Roles
  <2>2. RowsTyped'
    BY <1>8, <2>1 DEF CreateTeacherUser, RowsTyped
  <2>3. ScriptTyped'
    BY <1>8, <2>1, SectionCalls DEF CreateTeacherUser, At, Then, ScriptTyped, HasAccount, RoleMade
  <2> QED
    BY <2>2, <2>3
<1>9. ASSUME CreateTeacherStaff PROVE SeedType'
  <2>1. made \in Users /\ role[made] = "class_teacher"
    BY <1>9 DEF CreateTeacherStaff, Calling, ScriptTyped, HasAccount, RoleMade
  <2>2. RowsTyped'
    BY <1>9, <2>1 DEF CreateTeacherStaff, RowsTyped
  <2>3. ScriptTyped'
    BY <1>9, <2>1, SectionCalls DEF CreateTeacherStaff, Calling, Then, ScriptTyped, HasAccount, RoleMade
  <2> QED
    BY <2>2, <2>3
<1>10. ASSUME AssignTeacher PROVE SeedType'
  <2>1. RowsTyped'
    BY <1>10 DEF AssignTeacher, Calling, RowsTyped, ScriptTyped, HasAccount
  <2> QED
    BY <1>10, <2>1, DoneTyped DEF AssignTeacher, Calling, Working
<1>11. ASSUME NEW p \in List["pupils"], CreatePupilUser(p) PROVE SeedType'
  <2>1. \E u \in Users : /\ made' = u /\ role'[u] = "student"
                         /\ role' \in [Users -> Roles \union {None}]
    BY <1>11, FreshUser DEF CreatePupilUser, Roles
  <2>2. RowsTyped'
    BY <1>11, <2>1 DEF CreatePupilUser, RowsTyped
  <2>3. ScriptTyped'
    BY <1>11, <2>1, SectionCalls DEF CreatePupilUser, At, Then, ScriptTyped, HasAccount, RoleMade
  <2> QED
    BY <2>2, <2>3
<1>12. ASSUME CreatePupil PROVE SeedType'
  <2>1. made \in Users /\ role[made] = "student" /\ entry[1] \in Classes
    BY <1>12 DEF CreatePupil, Calling, ScriptTyped, HasAccount, RoleMade
  <2>2. RowsTyped'
    BY <1>12, <2>1 DEF CreatePupil, RowsTyped
  <2>3. ScriptTyped'
    BY <1>12, <2>1, SectionCalls DEF CreatePupil, Calling, Then, ScriptTyped, HasAccount, RoleMade
  <2> QED
    BY <2>2, <2>3
<1>13. ASSUME Enroll PROVE SeedType'
  <2>1. made \in Users /\ entry[1] \in Classes
    BY <1>13 DEF Enroll, Calling, ScriptTyped, HasAccount
  <2>2. RowsTyped'
    BY <1>13, <2>1 DEF Enroll, RowsTyped
  <2> QED
    BY <1>13, <2>2, DoneTyped DEF Enroll, Calling, Working
<1>14. ASSUME Begin PROVE SeedType'
  BY <1>14, Lists, SectionCalls DEF Begin, RowsTyped, ScriptTyped, HasAccount
<1>15. ASSUME Summarise PROVE SeedType'
  BY <1>15, Lists, SectionCalls DEF Summarise, RowsTyped, ScriptTyped, HasAccount
<1>16. ASSUME Die PROVE SeedType'
  BY <1>16, Lists, SectionCalls DEF Die, RowsTyped, ScriptTyped, HasAccount
<1>17. CASE UNCHANGED vars
  BY <1>17 DEF vars, RowsTyped, ScriptTyped, HasAccount, RoleMade
<1> QED
  BY <1>1, <1>2, <1>3, <1>4, <1>5, <1>6, <1>7, <1>8, <1>9, <1>10, <1>11, <1>12, <1>13, <1>14,
     <1>15, <1>16, <1>17 DEF Next

-----------------------------------------------------------------------------
(* What a run has done stays done.                                           *)

Grow ==
    /\ \A u \in Users : role[u] # None => role'[u] = role[u]
    /\ staff \subseteq staff' /\ classes \subseteq classes' /\ subjects \subseteq subjects'
    /\ \A c \in Classes : teacher[c] # None => teacher'[c] # None

LEMMA NoRowIsLost == SeedType /\ [Next]_vars => Grow
<1> SUFFICES ASSUME SeedType, [Next]_vars PROVE Grow
  OBVIOUS
<1> USE DEF SeedType, rows, counts
<1>1. ASSUME NEW r \in Roles, MakeUser(r), UNCHANGED <<staff, classes, teacher, subjects>>
      PROVE  Grow
  <2>1. PICK u \in Users : role[u] = None /\ \A v \in Users \ {u} : role'[v] = role[v]
    BY <1>1, FreshUser
  <2> QED
    BY <1>1, <2>1 DEF Grow
<1>2. CASE CreateAdmin
  BY <1>1, <1>2, AtCall DEF CreateAdmin, Roles
<1>3. CASE \E c \in Classes : CreateTeacherUser(c)
  BY <1>1, <1>3 DEF CreateTeacherUser, Roles
<1>4. CASE \E p \in List["pupils"] : CreatePupilUser(p)
  BY <1>1, <1>4 DEF CreatePupilUser, Roles
<1>5. CASE AssignTeacher
  <2>1. made \in Users /\ made # None
    BY <1>5, SeedAssumption DEF AssignTeacher, Calling, ScriptTyped, HasAccount
  <2> QED
    BY <1>5, <2>1 DEF AssignTeacher, Grow, RowsTyped
<1>6. CASE (\E r \in ADMIN_STAFF : FindAdmin(r)) \/ (\E c \in CLASS_DEFS : FindClass(c))
           \/ (\E l \in Lessons : FindSubject(l))
  BY <1>6 DEF FindAdmin, FindClass, FindSubject, Grow
<1>7. CASE \/ CreateAdminStaff \/ CreateClass \/ CreateSubject \/ CreateTeacherStaff
           \/ CreatePupil \/ Enroll
  BY <1>7 DEF CreateAdminStaff, CreateClass, CreateSubject, CreateTeacherStaff, CreatePupil, Enroll, Grow
<1>8. CASE Begin \/ Summarise \/ Die \/ UNCHANGED vars
  BY <1>8 DEF Begin, Summarise, Die, vars, Grow
<1> QED
  BY <1>2, <1>3, <1>4, <1>5, <1>6, <1>7, <1>8 DEF Next

\* The script is done with an entry that is there.
EntryThere(x) ==
    /\ section \in Working /\ x \in todo /\ DoneWith(x) /\ finished' = finished
    /\ section = "admins" => \E u \in Users : role'[u] = x
    /\ section = "classes" => x \in classes'
    /\ section = "subjects" => x \in subjects'
    /\ section = "teachers" => teacher'[x] # None

LEMMA EntryKeepsSoFar ==
    ASSUME SeedType, SoFar, Grow, NEW x, EntryThere(x)
    PROVE  SoFar'
<1>1. /\ \A name \in Working : \A y : y \notin Left(name)' => y \notin Left(name) \/ (name = section /\ y = x)
      /\ finished' = finished
  BY DoneLeft DEF EntryThere, SeedType
<1>2. \A r \in ADMIN_STAFF : finished > 0 \/ r \notin Left("admins")' => \E u \in Users : role'[u] = r
  <2>1. \A r \in ADMIN_STAFF : (\E u \in Users : role[u] = r) => \E u \in Users : role'[u] = r
    BY SeedAssumption DEF Grow
  <2> QED
    BY <1>1, <2>1 DEF SoFar, EntryThere, Working
<1>3. \A c \in CLASS_DEFS : finished > 0 \/ c \notin Left("classes")' => c \in classes'
  BY <1>1 DEF SoFar, EntryThere, Working, Grow
<1>4. \A l \in Lessons : finished > 0 \/ l \notin Left("subjects")' => l \in subjects'
  BY <1>1 DEF SoFar, EntryThere, Working, Grow
<1>5. \A c \in Classes : finished > 0 \/ c \notin Left("teachers")' => teacher'[c] # None
  BY <1>1 DEF SoFar, EntryThere, Working, Grow
<1> QED
  BY <1>1, <1>2, <1>3, <1>4, <1>5 DEF SoFar, Grow

\* A step that takes no entry off a list loses nothing.
LEMMA LeavingKeepsSoFar ==
    ASSUME SoFar, Grow, \A name \in Working : \A y \in List[name] : y \notin Left(name)' => y \notin Left(name),
           finished' = finished
    PROVE  SoFar'
<1>1. \A r \in ADMIN_STAFF : finished > 0 \/ r \notin Left("admins")' => \E u \in Users : role'[u] = r
  <2>1. \A r \in ADMIN_STAFF : (\E u \in Users : role[u] = r) => \E u \in Users : role'[u] = r
    BY SeedAssumption DEF Grow
  <2> QED
    BY <2>1, Lists DEF SoFar, Working
<1> QED
  BY <1>1, Lists DEF SoFar, Working, Grow

LEMMA SoFarStep == SeedType /\ SoFar /\ [Next]_vars => SoFar'
<1> SUFFICES ASSUME SeedType, SoFar, [Next]_vars PROVE SoFar'
  OBVIOUS
<1> USE DEF SeedType, rows, counts
<1>0. Grow
  BY NoRowIsLost
<1>1. ASSUME UNCHANGED <<section, todo, finished>> PROVE SoFar'
  <2>1. \A name : Left(name)' = Left(name)
    BY <1>1, StayLeft
  <2> QED
    BY <1>0, <1>1, <2>1, LeavingKeepsSoFar
<1>2. ASSUME NEW r \in ADMIN_STAFF, FindAdmin(r) PROVE SoFar'
  BY <1>0, <1>1, <1>2, EntryKeepsSoFar DEF FindAdmin, At, Then, EntryThere, Working
<1>3. CASE CreateAdminStaff
  <2>1. made \in Users /\ role[made] = entry /\ role' = role
    BY <1>3 DEF CreateAdminStaff, Calling, ScriptTyped, HasAccount, RoleMade
  <2>2. EntryThere(entry)
    BY <1>3, <2>1, AtCall DEF CreateAdminStaff, Calling, EntryThere, Working
  <2> QED
    BY <1>0, <2>2, EntryKeepsSoFar
<1>4. ASSUME NEW c \in CLASS_DEFS, FindClass(c) PROVE SoFar'
  BY <1>0, <1>1, <1>4, EntryKeepsSoFar DEF FindClass, At, Then, EntryThere, Working
<1>5. CASE CreateClass
  <2>1. EntryThere(entry)
    BY <1>5, AtCall DEF CreateClass, Calling, EntryThere, Working
  <2> QED
    BY <1>0, <2>1, EntryKeepsSoFar
<1>6. ASSUME NEW l \in Lessons, FindSubject(l) PROVE SoFar'
  BY <1>0, <1>1, <1>6, EntryKeepsSoFar DEF FindSubject, At, Then, EntryThere, Working
<1>7. CASE CreateSubject
  <2>1. EntryThere(entry)
    BY <1>7, AtCall DEF CreateSubject, Calling, EntryThere, Working
  <2> QED
    BY <1>0, <2>1, EntryKeepsSoFar
<1>8. CASE AssignTeacher
  <2>1. made \in Users /\ entry \in Classes
    BY <1>8, AtCall DEF AssignTeacher, Calling, ScriptTyped, HasAccount
  <2>2. teacher'[entry] # None
    BY <1>8, <2>1, SeedAssumption DEF AssignTeacher, RowsTyped
  <2>3. EntryThere(entry)
    BY <1>8, <2>2, AtCall DEF AssignTeacher, Calling, EntryThere, Working
  <2> QED
    BY <1>0, <2>3, EntryKeepsSoFar
<1>9. CASE Enroll
  <2>1. EntryThere(entry)
    BY <1>9, AtCall DEF Enroll, Calling, EntryThere, Working
  <2> QED
    BY <1>0, <2>1, EntryKeepsSoFar
<1>10. CASE \/ CreateAdmin \/ (\E c \in Classes : CreateTeacherUser(c)) \/ CreateTeacherStaff
            \/ (\E p \in List["pupils"] : CreatePupilUser(p)) \/ CreatePupil \/ UNCHANGED vars
  BY <1>1, <1>10 DEF CreateAdmin, CreateTeacherUser, CreateTeacherStaff, CreatePupilUser, CreatePupil, Then, vars
<1>11. CASE Begin \/ Die
  <2>1. \A name \in Working : Left(name)' = List[name]
    BY <1>11, RestLeft DEF Begin, Die
  <2> QED
    BY <1>0, <1>11, <2>1, LeavingKeepsSoFar DEF Begin, Die
<1>12. CASE Summarise
  <2>1. \A name \in Working : Left(name) = {}
    BY <1>12, Lists DEF Summarise, Left, Working
  <2>2. UNCHANGED rows
    BY <1>12 DEF Summarise
  <2> QED
    BY <2>1, <2>2 DEF SoFar, Working
<1> QED
  BY <1>2, <1>3, <1>4, <1>5, <1>6, <1>7, <1>8, <1>9, <1>10, <1>11, <1>12 DEF Next

-----------------------------------------------------------------------------
(* Administrators and teachers.                                              *)

\* A step that makes no account.
LEMMA NoAccountKeepsAdmins ==
    ASSUME AdminsOnce, UNCHANGED role,
           section' = "admins" /\ call' = "user" => \A u \in Users : role[u] # entry'
    PROVE  AdminsOnce'
BY DEF AdminsOnce

LEMMA AdminsStep == SeedType /\ AdminsOnce /\ [Next]_vars => AdminsOnce'
<1> SUFFICES ASSUME SeedType, AdminsOnce, [Next]_vars PROVE AdminsOnce'
  OBVIOUS
<1> USE DEF SeedType, rows
<1>1. ASSUME NEW x \in todo, DoneWith(x), section \in Working, UNCHANGED role PROVE AdminsOnce'
  <2>1. call' = "find"
    BY <1>1, DoneLeft
  <2> QED
    BY <1>1, <2>1, NoAccountKeepsAdmins
<1>2. ASSUME NEW r \in Roles, MakeUser(r), call' # "user",
             r \in ADMIN_STAFF => \A u \in Users : role[u] # r
      PROVE  AdminsOnce'
  <2>1. PICK u \in Users : role[u] = None /\ role'[u] = r /\ \A v \in Users \ {u} : role'[v] = role[v]
    BY <1>2, FreshUser
  <2> QED
    BY <1>2, <2>1 DEF AdminsOnce
<1>3. ASSUME NEW r \in ADMIN_STAFF, FindAdmin(r) PROVE AdminsOnce'
  <2>1. CASE \E u \in Users : role[u] = r
    BY <1>1, <1>3, <2>1 DEF FindAdmin, At, Working
  <2>2. CASE ~ \E u \in Users : role[u] = r
    BY <1>3, <2>2, NoAccountKeepsAdmins DEF FindAdmin
  <2> QED
    BY <2>1, <2>2
<1>4. CASE CreateAdmin
  BY <1>2, <1>4, AtCall DEF CreateAdmin, Calling, Then, AdminsOnce, Roles
<1>5. CASE \E c \in Classes : CreateTeacherUser(c)
  BY <1>2, <1>5 DEF CreateTeacherUser, Then, Roles, ADMIN_STAFF
<1>6. CASE \E p \in List["pupils"] : CreatePupilUser(p)
  BY <1>2, <1>6 DEF CreatePupilUser, Then, Roles, ADMIN_STAFF
<1>7. CASE CreateAdminStaff \/ CreateClass \/ CreateSubject \/ AssignTeacher \/ Enroll
  BY <1>1, <1>7, AtCall DEF CreateAdminStaff, CreateClass, CreateSubject, AssignTeacher, Enroll, Calling, Working
<1>8. ASSUME NEW c \in CLASS_DEFS, FindClass(c) PROVE AdminsOnce'
  BY <1>1, <1>8, NoAccountKeepsAdmins DEF FindClass, At, Then, Working
<1>9. ASSUME NEW l \in Lessons, FindSubject(l) PROVE AdminsOnce'
  BY <1>1, <1>9, NoAccountKeepsAdmins DEF FindSubject, At, Then, Working
<1>10. CASE CreateTeacherStaff \/ CreatePupil
  BY <1>10, NoAccountKeepsAdmins DEF CreateTeacherStaff, CreatePupil, Then
<1>11. CASE Begin \/ Summarise \/ Die
  BY <1>11, SectionCalls, NoAccountKeepsAdmins DEF Begin, Summarise, Die, ScriptTyped
<1>12. CASE UNCHANGED vars
  BY <1>12 DEF vars, AdminsOnce
<1> QED
  BY <1>3, <1>4, <1>5, <1>6, <1>7, <1>8, <1>9, <1>10, <1>11, <1>12 DEF Next

\* A step that gives no class a teacher, and is at the account of none.
LEMMA NoTeacherKeeps ==
    ASSUME SeedType, TeachersOnce, Grow, UNCHANGED teacher,
           section' = "teachers" /\ HasAccount' =>
              /\ \A c \in Classes : teacher[c] # made'
              /\ call' = "assign" => made' \in staff'
    PROVE  TeachersOnce'
<1>1. \A c \in Classes : teacher[c] # None => teacher[c] \in Users /\ role[teacher[c]] # None
  BY NoneIsNoRole DEF SeedType, RowsTyped, TeachersOnce, Roles
<1>2. \A c \in Classes : teacher'[c] # None =>
         teacher'[c] \in staff' /\ role'[teacher'[c]] = "class_teacher"
  BY <1>1 DEF TeachersOnce, Grow
<1>3. \A c, d \in Classes : teacher'[c] # None /\ teacher'[c] = teacher'[d] => c = d
  BY DEF TeachersOnce
<1>4. section' = "teachers" /\ HasAccount' => \A c \in Classes : teacher'[c] # made'
  OBVIOUS
<1>5. section' = "teachers" /\ call' = "assign" => made' \in staff'
  BY DEF HasAccount
<1> QED
  BY <1>2, <1>3, <1>4, <1>5 DEF TeachersOnce

LEMMA TeachersStep == SeedType /\ TeachersOnce /\ [Next]_vars => TeachersOnce'
<1> SUFFICES ASSUME SeedType, TeachersOnce, [Next]_vars PROVE TeachersOnce'
  OBVIOUS
<1> USE DEF SeedType, rows
<1>0. Grow
  BY NoRowIsLost
<1>1. ASSUME NEW x \in todo, DoneWith(x), section \in Working, UNCHANGED teacher PROVE TeachersOnce'
  <2>1. ~HasAccount'
    BY <1>1, DoneLeft DEF HasAccount
  <2> QED
    BY <1>0, <1>1, <2>1, NoTeacherKeeps
<1>2. CASE \E r \in ADMIN_STAFF : FindAdmin(r)
  BY <1>0, <1>1, <1>2, NoTeacherKeeps DEF FindAdmin, At, Then, Working
<1>3. CASE \E c \in CLASS_DEFS : FindClass(c)
  BY <1>0, <1>1, <1>3, NoTeacherKeeps DEF FindClass, At, Then, Working
<1>4. CASE \E l \in Lessons : FindSubject(l)
  BY <1>0, <1>1, <1>4, NoTeacherKeeps DEF FindSubject, At, Then, Working
<1>5. CASE CreateAdminStaff \/ CreateClass \/ CreateSubject \/ Enroll
  BY <1>1, <1>5, AtCall DEF CreateAdminStaff, CreateClass, CreateSubject, Enroll, Calling, Working
<1>6. CASE CreateAdmin \/ (\E p \in List["pupils"] : CreatePupilUser(p)) \/ CreatePupil
  BY <1>0, <1>6, NoTeacherKeeps DEF CreateAdmin, CreatePupilUser, CreatePupil, At, Calling, Then
<1>7. ASSUME NEW c \in Classes, CreateTeacherUser(c) PROVE TeachersOnce'
  <2>1. PICK u \in Users : role[u] = None /\ made' = u
    BY <1>7, FreshUser DEF CreateTeacherUser, Roles
  <2>2. \A d \in Classes : teacher[d] # u
    BY <2>1, NoneIsNoRole, SeedAssumption DEF TeachersOnce, Roles
  <2> QED
    BY <1>0, <1>7, <2>1, <2>2, NoTeacherKeeps DEF CreateTeacherUser, Then
<1>8. CASE CreateTeacherStaff
  <2>1. \A d \in Classes : teacher[d] # made
    BY <1>8 DEF CreateTeacherStaff, Calling, TeachersOnce, HasAccount
  <2> QED
    BY <1>0, <1>8, <2>1, NoTeacherKeeps DEF CreateTeacherStaff, Then
<1>9. CASE AssignTeacher
  <2>1. /\ made \in Users /\ role[made] = "class_teacher" /\ made \in staff /\ entry \in Classes
        /\ \A d \in Classes : teacher[d] # made
    BY <1>9, AtCall DEF AssignTeacher, Calling, TeachersOnce, ScriptTyped, HasAccount, RoleMade
  <2>2. /\ teacher'[entry] = made /\ \A d \in Classes \ {entry} : teacher'[d] = teacher[d]
        /\ UNCHANGED <<role, staff>>
    BY <1>9, <2>1 DEF AssignTeacher, RowsTyped
  <2>3. ~HasAccount'
    BY <1>9, AtCall, DoneLeft DEF AssignTeacher, Calling, Working, HasAccount
  <2>4. \A d \in Classes : teacher'[d] # None =>
           teacher'[d] \in staff' /\ role'[teacher'[d]] = "class_teacher"
    BY <2>1, <2>2 DEF TeachersOnce
  <2>5. \A d, e \in Classes : teacher'[d] # None /\ teacher'[d] = teacher'[e] => d = e
    BY <2>1, <2>2 DEF TeachersOnce
  <2>6. call' # "assign"
    BY <2>3 DEF HasAccount
  <2> QED
    BY <2>3, <2>4, <2>5, <2>6 DEF TeachersOnce
<1>10. CASE Begin \/ Summarise \/ Die
  BY <1>0, <1>10, SectionCalls, NoTeacherKeeps DEF Begin, Summarise, Die, ScriptTyped, HasAccount
<1>11. CASE UNCHANGED vars
  BY <1>11 DEF vars, TeachersOnce, HasAccount
<1> QED
  BY <1>2, <1>3, <1>4, <1>5, <1>6, <1>7, <1>8, <1>9, <1>10, <1>11 DEF Next

-----------------------------------------------------------------------------
(* Pupils.                                                                   *)

LEMMA Times ==
    /\ PupilsPerClass \in Nat /\ PupilsPerClass > 0
    /\ \A n \in Nat : n * PupilsPerClass \in Nat /\ (n + 1) * PupilsPerClass = n * PupilsPerClass + PupilsPerClass
BY SeedAssumption

\* There are so many pupils to make, in each class.
LEMMA ListOfClass ==
    ASSUME NEW c \in Classes
    PROVE  /\ \A S \in SUBSET (1..PupilsPerClass) :
                 IsFiniteSet(S) /\ Cardinality(S) \in Nat /\ Cardinality(S) <= PupilsPerClass
           /\ Cardinality(1..PupilsPerClass) = PupilsPerClass
           /\ {i \in 1..PupilsPerClass : <<c, i>> \in List["pupils"]} = 1..PupilsPerClass
<1>1. IsFiniteSet(1..PupilsPerClass) /\ Cardinality(1..PupilsPerClass) = PupilsPerClass
  BY Times, FS_Interval
<1>2. \A S \in SUBSET (1..PupilsPerClass) :
         IsFiniteSet(S) /\ Cardinality(S) \in Nat /\ Cardinality(S) <= PupilsPerClass
  BY <1>1, FS_Subset, FS_CardinalityType
<1>3. {i \in 1..PupilsPerClass : <<c, i>> \in List["pupils"]} = 1..PupilsPerClass
  BY Lists
<1> QED
  BY <1>1, <1>2, <1>3

\* A step that enrolls nobody, and is at the account of no pupil but a new one.
EnrollsNobody ==
    /\ UNCHANGED enrolled
    /\ Left("pupils")' = Left("pupils")
    /\ finished' = finished /\ Begun' = Begun
    /\ section' = "pupils" /\ HasAccount' => \A c \in Classes : <<made', c>> \notin enrolled

LEMMA NobodyEnrolled ==
    ASSUME SeedType, PupilsCounted, Grow, EnrollsNobody
    PROVE  PupilsCounted'
<1>1. \A c \in Classes : PupilsOf(c)' = PupilsOf(c) /\ LeftOf(c)' = LeftOf(c)
  BY DEF EnrollsNobody, PupilsOf, LeftOf
<1>2. \A c \in Classes : Counted(c)'
  BY <1>1 DEF EnrollsNobody, PupilsCounted, Counted
<1>3. \A u \in Users, c \in Classes : <<u, c>> \in enrolled' => role'[u] = "student"
  BY NoneIsNoRole DEF EnrollsNobody, PupilsCounted, Grow, Roles
<1>4. section' = "pupils" /\ HasAccount' => \A c \in Classes : <<made', c>> \notin enrolled'
  BY DEF EnrollsNobody
<1> QED
  BY <1>2, <1>3, <1>4 DEF PupilsCounted

LEMMA PupilsInit == Init => PupilsCounted
<1> SUFFICES ASSUME Init PROVE PupilsCounted
  OBVIOUS
<1>1. ASSUME NEW c \in Classes PROVE Counted(c)
  <2>1. PupilsOf(c) = {}
    BY DEF Init, PupilsOf
  <2>2. LeftOf(c) = 1..PupilsPerClass
    BY ListOfClass, Lists DEF Init, Left, LeftOf
  <2>3. finished = 0 /\ Begun = 1
    BY DEF Init, Begun
  <2> QED
    BY <2>1, <2>2, <2>3, FS_EmptySet, ListOfClass, Times DEF Counted
<1> QED
  BY <1>1 DEF Init, PupilsCounted, HasAccount

\* One pupil less to enroll, one more enrolled.
LEMMA EnrollCounts ==
    ASSUME SeedType, PupilsCounted, Enroll
    PROVE  PupilsCounted'
<1> USE DEF SeedType
<1>1. /\ made \in Users /\ role[made] = "student" /\ entry \in todo /\ section = "pupils"
      /\ entry \in Classes \X (1..PupilsPerClass)
      /\ \A c \in Classes : <<made, c>> \notin enrolled
  BY AtCall DEF Enroll, Calling, ScriptTyped, HasAccount, RoleMade, PupilsCounted
<1>2. PICK c \in Classes, i \in 1..PupilsPerClass : entry = <<c, i>>
  BY <1>1
<1>3. /\ ~HasAccount' /\ section' # "idle"
      /\ Left("pupils")' = Left("pupils") \ {entry} /\ entry \in Left("pupils")
  BY <1>1, DoneLeft DEF Enroll, HasAccount, Working, Left
<1>4. UNCHANGED <<role, runs, finished>> /\ enrolled' = enrolled \union {<<made, c>>} /\ Begun' = Begun
  BY <1>1, <1>2, <1>3 DEF Enroll, counts, Begun
<1>5. ASSUME NEW d \in Classes PROVE Counted(d)'
  <2>1. CASE d = c
    <3>1. PupilsOf(c)' = PupilsOf(c) \union {made} /\ made \notin PupilsOf(c)
      BY <1>1, <1>4 DEF PupilsOf
    <3>2. LeftOf(c)' = LeftOf(c) \ {i} /\ i \in LeftOf(c)
      BY <1>2, <1>3 DEF LeftOf
    <3>3. IsFiniteSet(LeftOf(c)) /\ Cardinality(LeftOf(c)) \in Nat
      BY ListOfClass DEF LeftOf
    <3>4. IsFiniteSet(PupilsOf(c)) /\ Cardinality(PupilsOf(c)) \in Nat
      BY FS_CardinalityType DEF PupilsCounted, Counted
    <3>5. /\ IsFiniteSet(PupilsOf(c)') /\ Cardinality(PupilsOf(c)') = Cardinality(PupilsOf(c)) + 1
          /\ Cardinality(LeftOf(c)') = Cardinality(LeftOf(c)) - 1
      <4>1. /\ IsFiniteSet(PupilsOf(c) \union {made})
            /\ Cardinality(PupilsOf(c) \union {made}) = Cardinality(PupilsOf(c)) + 1
        BY <3>1, <3>4, FS_AddElement
      <4>2. Cardinality(LeftOf(c) \ {i}) = Cardinality(LeftOf(c)) - 1
        BY <3>2, <3>3, FS_RemoveElement
      <4> QED
        BY <3>1, <3>2, <4>1, <4>2
    <3>6. Cardinality(PupilsOf(c)') + Cardinality(LeftOf(c)') = Cardinality(PupilsOf(c)) + Cardinality(LeftOf(c))
      BY <3>3, <3>4, <3>5
    <3> QED
      BY <1>4, <2>1, <3>5, <3>6 DEF PupilsCounted, Counted
  <2>2. CASE d # c
    <3>1. PupilsOf(d)' = PupilsOf(d)
      BY <1>4, <2>2 DEF PupilsOf
    <3>2. LeftOf(d)' = LeftOf(d)
      BY <1>2, <1>3, <2>2 DEF LeftOf
    <3> QED
      BY <1>4, <3>1, <3>2 DEF PupilsCounted, Counted
  <2> QED
    BY <2>1, <2>2
<1>6. \A u \in Users, d \in Classes : <<u, d>> \in enrolled' => role'[u] = "student"
  BY <1>1, <1>4 DEF PupilsCounted
<1> QED
  BY <1>3, <1>5, <1>6 DEF PupilsCounted

\* A run that dies leaves all pupils to the next one; one that comes to its end
\* has enrolled its own.
LEMMA EndCounts ==
    ASSUME SeedType, PupilsCounted, Die \/ Summarise
    PROVE  PupilsCounted'
<1> USE DEF SeedType, RowsTyped
<1>1. /\ UNCHANGED <<role, enrolled, runs>> /\ section # "idle" /\ section' = "idle"
      /\ Begun = runs /\ Begun' = runs + 1
  BY DEF Die, Summarise, rows, Begun
<1>2. ASSUME NEW c \in Classes PROVE Counted(c)'
  <2>1. PupilsOf(c)' = PupilsOf(c)
    BY <1>1 DEF PupilsOf
  <2>2. IsFiniteSet(PupilsOf(c)) /\ Cardinality(PupilsOf(c)) \in Nat
    BY FS_CardinalityType DEF PupilsCounted, Counted
  <2>3. Cardinality(LeftOf(c)) \in Nat /\ Cardinality(LeftOf(c)) <= PupilsPerClass
    BY ListOfClass DEF LeftOf
  <2>4. LeftOf(c)' = 1..PupilsPerClass
    <3>1. Left("pupils")' = List["pupils"]
      BY <1>1, RestLeft DEF Working
    <3> QED
      BY <3>1, ListOfClass DEF LeftOf
  <2>5. Cardinality(LeftOf(c)') = PupilsPerClass
    BY <2>4, ListOfClass
  <2>6. /\ Cardinality(PupilsOf(c)) + Cardinality(LeftOf(c)) >= (finished + 1) * PupilsPerClass
        /\ Cardinality(PupilsOf(c)) + Cardinality(LeftOf(c)) <= runs * PupilsPerClass
    BY <1>1 DEF PupilsCounted, Counted
  <2>7. Cardinality(PupilsOf(c)) + PupilsPerClass <= (runs + 1) * PupilsPerClass
    BY <2>2, <2>3, <2>6, Times
  <2>8. Cardinality(PupilsOf(c)) + PupilsPerClass >= (finished' + 1) * PupilsPerClass
    <3>1. CASE Die
      BY <2>2, <2>3, <2>6, <3>1, Times DEF Die
    <3>2. CASE Summarise
      <4>1. LeftOf(c) = {} /\ finished' = finished + 1
        BY <3>2, Lists DEF Summarise, LeftOf, Left
      <4>2. Cardinality(PupilsOf(c)) >= (finished + 1) * PupilsPerClass
        BY <2>2, <2>6, <4>1, FS_EmptySet, Times
      <4>3. (finished' + 1) * PupilsPerClass = (finished + 1) * PupilsPerClass + PupilsPerClass
        BY <4>1, Times
      <4> QED
        BY <2>2, <4>2, <4>3, Times
    <3> QED
      BY <3>1, <3>2
  <2> QED
    BY <1>1, <2>1, <2>2, <2>5, <2>7, <2>8 DEF Counted
<1> QED
  BY <1>1, <1>2 DEF PupilsCounted

LEMMA PupilsStep == SeedType /\ PupilsCounted /\ [Next]_vars => PupilsCounted'
<1> SUFFICES ASSUME SeedType, PupilsCounted, [Next]_vars PROVE PupilsCounted'
  OBVIOUS
<1> USE DEF SeedType, rows, counts
<1>0. Grow
  BY NoRowIsLost
<1>1. ASSUME NEW x \in todo, DoneWith(x), section \in Working, section # "pupils",
             UNCHANGED <<enrolled, counts>>
      PROVE  PupilsCounted'
  <2>1. ~HasAccount' /\ section' # "idle" /\ section # "idle" /\ Left("pupils")' = Left("pupils")
    BY <1>1, DoneLeft DEF HasAccount, Working
  <2> QED
    BY <1>0, <1>1, <2>1, NobodyEnrolled DEF EnrollsNobody, Begun
<1>2. ASSUME UNCHANGED <<section, todo, enrolled, counts>>,
             section' = "pupils" /\ HasAccount' => \A c \in Classes : <<made', c>> \notin enrolled
      PROVE  PupilsCounted'
  <2>1. Left("pupils")' = Left("pupils")
    BY <1>2, StayLeft
  <2> QED
    BY <1>0, <1>2, <2>1, NobodyEnrolled DEF EnrollsNobody, Begun
<1>3. CASE \E r \in ADMIN_STAFF : FindAdmin(r)
  BY <1>1, <1>2, <1>3 DEF FindAdmin, At, Then, Working
<1>4. CASE \E c \in CLASS_DEFS : FindClass(c)
  BY <1>1, <1>2, <1>4 DEF FindClass, At, Then, Working
<1>5. CASE \E l \in Lessons : FindSubject(l)
  BY <1>1, <1>2, <1>5 DEF FindSubject, At, Then, Working
<1>6. CASE CreateAdminStaff \/ CreateClass \/ CreateSubject \/ AssignTeacher
  BY <1>1, <1>6, AtCall DEF CreateAdminStaff, CreateClass, CreateSubject, AssignTeacher, Calling, Working
<1>7. CASE CreateAdmin \/ (\E c \in Classes : CreateTeacherUser(c)) \/ CreateTeacherStaff
  BY <1>2, <1>7 DEF CreateAdmin, CreateTeacherUser, CreateTeacherStaff, At, Calling, Then
<1>8. ASSUME NEW p \in List["pupils"], CreatePupilUser(p) PROVE PupilsCounted'
  <2>1. PICK u \in Users : role[u] = None /\ made' = u
    BY <1>8, FreshUser DEF CreatePupilUser, Roles
  <2>2. \A c \in Classes : <<u, c>> \notin enrolled
    BY <2>1, NoneIsNoRole DEF PupilsCounted, Roles
  <2> QED
    BY <1>2, <1>8, <2>1, <2>2 DEF CreatePupilUser, Then
<1>9. CASE CreatePupil
  <2>1. \A c \in Classes : <<made, c>> \notin enrolled
    BY <1>9 DEF CreatePupil, Calling, PupilsCounted, HasAccount
  <2> QED
    BY <1>2, <1>9, <2>1 DEF CreatePupil, Then
<1>10. CASE Enroll
  BY <1>10, EnrollCounts
<1>11. CASE Begin
  <2>1. Left("pupils")' = Left("pupils")
    BY <1>11, RestLeft, Lists DEF Begin, Left, Working
  <2>2. Begun' = Begun
    BY <1>11 DEF Begin, Begun
  <2> QED
    BY <1>0, <1>11, <2>1, <2>2, NobodyEnrolled DEF Begin, EnrollsNobody
<1>12. CASE Die \/ Summarise
  BY <1>12, EndCounts
<1>13. CASE UNCHANGED vars
  BY <1>2, <1>13 DEF vars, PupilsCounted, HasAccount
<1> QED
  BY <1>3, <1>4, <1>5, <1>6, <1>7, <1>8, <1>9, <1>10, <1>11, <1>12, <1>13 DEF Next

-----------------------------------------------------------------------------
(* Half-made accounts.                                                       *)

\* A step that tears no account but the one it has at hand.
TearsNobody == deaths' = deaths /\ (Torn \ {made})' \subseteq Torn \ {made} /\ Torn' \subseteq Torn \union {made'}

LEMMA NobodyTorn ==
    ASSUME TornCounted, TearsNobody, deaths \in Nat
    PROVE  TornCounted'
<1>1. IsFiniteSet(Torn')
  <2>1. IsFiniteSet(Torn \union {made'})
    BY FS_AddElement DEF TornCounted
  <2> QED
    BY <2>1, FS_Subset DEF TearsNobody
<1>2. Cardinality((Torn \ {made})') <= Cardinality(Torn \ {made}) /\ IsFiniteSet(Torn \ {made})
      /\ IsFiniteSet((Torn \ {made})')
  <2>1. IsFiniteSet(Torn \ {made})
    BY FS_RemoveElement DEF TornCounted
  <2> QED
    BY <2>1, FS_Subset DEF TearsNobody
<1>3. Cardinality((Torn \ {made})') \in Nat /\ Cardinality(Torn \ {made}) \in Nat
  BY <1>2, FS_CardinalityType
<1> QED
  BY <1>1, <1>2, <1>3 DEF TornCounted, TearsNobody

LEMMA TornInit == Init => TornCounted
<1> SUFFICES ASSUME Init PROVE TornCounted
  OBVIOUS
<1>1. Torn = {}
  BY DEF Init, Torn
<1> QED
  BY <1>1, FS_EmptySet DEF Init, TornCounted

LEMMA TornStep == SeedType /\ TeachersOnce /\ TornCounted /\ [Next]_vars => TornCounted'
<1> SUFFICES ASSUME SeedType, TeachersOnce, TornCounted, [Next]_vars PROVE TornCounted'
  OBVIOUS
<1> USE DEF SeedType, RowsTyped, rows, counts
\* No account is made and none is left.
<1>1. ASSUME UNCHANGED <<role, deaths>>, staff \subseteq staff', enrolled \subseteq enrolled',
             made' = made \/ made \notin Torn'
      PROVE  TornCounted'
  <2>1. Torn' \subseteq Torn
    BY <1>1 DEF Torn
  <2>2. TearsNobody
    BY <1>1, <2>1 DEF TearsNobody
  <2> QED
    BY <2>2, NobodyTorn
\* An account is made while none is at hand.
<1>2. ASSUME NEW r \in Roles, MakeUser(r), UNCHANGED <<staff, enrolled, deaths>>, made = None
      PROVE  TornCounted'
  <2>1. PICK u \in Users : /\ role[u] = None /\ made' = u /\ role'[u] = r
                           /\ \A v \in Users \ {u} : role'[v] = role[v]
    BY <1>2, FreshUser
  <2>2. Torn' \subseteq Torn \union {u} /\ None \notin Torn /\ None \notin Torn' /\ u \notin Torn
    BY <1>2, <2>1, SeedAssumption DEF Torn
  <2>3. TearsNobody
    BY <1>2, <2>1, <2>2 DEF TearsNobody
  <2> QED
    BY <2>3, NobodyTorn
<1>3. None \notin Torn
  BY SeedAssumption DEF Torn
<1>4. CASE \E r \in ADMIN_STAFF : FindAdmin(r)
  <2>1. made = None
    BY <1>4 DEF FindAdmin, At, ScriptTyped, HasAccount
  <2>2. UNCHANGED <<rows, counts>>
    BY <1>4 DEF FindAdmin
  <2>3. made \notin Torn'
    BY <2>1, SeedAssumption DEF Torn
  <2> QED
    BY <1>1, <2>2, <2>3
<1>5. CASE (\E c \in CLASS_DEFS : FindClass(c)) \/ (\E l \in Lessons : FindSubject(l)) \/ CreateClass \/ CreateSubject
           \/ Begin \/ Summarise
  <2>1. made = None
    BY <1>5, SectionCalls
       DEF FindClass, FindSubject, CreateClass, CreateSubject, Begin, Summarise, At, Calling, ScriptTyped, HasAccount
  <2>2. UNCHANGED <<role, staff, enrolled, deaths>>
    BY <1>5 DEF FindClass, FindSubject, CreateClass, CreateSubject, Begin, Summarise
  <2>3. made \notin Torn'
    BY <2>1, SeedAssumption DEF Torn
  <2> QED
    BY <1>1, <2>2, <2>3
<1>6. CASE CreateAdmin
  BY <1>2, <1>6, AtCall DEF CreateAdmin, Calling, ScriptTyped, HasAccount, Roles
<1>7. CASE \E c \in Classes : CreateTeacherUser(c)
  BY <1>2, <1>7 DEF CreateTeacherUser, At, ScriptTyped, HasAccount, Roles
<1>8. CASE \E p \in List["pupils"] : CreatePupilUser(p)
  BY <1>2, <1>8 DEF CreatePupilUser, At, ScriptTyped, HasAccount, Roles
<1>9. CASE CreateAdminStaff \/ CreateTeacherStaff
  <2>1. UNCHANGED <<role, enrolled, deaths>> /\ staff' = staff \union {made}
    BY <1>9 DEF CreateAdminStaff, CreateTeacherStaff
  <2>2. made \notin Torn'
    BY <2>1 DEF Torn
  <2> QED
    BY <1>1, <2>1, <2>2
<1>10. CASE CreatePupil
  BY <1>1, <1>10 DEF CreatePupil
<1>11. CASE Enroll
  <2>1. entry[1] \in Classes /\ UNCHANGED <<role, staff, deaths>> /\ enrolled' = enrolled \union {<<made, entry[1]>>}
    BY <1>11, AtCall DEF Enroll
  <2>2. made \notin Torn'
    BY <2>1 DEF Torn
  <2> QED
    BY <1>1, <2>1, <2>2
<1>12. CASE Die
  <2>1. Torn' = Torn /\ made' = None /\ deaths' = deaths + 1
    BY <1>12 DEF Die, Torn
  <2>2. IsFiniteSet(Torn) /\ Cardinality(Torn) \in Nat
    BY FS_CardinalityType DEF TornCounted
  <2>3. Cardinality(Torn \ {made}) = IF made \in Torn THEN Cardinality(Torn) - 1 ELSE Cardinality(Torn)
    BY <2>2, FS_RemoveElement
  <2>4. (Torn \ {made})' = Torn
    BY <1>3, <2>1
  <2>5. Cardinality(Torn) <= deaths + 1
    BY <2>2, <2>3 DEF TornCounted
  <2> QED
    BY <2>1, <2>2, <2>4, <2>5 DEF TornCounted
<1>13. CASE UNCHANGED vars
  BY <1>1, <1>13 DEF vars
<1>14. CASE AssignTeacher
  <2>1. UNCHANGED <<role, staff, enrolled, deaths>>
    BY <1>14 DEF AssignTeacher
  <2>2. made \in staff
    BY <1>14 DEF AssignTeacher, Calling, TeachersOnce
  <2> QED
    BY <1>1, <2>1, <2>2 DEF Torn
<1> QED
  BY <1>4, <1>5, <1>6, <1>7, <1>8, <1>9, <1>10, <1>11, <1>12, <1>13, <1>14 DEF Next

-----------------------------------------------------------------------------
(* The inductive invariant and the theorem.                                  *)

LEMMA SeedInit == Init => SeedInv
<1>1. Init => SoFar
  BY Lists, SeedAssumption DEF Init, SoFar, Left, CLASS_DEFS
<1>2. ASSUME Init PROVE AdminsOnce
  <2>1. PICK A \in {{}, {CHOOSE u \in Users : TRUE}} : role = [u \in Users |-> IF u \in A THEN "admin" ELSE None]
    BY <1>2 DEF Init
  <2>2. \A u, v \in Users : u \in A /\ v \in A => u = v
    BY <2>1
  <2>3. \A u \in Users : role[u] \in ADMIN_STAFF => u \in A
    BY <2>1, NoneIsNoRole DEF Roles
  <2>4. \A u, v \in Users : role[u] \in ADMIN_STAFF /\ role[u] = role[v] => u = v
    BY <2>2, <2>3
  <2> QED
    BY <1>2, <2>4 DEF Init, AdminsOnce
<1>3. Init => TeachersOnce
  BY DEF Init, TeachersOnce
<1> QED
  BY <1>1, <1>2, <1>3, TypeInit, PupilsInit, TornInit DEF SeedInv

LEMMA SeedAlways == Spec => []SeedInv
<1>1. SeedInv /\ [Next]_vars => SeedInv'
  BY TypeStep, SoFarStep, AdminsStep, TeachersStep, PupilsStep, TornStep DEF SeedInv
<1> QED
  BY <1>1, SeedInit, PTL DEF Spec

\* The tables and the variables of the script stay typed.
THEOREM SeedTypeCorrect == Spec => []SeedType
<1>1. SeedInv => SeedType
  BY DEF SeedInv
<1> QED
  BY <1>1, SeedAlways, PTL

LEMMA CompleteWhenFinished == SeedInv /\ finished > 0 => SchoolComplete
<1> SUFFICES ASSUME SeedInv, finished > 0 PROVE SchoolComplete
  OBVIOUS
<1> USE DEF SeedInv, SeedType, RowsTyped
<1>1. \A r \in ADMIN_STAFF : \E u \in Users : role[u] = r
  BY DEF SoFar
<1>2. classes = Classes
  BY DEF SoFar, CLASS_DEFS
<1>3. subjects = Lessons
  BY DEF SoFar
<1>4. /\ \A c \in Classes : teacher[c] \in staff /\ role[teacher[c]] = "class_teacher"
      /\ \A c, d \in Classes : teacher[c] = teacher[d] => c = d
  BY DEF SoFar, TeachersOnce
<1>5. ASSUME NEW c \in Classes PROVE Cardinality(PupilsOf(c)) >= finished * PupilsPerClass
  <2>1. Cardinality(LeftOf(c)) \in Nat /\ Cardinality(LeftOf(c)) <= PupilsPerClass
    BY ListOfClass DEF LeftOf
  <2>2. /\ Cardinality(PupilsOf(c)) \in Nat
        /\ Cardinality(PupilsOf(c)) + Cardinality(LeftOf(c)) >= (finished + 1) * PupilsPerClass
    BY FS_CardinalityType DEF PupilsCounted, Counted
  <2> QED
    BY <2>1, <2>2, Times
<1> QED
  BY <1>1, <1>2, <1>3, <1>4, <1>5 DEF SchoolComplete

LEMMA NothingTwiceAlways == SeedInv => NothingTwice
<1> SUFFICES ASSUME SeedInv PROVE NothingTwice
  OBVIOUS
<1> USE DEF SeedInv, SeedType, RowsTyped
<1>1. ASSUME NEW c \in Classes PROVE Cardinality(PupilsOf(c)) <= runs * PupilsPerClass
  <2>1. Cardinality(LeftOf(c)) \in Nat
    BY ListOfClass DEF LeftOf
  <2>2. /\ Cardinality(PupilsOf(c)) \in Nat
        /\ Cardinality(PupilsOf(c)) + Cardinality(LeftOf(c)) <= Begun * PupilsPerClass
    BY FS_CardinalityType DEF PupilsCounted, Counted
  <2>3. CASE section = "idle"
    <3>1. Left("pupils") = List["pupils"]
      BY <2>3, Lists DEF ScriptTyped, Left
    <3>2. Cardinality(LeftOf(c)) = PupilsPerClass
      BY <3>1, ListOfClass DEF LeftOf
    <3> QED
      BY <2>2, <2>3, <3>2, Times DEF Begun
  <2>4. CASE section # "idle"
    BY <2>1, <2>2, <2>4, Times DEF Begun
  <2> QED
    BY <2>3, <2>4
<1> QED
  BY <1>1 DEF AdminsOnce, NothingTwice

LEMMA DeathsPay == SeedInv => OneTornPerDeath
<1> SUFFICES ASSUME SeedInv PROVE OneTornPerDeath
  OBVIOUS
<1>1. IsFiniteSet(Torn) /\ Cardinality(Torn) \in Nat /\ Cardinality(Torn \ {made}) <= deaths /\ deaths \in Nat
  BY FS_CardinalityType DEF SeedInv, TornCounted, SeedType, RowsTyped
<1>2. Cardinality(Torn \ {made}) = IF made \in Torn THEN Cardinality(Torn) - 1 ELSE Cardinality(Torn)
  BY <1>1, FS_RemoveElement
<1>3. None \notin Torn
  BY SeedAssumption DEF Torn
<1> QED
  BY <1>1, <1>2, <1>3 DEF OneTornPerDeath

\* However often and wherever runs of the script die, a run that comes to its
\* end leaves a complete school, nothing is there twice that the script looks
\* for, and each death costs at most one account that stays half made.
THEOREM SeedAlwaysResumes == Spec => []SeedResumes
<1>1. SeedInv => SeedResumes
  BY CompleteWhenFinished, NothingTwiceAlways, DeathsPay DEF SeedResumes
<1> QED
  BY <1>1, SeedAlways, PTL
===============================================================================
