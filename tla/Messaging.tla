------------------------------ MODULE Messaging -------------------------------
(***************************************************************************)
(* Threads of messages between a parent and a teacher about a pupil        *)
(* (messages.service.ts), announcements to an audience                     *)
(* (announcements.service.ts) and the notifications both leave with users  *)
(* (notifications.service.ts).  Requests are answered before anybody is    *)
(* notified; the notification is made by the same process a moment later.  *)
(*                                                                         *)
(* An action is one database call and the code up to the next `await`;     *)
(* lookups of rows that nothing deletes are joined with the write that     *)
(* follows.  Who may do what follows the accounts as they are in module    *)
(* Accounts when the request comes.  Of students.service.ts there is the   *)
(* deactivation of a pupil, which decides who is in a class's audience.    *)
(***************************************************************************)
EXTENDS Accounts

CONSTANTS
    Posters,    \* requests about messages the process may have in flight
    Messages,   \* identities of rows of table messages
    Notices,    \* identities of announcements
    Classes,
    ClassOf,    \* the class of each pupil
    AccountOf   \* the user account of each pupil, its own, None if there is none

ASSUME MessagingAssumption ==
    /\ None \notin Messages \union Notices \union Classes
    /\ None \notin [parent : Users, teacher : Users, student : Students]
    /\ Messages \intersect Notices = {}
    /\ ClassOf \in [Students -> Classes]
    /\ AccountOf \in [Students -> {u \in DOMAIN FirstUsers : FirstUsers[u] = "student"} \union {None}]
    /\ \A s, t \in Students : AccountOf[s] = AccountOf[t] /\ AccountOf[s] # None => s = t

VARIABLES
    pupil,         \* table students: the rows with isActive
    thread,        \* table message_threads
    message,       \* table messages
    announcement,  \* table announcements
    note,          \* table notifications, by user and what it is about
    poster,        \* the next database call of each request
    draft,         \* the local variables of each request
    due,           \* history: who was in the audience all the time since the posting
    cut            \* history: what a request that died was at

mailTables == <<thread, message, announcement, note>>
mailVars == <<pupil, thread, message, announcement, note, poster, draft, due, cut>>

Thread == [parent : Users, teacher : Users, student : Students]

Audiences == {"all", "parents", "teachers", "class"}

NoMessage == [thread |-> None, from |-> None, read |-> FALSE]

NoNotice == [state |-> "none", audience |-> None, class |-> None]

NoDraft == [user |-> None, thread |-> None, message |-> None, notice |-> None, targets |-> {}]

MailTypeOK ==
    /\ pupil \subseteq Students
    /\ thread \subseteq Thread
    /\ message \in [Messages -> [thread : thread, from : Users, read : BOOLEAN] \union {NoMessage}]
    /\ announcement \in [Notices -> [state    : {"none", "posted", "deleted"},
                                     audience : Audiences \union {None},
                                     class    : Classes \union {None}]]
    /\ note \in [Users \X (Messages \union Notices) -> {"none", "unread", "read"}]
    /\ poster \in [Posters -> {"idle", "write", "tell", "mark", "resolve", "fanOut", "delete"}]
    /\ draft \in [Posters -> [user    : Users \union {None},    thread : thread \union {None},
                              message : Messages \union {None}, notice : Notices \union {None},
                              targets : SUBSET Users]]
    /\ due \in [Notices -> SUBSET Users]
    /\ cut \subseteq thread \union Messages \union Notices

MailInit ==
    /\ pupil = Students
    /\ thread = {}
    /\ message = [m \in Messages |-> NoMessage]
    /\ announcement = [a \in Notices |-> NoNotice]
    /\ note = [x \in Users \X (Messages \union Notices) |-> "none"]
    /\ poster = [w \in Posters |-> "idle"]
    /\ draft = [w \in Posters |-> NoDraft]
    /\ due = [a \in Notices |-> {}]
    /\ cut = {}

Take(w) == poster[w] = "idle" /\ Spend("mail")

Then(w, call) == poster' = [poster EXCEPT ![w] = call]

Done(w) == Then(w, "idle") /\ draft' = [draft EXCEPT ![w] = NoDraft]

Notify(us, x) == note' = [n \in DOMAIN note |-> IF n[1] \in us /\ n[2] = x THEN "unread" ELSE note[n]]

-----------------------------------------------------------------------------
(* messages.service.ts                                                      *)

Heads == {"admin", "principal", "vice_principal"}

TeacherRoles == Heads \union {"class_teacher", "subject_teacher"}

\* createThread, by a parent: an upsert under the unique index of parent,
\* teacher and pupil; the first message follows.
CreateThread(w, u, t, s) ==
    /\ u \in parent
    /\ staff[t] # "none" /\ user[t].school = user[u].school
    /\ LET th == [parent |-> u, teacher |-> t, student |-> s]
       IN  /\ thread' = thread \union {th}
           /\ draft' = [draft EXCEPT ![w].user = u, ![w].thread = th]
    /\ Then(w, "write")
    /\ UNCHANGED <<message, announcement, note, due, cut>>

\* assertIsParticipant
IsParticipant(th, u) == u \in {th.parent, th.teacher} \/ user[u].role \in Heads

\* sendMessage: not for students.
SendMessage(w, u, th) ==
    /\ user[u].role # "student"
    /\ IsParticipant(th, u)
    /\ draft' = [draft EXCEPT ![w].user = u, ![w].thread = th]
    /\ Then(w, "write")
    /\ UNCHANGED <<mailTables, due, cut>>

\* The message is there and the request answered; the notification goes on.
WriteMessage(w) ==
    /\ poster[w] = "write"
    /\ \E m \in Messages :
          /\ message[m] = NoMessage
          /\ m = CHOOSE n \in Messages : message[n] = NoMessage
          /\ message' = [message EXCEPT ![m] = [thread |-> draft[w].thread, from |-> draft[w].user,
                                                read |-> FALSE]]
          /\ draft' = [draft EXCEPT ![w].message = m]
    /\ Then(w, "tell")
    /\ UNCHANGED <<thread, announcement, note, due, cut, budget>>

\* Mutant of Recipient: the teacher, whoever wrote.
RecipientTeacher(th, u) == th.teacher

\* The other participant; for a head who is neither, the parent.
Recipient(th, u) == IF u = th.parent THEN th.teacher ELSE th.parent

TellRecipient(w) ==
    /\ poster[w] = "tell"
    /\ Notify({Recipient(draft[w].thread, draft[w].user)}, draft[w].message)
    /\ Done(w)
    /\ UNCHANGED <<thread, message, announcement, due, cut, budget>>

\* markThreadRead: what others wrote in the thread, by one updateMany.
MarkThreadRead(w, u, th) ==
    /\ IsParticipant(th, u)
    /\ draft' = [draft EXCEPT ![w].user = u, ![w].thread = th]
    /\ Then(w, "mark")
    /\ UNCHANGED <<mailTables, due, cut>>

MarkMessages(w) ==
    /\ poster[w] = "mark"
    /\ message' = [m \in Messages |->
          IF message[m].thread = draft[w].thread /\ message[m].from # draft[w].user
            THEN [message[m] EXCEPT !.read = TRUE] ELSE message[m]]
    /\ Done(w)
    /\ UNCHANGED <<thread, announcement, note, due, cut, budget>>

\* Mutant of ThreadFilter: without a profile there is no condition on it.
ThreadFilterNoProfile(u, th) ==
    /\ user[th.parent].school = user[u].school
    /\ user[u].role = "parent" /\ u \in parent => th.parent = u
    /\ user[u].role \in TeacherRoles /\ staff[u] # "none" => th.teacher = u

\* buildThreadFilter: parents and teachers, heads among them, find the threads
\* of their profile; other roles all of the school.
ThreadFilter(u, th) ==
    CASE user[u].role = "parent" -> u \in parent /\ th.parent = u
      [] user[u].role \in TeacherRoles -> staff[u] # "none" /\ th.teacher = u
      [] OTHER -> user[th.parent].school = user[u].school

\* findThreads
ThreadsListed(u) == {th \in thread : ThreadFilter(u, th)}

\* findMessages
MessagesShown(u, th) == {m \in Messages : IsParticipant(th, u) /\ message[m].thread = th}

-----------------------------------------------------------------------------
(* announcements.service.ts                                                 *)

\* Mutant of Targets: heads are not told.
TargetsNoHeads(a) ==
    {u \in Users : user[u].active /\ user[u].school = FirstSchool /\ user[u].role \notin Heads}

\* resolveTargetUserIds
Targets(a) ==
    LET n == announcement[a]
        active == {u \in Users : user[u].active /\ user[u].school = FirstSchool}
    IN  CASE n.audience = "all" -> active
          [] n.audience = "parents" -> {u \in active : user[u].role = "parent"}
          [] n.audience = "teachers" -> {u \in active : user[u].role \in TeacherRoles}
          [] n.audience = "class" ->
               LET pupils == {s \in pupil : ClassOf[s] = n.class}
               IN  ({AccountOf[s] : s \in pupils} \ {None})
                   \union {u \in parent : \E s \in pupils : <<u, s>> \in child}
          [] OTHER -> {}

\* buildAudienceFilter
AudienceFilter(n, role, class) ==
    \/ n.audience = "all"
    \/ n.audience = "parents" /\ role = "parent"
    \/ n.audience = "teachers" /\ role \in TeacherRoles
    \/ n.audience = "class" /\ class # None /\ class = n.class

\* findAll: the class is looked up for students only, so parents are told of an
\* announcement to a class but never list it.
ClassFilter(u) ==
    LET own == {s \in Students : AccountOf[s] = u}
    IN  IF user[u].role = "student" /\ own # {} THEN ClassOf[CHOOSE s \in own : TRUE] ELSE None

Listed(n, u) ==
    /\ Authenticated(u) /\ user[u].school = FirstSchool
    /\ n.state = "posted"
    /\ AudienceFilter(n, user[u].role, ClassFilter(u))

\* History: findAll does not ask whether the pupil is active, the fan-out does;
\* a pupil deactivated as a student lists what he is not owed, once his user is
\* active again.
Owed(n, u) ==
    /\ Listed(n, u)
    /\ n.audience = "class" => \E s \in pupil : AccountOf[s] = u

\* create: the row is there and the request answered; the fan-out goes on.
Announce(w, a, audience, class) ==
    /\ announcement[a] = NoNotice
    /\ (audience = "class") = (class # None)
    /\ LET n == [state |-> "posted", audience |-> audience, class |-> class]
       IN  /\ announcement' = [announcement EXCEPT ![a] = n]
           /\ due' = [due EXCEPT ![a] = {v \in Users : Owed(n, v)}]
    /\ draft' = [draft EXCEPT ![w].notice = a]
    /\ Then(w, "resolve")
    /\ UNCHANGED <<thread, message, note, cut>>

\* fanOutNotifications: who is in the audience now.
ResolveTargets(w) ==
    /\ poster[w] = "resolve"
    /\ LET us == Targets(draft[w].notice)
       IN  IF us = {}
             THEN Done(w)
             ELSE draft' = [draft EXCEPT ![w].targets = us] /\ Then(w, "fanOut")
    /\ UNCHANGED <<mailTables, due, cut, budget>>

\* notifyMany: one createMany.
FanOut(w) ==
    /\ poster[w] = "fanOut"
    /\ Notify(draft[w].targets, draft[w].notice)
    /\ Done(w)
    /\ UNCHANGED <<thread, message, announcement, due, cut, budget>>

\* remove: found, then deleted; a second deletion fails.
RemoveAnnouncement(w, a) ==
    /\ announcement[a].state = "posted"
    /\ draft' = [draft EXCEPT ![w].notice = a]
    /\ Then(w, "delete")
    /\ UNCHANGED <<mailTables, due, cut>>

DeleteAnnouncement(w) ==
    /\ poster[w] = "delete"
    /\ announcement' = [announcement EXCEPT ![draft[w].notice].state = "deleted"]
    /\ Done(w)
    /\ UNCHANGED <<thread, message, note, due, cut, budget>>

-----------------------------------------------------------------------------
(* notifications.service.ts                                                 *)

\* markRead, one's own notification, and markAllRead.
MarkRead(u, x) ==
    /\ note[<<u, x>>] = "unread"
    /\ note' = [note EXCEPT ![<<u, x>>] = "read"]
    /\ UNCHANGED <<thread, message, announcement, poster, draft, due, cut>>

MarkAllRead(u) ==
    /\ note' = [n \in DOMAIN note |-> IF n[1] = u /\ note[n] = "unread" THEN "read" ELSE note[n]]
    /\ UNCHANGED <<thread, message, announcement, poster, draft, due, cut>>

-----------------------------------------------------------------------------
(* students.service.ts                                                      *)

\* deactivate: one transaction switches the pupil and the account off (and drops
\* the enrollments).  users.reactivate switches the account alone on again.
DeactivateStudent(c, s) ==
    /\ AccountOf[s] # None
    /\ pupil' = pupil \ {s}
    /\ user' = [user EXCEPT ![AccountOf[s]].active = FALSE]
    /\ UNCHANGED <<school, staff, parent, child, clerk, task, apart>>

AskStudents(c) ==
    /\ Begin(c)
    /\ \E caller \in {u \in Users : Authenticated(u)}, s \in Students :
          /\ user[caller].school = FirstSchool /\ user[caller].role \in Heads
          /\ DeactivateStudent(c, s)

-----------------------------------------------------------------------------
WorkOf(w) == {draft[w].thread, draft[w].message, draft[w].notice} \ {None}

\* A call is rejected, or the process dies; a background task's error is logged.
DropOut(w) ==
    /\ poster[w] # "idle"
    /\ Spend("deaths")
    /\ cut' = cut \union WorkOf(w)
    /\ Done(w)
    /\ UNCHANGED <<mailTables, due>>

ProceedMail(w) ==
    \/ WriteMessage(w) \/ TellRecipient(w) \/ MarkMessages(w)
    \/ ResolveTargets(w) \/ FanOut(w) \/ DeleteAnnouncement(w)

\* The routes, by callers with a token that is good.
Callers == {u \in Users : Authenticated(u)}

AskMessages(w) ==
    /\ Take(w)
    /\ \E u \in Callers :
          \/ \E t \in Users, s \in Students : CreateThread(w, u, t, s)
          \/ \E th \in thread : SendMessage(w, u, th) \/ MarkThreadRead(w, u, th)

\* assertSameSchool and assertCanAnnounce
AskAnnouncements(w) ==
    /\ Take(w)
    /\ \E u \in Callers, a \in Notices :
          /\ user[u].school = FirstSchool /\ user[u].role \in TeacherRoles
          /\ \/ RemoveAnnouncement(w, a)
             \/ \E audience \in Audiences, class \in Classes \union {None} :
                   Announce(w, a, audience, class)

AskNotifications ==
    /\ Spend("mail")
    /\ \E u \in Callers : MarkAllRead(u) \/ \E x \in Messages \union Notices : MarkRead(u, x)

MailNext ==
    \/ \E w \in Posters : AskMessages(w) \/ AskAnnouncements(w) \/ ProceedMail(w) \/ DropOut(w)
    \/ AskNotifications

\* History: who has left the audience is not owed the announcement any more.
WatchAudience == due' = [a \in Notices |-> {u \in due[a] : Owed(announcement[a], u)'}]

-----------------------------------------------------------------------------
(* Properties.                                                              *)

Told(u, x) == note[<<u, x>>] # "none"

\* Whoever had an announcement in his list from its posting on, an announcement
\* to a class as an active pupil of it, has been told of it once its fan-out is
\* over, unless the fan-out died with the process: accounts and pupils are
\* switched, and roles and links change, while it runs.
AudienceTold ==
    \A a \in Notices :
        /\ announcement[a].state = "posted"
        /\ a \notin cut
        /\ \A w \in Posters : draft[w].notice = a => poster[w] = "delete"
        => \A u \in due[a] : Told(u, a)

\* A thread is never left without the message it was opened for, unless the
\* request died between its two writes.
ThreadHasMessage ==
    \A th \in thread \ cut :
        \/ \E m \in Messages : message[m].thread = th
        \/ \E w \in Posters : poster[w] = "write" /\ draft[w].thread = th

\* Roles are edited while the threads go on and the profiles stay: whose role is
\* now that of a parent or a teacher lists no thread of others, whatever profile
\* he has, and all of his own if he has the profile of the role.  Heads are left
\* out: that they "see all threads in school" is what a comment of
\* buildThreadFilter says and not what it does.
ThreadsAreOwn ==
    \A u \in Users : user[u].role \in {"parent"} \union (TeacherRoles \ Heads) =>
        LET own == {th \in thread : u \in {th.parent, th.teacher}}
            fits == IF user[u].role = "parent" THEN u \in parent ELSE staff[u] # "none"
        IN  /\ ThreadsListed(u) \subseteq own
            /\ fits => own \subseteq ThreadsListed(u)

\* The other one of the thread is told of a message, unless the process died
\* after it had answered, whatever else runs meanwhile; and who is told of a
\* message can open it, whatever his role has become.
MessageTold ==
    \A m \in Messages :
        message[m] # NoMessage =>
            LET th == message[m].thread
                other == {th.parent, th.teacher} \ {message[m].from}
            IN  /\ \/ m \in cut
                   \/ \E w \in Posters : draft[w].message = m
                   \/ \E u \in other : Told(u, m)
                /\ \A u \in Users : Told(u, m) => m \in MessagesShown(u, th)

\* What a parent and a teacher write reaches them: no thread without its message,
\* no message without its notification.
Correspondence == ThreadHasMessage /\ MessageTold
==============================================================================
