---------------------------- MODULE MessagingProofs ----------------------------
(***************************************************************************)
(* For any number of posters, threads, messages and announcements, with    *)
(* accounts edited, created and switched all the while: threads are listed *)
(* by those who have part in them (ThreadsAreOwn), messages reach the      *)
(* other one (Correspondence) and announcements their audience             *)
(* (AudienceTold).                                                         *)
(***************************************************************************)
EXTENDS AccountsProofs

PosterCalls == {"idle", "write", "tell", "mark", "resolve", "fanOut", "delete"}

MessageRow == [thread : thread, from : Users, read : BOOLEAN] \union {NoMessage}

NoticeRow == [state : {"none", "posted", "deleted"}, audience : Audiences \union {None},
              class : Classes \union {None}]

Draft == [user    : Users \union {None},    thread : thread \union {None},
          message : Messages \union {None}, notice : Notices \union {None},
          targets : SUBSET Users]

Here(m) == message[m] # NoMessage

Posted(a) == announcement[a].state = "posted"

\* A thread is between a parent and a member of staff.
ThreadRows == \A th \in thread : th.parent \in parent /\ staff[th.teacher] # "none"

\* What request r has in its locals when call k is next.
DraftFits(k, r) ==
    /\ k \in {"write", "mark", "tell"} => r.thread \in thread /\ r.user \in Users
    /\ k = "tell" => /\ r.message \in Messages /\ Here(r.message)
                     /\ message[r.message].thread = r.thread
                     /\ message[r.message].from = r.user
    /\ k \in {"resolve", "fanOut", "delete"} =>
          r.notice \in Notices /\ announcement[r.notice] # NoNotice
    /\ k = "fanOut" /\ Posted(r.notice) => due[r.notice] \subseteq r.targets
    /\ r.message # None => k = "tell"
    /\ r.notice # None => k \in {"resolve", "fanOut", "delete"}

DraftOK == \A w \in Posters : DraftFits(poster[w], draft[w])

\* Only those of its thread are told of a message.
NotesOK ==
    \A u \in Users, m \in Messages :
        Told(u, m) => Here(m) /\ u \in {message[m].thread.parent, message[m].thread.teacher}

Other(m) == {message[m].thread.parent, message[m].thread.teacher} \ {message[m].from}

MessageWritten ==
    \A m \in Messages : Here(m) =>
        \/ m \in cut
        \/ \E w \in Posters : draft[w].message = m
        \/ \E u \in Other(m) : Told(u, m)

\* Who is owed an announcement has it in the list, and is an active pupil of the
\* class if it is to a class.
DueOwed == \A a \in Notices : Posted(a) => \A u \in due[a] : Owed(announcement[a], u)

FanningOut(w, a) == poster[w] \in {"resolve", "fanOut"} /\ draft[w].notice = a

AudienceReached ==
    \A a \in Notices : Posted(a) /\ a \notin cut =>
        \/ \E w \in Posters : FanningOut(w, a)
        \/ \A u \in due[a] : Told(u, a)

LettersInv == ThreadRows /\ NotesOK /\ MessageWritten /\ ThreadHasMessage

NoticesInv == DueOwed /\ AudienceReached

MailInv == MailTypeOK /\ DraftOK /\ LettersInv /\ NoticesInv

LEMMA MailTypes ==
    /\ MailTypeOK <=>
          /\ pupil \subseteq Students
          /\ thread \subseteq Thread
          /\ message \in [Messages -> MessageRow]
          /\ announcement \in [Notices -> NoticeRow]
          /\ note \in [Users \X (Messages \union Notices) -> {"none", "unread", "read"}]
          /\ poster \in [Posters -> PosterCalls]
          /\ draft \in [Posters -> Draft]
          /\ due \in [Notices -> SUBSET Users]
          /\ cut \subseteq thread \union Messages \union Notices
    /\ NoDraft \in Draft /\ NoMessage \in MessageRow /\ NoNotice \in NoticeRow
<1>1. NoDraft \in Draft /\ NoMessage \in MessageRow /\ NoNotice \in NoticeRow
  BY DEF NoDraft, Draft, NoMessage, MessageRow, NoNotice, NoticeRow
<1> QED
  BY <1>1 DEF MailTypeOK, MessageRow, NoticeRow, Draft, PosterCalls

LEMMA MailInitially == Init => MailInv
<1> SUFFICES ASSUME Init PROVE MailInv
  OBVIOUS
<1> USE DEF Init, MailInit
<1>1. MailTypeOK
  BY MailTypes DEF PosterCalls
<1>2. DraftOK
  BY DEF DraftOK, DraftFits, NoDraft
<1>3. \A m \in Messages : ~Here(m)
  BY DEF Here
<1>4. \A u \in Users, x \in Messages \union Notices : ~Told(u, x)
  BY DEF Told
<1>5. LettersInv
  BY <1>3, <1>4 DEF LettersInv, ThreadRows, NotesOK, MessageWritten, ThreadHasMessage
<1>6. NoticesInv
  BY DEF NoticesInv, DueOwed, AudienceReached, Posted, NoNotice
<1> QED
  BY <1>1, <1>2, <1>5, <1>6 DEF MailInv

-----------------------------------------------------------------------------
(* What no step takes away.                                                 *)

Grows ==
    /\ thread \subseteq thread'
    /\ \A m \in Messages : Here(m) =>
          /\ Here(m)' /\ message'[m].thread = message[m].thread
          /\ message'[m].from = message[m].from
    /\ \A a \in Notices : announcement[a] # NoNotice =>
          /\ announcement'[a] # NoNotice /\ due'[a] \subseteq due[a]
          /\ Posted(a)' => Posted(a)

\* Requests that go on unharmed keep what they have.
LEMMA DraftsStay ==
    ASSUME MailInv, Grows, NEW w, NEW k, NEW r, DraftFits(k, r)',
           poster' \in [Posters -> PosterCalls], draft' \in [Posters -> Draft'],
           \A v \in Posters : v # w => poster'[v] = poster[v] /\ draft'[v] = draft[v],
           w \in Posters => poster'[w] = k /\ draft'[w] = r
    PROVE  DraftOK'
<1>1. ASSUME NEW v \in Posters, v # w PROVE DraftFits(poster[v], draft[v])'
  <2>1. DraftFits(poster[v], draft[v]) /\ poster'[v] = poster[v] /\ draft'[v] = draft[v]
    BY <1>1 DEF MailInv, DraftOK
  <2> QED
    BY <2>1 DEF DraftFits, Grows
<1> QED
  BY <1>1 DEF DraftOK

LEMMA ProfilesStay ==
    ASSUME AccountInv, [Next]_officeVars
    PROVE  /\ parent \subseteq parent'
           /\ \A u \in Users : staff[u] # "none" => staff'[u] # "none"
<1>1. AccountsTyped
  BY DEF AccountInv
<1> USE <1>1 DEF AccountsTyped
<1>2. CASE UNCHANGED accountVars
  BY <1>2 DEF accountVars
<1>3. CASE Restart
  BY <1>3 DEF Restart, people
<1>4. ASSUME NEW c \in Clerks, CreateSchool(c) \/ CreateStaff(c) \/ CreateParent(c)
      PROVE  /\ parent \subseteq parent'
             /\ \A u \in Users : staff[u] # "none" => staff'[u] # "none"
  BY <1>4 DEF CreateSchool, CreateStaff, CreateParent
<1>5. ASSUME NEW c \in Clerks, ProceedAccounts(c) \/ LeaveOff(c)
      PROVE  /\ parent \subseteq parent'
             /\ \A u \in Users : staff[u] # "none" => staff'[u] # "none"
  <2>1. CASE SwitchStaff(c)
    BY <2>1 DEF SwitchStaff
  <2>2. CASE \/ DeleteLink(c) \/ FindConflict(c) \/ WritePhone(c) \/ WriteRole(c) \/ WriteActive(c)
             \/ SwitchUser(c) \/ LeaveOff(c)
    BY <2>2 DEF DeleteLink, FindConflict, WritePhone, WriteRole, WriteActive, SwitchUser, LeaveOff, people
  <2> QED
    BY <1>4, <1>5, <2>1, <2>2 DEF ProceedAccounts
<1>6. ASSUME NEW c \in Clerks, AskAccounts(c)
      PROVE  /\ parent \subseteq parent'
             /\ \A u \in Users : staff[u] # "none" => staff'[u] # "none"
  <2>1. CASE AskSchools(c)
    BY <2>1 DEF AskSchools, Onboard, CloseSchool, people
  <2>2. CASE AskUsers(c)
    BY <2>2 DEF AskUsers, Deactivate, Reactivate, EditPhone, EditRole, EditActive, people
  <2>3. CASE AskStaff(c)
    BY <2>3 DEF AskStaff, AddStaff, RemoveStaff, EditStaffRole, people
  <2>4. CASE AskParents(c)
    BY <2>4 DEF AskParents, AddParent, RemoveParent, LinkStudent, FindLink, people
  <2> QED
    BY <1>6, <2>1, <2>2, <2>3, <2>4 DEF AskAccounts
<1>7. ASSUME NEW c \in Clerks, NEW w \in Logins, Register(c, w)
      PROVE  /\ parent \subseteq parent'
             /\ \A u \in Users : staff[u] # "none" => staff'[u] # "none"
  BY <1>4, <1>7 DEF Register
<1>8. ASSUME NEW c \in Clerks, AskStudents(c)
      PROVE  /\ parent \subseteq parent'
             /\ \A u \in Users : staff[u] # "none" => staff'[u] # "none"
  BY <1>8 DEF AskStudents, DeactivateStudent
<1> QED
  BY <1>2, <1>3, <1>5, <1>6, <1>7, <1>8 DEF Next, AccountsNext, officeVars

LEMMA RowsGrow ==
    thread \subseteq thread' => MessageRow \subseteq MessageRow' /\ Draft \subseteq Draft'
  BY DEF MessageRow, Draft, NoMessage

\* A request that was idle is at call k with r in its locals; a thread that is new is
\* the one it goes on to write in.
LEMMA AskingKeepsMail ==
    ASSUME MailInv, NEW w \in Posters, poster[w] = "idle",
           NEW k \in PosterCalls \ {"idle", "tell", "fanOut"}, NEW r, r \in Draft', DraftFits(k, r)',
           thread \subseteq thread', thread' \subseteq Thread, ThreadRows',
           \A th \in thread' \ thread : k = "write" /\ r.thread = th,
           poster' = [poster EXCEPT ![w] = k], draft' = [draft EXCEPT ![w] = r],
           UNCHANGED <<user, pupil, message, announcement, note, due, cut>>
    PROVE  MailInv'
<1>1. MailTypeOK'
  BY MailTypes, RowsGrow DEF MailInv, MailTypeOK, MessageRow, NoticeRow, Draft, PosterCalls
<1>2. /\ poster'[w] = k /\ draft'[w] = r
      /\ \A v \in Posters : v # w => poster'[v] = poster[v] /\ draft'[v] = draft[v]
  BY MailTypes DEF MailInv
<1>3. DraftOK'
  <2>1. Grows
    BY DEF Grows, Here, Posted
  <2>2. poster' \in [Posters -> PosterCalls] /\ draft' \in [Posters -> Draft']
    BY <1>1, MailTypes DEF MailTypeOK, PosterCalls, Draft
  <2> QED
    BY <1>2, <2>1, <2>2, DraftsStay
<1>4. draft[w].message = None /\ ~(poster[w] \in {"resolve", "fanOut"})
  BY DEF MailInv, DraftOK, DraftFits
<1>5. \A m \in Messages : (\E v \in Posters : draft[v].message = m) =>
          \E v \in Posters : draft'[v].message = m
  BY <1>2, <1>4, MessagingAssumption
<1>6. LettersInv'
  <2>1. NotesOK'
    BY DEF MailInv, LettersInv, NotesOK, Told, Here
  <2>2. MessageWritten'
    BY <1>5 DEF MailInv, LettersInv, MessageWritten, Told, Here, Other
  <2>3. ThreadHasMessage'
    BY <1>2 DEF MailInv, LettersInv, ThreadHasMessage
  <2> QED
    BY <2>1, <2>2, <2>3 DEF LettersInv
<1>7. NoticesInv'
  <2>1. DueOwed'
    BY DEF MailInv, NoticesInv, DueOwed, Posted, Owed, Listed, Authenticated, Exists,
           AudienceFilter, ClassFilter
  <2>2. \A a \in Notices, v \in Posters : FanningOut(v, a) => FanningOut(v, a)'
    BY <1>2, <1>4 DEF FanningOut
  <2>3. AudienceReached'
    BY <2>2 DEF MailInv, NoticesInv, AudienceReached, Posted, Told
  <2> QED
    BY <2>1, <2>3 DEF NoticesInv
<1> QED
  BY <1>1, <1>3, <1>6, <1>7 DEF MailInv

LEMMA AskingForMail ==
    ASSUME AccountInv, MailInv, UNCHANGED <<accountVars, sessionVars, pupil>>, NEW w \in Posters,
           AskMessages(w) \/ \E a \in Notices : RemoveAnnouncement(w, a) /\ Take(w)
    PROVE  MailInv'
<1>1. poster[w] = "idle" /\ UNCHANGED <<user, pupil, staff, parent>>
  BY DEF AskMessages, Take, accountVars
<1>2. /\ draft[w].message = None /\ draft[w].notice = None /\ draft[w] \in Draft
      /\ draft \in [Posters -> Draft]
  BY <1>1, MailTypes DEF MailInv, DraftOK, DraftFits
<1>3. thread \subseteq Thread /\ ThreadRows
  BY DEF MailInv, MailTypeOK, LettersInv
<1>4. ASSUME NEW u \in Users, NEW t \in Users, NEW s \in Students, CreateThread(w, u, t, s)
      PROVE  MailInv'
  <2>1. PICK th : th = [parent |-> u, teacher |-> t, student |-> s]
    OBVIOUS
  <2>2. PICK r : r = [draft[w] EXCEPT !.user = u, !.thread = th]
    OBVIOUS
  <2>3. /\ u \in parent /\ staff[t] # "none" /\ thread' = thread \union {th}
        /\ poster' = [poster EXCEPT ![w] = "write"]
        /\ UNCHANGED <<message, announcement, note, due, cut>>
    BY <1>4, <2>1 DEF CreateThread, Then
  <2>4. draft' = [draft EXCEPT ![w] = r]
    BY <1>2, <1>4, <2>1, <2>2 DEF CreateThread
  <2>5. /\ th \in Thread /\ th \in thread' /\ r \in Draft' /\ r.thread = th /\ r.user = u
        /\ r.message = None /\ r.notice = None
    BY <1>2, <2>1, <2>2, <2>3 DEF Draft, Thread
  <2>6. DraftFits("write", r)'
    BY <2>5 DEF DraftFits
  <2>7. ThreadRows'
    BY <1>1, <1>3, <2>1, <2>3 DEF ThreadRows
  <2>8. "write" \in PosterCalls \ {"idle", "tell", "fanOut"}
    BY DEF PosterCalls
  <2>9. /\ thread \subseteq thread' /\ thread' \subseteq Thread
        /\ \A x \in thread' \ thread : "write" = "write" /\ r.thread = x
    BY <1>3, <2>3, <2>5
  <2> QED
    BY <1>1, <2>3, <2>4, <2>5, <2>6, <2>7, <2>8, <2>9, AskingKeepsMail
<1>5. ASSUME NEW u \in Users, NEW th \in thread, NEW k \in {"write", "mark"},
             draft' = [draft EXCEPT ![w].user = u, ![w].thread = th],
             poster' = [poster EXCEPT ![w] = k], UNCHANGED <<mailTables, due, cut>>
      PROVE  MailInv'
  <2>1. PICK r : r = [draft[w] EXCEPT !.user = u, !.thread = th]
    OBVIOUS
  <2>2. UNCHANGED <<thread, message, announcement, note, due, cut>>
    BY <1>5 DEF mailTables
  <2>3. draft' = [draft EXCEPT ![w] = r]
    BY <1>2, <1>5, <2>1
  <2>4. /\ r \in Draft' /\ r.thread = th /\ r.user = u /\ r.message = None /\ r.notice = None
    BY <1>2, <2>1, <2>2 DEF Draft
  <2>5. DraftFits(k, r)'
    BY <2>2, <2>4 DEF DraftFits
  <2>6. ThreadRows'
    BY <1>1, <1>3, <2>2 DEF ThreadRows
  <2>7. k \in PosterCalls \ {"idle", "tell", "fanOut"}
    BY DEF PosterCalls
  <2> QED
    BY <1>1, <1>3, <1>5, <2>2, <2>3, <2>4, <2>5, <2>6, <2>7, AskingKeepsMail
<1>6. ASSUME NEW a \in Notices, RemoveAnnouncement(w, a) PROVE MailInv'
  <2>1. PICK r : r = [draft[w] EXCEPT !.notice = a]
    OBVIOUS
  <2>2. UNCHANGED <<thread, message, announcement, note, due, cut>>
    BY <1>6 DEF RemoveAnnouncement, mailTables
  <2>3. draft' = [draft EXCEPT ![w] = r] /\ poster' = [poster EXCEPT ![w] = "delete"]
    BY <1>2, <1>6, <2>1 DEF RemoveAnnouncement, Then
  <2>4. r \in Draft' /\ r.message = None /\ r.notice = a
    BY <1>2, <2>1, <2>2 DEF Draft
  <2>5. DraftFits("delete", r)'
    BY <1>6, <2>2, <2>4 DEF RemoveAnnouncement, DraftFits, NoNotice
  <2>6. ThreadRows'
    BY <1>1, <1>3, <2>2 DEF ThreadRows
  <2>7. "delete" \in PosterCalls \ {"idle", "tell", "fanOut"}
    BY DEF PosterCalls
  <2> QED
    BY <1>1, <1>3, <2>2, <2>3, <2>4, <2>5, <2>6, <2>7, AskingKeepsMail
<1>7. ASSUME NEW u \in Users, NEW th \in thread, SendMessage(w, u, th) \/ MarkThreadRead(w, u, th)
      PROVE  MailInv'
  <2>1. PICK k \in {"write", "mark"} : poster' = [poster EXCEPT ![w] = k]
    BY <1>7 DEF SendMessage, MarkThreadRead, Then
  <2> QED
    BY <1>5, <1>7, <2>1 DEF SendMessage, MarkThreadRead
<1> QED
  BY <1>4, <1>6, <1>7 DEF AskMessages, Callers

\* What one is owed depends on the user's row and the pupil's alone.
LEMMA OwedStays ==
    ASSUME NEW n, NEW u \in Users, UNCHANGED <<user, pupil>>
    PROVE  Owed(n, u) => Owed(n, u)'
  BY DEF Owed, Listed, Authenticated, Exists, AudienceFilter, ClassFilter

LEMMA Announcing ==
    ASSUME MailInv, UNCHANGED <<accountVars, sessionVars, pupil>>, NEW w \in Posters, poster[w] = "idle",
           NEW a \in Notices, NEW audience \in Audiences, NEW class \in Classes \union {None},
           Announce(w, a, audience, class)
    PROVE  MailInv'
<1>1. UNCHANGED <<user, pupil, staff, parent, thread, message, note, cut>>
  BY DEF Announce, accountVars
<1>2. /\ draft[w].message = None /\ draft[w].notice = None /\ draft[w] \in Draft
      /\ draft \in [Posters -> Draft]
  BY MailTypes DEF MailInv, DraftOK, DraftFits
<1>3. PICK r : r = [draft[w] EXCEPT !.notice = a]
  OBVIOUS
<1>4. PICK n : n = [state |-> "posted", audience |-> audience, class |-> class]
  OBVIOUS
<1>5. PICK us : us = {v \in Users : Owed(n, v)}
  OBVIOUS
<1>6. /\ announcement[a] = NoNotice
      /\ announcement' = [announcement EXCEPT ![a] = n] /\ due' = [due EXCEPT ![a] = us]
      /\ poster' = [poster EXCEPT ![w] = "resolve"] /\ draft' = [draft EXCEPT ![w] = r]
  BY <1>2, <1>3, <1>4, <1>5 DEF Announce, Then
<1>7. r \in Draft /\ r.notice = a /\ r.message = None
  BY <1>2, <1>3 DEF Draft
<1>8. n \in NoticeRow /\ n.state = "posted" /\ n # NoNotice /\ us \subseteq Users
  BY <1>4, <1>5 DEF NoticeRow, NoNotice
<1>9. /\ announcement'[a] = n /\ due'[a] = us
      /\ \A b \in Notices : b # a => announcement'[b] = announcement[b] /\ due'[b] = due[b]
      /\ poster'[w] = "resolve" /\ draft'[w] = r
      /\ \A v \in Posters : v # w => poster'[v] = poster[v] /\ draft'[v] = draft[v]
  BY <1>6, MailTypes DEF MailInv
<1>10. MailTypeOK'
  BY <1>1, <1>6, <1>7, <1>8, MailTypes
     DEF MailInv, MailTypeOK, MessageRow, NoticeRow, Draft, PosterCalls
<1>11. Grows
  BY <1>1, <1>6, <1>9 DEF Grows, Here, Posted, NoNotice
<1>12. DraftOK'
  <2>3. r.notice \in Notices /\ announcement'[r.notice] # NoNotice
    BY <1>7, <1>8, <1>9
  <2>1. DraftFits("resolve", r)'
    BY <1>7, <2>3 DEF DraftFits
  <2>2. poster' \in [Posters -> PosterCalls] /\ draft' \in [Posters -> Draft']
    BY <1>10, MailTypes DEF MailTypeOK, PosterCalls, Draft
  <2> QED
    BY <1>9, <1>11, <2>1, <2>2, DraftsStay
<1>13. LettersInv'
  <2>1. ThreadRows' /\ NotesOK'
    BY <1>1 DEF MailInv, LettersInv, ThreadRows, NotesOK, Told, Here
  <2>2. \A m \in Messages : (\E v \in Posters : draft[v].message = m) =>
            \E v \in Posters : draft'[v].message = m
    BY <1>2, <1>9, MessagingAssumption
  <2>3. MessageWritten'
    BY <1>1, <2>2 DEF MailInv, LettersInv, MessageWritten, Told, Here, Other
  <2>4. ThreadHasMessage'
    BY <1>1, <1>9 DEF MailInv, LettersInv, ThreadHasMessage
  <2> QED
    BY <2>1, <2>3, <2>4 DEF LettersInv
<1>14. NoticesInv'
  <2>1. \A u \in Users : \A x : Owed(x, u) => Owed(x, u)'
    BY <1>1, OwedStays
  <2>2. \A u \in us : Owed(announcement[a], u)'
    BY <1>5, <1>9, <2>1
  <2>3. DueOwed'
    <3>1. ASSUME NEW b \in Notices, Posted(b)', NEW u \in due'[b] PROVE Owed(announcement[b], u)'
      <4>1. CASE b = a
        BY <1>9, <2>2, <3>1, <4>1
      <4>2. CASE b # a
        <5>1. announcement'[b] = announcement[b] /\ due'[b] = due[b] /\ u \in Users
          BY <1>9, <3>1, <4>2 DEF MailInv, MailTypeOK
        <5>2. Owed(announcement[b], u)
          BY <3>1, <5>1 DEF MailInv, NoticesInv, DueOwed, Posted
        <5> QED
          BY <2>1, <5>1, <5>2
      <4> QED
        BY <4>1, <4>2
    <3> QED
      BY <3>1 DEF DueOwed
  <2>4. FanningOut(w, a)' /\ \A b \in Notices, v \in Posters : FanningOut(v, b) => FanningOut(v, b)'
    BY <1>7, <1>9 DEF FanningOut
  <2>5. AudienceReached'
    BY <1>1, <1>9, <2>4 DEF MailInv, NoticesInv, AudienceReached, Posted, Told
  <2> QED
    BY <2>3, <2>5 DEF NoticesInv
<1> QED
  BY <1>10, <1>12, <1>13, <1>14 DEF MailInv

\* Who is owed an announcement is among those its fan-out finds: the fan-out asks
\* the same of a user, and the account of a pupil is of no other pupil.
LEMMA OwedAreTargets ==
    ASSUME AccountInv, MailInv, NEW a \in Notices, NEW u \in Users, Owed(announcement[a], u)
    PROVE  u \in Targets(a)
<1>1. Listed(announcement[a], u) /\ user[u].active /\ user[u].school = FirstSchool
  BY DEF Owed, Listed, Authenticated
<1>2. CASE announcement[a].audience = "class"
  <2>1. ClassFilter(u) # None /\ ClassFilter(u) = announcement[a].class
    BY <1>1, <1>2 DEF Listed, AudienceFilter
  <2>2. PICK t \in Students : AccountOf[t] = u /\ ClassOf[t] = announcement[a].class
    BY <2>1 DEF ClassFilter
  <2>3. PICK s \in pupil : AccountOf[s] = u
    BY <1>2 DEF Owed
  <2>4. u # None /\ s \in Students
    BY AccountsAssumption DEF MailInv, MailTypeOK
  <2>5. s = t
    BY <2>2, <2>3, <2>4, MessagingAssumption
  <2> QED
    BY <1>2, <2>2, <2>3, <2>4, <2>5 DEF Targets
<1>3. CASE announcement[a].audience # "class"
  BY <1>1, <1>3 DEF Listed, AudienceFilter, Targets
<1> QED
  BY <1>2, <1>3

-----------------------------------------------------------------------------
(* Requests that end.                                                       *)

\* A request that ends leaves nothing behind it undone, unless it is cut off.
LEMMA EndingKeepsMail ==
    ASSUME MailInv, NEW w \in Posters, Done(w), UNCHANGED <<user, pupil, staff, parent, thread, due>>,
           message' \in [Messages -> MessageRow], announcement' \in [Notices -> NoticeRow],
           note' \in [Users \X (Messages \union Notices) -> {"none", "unread", "read"}],
           cut \subseteq cut', cut' \subseteq thread \union Messages \union Notices,
           \A m \in Messages : /\ Here(m)' = Here(m)
                               /\ message'[m].thread = message[m].thread
                               /\ message'[m].from = message[m].from,
           \A a \in Notices : \/ announcement'[a] = announcement[a]
                              \/ announcement'[a] # NoNotice /\ ~Posted(a)',
           \A u \in Users, x \in Messages \union Notices : Told(u, x) => Told(u, x)',
           NotesOK',
           poster[w] = "write" => draft[w].thread \in cut',
           \A m \in Messages : poster[w] = "tell" /\ draft[w].message = m =>
               m \in cut' \/ \E u \in Other(m) : Told(u, m)',
           \A a \in Notices : FanningOut(w, a) /\ Posted(a)' /\ a \notin cut' =>
               \A u \in due[a] : Told(u, a)'
    PROVE  MailInv'
<1>1. /\ poster' = [poster EXCEPT ![w] = "idle"] /\ draft' = [draft EXCEPT ![w] = NoDraft]
      /\ MessageRow' = MessageRow /\ Draft' = Draft
  BY DEF Done, Then, MessageRow, Draft
<1>2. /\ poster'[w] = "idle" /\ draft'[w] = NoDraft
      /\ \A v \in Posters : v # w => poster'[v] = poster[v] /\ draft'[v] = draft[v]
  BY <1>1, MailTypes DEF MailInv
<1>3. MailTypeOK'
  BY <1>1, MailTypes DEF MailInv, MailTypeOK, MessageRow, NoticeRow, Draft, PosterCalls
<1>4. Grows
  BY DEF Grows, Posted
<1>5. DraftOK'
  <2>1. DraftFits("idle", NoDraft)'
    BY DEF DraftFits, NoDraft
  <2>2. poster' \in [Posters -> PosterCalls] /\ draft' \in [Posters -> Draft']
    BY <1>3, MailTypes DEF MailTypeOK, PosterCalls, Draft
  <2> QED
    BY <1>2, <1>4, <2>1, <2>2, DraftsStay
<1>6. LettersInv'
  <2>1. ThreadRows'
    BY DEF MailInv, LettersInv, ThreadRows
  <2>2. ASSUME NEW m \in Messages, Here(m)'
        PROVE  m \in cut' \/ (\E v \in Posters : draft'[v].message = m) \/ \E u \in Other(m)' : Told(u, m)'
    <3>1. Here(m) /\ Other(m)' = Other(m)
      BY <2>2 DEF Other
    <3>2. Other(m) \subseteq Users
      <4>1. message[m].thread \in Thread
        BY <3>1, MailTypes DEF MailInv, MailTypeOK, MessageRow, Here
      <4> QED
        BY <4>1 DEF Other, Thread
    <3>3. CASE m \in cut
      BY <3>3
    <3>4. CASE \E u \in Other(m) : Told(u, m)
      BY <3>1, <3>2, <3>4
    <3>5. ASSUME NEW v \in Posters, draft[v].message = m
          PROVE  m \in cut' \/ (\E x \in Posters : draft'[x].message = m) \/ \E u \in Other(m) : Told(u, m)'
      <4>1. CASE v = w
        <5>1. poster[w] = "tell"
          BY <3>5, <4>1, MessagingAssumption DEF MailInv, DraftOK, DraftFits
        <5> QED
          BY <3>5, <4>1, <5>1
      <4>2. CASE v # w
        BY <1>2, <3>5, <4>2
      <4> QED
        BY <4>1, <4>2
    <3> QED
      BY <3>1, <3>3, <3>4, <3>5 DEF MailInv, LettersInv, MessageWritten
  <2>3. MessageWritten'
    BY <2>2 DEF MessageWritten
  <2>4. ThreadHasMessage'
    BY <1>2 DEF MailInv, LettersInv, ThreadHasMessage
  <2> QED
    BY <2>1, <2>3, <2>4 DEF LettersInv
<1>7. NoticesInv'
  <2>1. ASSUME NEW a \in Notices, Posted(a)' PROVE Posted(a) /\ announcement'[a] = announcement[a]
    BY <2>1 DEF Posted
  <2>2. DueOwed'
    <3>1. ASSUME NEW a \in Notices, Posted(a)', NEW u \in due'[a] PROVE Owed(announcement[a], u)'
      <4>1. Posted(a) /\ announcement'[a] = announcement[a] /\ u \in due[a] /\ u \in Users
        BY <2>1, <3>1 DEF MailInv, MailTypeOK
      <4>2. Owed(announcement[a], u)
        BY <4>1 DEF MailInv, NoticesInv, DueOwed
      <4>3. \A x : Owed(x, u) => Owed(x, u)'
        BY <4>1, OwedStays
      <4> QED
        BY <4>1, <4>2, <4>3
    <3> QED
      BY <3>1 DEF DueOwed
  <2>3. ASSUME NEW a \in Notices, Posted(a)', a \notin cut'
        PROVE  (\E v \in Posters : FanningOut(v, a)') \/ \A u \in due[a] : Told(u, a)'
    <3>1. due[a] \subseteq Users
      BY DEF MailInv, MailTypeOK
    <3>2. CASE \A u \in due[a] : Told(u, a)
      BY <3>1, <3>2
    <3>3. ASSUME NEW v \in Posters, FanningOut(v, a)
          PROVE  (\E x \in Posters : FanningOut(x, a)') \/ \A u \in due[a] : Told(u, a)'
      <4>1. CASE v = w
        BY <2>3, <3>3, <4>1
      <4>2. CASE v # w
        BY <1>2, <3>3, <4>2 DEF FanningOut
      <4> QED
        BY <4>1, <4>2
    <3> QED
      BY <2>1, <2>3, <3>2, <3>3 DEF MailInv, NoticesInv, AudienceReached
  <2>4. AudienceReached'
    BY <2>3 DEF AudienceReached
  <2> QED
    BY <2>2, <2>4 DEF NoticesInv
<1> QED
  BY <1>3, <1>5, <1>6, <1>7 DEF MailInv

\* A notification that was made stays.
LEMMA NotifyingTells ==
    ASSUME MailInv, NEW us \in SUBSET Users, NEW x \in Messages \union Notices, Notify(us, x)
    PROVE  /\ note' \in [Users \X (Messages \union Notices) -> {"none", "unread", "read"}]
           /\ \A u \in Users, y \in Messages \union Notices :
                 Told(u, y)' <=> Told(u, y) \/ (u \in us /\ y = x)
<1>1. /\ note \in [Users \X (Messages \union Notices) -> {"none", "unread", "read"}]
      /\ DOMAIN note = Users \X (Messages \union Notices)
  BY MailTypes DEF MailInv
<1>2. note' \in [Users \X (Messages \union Notices) -> {"none", "unread", "read"}]
  BY <1>1 DEF Notify
<1>3. ASSUME NEW u \in Users, NEW y \in Messages \union Notices
      PROVE  Told(u, y)' <=> Told(u, y) \/ (u \in us /\ y = x)
  <2>1. <<u, y>> \in DOMAIN note /\ <<u, y>>[1] = u /\ <<u, y>>[2] = y
    BY <1>1
  <2>2. note'[<<u, y>>] = IF u \in us /\ y = x THEN "unread" ELSE note[<<u, y>>]
    BY <2>1 DEF Notify
  <2> QED
    BY <2>2 DEF Told
<1> QED
  BY <1>2, <1>3

\* A request that only ends, or that dies.
LEMMA Ending ==
    ASSUME AccountInv, MailInv, UNCHANGED <<accountVars, sessionVars, pupil>>, NEW w \in Posters,
           \/ TellRecipient(w) \/ MarkMessages(w) \/ FanOut(w) \/ DeleteAnnouncement(w) \/ DropOut(w)
    PROVE  MailInv'
<1>1. UNCHANGED <<user, pupil, staff, parent>>
  BY DEF accountVars
<1>2. /\ message \in [Messages -> MessageRow] /\ announcement \in [Notices -> NoticeRow]
      /\ note \in [Users \X (Messages \union Notices) -> {"none", "unread", "read"}]
      /\ cut \subseteq thread \union Messages \union Notices /\ thread \subseteq Thread
      /\ draft[w] \in Draft /\ DraftFits(poster[w], draft[w])
      /\ NotesOK /\ ThreadRows /\ due \in [Notices -> SUBSET Users]
  BY MailTypes DEF MailInv, LettersInv, DraftOK
<1>3. None \notin Thread /\ None \notin Messages /\ None \notin Notices /\ Messages \intersect Notices = {}
  BY MessagingAssumption DEF Thread
<1>4. CASE TellRecipient(w)
  <2>1. PICK m, th, u : m = draft[w].message /\ th = draft[w].thread /\ u = draft[w].user
    OBVIOUS
  <2>2. /\ Notify({Recipient(th, u)}, m) /\ Done(w) /\ poster[w] = "tell"
        /\ UNCHANGED <<thread, message, announcement, due, cut>>
    BY <1>4, <2>1 DEF TellRecipient
  <2>3. /\ m \in Messages /\ Here(m) /\ th \in thread /\ u \in Users
        /\ message[m].thread = th /\ message[m].from = u
    BY <1>2, <2>1, <2>2 DEF DraftFits
  <2>4. th.parent \in Users /\ th.teacher \in Users /\ th.parent # th.teacher
    BY <1>2, <2>3, ParentsNoStaff DEF Thread, ThreadRows
  <2>5. PICK v : v = Recipient(th, u)
    OBVIOUS
  <2>6. v \in Users /\ v \in {th.parent, th.teacher} /\ v # u
    BY <2>4, <2>5 DEF Recipient
  <2>7. /\ note' \in [Users \X (Messages \union Notices) -> {"none", "unread", "read"}]
        /\ \A x \in Users, y \in Messages \union Notices : Told(x, y)' <=> Told(x, y) \/ (x = v /\ y = m)
    <3>1. PICK us : us = {v}
      OBVIOUS
    <3>2. us \in SUBSET Users /\ Notify(us, m)
      BY <2>2, <2>5, <2>6, <3>1
    <3>3. /\ note' \in [Users \X (Messages \union Notices) -> {"none", "unread", "read"}]
          /\ \A x \in Users, y \in Messages \union Notices : Told(x, y)' <=> Told(x, y) \/ (x \in us /\ y = m)
      <4>1. m \in Messages \union Notices
        BY <2>3
      <4> QED
        BY <3>2, <4>1, NotifyingTells
    <3> QED
      BY <3>1, <3>3
  <2>8. v \in Other(m) /\ Told(v, m)'
    BY <2>3, <2>6, <2>7 DEF Other
  <2>9. NotesOK'
    BY <1>2, <2>2, <2>3, <2>6, <2>7 DEF NotesOK, Here
  <2> QED
    BY <1>1, <1>2, <2>1, <2>2, <2>7, <2>8, <2>9, EndingKeepsMail DEF FanningOut, Here, Posted
<1>5. CASE MarkMessages(w)
  <2>1. PICK th, u : th = draft[w].thread /\ u = draft[w].user
    OBVIOUS
  <2>2. /\ Done(w) /\ poster[w] = "mark" /\ UNCHANGED <<thread, announcement, note, due, cut>>
        /\ message' = [m \in Messages |-> IF message[m].thread = th /\ message[m].from # u
                                            THEN [message[m] EXCEPT !.read = TRUE] ELSE message[m]]
    BY <1>5, <2>1 DEF MarkMessages
  <2>3. th \in Thread
    BY <1>2, <2>1, <2>2 DEF DraftFits
  <2>4. ASSUME NEW m \in Messages
        PROVE  /\ message'[m] \in MessageRow /\ (message'[m] # NoMessage) = (message[m] # NoMessage)
               /\ message'[m].thread = message[m].thread /\ message'[m].from = message[m].from
    <3>1. CASE message[m].thread = th
      <4>1. message[m] # NoMessage
        BY <1>3, <2>3, <3>1 DEF NoMessage
      <4>2. message[m] \in [thread : thread, from : Users, read : BOOLEAN] /\ thread \subseteq Thread
        BY <1>2, <4>1 DEF MessageRow
      <4>3. message'[m] = message[m] \/ message'[m] = [message[m] EXCEPT !.read = TRUE]
        BY <2>2
      <4>4. /\ message'[m] \in [thread : thread, from : Users, read : BOOLEAN]
            /\ message'[m].thread = message[m].thread /\ message'[m].from = message[m].from
        BY <4>2, <4>3
      <4>5. message'[m] # NoMessage
        BY <1>3, <2>3, <3>1, <4>4 DEF NoMessage
      <4> QED
        BY <4>1, <4>4, <4>5 DEF MessageRow
    <3>2. CASE message[m].thread # th
      BY <1>2, <2>2, <3>2
    <3> QED
      BY <3>1, <3>2
  <2>5. message' \in [Messages -> MessageRow] /\ \A m \in Messages : Here(m)' = Here(m)
    BY <2>2, <2>4 DEF Here
  <2>6. NotesOK' /\ \A u1 \in Users, x \in Messages \union Notices : Told(u1, x) => Told(u1, x)'
    BY <1>2, <2>2, <2>4, <2>5 DEF NotesOK, Told
  <2> QED
    BY <1>1, <1>2, <2>2, <2>4, <2>5, <2>6, EndingKeepsMail DEF FanningOut, Posted
<1>6. CASE FanOut(w)
  <2>1. PICK a, us : a = draft[w].notice /\ us = draft[w].targets
    OBVIOUS
  <2>2. /\ Notify(us, a) /\ Done(w) /\ poster[w] = "fanOut"
        /\ UNCHANGED <<thread, message, announcement, due, cut>>
    BY <1>6, <2>1 DEF FanOut
  <2>3. a \in Notices /\ us \in SUBSET Users /\ (Posted(a) => due[a] \subseteq us)
    BY <1>2, <2>1, <2>2 DEF DraftFits, Draft
  <2>4. /\ note' \in [Users \X (Messages \union Notices) -> {"none", "unread", "read"}]
        /\ \A x \in Users, y \in Messages \union Notices : Told(x, y)' <=> Told(x, y) \/ (x \in us /\ y = a)
    BY <2>2, <2>3, NotifyingTells
  <2>5. NotesOK'
    BY <1>2, <1>3, <2>2, <2>3, <2>4 DEF NotesOK, Here
  <2>6. \A b \in Notices : FanningOut(w, b) /\ Posted(b)' => \A u \in due[b] : Told(u, b)'
    BY <1>2, <2>1, <2>2, <2>3, <2>4 DEF FanningOut, Posted
  <2> QED
    BY <1>1, <1>2, <2>2, <2>4, <2>5, <2>6, EndingKeepsMail DEF Here
<1>7. CASE DeleteAnnouncement(w)
  <2>1. PICK a : a = draft[w].notice
    OBVIOUS
  <2>2. /\ announcement' = [announcement EXCEPT ![a].state = "deleted"] /\ Done(w)
        /\ poster[w] = "delete" /\ UNCHANGED <<thread, message, note, due, cut>>
    BY <1>7, <2>1 DEF DeleteAnnouncement
  <2>3. a \in Notices
    BY <1>2, <2>1, <2>2 DEF DraftFits
  <2>4. announcement' \in [Notices -> NoticeRow] /\ announcement'[a].state = "deleted"
    BY <1>2, <2>2, <2>3 DEF NoticeRow
  <2>5. \A b \in Notices : \/ announcement'[b] = announcement[b]
                           \/ announcement'[b] # NoNotice /\ ~Posted(b)'
    BY <1>2, <2>2, <2>3, <2>4 DEF Posted, NoNotice
  <2>6. NotesOK' /\ \A u \in Users, x \in Messages \union Notices : Told(u, x) => Told(u, x)'
    BY <1>2, <2>2 DEF NotesOK, Told, Here
  <2> QED
    BY <1>1, <1>2, <2>2, <2>4, <2>5, <2>6, EndingKeepsMail DEF FanningOut, Here
<1>8. CASE DropOut(w)
  <2>1. /\ Done(w) /\ cut' = cut \union WorkOf(w)
        /\ UNCHANGED <<thread, message, announcement, note, due>>
    BY <1>8 DEF DropOut, mailTables
  <2>2. /\ poster[w] \in {"write", "tell"} => draft[w].thread \in WorkOf(w)
        /\ poster[w] = "tell" => draft[w].message \in WorkOf(w)
        /\ \A a \in Notices : FanningOut(w, a) => a \in WorkOf(w)
    BY <1>2, <1>3 DEF WorkOf, DraftFits, FanningOut
  <2>3. WorkOf(w) \subseteq thread \union Messages \union Notices
    BY <1>2 DEF WorkOf, Draft
  <2>4. NotesOK' /\ \A u \in Users, x \in Messages \union Notices : Told(u, x) => Told(u, x)'
    BY <1>2, <2>1 DEF NotesOK, Told, Here
  <2> QED
    BY <1>1, <1>2, <2>1, <2>2, <2>3, <2>4, EndingKeepsMail DEF Here, Posted
<1> QED
  BY <1>4, <1>5, <1>6, <1>7, <1>8

-----------------------------------------------------------------------------
(* The other steps.                                                         *)

LEMMA Writing ==
    ASSUME AccountInv, MailInv, UNCHANGED <<accountVars, sessionVars, pupil>>, NEW w \in Posters,
           WriteMessage(w)
    PROVE  MailInv'
<1>1. UNCHANGED <<user, pupil, staff, parent, thread, announcement, note, due, cut>>
  BY DEF WriteMessage, accountVars
<1>2. /\ message \in [Messages -> MessageRow] /\ draft \in [Posters -> Draft] /\ thread \subseteq Thread
      /\ draft[w] \in Draft /\ DraftFits(poster[w], draft[w]) /\ poster[w] = "write"
      /\ NotesOK /\ ThreadRows
  BY MailTypes DEF MailInv, LettersInv, DraftOK, WriteMessage
<1>3. None \notin Thread /\ None \notin Messages /\ None \notin Notices
  BY MessagingAssumption DEF Thread
<1>4. PICK m \in Messages :
          /\ message[m] = NoMessage
          /\ message' = [message EXCEPT ![m] = [thread |-> draft[w].thread, from |-> draft[w].user,
                                                read |-> FALSE]]
          /\ draft' = [draft EXCEPT ![w].message = m]
  BY DEF WriteMessage
<1>5. PICK r, row : /\ r = [draft[w] EXCEPT !.message = m]
                    /\ row = [thread |-> draft[w].thread, from |-> draft[w].user, read |-> FALSE]
  OBVIOUS
<1>6. /\ message' = [message EXCEPT ![m] = row] /\ draft' = [draft EXCEPT ![w] = r]
      /\ poster' = [poster EXCEPT ![w] = "tell"]
  BY <1>2, <1>4, <1>5 DEF WriteMessage, Then
<1>7. /\ draft[w].thread \in thread /\ draft[w].user \in Users /\ draft[w].message = None
      /\ draft[w].notice = None
  BY <1>2, <1>3 DEF DraftFits
<1>8. /\ row \in MessageRow /\ row # NoMessage /\ row.thread = draft[w].thread /\ row.from = draft[w].user
      /\ r \in Draft /\ r.message = m /\ r.thread = draft[w].thread /\ r.user = draft[w].user
      /\ r.notice = None
  <2>1. row # NoMessage
    BY <1>2, <1>3, <1>5, <1>7 DEF NoMessage
  <2> QED
    BY <1>2, <1>5, <1>7, <2>1 DEF MessageRow, Draft
<1>9. /\ message'[m] = row /\ \A n \in Messages : n # m => message'[n] = message[n]
      /\ poster'[w] = "tell" /\ draft'[w] = r
      /\ \A v \in Posters : v # w => poster'[v] = poster[v] /\ draft'[v] = draft[v]
  BY <1>6, MailTypes DEF MailInv
<1>10. MailTypeOK'
  BY <1>1, <1>6, <1>8, MailTypes DEF MailInv, MailTypeOK, MessageRow, NoticeRow, Draft, PosterCalls
<1>11. Grows
  BY <1>1, <1>4, <1>9 DEF Grows, Here, Posted
<1>12. DraftOK'
  <2>1. /\ r.message \in Messages /\ Here(r.message)' /\ message'[r.message].thread = r.thread
        /\ message'[r.message].from = r.user /\ r.thread \in thread' /\ r.user \in Users
    BY <1>1, <1>7, <1>8, <1>9 DEF Here
  <2>2. DraftFits("tell", r)'
    BY <1>8, <2>1 DEF DraftFits
  <2>3. poster' \in [Posters -> PosterCalls] /\ draft' \in [Posters -> Draft']
    BY <1>10, MailTypes DEF MailTypeOK, PosterCalls, Draft
  <2> QED
    BY <1>9, <1>11, <2>2, <2>3, DraftsStay
<1>13. LettersInv'
  <2>1. ThreadRows' /\ NotesOK'
    BY <1>1, <1>2, <1>4, <1>9 DEF ThreadRows, NotesOK, Told, Here
  <2>2. MessageWritten'
    <3>1. ASSUME NEW n \in Messages, Here(n)'
          PROVE  n \in cut' \/ (\E v \in Posters : draft'[v].message = n) \/ \E u \in Other(n)' : Told(u, n)'
      <4>1. CASE n = m
        BY <1>8, <1>9, <4>1
      <4>2. CASE n # m
        <5>1. Here(n) /\ Other(n)' = Other(n)
          BY <1>9, <3>1, <4>2 DEF Here, Other
        <5>2. n \in cut \/ (\E v \in Posters : draft[v].message = n) \/ \E u \in Other(n) : Told(u, n)
          BY <5>1 DEF MailInv, LettersInv, MessageWritten
        <5>3. (\E v \in Posters : draft[v].message = n) => \E v \in Posters : draft'[v].message = n
          BY <1>3, <1>7, <1>9
        <5> QED
          BY <1>1, <5>1, <5>2, <5>3 DEF Told
      <4> QED
        BY <4>1, <4>2
    <3> QED
      BY <3>1 DEF MessageWritten
  <2>3. ThreadHasMessage'
    <3>1. ASSUME NEW th \in thread \ cut
          PROVE  \/ \E n \in Messages : message'[n].thread = th
                 \/ \E v \in Posters : poster'[v] = "write" /\ draft'[v].thread = th
      <4>1. CASE th = draft[w].thread
        BY <1>8, <1>9, <4>1
      <4>2. ASSUME NEW n \in Messages, message[n].thread = th
            PROVE  \E x \in Messages : message'[x].thread = th
        <5>1. n # m
          BY <1>2, <1>3, <1>4, <3>1, <4>2 DEF NoMessage
        <5> QED
          BY <1>9, <4>2, <5>1
      <4>3. CASE th # draft[w].thread /\ \E v \in Posters : poster[v] = "write" /\ draft[v].thread = th
        BY <1>9, <4>3
      <4> QED
        BY <4>1, <4>2, <4>3 DEF MailInv, LettersInv, ThreadHasMessage
    <3> QED
      BY <1>1, <3>1 DEF ThreadHasMessage
  <2> QED
    BY <2>1, <2>2, <2>3 DEF LettersInv
<1>14. NoticesInv'
  <2>1. \A u \in Users : \A x : Owed(x, u) => Owed(x, u)'
    BY <1>1, OwedStays
  <2>2. DueOwed'
    BY <1>1, <2>1 DEF MailInv, MailTypeOK, NoticesInv, DueOwed, Posted
  <2>3. \A a \in Notices, v \in Posters : FanningOut(v, a) => FanningOut(v, a)'
    BY <1>2, <1>9 DEF FanningOut
  <2>4. AudienceReached'
    BY <1>1, <2>3 DEF MailInv, NoticesInv, AudienceReached, Posted, Told
  <2> QED
    BY <2>2, <2>4 DEF NoticesInv
<1> QED
  BY <1>10, <1>12, <1>13, <1>14 DEF MailInv

LEMMA Resolving ==
    ASSUME AccountInv, MailInv, UNCHANGED <<accountVars, sessionVars, pupil>>, NEW w \in Posters,
           ResolveTargets(w)
    PROVE  MailInv'
<1>1. UNCHANGED <<user, pupil, staff, parent, thread, message, announcement, note, due, cut>>
  BY DEF ResolveTargets, accountVars, mailTables
<1>2. /\ draft \in [Posters -> Draft] /\ draft[w] \in Draft /\ poster[w] = "resolve"
      /\ DraftFits(poster[w], draft[w]) /\ due \in [Notices -> SUBSET Users]
      /\ LettersInv /\ NoticesInv
  BY MailTypes DEF MailInv, DraftOK, ResolveTargets
<1>3. PICK a : a = draft[w].notice
  OBVIOUS
<1>4. /\ a \in Notices /\ announcement[a] # NoNotice /\ draft[w].message = None
  BY <1>2, <1>3 DEF DraftFits
<1>5. PICK us : us = Targets(a)
  OBVIOUS
<1>6. Posted(a) => due[a] \subseteq us
  BY <1>2, <1>4, <1>5, OwedAreTargets DEF NoticesInv, DueOwed
<1>7. us \subseteq Users
  <2>1. parent \subseteq Users /\ pupil \subseteq Students
    BY DEF AccountInv, AccountsTyped, MailInv, MailTypeOK
  <2>2. \A s \in Students : AccountOf[s] # None => AccountOf[s] \in Users
    BY AccountsAssumption, MessagingAssumption
  <2> QED
    BY <1>5, <2>1, <2>2 DEF Targets
<1>8. CASE us = {}
  <2>1. Done(w)
    BY <1>3, <1>5, <1>8 DEF ResolveTargets
  <2>2. \A b \in Notices : FanningOut(w, b) /\ Posted(b)' => \A u \in due[b] : Told(u, b)'
    BY <1>1, <1>3, <1>6, <1>8 DEF FanningOut, Posted
  <2>3. NotesOK'
    BY <1>1, <1>2 DEF LettersInv, NotesOK, Told, Here
  <2>4. /\ message' \in [Messages -> MessageRow] /\ announcement' \in [Notices -> NoticeRow]
        /\ note' \in [Users \X (Messages \union Notices) -> {"none", "unread", "read"}]
        /\ cut \subseteq cut' /\ cut' \subseteq thread \union Messages \union Notices
    BY <1>1, MailTypes DEF MailInv
  <2> QED
    BY <1>1, <1>2, <2>1, <2>2, <2>3, <2>4, EndingKeepsMail DEF Here, Told
<1>9. CASE us # {}
  <2>1. PICK r : r = [draft[w] EXCEPT !.targets = us]
    OBVIOUS
  <2>2. draft' = [draft EXCEPT ![w] = r] /\ poster' = [poster EXCEPT ![w] = "fanOut"]
    BY <1>2, <1>3, <1>5, <1>9, <2>1 DEF ResolveTargets, Then
  <2>3. r \in Draft /\ r.notice = a /\ r.message = None /\ r.targets = us
    BY <1>2, <1>3, <1>4, <1>7, <2>1 DEF Draft
  <2>4. /\ poster'[w] = "fanOut" /\ draft'[w] = r
        /\ \A v \in Posters : v # w => poster'[v] = poster[v] /\ draft'[v] = draft[v]
    BY <2>2, MailTypes DEF MailInv
  <2>5. MailTypeOK'
    BY <1>1, <2>2, <2>3, MailTypes DEF MailInv, MailTypeOK, MessageRow, NoticeRow, Draft, PosterCalls
  <2>6. DraftOK'
    <3>1. Grows
      BY <1>1 DEF Grows, Here, Posted
    <3>2. r.notice \in Notices /\ announcement'[r.notice] # NoNotice
          /\ (Posted(r.notice)' => due'[r.notice] \subseteq r.targets)
      BY <1>1, <1>4, <1>6, <2>3 DEF Posted
    <3>3. DraftFits("fanOut", r)'
      BY <2>3, <3>2 DEF DraftFits
    <3>4. poster' \in [Posters -> PosterCalls] /\ draft' \in [Posters -> Draft']
      BY <2>5, MailTypes DEF MailTypeOK, PosterCalls, Draft
    <3> QED
      BY <2>4, <3>1, <3>3, <3>4, DraftsStay
  <2>7. LettersInv'
    <3>1. \A m \in Messages : (\E v \in Posters : draft[v].message = m) =>
              \E v \in Posters : draft'[v].message = m
      BY <1>4, <2>4, MessagingAssumption
    <3>2. \A th \in thread : (\E v \in Posters : poster[v] = "write" /\ draft[v].thread = th) =>
              \E v \in Posters : poster'[v] = "write" /\ draft'[v].thread = th
      BY <1>2, <2>4
    <3>3. ThreadRows' /\ NotesOK'
      BY <1>1, <1>2 DEF LettersInv, ThreadRows, NotesOK, Told, Here
    <3>4. MessageWritten'
      BY <1>1, <1>2, <3>1 DEF LettersInv, MessageWritten, Told, Here, Other
    <3>5. ThreadHasMessage'
      BY <1>1, <1>2, <3>2 DEF LettersInv, ThreadHasMessage
    <3> QED
      BY <3>3, <3>4, <3>5 DEF LettersInv
  <2>8. NoticesInv'
    <3>1. \A u \in Users : \A x : Owed(x, u) => Owed(x, u)'
      BY <1>1, OwedStays
    <3>2. DueOwed'
      BY <1>1, <1>2, <3>1 DEF NoticesInv, DueOwed, Posted
    <3>3. \A b \in Notices, v \in Posters : FanningOut(v, b) => FanningOut(v, b)'
      BY <1>3, <2>3, <2>4 DEF FanningOut
    <3>4. AudienceReached'
      BY <1>1, <1>2, <3>3 DEF NoticesInv, AudienceReached, Posted, Told
    <3> QED
      BY <3>2, <3>4 DEF NoticesInv
  <2> QED
    BY <2>5, <2>6, <2>7, <2>8 DEF MailInv
<1> QED
  BY <1>8, <1>9

LEMMA Reading ==
    ASSUME MailInv, UNCHANGED <<accountVars, sessionVars, pupil>>, AskNotifications
    PROVE  MailInv'
<1>1. UNCHANGED <<user, pupil, staff, parent, thread, message, announcement, poster, draft, due, cut>>
  BY DEF AskNotifications, MarkRead, MarkAllRead, accountVars
<1>2. note \in [Users \X (Messages \union Notices) -> {"none", "unread", "read"}]
  BY MailTypes DEF MailInv
<1>3. /\ note' \in [Users \X (Messages \union Notices) -> {"none", "unread", "read"}]
      /\ \A u \in Users, x \in Messages \union Notices : Told(u, x)' <=> Told(u, x)
  <2>1. ASSUME NEW u \in Users, MarkAllRead(u)
        PROVE  /\ note' \in [Users \X (Messages \union Notices) -> {"none", "unread", "read"}]
               /\ \A n \in Users \X (Messages \union Notices) : note'[n] # "none" <=> note[n] # "none"
    BY <1>2, <2>1 DEF MarkAllRead
  <2>2. ASSUME NEW u \in Users, NEW x \in Messages \union Notices, MarkRead(u, x)
        PROVE  /\ note' \in [Users \X (Messages \union Notices) -> {"none", "unread", "read"}]
               /\ \A n \in Users \X (Messages \union Notices) : note'[n] # "none" <=> note[n] # "none"
    <3>1. PICK p : p = <<u, x>>
      OBVIOUS
    <3>2. p \in Users \X (Messages \union Notices) /\ note[p] = "unread"
          /\ note' = [note EXCEPT ![p] = "read"]
      BY <2>2, <3>1 DEF MarkRead
    <3> QED
      BY <1>2, <3>2
  <2>3. /\ note' \in [Users \X (Messages \union Notices) -> {"none", "unread", "read"}]
        /\ \A n \in Users \X (Messages \union Notices) : note'[n] # "none" <=> note[n] # "none"
    BY <2>1, <2>2 DEF AskNotifications, Callers
  <2> QED
    BY <2>3 DEF Told
<1>4. MailTypeOK'
  BY <1>1, <1>3, MailTypes DEF MailInv, MailTypeOK, MessageRow, NoticeRow, Draft, PosterCalls
<1>5. DraftOK'
  BY <1>1 DEF MailInv, DraftOK, DraftFits, Here, Posted
<1>6. LettersInv'
  <2>1. ThreadRows' /\ ThreadHasMessage' /\ NotesOK'
    BY <1>1, <1>3 DEF MailInv, LettersInv, ThreadRows, ThreadHasMessage, NotesOK, Here
  <2>2. MessageWritten'
    <3>1. ASSUME NEW m \in Messages, Here(m)
          PROVE  /\ Other(m)' = Other(m)
                 /\ (\E u \in Other(m) : Told(u, m)) => \E u \in Other(m) : Told(u, m)'
      <4>1. message[m].thread \in Thread
        BY <3>1, MailTypes DEF MailInv, MailTypeOK, MessageRow, Here
      <4>2. Other(m) \subseteq Users
        BY <4>1 DEF Other, Thread
      <4> QED
        BY <1>1, <1>3, <4>2 DEF Other
    <3>2. \A m \in Messages : Here(m)' <=> Here(m)
      BY <1>1 DEF Here
    <3> QED
      BY <1>1, <3>1, <3>2 DEF MailInv, LettersInv, MessageWritten
  <2> QED
    BY <2>1, <2>2 DEF LettersInv
<1>7. NoticesInv'
  <2>1. \A u \in Users : \A x : Owed(x, u) => Owed(x, u)'
    BY <1>1, OwedStays
  <2>2. DueOwed'
    BY <1>1, <2>1 DEF MailInv, MailTypeOK, NoticesInv, DueOwed, Posted
  <2>3. AudienceReached'
    BY <1>1, <1>3 DEF MailInv, MailTypeOK, NoticesInv, AudienceReached, Posted, FanningOut
  <2> QED
    BY <2>2, <2>3 DEF NoticesInv
<1> QED
  BY <1>4, <1>5, <1>6, <1>7 DEF MailInv

\* What the restart cuts off is remembered, as for a request that dies alone.
LEMMA RestartKeepsMail ==
    ASSUME AccountInv, MailInv, Restart
    PROVE  MailInv'
<1>1. UNCHANGED <<user, pupil, staff, parent, thread, message, announcement, note, due>>
  BY DEF Restart, people, mailTables
<1>2. /\ poster' = [w \in Posters |-> "idle"] /\ draft' = [w \in Posters |-> NoDraft]
      /\ cut' = cut \union UNION {WorkOf(w) : w \in {v \in Posters : poster[v] # "idle"}}
  BY DEF Restart
<1>3. None \notin Thread /\ None \notin Messages /\ None \notin Notices
  BY MessagingAssumption DEF Thread
<1>4. /\ thread \subseteq Thread /\ draft \in [Posters -> Draft] /\ DraftOK /\ LettersInv /\ NoticesInv
      /\ cut \subseteq thread \union Messages \union Notices
  BY MailTypes DEF MailInv, MailTypeOK
<1>5. ASSUME NEW w \in Posters
      PROVE  /\ WorkOf(w) \subseteq thread \union Messages \union Notices
             /\ poster[w] # "idle" => WorkOf(w) \subseteq cut'
             /\ \A m \in Messages : draft[w].message = m => m \in cut'
             /\ \A th \in thread : poster[w] = "write" /\ draft[w].thread = th => th \in cut'
             /\ \A a \in Notices : FanningOut(w, a) => a \in cut'
  <2>1. draft[w] \in Draft /\ DraftFits(poster[w], draft[w])
    BY <1>4 DEF DraftOK
  <2>2. WorkOf(w) \subseteq thread \union Messages \union Notices
    BY <2>1 DEF WorkOf, Draft
  <2>3. poster[w] # "idle" => WorkOf(w) \subseteq cut'
    BY <1>2
  <2>4. \A m \in Messages : draft[w].message = m => poster[w] # "idle" /\ m \in WorkOf(w)
    BY <1>3, <2>1 DEF DraftFits, WorkOf
  <2>5. \A th \in thread : draft[w].thread = th => th \in WorkOf(w)
    BY <1>3, <1>4 DEF WorkOf
  <2>6. \A a \in Notices : FanningOut(w, a) => poster[w] # "idle" /\ a \in WorkOf(w)
    BY <1>3 DEF FanningOut, WorkOf
  <2> QED
    BY <2>2, <2>3, <2>4, <2>5, <2>6
<1>6. MailTypeOK'
  <2>1. cut' \subseteq thread \union Messages \union Notices
    BY <1>2, <1>4, <1>5
  <2>2. poster' \in [Posters -> PosterCalls] /\ draft' \in [Posters -> Draft]
    BY <1>2, MailTypes DEF PosterCalls
  <2> QED
    BY <1>1, <2>1, <2>2, MailTypes DEF MailInv, MailTypeOK, MessageRow, NoticeRow, Draft, PosterCalls
<1>7. DraftOK'
  BY <1>2 DEF DraftOK, DraftFits, NoDraft
<1>8. LettersInv'
  <2>1. ThreadRows' /\ NotesOK'
    BY <1>1, <1>4 DEF LettersInv, ThreadRows, NotesOK, Told, Here
  <2>2. cut \subseteq cut'
    BY <1>2
  <2>3. MessageWritten'
    BY <1>1, <1>4, <1>5, <2>2 DEF LettersInv, MessageWritten, Told, Here, Other
  <2>4. ThreadHasMessage'
    BY <1>1, <1>4, <1>5, <2>2 DEF LettersInv, ThreadHasMessage
  <2> QED
    BY <2>1, <2>3, <2>4 DEF LettersInv
<1>9. NoticesInv'
  <2>1. \A u \in Users : \A x : Owed(x, u) => Owed(x, u)'
    BY <1>1, OwedStays
  <2>2. DueOwed'
    BY <1>1, <2>1 DEF MailInv, MailTypeOK, NoticesInv, DueOwed, Posted
  <2>3. cut \subseteq cut'
    BY <1>2
  <2>4. AudienceReached'
    BY <1>1, <1>4, <1>5, <2>3 DEF NoticesInv, AudienceReached, Posted, Told
  <2> QED
    BY <2>2, <2>4 DEF NoticesInv
<1> QED
  BY <1>6, <1>7, <1>8, <1>9 DEF MailInv

\* A step of the accounts leaves the mail alone; who left the audience is not owed
\* the announcement any more.
LEMMA WatchingKeepsMail ==
    ASSUME AccountInv, MailInv, [Next]_officeVars, UNCHANGED <<mailTables, poster, draft, cut>>,
           pupil' \subseteq pupil, WatchAudience
    PROVE  MailInv'
<1>1. UNCHANGED <<thread, message, announcement, note, poster, draft, cut>>
  BY DEF mailTables
<1>2. \A a \in Notices : /\ due'[a] \subseteq due[a]
                         /\ \A u \in due'[a] : Owed(announcement[a], u)'
  BY DEF WatchAudience
<1>3. due' \in [Notices -> SUBSET Users] /\ pupil' \subseteq Students
  BY DEF MailInv, MailTypeOK, WatchAudience
<1>4. MailTypeOK'
  BY <1>1, <1>3 DEF MailInv, MailTypeOK
<1>5. DraftOK'
  BY <1>1, <1>2 DEF MailInv, DraftOK, DraftFits, Here, Posted
<1>6. LettersInv'
  <2>1. ThreadRows'
    <3>1. thread \subseteq Thread
      BY DEF MailInv, MailTypeOK
    <3> QED
      BY <1>1, <3>1, ProfilesStay DEF MailInv, LettersInv, ThreadRows, Thread
  <2>2. NotesOK' /\ ThreadHasMessage'
    BY <1>1 DEF MailInv, LettersInv, NotesOK, ThreadHasMessage, Told, Here
  <2>3. MessageWritten'
    BY <1>1 DEF MailInv, LettersInv, MessageWritten, Told, Here, Other
  <2> QED
    BY <2>1, <2>2, <2>3 DEF LettersInv
<1>7. NoticesInv'
  <2>1. DueOwed'
    BY <1>2 DEF DueOwed
  <2>2. AudienceReached'
    BY <1>1, <1>2 DEF MailInv, NoticesInv, AudienceReached, Posted, Told, FanningOut
  <2> QED
    BY <2>1, <2>2 DEF NoticesInv
<1> QED
  BY <1>4, <1>5, <1>6, <1>7 DEF MailInv

LEMMA ElsewhereKeepsMail ==
    ASSUME MailInv, UNCHANGED <<accountVars, mailVars>>
    PROVE  MailInv'
<1>1. UNCHANGED <<user, pupil, staff, parent, thread, message, announcement, note, poster, draft, due, cut>>
  BY DEF accountVars, mailVars
<1>2. MailTypeOK' /\ DraftOK'
  BY <1>1 DEF MailInv, MailTypeOK, DraftOK, DraftFits, Here, Posted
<1>3. LettersInv'
  BY <1>1 DEF MailInv, LettersInv, ThreadRows, NotesOK, MessageWritten, ThreadHasMessage, Told, Here, Other
<1>4. NoticesInv'
  <2>1. \A u \in Users : \A x : Owed(x, u) => Owed(x, u)'
    BY <1>1, OwedStays
  <2>2. DueOwed'
    BY <1>1, <2>1 DEF MailInv, MailTypeOK, NoticesInv, DueOwed, Posted
  <2>3. AudienceReached'
    BY <1>1 DEF MailInv, NoticesInv, AudienceReached, Posted, Told, FanningOut
  <2> QED
    BY <2>2, <2>3 DEF NoticesInv
<1> QED
  BY <1>2, <1>3, <1>4 DEF MailInv

LEMMA MailStep == AccountInv /\ MailInv /\ [Next]_officeVars => MailInv'
<1> SUFFICES ASSUME AccountInv, MailInv, [Next]_officeVars PROVE MailInv'
  OBVIOUS
<1>1. CASE UNCHANGED officeVars
  BY <1>1, ElsewhereKeepsMail DEF officeVars
<1>2. CASE \/ /\ AccountsNext
              /\ UNCHANGED <<sessionVars, pupil, mailTables, poster, draft, cut>> /\ WatchAudience
           \/ \E c \in Clerks, w \in Logins :
                 Register(c, w) /\ UNCHANGED <<pupil, mailTables, poster, draft, cut>> /\ WatchAudience
  BY <1>2, WatchingKeepsMail
<1>6. ASSUME NEW c \in Clerks, AskStudents(c),
             UNCHANGED <<sessionVars, mailTables, poster, draft, cut>>, WatchAudience
      PROVE  MailInv'
  BY <1>6, WatchingKeepsMail DEF AskStudents, DeactivateStudent
<1>3. CASE SessionsNext /\ UNCHANGED <<accountVars, mailVars>>
  BY <1>3, ElsewhereKeepsMail
<1>4. CASE MailNext /\ UNCHANGED <<accountVars, sessionVars, pupil>>
  <2>1. ASSUME NEW w \in Posters, AskAnnouncements(w) PROVE MailInv'
    <3>1. Take(w) /\ poster[w] = "idle"
      BY <2>1 DEF AskAnnouncements, Take
    <3> QED
      BY <1>4, <2>1, <3>1, AskingForMail, Announcing DEF AskAnnouncements
  <2>2. ASSUME NEW w \in Posters, ProceedMail(w) \/ DropOut(w) PROVE MailInv'
    BY <1>4, <2>2, Ending, Writing, Resolving DEF ProceedMail
  <2> QED
    BY <1>4, <2>1, <2>2, AskingForMail, Reading DEF MailNext
<1>5. CASE Restart
  BY <1>5, RestartKeepsMail
<1> QED
  BY <1>1, <1>2, <1>3, <1>4, <1>5, <1>6 DEF Next

LEMMA MailAlways == Spec => []MailInv
<1>1. Init => AccountInv /\ MailInv
  BY AccountInit, MailInitially
<1>2. AccountInv /\ MailInv /\ [Next]_officeVars => (AccountInv /\ MailInv)'
  BY AccountStep, MailStep
<1> QED
  BY <1>1, <1>2, PTL DEF Spec

-----------------------------------------------------------------------------
\* Whoever had an announcement in his list from its posting on, an announcement to
\* a class as an active pupil of it, is told of it once its fan-out is over
\* (announcements/services/index.service.ts, fanOutNotifications), whatever happens
\* to the accounts, the pupils, the roles and the links meanwhile, unless the
\* fan-out died.
THEOREM AudienceIsTold == Spec => []AudienceTold
<1>1. MailInv => AudienceTold
  <2> SUFFICES ASSUME MailInv, NEW a \in Notices, announcement[a].state = "posted", a \notin cut,
                      \A w \in Posters : draft[w].notice = a => poster[w] = "delete"
               PROVE  \A u \in due[a] : Told(u, a)
    BY DEF AudienceTold
  <2>1. \A w \in Posters : ~FanningOut(w, a)
    BY DEF FanningOut
  <2> QED
    BY <2>1 DEF MailInv, NoticesInv, AudienceReached, Posted
<1> QED
  BY <1>1, MailAlways, PTL

\* No thread without its message and no message without its notification, unless a
\* request died on the way; and who is told of a message can open it
\* (messages.service.ts, createThread, sendMessage and assertIsParticipant).
THEOREM CorrespondenceReaches == Spec => []Correspondence
<1>1. MailInv => Correspondence
  <2> SUFFICES ASSUME MailInv PROVE Correspondence
    OBVIOUS
  <2>1. ASSUME NEW m \in Messages, message[m] # NoMessage
        PROVE  /\ \/ m \in cut
                  \/ \E w \in Posters : draft[w].message = m
                  \/ \E u \in Other(m) : Told(u, m)
               /\ \A u \in Users : Told(u, m) => m \in MessagesShown(u, message[m].thread)
    BY <2>1 DEF MailInv, LettersInv, MessageWritten, NotesOK, Here, MessagesShown, IsParticipant
  <2>2. MessageTold
    BY <2>1 DEF MessageTold, Other
  <2> QED
    BY <2>2 DEF Correspondence, MailInv, LettersInv
<1> QED
  BY <1>1, MailAlways, PTL

\* Whose role is that of a parent or of a teacher lists no thread of others, and
\* all of his own if he has the profile of the role (messages.service.ts,
\* buildThreadFilter), although roles are edited while the threads go on and the
\* profiles stay: a thread is between a parent and a member of staff, and nobody is
\* ever both.
THEOREM ThreadsStayOwn == Spec => []ThreadsAreOwn
<1>1. AccountInv /\ MailInv => ThreadsAreOwn
  <2> SUFFICES ASSUME AccountInv, MailInv, NEW u \in Users, NEW th \in thread,
                      user[u].role \in {"parent"} \union (TeacherRoles \ Heads)
               PROVE  /\ ThreadFilter(u, th) => u \in {th.parent, th.teacher}
                      /\ /\ IF user[u].role = "parent" THEN u \in parent ELSE staff[u] # "none"
                         /\ u \in {th.parent, th.teacher}
                         => ThreadFilter(u, th)
    BY DEF ThreadsAreOwn, ThreadsListed
  <2>1. th.parent \in parent /\ staff[th.teacher] # "none"
    BY DEF MailInv, LettersInv, ThreadRows
  <2>2. u \in parent => u # th.teacher
    BY <2>1, ParentsNoStaff
  <2>3. staff[u] # "none" => u # th.parent
    BY <2>1, ParentsNoStaff
  <2>4. "parent" \notin TeacherRoles
    BY DEF TeacherRoles, Heads
  <2> QED
    BY <2>2, <2>3, <2>4 DEF ThreadFilter
<1> QED
  BY <1>1, AccountsAlways, MailAlways, PTL

\* Every table, every request's locals and every history variable of the office
\* stays of its type, whoever works in it at the same time (Accounts, Sessions,
\* Messaging): what a request has in hand when it goes on is of the kind its next
\* call needs.
THEOREM OfficeTypeOK == Spec => []TypeOK
<1>1. AccountInv /\ BudgetOK => AccountTypeOK
  BY DEF AccountInv, AccountsTyped, BudgetOK, AccountTypeOK, Calls
<1>2. MailInv => MailTypeOK
  BY DEF MailInv
<1>3. AccountInv /\ BudgetOK /\ SessionTypeOK /\ MailInv => TypeOK
  BY <1>1, <1>2 DEF TypeOK
<1>4. Spec => []BudgetOK
  BY BudgetInit, BudgetStep, PTL DEF Spec
<1> QED
  BY <1>3, <1>4, AccountsAlways, SessionTypesAlways, MailAlways, PTL
===============================================================================
