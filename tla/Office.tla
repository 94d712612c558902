-------------------------------- MODULE Office --------------------------------
(***************************************************************************)
(* Accounts, sessions and messages in one process of the server: what a    *)
(* request about messages or sessions meets is what requests about         *)
(* accounts have left, and a restart takes the requests of all three.      *)
(***************************************************************************)
EXTENDS Sessions, Messaging

officeVars == <<accountVars, sessionVars, mailVars, budget>>

TypeOK == AccountTypeOK /\ SessionTypeOK /\ MailTypeOK

Init == AccountsInit /\ SessionsInit /\ MailInit

\* The process dies and is started again: what was in memory is gone.
Restart ==
    /\ Spend("deaths")
    /\ clerk' = [c \in Clerks |-> "idle"]
    /\ task' = [c \in Clerks |-> NoTask]
    /\ apart' = apart \union {u \in Users : Switching(u)}
    /\ login' = [w \in Logins |-> "idle"]
    /\ call' = [w \in Logins |-> NoCall]
    /\ missed' = missed \union ({call[w].device : w \in Logins} \ {None})
    /\ poster' = [w \in Posters |-> "idle"]
    /\ draft' = [w \in Posters |-> NoDraft]
    /\ cut' = cut \union UNION {WorkOf(w) : w \in {v \in Posters : poster[v] # "idle"}}
    /\ UNCHANGED <<people, otp, token, held, pupil, mailTables, due>>

\* register: the school is onboarded, and the same request goes on with a code
\* for its administrator.  A code that cannot be sent fails nothing.
Register(c, w) ==
    /\ CreateSchool(c)
    /\ school' # school
    /\ login[w] = "idle"
    /\ <<task[c].school, task[c].phone>> \in Keys
    /\ LookUp(w, <<task[c].school, task[c].phone>>)

Next ==
    \/ /\ AccountsNext
       /\ UNCHANGED <<sessionVars, pupil, mailTables, poster, draft, cut>> /\ WatchAudience
    \/ \E c \in Clerks, w \in Logins :
          Register(c, w) /\ UNCHANGED <<pupil, mailTables, poster, draft, cut>> /\ WatchAudience
    \/ \E c \in Clerks :
          AskStudents(c) /\ UNCHANGED <<sessionVars, mailTables, poster, draft, cut>> /\ WatchAudience
    \/ SessionsNext /\ UNCHANGED <<accountVars, mailVars>>
    \/ MailNext /\ UNCHANGED <<accountVars, sessionVars, pupil>>
    \/ Restart

Spec == Init /\ [][Next]_officeVars
===============================================================================
