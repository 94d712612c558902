---------------------------- MODULE SessionsProofs ----------------------------
(***************************************************************************)
(* For any number of requests, devices and tokens, with every other part   *)
(* of the office at work: a session has one live token (OneLiveToken).     *)
(* The invariant that carries the proof follows the token a request has in *)
(* hand from the moment it was found to the moment the next one is made.   *)
(***************************************************************************)
EXTENDS Office, TLAPS

\* The names of a request's next calls.
Steps == {"idle", "contact", "store", "send", "cool", "uncode", "uncool", "read", "drop",
          "rewrite", "consume", "account", "open", "revoke", "issue", "end"}

\* The part of SessionTypeOK the argument needs.
ChainTypeOK ==
    /\ challenge \in [Keys -> Challenge]
    /\ codes \in Nat
    /\ token \in [Tokens -> TokenRow]
    /\ held \in [Devices -> Tokens \union {None}]
    /\ login \in [Logins -> Steps]
    /\ call \in [Logins -> Call]
    /\ \A w \in Logins : call[w].key \notin Keys => login[w] \in {"idle", "revoke", "issue", "end"}

Used(t) == t \in Tokens /\ token[t].state # "none"

InHand(w) == login[w] \in {"revoke", "issue", "end"}

Unique ==
    /\ \A s, t \in Tokens : Live(s) /\ Live(t) /\ token[s].root = token[t].root => s = t
    /\ \A t \in Tokens, w \in Logins : Live(t) => ~Refreshing(w, token[t].root)
    /\ \A v, w \in Logins :
          login[v] = "issue" /\ login[w] = "issue"
          /\ token[call[v].token].root = token[call[w].token].root => v = w

\* A token that was exchanged is revoked and was exchanged once.
Exchanged ==
    /\ \A s, t \in Tokens : token[s].from # None /\ token[s].from = token[t].from => s = t
    /\ \A t \in Tokens : token[t].from # None =>
          token[t].from \in Tokens /\ token[token[t].from].state = "revoked"
    /\ \A w \in Logins : login[w] = "issue" =>
          /\ token[call[w].token].state = "revoked"
          /\ \A t \in Tokens : token[t].from # call[w].token

\* Rows not made yet are blank, and what points to a row points to a made one.
Rooted ==
    /\ \A t \in Tokens : token[t].state = "none" => token[t] = NoToken
    /\ \A t \in Tokens : Used(t) => Used(token[t].root)
    /\ \A w \in Logins : InHand(w) => Used(call[w].token)
    /\ \A d \in Devices : held[d] # None => Used(held[d])

Inv == ChainTypeOK /\ Unique /\ Exchanged /\ Rooted

\* A step that changes no token and gives none to a request to issue the next.
Quiet ==
    /\ UNCHANGED <<token, held>>
    /\ \A w \in Logins : InHand(w)' =>
          \/ UNCHANGED <<login[w], call[w].token>>
          \/ login'[w] # "issue" /\ Used(call'[w].token)

LEMMA QuietKeeps ==
    ASSUME Inv, ChainTypeOK', Quiet PROVE Inv'
<1>1. \A w \in Logins : login'[w] = "issue" => login[w] = "issue" /\ call'[w].token = call[w].token
  BY DEF Quiet, InHand
<1>2. Unique'
  BY <1>1 DEF Inv, Unique, Quiet, Live, Refreshing
<1>3. Exchanged'
  BY <1>1 DEF Inv, Exchanged, Quiet
<1>4. Rooted'
  BY DEF Inv, Rooted, Quiet, InHand, Used
<1> QED BY <1>2, <1>3, <1>4 DEF Inv

\* A step that takes live tokens away, and nothing else.
Demotes ==
    /\ \A t \in Tokens :
          \/ token'[t] = token[t]
          \/ /\ Used(t) /\ token'[t].state \in {"revoked", "expired"}
             /\ token[t].state = "revoked" => token'[t].state = "revoked"
             /\ token'[t].root = token[t].root /\ token'[t].from = token[t].from
    /\ \A d \in Devices : held'[d] \in {held[d], None}
    /\ \A w \in Logins : InHand(w)' => UNCHANGED <<login[w], call[w].token>>

LEMMA DemotesKeeps ==
    ASSUME Inv, ChainTypeOK', Demotes PROVE Inv'
<1>1. \A w \in Logins : login'[w] = "issue" => login[w] = "issue" /\ call'[w].token = call[w].token
  BY DEF Demotes, InHand
<1>2. \A t \in Tokens :
        /\ token'[t].root = token[t].root /\ token'[t].from = token[t].from
        /\ token'[t].state = "live" => token[t].state = "live"
        /\ token[t].state = "revoked" => token'[t].state = "revoked"
        /\ token'[t].state = "none" <=> token[t].state = "none"
        /\ token'[t].state = "none" => token'[t] = token[t]
  BY DEF Demotes, Used
<1>3. \A w \in Logins : login'[w] = "issue" =>
         call[w].token \in Tokens /\ token'[call'[w].token].root = token[call[w].token].root
  BY <1>1, <1>2 DEF Inv, Rooted, InHand, Used
<1>4. Unique'
  <2>1. \A t \in Tokens : Live(t)' => Live(t)
    BY <1>2 DEF Live
  <2>2. \A t \in Tokens, w \in Logins : Refreshing(w, token[t].root)' => Refreshing(w, token[t].root)
    BY <1>1, <1>2, <1>3 DEF Refreshing
  <2> QED BY <1>1, <1>2, <1>3, <2>1, <2>2 DEF Inv, Unique
<1>5. Exchanged'
  BY <1>1, <1>2, <1>3 DEF Inv, Exchanged
<1>6. Rooted'
  BY <1>1, <1>2 DEF Inv, Rooted, Demotes, InHand, Used
<1> QED BY <1>4, <1>5, <1>6 DEF Inv

LEMMA QuietOpen ==
    ASSUME ChainTypeOK, NEW w \in Logins, NEW next \in Steps, NEW c \in Call,
           UNCHANGED <<token, held>>,
           login' = [login EXCEPT ![w] = next], call' = [call EXCEPT ![w] = c],
           next \in {"revoke", "end"} => Used(c.token), next # "issue"
    PROVE  Quiet
  BY DEF ChainTypeOK, Quiet, InHand, Used

-----------------------------------------------------------------------------
(* The type.                                                                *)

LEMMA InitInv == Init => Inv
<1> SUFFICES ASSUME Init PROVE Inv
  OBVIOUS
<1> USE DEF Init, SessionsInit
<1>1. held \in [Devices -> Tokens \union {None}]
  BY SessionsAssumption
<1>2. FirstSignedIn \in Users
  BY SessionsAssumption, AccountsAssumption
<1>3. token \in [Tokens -> TokenRow]
  BY <1>2 DEF TokenRow, NoToken
<1>4. call \in [Logins -> Call] /\ challenge \in [Keys -> Challenge]
  BY DEF Call, NoCall, Challenge, NoChallenge
<1>5. codes \in Nat /\ login \in [Logins -> Steps] /\ \A w \in Logins : login[w] = "idle"
  BY DEF Steps
<1>6. \A t \in Tokens : token[t].from = None /\ (token[t].state # "none" => token[t].root = t)
  BY DEF NoToken
<1>7. Unique /\ Exchanged
  BY <1>6 DEF Unique, Exchanged, Live, Refreshing
<1>8. Rooted
  BY <1>1, <1>6 DEF Rooted, InHand, Used, NoToken
<1> HIDE DEF Init, SessionsInit
<1> QED BY <1>1, <1>3, <1>4, <1>5, <1>7, <1>8 DEF Inv, ChainTypeOK


LEMMA TypeOfSteps ==
    ASSUME Inv, NEW w \in Logins, AskSessions(w) \/ ProceedSessions(w) \/ BreakOff(w)
    PROVE  ChainTypeOK'
<1>a. ChainTypeOK
  BY DEF Inv
<1> USE <1>a DEF ChainTypeOK, Go, Reply, Steps
<1>0. NoCall \in Call /\ NoChallenge \in Challenge
  BY DEF NoCall, Call, NoChallenge, Challenge
<1>1. CASE AskSessions(w)
  <2>1. ASSUME NEW k \in Keys, RequestOtp(w, k) PROVE ChainTypeOK'
    <3> DEFINE c == [call[w] EXCEPT !.key = k]
    <3>1. c \in Call /\ c.key = k
      BY DEF Call
    <3>2. call' = [call EXCEPT ![w] = c]
      BY <2>1 DEF RequestOtp, LookUp
    <3> HIDE DEF c
    <3> QED BY <2>1, <3>1, <3>2 DEF RequestOtp, LookUp, otp, chain
  <2>2. ASSUME NEW d \in Devices, NEW k \in Keys, NEW n \in 0..codes, VerifyOtp(w, d, k, n)
        PROVE  ChainTypeOK'
    <3>1. n \in Nat
      BY <2>2
    <3> DEFINE c == [call[w] EXCEPT !.device = d, !.key = k, !.code = n]
    <3>2. c \in Call /\ c.key = k
      BY <3>1 DEF Call
    <3>3. call' = [call EXCEPT ![w] = c]
      BY <2>2 DEF VerifyOtp
    <3>4. login' = [login EXCEPT ![w] = "read"] /\ UNCHANGED <<challenge, codes, token, held>>
      BY <2>2 DEF VerifyOtp, otp, chain
    <3> HIDE DEF c
    <3> QED BY <3>2, <3>3, <3>4
  <2>3. ASSUME NEW d \in Devices, Refresh(w, d) PROVE ChainTypeOK'
    <3>1. token[held[d]].user \in Users \union {None}
      BY <2>3 DEF Refresh, Accepted, TokenRow
    <3> DEFINE c == [call[w] EXCEPT !.device = d, !.token = held[d], !.user = token[held[d]].user]
    <3>2. c \in Call
      BY <3>1 DEF Call
    <3>3. call' = [call EXCEPT ![w] = c] /\ login' = [login EXCEPT ![w] = "revoke"]
      BY <2>3 DEF Refresh
    <3>4. UNCHANGED <<challenge, codes, token, held>>
      BY <2>3 DEF Refresh, otp, chain
    <3> HIDE DEF c
    <3> QED BY <3>2, <3>3, <3>4
  <2>4. ASSUME NEW d \in Devices, Logout(w, d) PROVE ChainTypeOK'
    <3> DEFINE c == [call[w] EXCEPT !.device = d, !.token = held[d]]
    <3>1. c \in Call
      BY DEF Call
    <3>2. call' = [call EXCEPT ![w] = c] /\ login' = [login EXCEPT ![w] = "end"]
      BY <2>4 DEF Logout
    <3>3. UNCHANGED <<challenge, codes, token, held>>
      BY <2>4 DEF Logout, otp, chain
    <3> HIDE DEF c
    <3> QED BY <3>1, <3>2, <3>3
  <2> QED BY <1>1, <2>1, <2>2, <2>3, <2>4 DEF AskSessions
<1>2. CASE BreakOff(w)
  BY <1>0, <1>2 DEF BreakOff, otp, chain
<1>3. CASE FindContact(w)
  <2>1. ASSUME NEW u \in Users, call' = [call EXCEPT ![w].user = u]
        PROVE  call' \in [Logins -> Call] /\ \A v \in Logins : call'[v].key = call[v].key
    <3> DEFINE c == [call[w] EXCEPT !.user = u]
    <3>1. c \in Call /\ c.key = call[w].key
      BY DEF Call
    <3>2. call' = [call EXCEPT ![w] = c]
      BY <2>1
    <3> HIDE DEF c
    <3> QED BY <3>1, <3>2
  <2>2. call' \in [Logins -> Call] /\ \A v \in Logins : call'[v].key = call[v].key
    BY <1>3, <2>1 DEF FindContact
  <2>3. login' \in [Logins -> Steps] /\ \A v \in Logins : v # w => login'[v] = login[v]
    BY <1>3 DEF FindContact
  <2> QED BY <1>3, <2>2, <2>3 DEF FindContact, otp, chain
<1>4. CASE StoreCode(w)
  <2>1. call[w].user \in Users \union {None} /\ codes + 1 \in Nat
    BY DEF Call
  <2> QED BY <1>4, <2>1 DEF StoreCode, chain, Call, Challenge
<1>5. CASE Send(w) \/ Cool(w) \/ Uncode(w) \/ Uncool(w) \/ DropCode(w) \/ Consume(w)
  BY <1>0, <1>5 DEF Send, Cool, Uncode, Uncool, DropCode, Consume, chain
<1>6. CASE ReadCode(w)
  <2>1. challenge[call[w].key] \in Challenge
    BY <1>6 DEF ReadCode, Call
  <2> DEFINE c == [call[w] EXCEPT !.seen = challenge[call[w].key]]
  <2>4. c \in Call /\ c.key = call[w].key
    BY <2>1 DEF Call
  <2>5. \/ call' = [call EXCEPT ![w] = c]
        \/ call' = [call EXCEPT ![w] = NoCall] /\ login'[w] = "idle"
    <3>1. CASE challenge[call[w].key] = NoChallenge
      BY <1>6, <3>1 DEF ReadCode
    <3>2. CASE challenge[call[w].key] # NoChallenge
      BY <1>6, <3>2 DEF ReadCode
    <3> QED BY <3>1, <3>2
  <2> HIDE DEF c
  <2>2. call' \in [Logins -> Call]
    BY <1>0, <2>4, <2>5
  <2>3. login' \in [Logins -> Steps]
    BY <1>6 DEF ReadCode
  <2>6. call'[w].key \notin Keys => login'[w] = "idle"
    BY <1>6, <2>4, <2>5 DEF ReadCode
  <2> QED BY <1>6, <2>2, <2>3, <2>5, <2>6 DEF ReadCode, chain
<1>7. CASE Rewrite(w)
  <2>1. [call[w].seen EXCEPT !.attempts = @ + 1] \in Challenge
    BY DEF Call, Challenge
  <2> QED BY <1>0, <1>7, <2>1 DEF Rewrite, chain
<1>8. CASE FindAccount(w)
  <2>1. call[w].seen.user \in Users \union {None}
    BY DEF Call, Challenge
  <2> DEFINE c == [call[w] EXCEPT !.user = call[w].seen.user]
  <2>2. c \in Call /\ c.key = call[w].key
    BY <2>1 DEF Call
  <2>3. CASE Reaches(call[w].seen.user, call[w].key)
    <3>1. call' = [call EXCEPT ![w] = c] /\ login' = [login EXCEPT ![w] = "open"]
      BY <1>8, <2>3 DEF FindAccount
    <3> HIDE DEF c
    <3> QED BY <1>8, <2>2, <3>1 DEF FindAccount, otp, chain
  <2>4. CASE ~Reaches(call[w].seen.user, call[w].key)
    BY <1>0, <1>8, <2>4 DEF FindAccount, otp, chain
  <2> QED BY <2>3, <2>4
<1>9. CASE OpenSession(w)
  <2>1. call[w].user \in Users \union {None} /\ call[w].code \in Nat
    BY DEF Call
  <2> QED BY <1>0, <1>9, <2>1 DEF OpenSession, otp, Hand, TokenRow
<1>10. CASE Revoke(w)
  BY <1>0, <1>10 DEF Revoke, otp, TokenRow
<1>11. CASE Issue(w)
  <2>1. call[w].token \in Tokens
    BY <1>11 DEF Issue, Inv, Rooted, InHand, Used
  <2>2. [token[call[w].token] EXCEPT !.state = "live", !.from = call[w].token] \in TokenRow
    BY <2>1 DEF TokenRow
  <2> QED BY <1>0, <1>11, <2>2 DEF Issue, otp, Hand
<1>12. CASE EndSession(w)
  BY <1>0, <1>12 DEF EndSession, otp, TokenRow
<1> QED BY <1>1, <1>2, <1>3, <1>4, <1>5, <1>6, <1>7, <1>8, <1>9, <1>10, <1>11, <1>12
        DEF ProceedSessions


LEMMA TypeStep ==
    ASSUME Inv, [Next]_officeVars
    PROVE  ChainTypeOK'
<1>1. ChainTypeOK
  BY DEF Inv
<1>2. CASE UNCHANGED sessionVars
  BY <1>1, <1>2 DEF sessionVars, ChainTypeOK
<1>3. ASSUME NEW c \in Clerks, NEW w \in Logins, Register(c, w) PROVE ChainTypeOK'
  <2> DEFINE k == <<task[c].school, task[c].phone>>
             r == [call[w] EXCEPT !.key = k]
  <2>1. r \in Call /\ r.key \in Keys
    BY <1>1, <1>3 DEF Register, ChainTypeOK, Call
  <2>2. call' = [call EXCEPT ![w] = r] /\ login' = [login EXCEPT ![w] = "contact"]
    BY <1>1, <1>3 DEF Register, LookUp, Go, ChainTypeOK
  <2>3. UNCHANGED <<challenge, codes, token, held>>
    BY <1>3 DEF Register, LookUp, otp, chain
  <2> HIDE DEF r
  <2> QED BY <1>1, <2>1, <2>2, <2>3 DEF ChainTypeOK, Steps
<1>4. CASE SessionsNext
  <2>1. ASSUME NEW d \in Devices, LogoutAll(d) PROVE ChainTypeOK'
    BY <1>1, <2>1 DEF LogoutAll, otp, ChainTypeOK, TokenRow
  <2>2. ASSUME NEW k \in Keys, Lapse(k) \/ Thaw(k) PROVE ChainTypeOK'
    BY <1>1, <2>2 DEF Lapse, Thaw, chain, ChainTypeOK, NoChallenge, Challenge
  <2>3. ASSUME NEW t \in Tokens, Expire(t) PROVE ChainTypeOK'
    BY <1>1, <2>3 DEF Expire, otp, ChainTypeOK, TokenRow
  <2> QED BY <1>4, <2>1, <2>2, <2>3, TypeOfSteps DEF SessionsNext
<1>5. CASE Restart
  BY <1>1, <1>5 DEF Restart, otp, ChainTypeOK, Steps, NoCall, Call, NoChallenge, Challenge
<1> QED BY <1>2, <1>3, <1>4, <1>5 DEF Next, officeVars

-----------------------------------------------------------------------------
(* The steps that give a session its next token.                            *)

LEMMA OpenSessionKeeps ==
    ASSUME Inv, ChainTypeOK', NEW w \in Logins, OpenSession(w)
    PROVE  Inv'
<1>1. PICK t \in Tokens :
        /\ Unused(t)
        /\ token' = [token EXCEPT ![t] = [state |-> "live", user |-> call[w].user, root |-> t,
                                          from |-> None, code |-> call[w].code]]
        /\ Hand(call[w].device, t)
  BY DEF OpenSession
<1>2. ChainTypeOK
  BY DEF Inv
<1>3. ~Used(t) /\ token[t] = NoToken
  BY <1>1 DEF Unused, Used, Inv, Rooted
<1>4. /\ token'[t].state = "live" /\ token'[t].root = t /\ token'[t].from = None
      /\ \A s \in Tokens : s # t => token'[s] = token[s]
      /\ \A d \in Devices : held'[d] \in {held[d], t}
  BY <1>1, <1>2 DEF ChainTypeOK, Hand
<1>5. /\ \A v \in Logins : v # w => UNCHANGED <<login[v], call[v]>>
      /\ login'[w] = "idle"
  BY <1>2 DEF OpenSession, Reply, Go, ChainTypeOK
<1>6. \A s \in Tokens : Used(s) => s # t /\ token[s].root # t
  BY <1>3 DEF Inv, Rooted
<1>7. \A v \in Logins : InHand(v)' =>
        /\ v # w /\ UNCHANGED <<login[v], call[v]>>
        /\ call[v].token \in Tokens /\ call[v].token # t /\ token[call[v].token].root # t
  BY <1>5, <1>6 DEF InHand, Inv, Rooted, Used
<1>8. Unique'
  BY <1>4, <1>6, <1>7 DEF Inv, Unique, Live, Refreshing, InHand, Used
<1>9. Exchanged'
  <2>1. \A s \in Tokens : token[s].from # t
    BY <1>3, SessionsAssumption DEF Inv, Exchanged, NoToken
  <2> QED BY <1>4, <1>7, <2>1, SessionsAssumption DEF Inv, Exchanged, InHand
<1>10. Rooted'
  BY <1>4, <1>6, <1>7 DEF Inv, Rooted, InHand, Used
<1> QED BY <1>8, <1>9, <1>10 DEF Inv


LEMMA RevokeKeeps ==
    ASSUME Inv, ChainTypeOK', NEW w \in Logins, Revoke(w)
    PROVE  Inv'
<1>1. ChainTypeOK /\ call[w].token \in Tokens
  BY DEF Inv, Revoke, Rooted, InHand, Used
<1>2. CASE ~Live(call[w].token)
  <2>1. Quiet
    BY <1>1, <1>2 DEF Revoke, Reply, Go, Quiet, InHand, ChainTypeOK
  <2> QED BY <2>1, QuietKeeps
<1>3. CASE Live(call[w].token)
  <2> DEFINE t == call[w].token
  <2>1. /\ token'[t].state = "revoked" /\ token'[t].root = token[t].root
        /\ token'[t].from = token[t].from
        /\ \A s \in Tokens : s # t => token'[s] = token[s]
    BY <1>1, <1>3 DEF Revoke, ChainTypeOK, TokenRow
  <2>2. /\ login'[w] = "issue" /\ \A v \in Logins : v # w => login'[v] = login[v]
        /\ UNCHANGED <<call, held>>
    BY <1>1, <1>3 DEF Revoke, Go, ChainTypeOK
  <2>3. \A s \in Tokens :
          /\ token'[s].root = token[s].root /\ token'[s].from = token[s].from
          /\ Live(s)' => Live(s) /\ s # t
          /\ token[s].state = "revoked" => token'[s].state = "revoked"
          /\ Used(s)' <=> Used(s)
    BY <1>3, <2>1 DEF Live, Used
  <2>4. \A v \in Logins : login[v] = "issue" => call[v].token \in Tokens
    BY DEF Inv, Rooted, InHand, Used
  <2>5. \A v \in Logins : login[v] = "issue" => token[call[v].token].root # token[t].root
    BY <1>1, <1>3 DEF Inv, Unique, Refreshing
  <2>6. login[w] = "revoke" /\ Used(t)
    BY <1>1, <1>3 DEF Revoke, Live, Used
  <2> HIDE DEF t
  <2>7. call[w].token = t /\ t \in Tokens /\ Live(t)
    BY <1>1, <1>3 DEF t
  <2>8. Unique'
    <3>1. \A s \in Tokens, v \in Logins : Live(s)' => ~Refreshing(v, token[s].root)'
      <4> SUFFICES ASSUME NEW s \in Tokens, NEW v \in Logins, Live(s)', Refreshing(v, token[s].root)'
                   PROVE  FALSE
        OBVIOUS
      <4>1. CASE v = w
        BY <2>2, <2>3, <2>7, <4>1 DEF Inv, Unique, Refreshing
      <4>2. CASE v # w
        BY <2>2, <2>3, <2>4, <4>2 DEF Inv, Unique, Refreshing
      <4> QED BY <4>1, <4>2
    <3>2. \A s, r \in Tokens : Live(s)' /\ Live(r)' /\ token'[s].root = token'[r].root => s = r
      BY <2>3 DEF Inv, Unique
    <3>3. \A u, v \in Logins :
             login'[u] = "issue" /\ login'[v] = "issue"
             /\ token'[call'[u].token].root = token'[call'[v].token].root => u = v
      BY <2>2, <2>3, <2>4, <2>5, <2>7 DEF Inv, Unique
    <3> QED BY <3>1, <3>2, <3>3 DEF Unique
  <2>9. Exchanged'
    <3>1. \A s \in Tokens : token[s].from # t
      BY <2>7, SessionsAssumption DEF Inv, Exchanged, Live
    <3> QED BY <2>1, <2>2, <2>3, <2>4, <2>7, <3>1 DEF Inv, Exchanged
  <2>10. Rooted'
    BY <2>1, <2>2, <2>3, <2>6, <2>7 DEF Inv, Rooted, InHand, Used
  <2> QED BY <2>8, <2>9, <2>10 DEF Inv
<1> QED BY <1>2, <1>3

LEMMA IssueKeeps ==
    ASSUME Inv, ChainTypeOK', NEW w \in Logins, Issue(w)
    PROVE  Inv'
<1> DEFINE o == call[w].token
<1>1. PICK t \in Tokens :
        /\ Unused(t)
        /\ token' = [token EXCEPT ![t] = [token[o] EXCEPT !.state = "live", !.from = o]]
        /\ Hand(call[w].device, t)
  BY DEF Issue
<1>2. ChainTypeOK /\ login[w] = "issue" /\ Used(o) /\ o \in Tokens
  BY DEF Inv, Issue, Rooted, InHand, Used
<1>3. ~Used(t) /\ token[t] = NoToken /\ t # o
  BY <1>1, <1>2 DEF Unused, Used, Inv, Rooted
<1>4. /\ token'[t].state = "live" /\ token'[t].root = token[o].root /\ token'[t].from = o
      /\ \A s \in Tokens : s # t => token'[s] = token[s]
      /\ \A d \in Devices : held'[d] \in {held[d], t}
  BY <1>1, <1>2 DEF ChainTypeOK, Hand, TokenRow
<1>5. /\ \A v \in Logins : v # w => UNCHANGED <<login[v], call[v]>>
      /\ login'[w] = "idle"
  BY <1>2 DEF Issue, Reply, Go, ChainTypeOK
<1>6. \A v \in Logins : InHand(v) /\ v # w =>
        call[v].token \in Tokens /\ call[v].token # t /\ call'[v].token = call[v].token
  BY <1>3, <1>5 DEF Inv, Rooted, Used
<1>7. \A v \in Logins : InHand(v)' => v # w /\ InHand(v) /\ login'[v] = login[v]
  BY <1>5 DEF InHand
<1>8. token[o].state = "revoked" /\ \A s \in Tokens : token[s].from # o
  BY <1>2 DEF Inv, Exchanged
<1>9. \A s \in Tokens : Live(s) => token[s].root # token[o].root
  BY <1>2 DEF Inv, Unique, Refreshing
<1>10. \A v \in Logins : login[v] = "issue" /\ v # w =>
         token[call[v].token].root # token[o].root /\ call[v].token # o
  BY <1>2 DEF Inv, Unique
<1> HIDE DEF o
<1>11. Unique'
  <2>1. \A s, r \in Tokens : Live(s)' /\ Live(r)' /\ token'[s].root = token'[r].root => s = r
    BY <1>4, <1>9 DEF Inv, Unique, Live
  <2>2. \A s \in Tokens, v \in Logins : Live(s)' => ~Refreshing(v, token[s].root)'
    <3> SUFFICES ASSUME NEW s \in Tokens, NEW v \in Logins, Live(s)', Refreshing(v, token[s].root)'
                 PROVE  FALSE
      OBVIOUS
    <3>1. v # w /\ login[v] = "issue" /\ call'[v].token = call[v].token /\ call[v].token \in Tokens
          /\ call[v].token # t
      BY <1>6, <1>7 DEF InHand, Refreshing
    <3>2. CASE s = t
      BY <1>4, <1>10, <3>1, <3>2 DEF Refreshing
    <3>3. CASE s # t
      BY <1>4, <3>1, <3>3 DEF Inv, Unique, Refreshing, Live
    <3> QED BY <3>2, <3>3
  <2>3. \A u, v \in Logins :
           login'[u] = "issue" /\ login'[v] = "issue"
           /\ token'[call'[u].token].root = token'[call'[v].token].root => u = v
    BY <1>4, <1>6, <1>7 DEF Inv, Unique, InHand
  <2> QED BY <2>1, <2>2, <2>3 DEF Unique
<1>12. Exchanged'
  <2>1. \A s \in Tokens : token[s].from # t
    BY <1>3, SessionsAssumption DEF Inv, Exchanged, NoToken
  <2>2. \A r, s \in Tokens : token'[s].from # None /\ token'[s].from = token'[r].from => s = r
    BY <1>4, <1>8 DEF Inv, Exchanged
  <2>3. \A s \in Tokens : token'[s].from # None =>
          token'[s].from \in Tokens /\ token'[token'[s].from].state = "revoked"
    <3> SUFFICES ASSUME NEW s \in Tokens, token'[s].from # None
                 PROVE  token'[s].from \in Tokens /\ token'[token'[s].from].state = "revoked"
      OBVIOUS
    <3>1. CASE s = t
      BY <1>2, <1>3, <1>4, <1>8, <3>1
    <3>2. CASE s # t
      BY <1>4, <2>1, <3>2 DEF Inv, Exchanged
    <3> QED BY <3>1, <3>2
  <2>4. \A v \in Logins : login'[v] = "issue" =>
          /\ token'[call'[v].token].state = "revoked"
          /\ \A s \in Tokens : token'[s].from # call'[v].token
    <3> SUFFICES ASSUME NEW v \in Logins, login'[v] = "issue"
                 PROVE  /\ token'[call'[v].token].state = "revoked"
                        /\ \A s \in Tokens : token'[s].from # call'[v].token
      OBVIOUS
    <3>1. v # w /\ login[v] = "issue" /\ call'[v].token = call[v].token /\ call[v].token \in Tokens
          /\ call[v].token # t
      BY <1>6, <1>7 DEF InHand
    <3>2. call[v].token # o
      BY <1>10, <3>1
    <3> QED BY <1>4, <3>1, <3>2 DEF Inv, Exchanged
  <2> QED BY <2>2, <2>3, <2>4 DEF Exchanged
<1>13. Rooted'
  <2>1. \A s \in Tokens : Used(s) => Used(s)'
    BY <1>3, <1>4 DEF Used
  <2>2. Used(t)'
    BY <1>4 DEF Used
  <2>3. \A s \in Tokens : Used(s)' => Used(token[s].root)'
    <3> SUFFICES ASSUME NEW s \in Tokens, Used(s)' PROVE Used(token[s].root)'
      OBVIOUS
    <3>1. CASE s = t
      <4>1. Used(token[o].root)
        BY <1>2 DEF Inv, Rooted
      <4> QED BY <1>4, <2>1, <3>1, <4>1 DEF Used
    <3>2. CASE s # t
      <4>1. Used(token[s].root) /\ token'[s] = token[s]
        BY <1>4, <3>2 DEF Inv, Rooted, Used
      <4> QED BY <2>1, <4>1 DEF Used
    <3> QED BY <3>1, <3>2
  <2>4. \A s \in Tokens : token'[s].state = "none" => token'[s] = NoToken
    BY <1>4 DEF Inv, Rooted
  <2>5. \A v \in Logins : InHand(v)' => Used(call[v].token)'
    BY <1>6, <1>7, <2>1 DEF Inv, Rooted, Used
  <2>6. \A d \in Devices : held'[d] # None => Used(held[d])'
    BY <1>4, <2>1, <2>2 DEF Inv, Rooted, Used
  <2> QED BY <2>3, <2>4, <2>5, <2>6 DEF Rooted
<1> QED BY <1>11, <1>12, <1>13 DEF Inv


-----------------------------------------------------------------------------
(* All other steps.                                                         *)

LEMMA QuietSteps ==
    ASSUME Inv, NEW w \in Logins,
           \/ AskSessions(w) \/ BreakOff(w)
           \/ FindContact(w) \/ StoreCode(w) \/ Send(w) \/ Cool(w) \/ Uncode(w) \/ Uncool(w)
           \/ ReadCode(w) \/ DropCode(w) \/ Rewrite(w) \/ Consume(w) \/ FindAccount(w)
    PROVE  Quiet
<1>1. ChainTypeOK
  BY DEF Inv
<1> USE <1>1 DEF Quiet, InHand, ChainTypeOK, Go, Reply
<1>2. CASE AskSessions(w)
  <2>1. ASSUME NEW k \in Keys, RequestOtp(w, k) PROVE Quiet
    BY <2>1 DEF RequestOtp, LookUp, chain
  <2>2. ASSUME NEW d \in Devices, NEW k \in Keys, NEW n \in 0..codes, VerifyOtp(w, d, k, n)
        PROVE  Quiet
    BY <2>2 DEF VerifyOtp, chain
  <2>3. ASSUME NEW d \in Devices, Refresh(w, d) \/ Logout(w, d) PROVE Quiet
    <3>1. Used(held[d])
      BY <2>3 DEF Refresh, Logout, Inv, Rooted
    <3>2. /\ login'[w] \in {"revoke", "end"} /\ call'[w].token = held[d]
          /\ \A v \in Logins : v # w => UNCHANGED <<login[v], call[v]>>
          /\ UNCHANGED <<token, held>>
      BY <2>3 DEF Refresh, Logout, chain, Call
    <3> QED BY <3>1, <3>2
  <2> QED BY <1>2, <2>1, <2>2, <2>3 DEF AskSessions
<1>3. CASE BreakOff(w)
  BY <1>3 DEF BreakOff, chain
<1>4. CASE FindContact(w)
  BY <1>4 DEF FindContact, chain
<1>5. CASE StoreCode(w) \/ Send(w) \/ Cool(w) \/ Uncode(w) \/ Uncool(w)
  BY <1>5 DEF StoreCode, Send, Cool, Uncode, Uncool, chain
<1>6. CASE ReadCode(w)
  <2>1. /\ login'[w] \in {"idle", "drop", "consume", "rewrite"}
        /\ \A v \in Logins : v # w => UNCHANGED <<login[v], call[v]>>
    BY <1>6 DEF ReadCode
  <2> QED BY <1>6, <2>1 DEF ReadCode, chain
<1>7. CASE DropCode(w) \/ Rewrite(w) \/ Consume(w)
  BY <1>7 DEF DropCode, Rewrite, Consume, chain
<1>8. CASE FindAccount(w)
  <2>1. /\ login'[w] \in {"idle", "open"}
        /\ \A v \in Logins : v # w => UNCHANGED <<login[v], call[v]>>
    BY <1>8 DEF FindAccount
  <2> QED BY <1>8, <2>1 DEF FindAccount, chain
<1> QED BY <1>2, <1>3, <1>4, <1>5, <1>6, <1>7, <1>8

\* A session's end: its token is revoked, or its time is over.
LEMMA DemotesSteps ==
    ASSUME Inv,
           \/ \E w \in Logins : EndSession(w)
           \/ \E d \in Devices : LogoutAll(d)
           \/ \E t \in Tokens : Expire(t)
    PROVE  Demotes
<1>1. ChainTypeOK
  BY DEF Inv
<1>2. ASSUME NEW w \in Logins, EndSession(w) PROVE Demotes
  <2>1. Used(call[w].token)
    BY <1>2 DEF EndSession, Inv, Rooted, InHand
  <2>2. \A v \in Logins : InHand(v)' => UNCHANGED <<login[v], call[v].token>>
    BY <1>1, <1>2 DEF EndSession, Reply, Go, InHand, ChainTypeOK
  <2>3. \A d \in Devices : held'[d] \in {held[d], None}
    BY <1>1, <1>2 DEF EndSession, ChainTypeOK
  <2>4. \A t \in Tokens :
          \/ token'[t] = token[t]
          \/ /\ Used(t) /\ token'[t].state = "revoked"
             /\ token'[t].root = token[t].root /\ token'[t].from = token[t].from
    BY <1>1, <1>2, <2>1 DEF EndSession, ChainTypeOK, TokenRow, Used
  <2> QED BY <2>2, <2>3, <2>4 DEF Demotes
<1>3. ASSUME NEW d \in Devices, LogoutAll(d) PROVE Demotes
  BY <1>1, <1>3 DEF LogoutAll, Demotes, ChainTypeOK, TokenRow, Used
<1>4. ASSUME NEW t \in Tokens, Expire(t) PROVE Demotes
  BY <1>1, <1>4 DEF Expire, Live, Demotes, ChainTypeOK, TokenRow, Used
<1> QED BY <1>2, <1>3, <1>4

LEMMA StepKinds ==
    ASSUME Inv, [Next]_officeVars
    PROVE  \/ Quiet
           \/ Demotes
           \/ \E w \in Logins : OpenSession(w) \/ Revoke(w) \/ Issue(w)
<1>1. ChainTypeOK
  BY DEF Inv
<1>2. CASE UNCHANGED sessionVars
  BY <1>2 DEF sessionVars, Quiet, InHand
<1>3. ASSUME NEW c \in Clerks, NEW w \in Logins, Register(c, w) PROVE Quiet
  BY <1>1, <1>3 DEF Register, LookUp, Go, chain, Quiet, InHand, ChainTypeOK
<1>4. CASE Restart
  BY <1>4 DEF Restart, Quiet, InHand
<1>5. ASSUME NEW k \in Keys, Lapse(k) \/ Thaw(k) PROVE Quiet
  BY <1>5 DEF Lapse, Thaw, chain, Quiet, InHand
<1>6. CASE SessionsNext
  BY <1>5, <1>6, QuietSteps, DemotesSteps DEF SessionsNext, ProceedSessions
<1> QED BY <1>2, <1>3, <1>4, <1>6 DEF Next, officeVars

LEMMA InvStep == Inv /\ [Next]_officeVars => Inv'
  BY TypeStep, StepKinds, QuietKeeps, DemotesKeeps, OpenSessionKeeps, RevokeKeeps, IssueKeeps

\* However many refreshes of a token are under way and wherever they die, a
\* session has at most one live token, and no token is exchanged twice: refresh
\* tokens are revoked by an update that only one request can win
\* (auth.service.ts, refreshTokens).
THEOREM OneLiveTokenAlways == Spec => []OneLiveToken
<1>1. Inv => OneLiveToken
  BY DEF Inv, Unique, Exchanged, OneLiveToken
<1> QED BY <1>1, InitInv, InvStep, PTL DEF Spec


-----------------------------------------------------------------------------
(* What a session's life is.                                                *)

\* No session starts, and none that has ended goes on.
Shrinks ==
    \A r \in Tokens :
       /\ token'[r].root = r <=> token[r].root = r
       /\ GoesOn(r)' => GoesOn(r)

LEMMA ShrinkingEnds ==
    ASSUME Shrinks
    PROVE  SessionLifeSpec!LifeNext
<1> DEFINE S == {r \in Tokens : Life(r) # Life(r)'}
<1>1. \A r \in Tokens : Life(r)' = Life(r) \/ (Life(r) = "open" /\ Life(r)' = "ended")
  <2> TAKE r \in Tokens
  <2>1. CASE token[r].root # r
    BY <2>1 DEF Shrinks, Life
  <2>2. CASE token[r].root = r /\ GoesOn(r)
    BY <2>2 DEF Shrinks, Life
  <2>3. CASE token[r].root = r /\ ~GoesOn(r)
    BY <2>3 DEF Shrinks, Life
  <2> QED BY <2>1, <2>2, <2>3
<1>2. SessionLifeSpec!EndAll(S)
  <2>1. \A r \in Tokens : Life(r)' = IF r \in S THEN "ended" ELSE Life(r)
    BY <1>1
  <2>2. S \subseteq Tokens /\ \A r \in S : Life(r) = "open"
    BY <1>1
  <2> HIDE DEF S
  <2> QED BY <2>1, <2>2 DEF SessionLifeSpec!EndAll
<1> QED BY <1>2 DEF SessionLifeSpec!LifeNext

LEMMA QuietShrinks ==
    ASSUME Quiet PROVE Shrinks
  BY DEF Quiet, InHand, Shrinks, GoesOn, Refreshing, Live

LEMMA DemotingShrinks ==
    ASSUME Inv, Demotes PROVE Shrinks
<1>1. \A t \in Tokens : token'[t].root = token[t].root /\ (Live(t)' => Live(t))
  BY DEF Demotes, Live
<1>2. \A v \in Logins : login'[v] = "issue" =>
        login[v] = "issue" /\ call'[v].token = call[v].token /\ call[v].token \in Tokens
  BY DEF Demotes, InHand, Inv, Rooted, Used
<1> QED BY <1>1, <1>2 DEF Shrinks, GoesOn, Refreshing

LEMMA ShrinkingSteps ==
    ASSUME Inv, NEW w \in Logins, Revoke(w) \/ Issue(w)
    PROVE  Shrinks
<1>1. ChainTypeOK
  BY DEF Inv
<1>2. \A v \in Logins : login[v] = "issue" => call[v].token \in Tokens
  BY DEF Inv, Rooted, InHand, Used
<1>3. CASE Revoke(w)
  <2>1. call[w].token \in Tokens
    BY <1>3 DEF Revoke, Inv, Rooted, InHand, Used
  <2>2. \A t \in Tokens : token'[t].root = token[t].root /\ (Live(t)' => Live(t))
    BY <1>1, <1>3, <2>1 DEF Revoke, Live, ChainTypeOK, TokenRow
  <2>3. \A v \in Logins : login'[v] = "issue" =>
          \/ login[v] = "issue" /\ call'[v].token = call[v].token
          \/ v = w /\ Live(call[w].token) /\ call'[w].token = call[w].token
    BY <1>1, <1>3 DEF Revoke, Go, Reply, ChainTypeOK
  <2> QED BY <1>2, <2>1, <2>2, <2>3 DEF Shrinks, GoesOn, Refreshing
<1>4. CASE Issue(w)
  <2> DEFINE o == call[w].token
  <2>1. PICK t \in Tokens :
          /\ Unused(t)
          /\ token' = [token EXCEPT ![t] = [token[o] EXCEPT !.state = "live", !.from = o]]
    BY <1>4 DEF Issue
  <2>2. o \in Tokens /\ Used(token[o].root) /\ login[w] = "issue" /\ ~Used(t) /\ token[t].root # t
    BY <1>4, <2>1, SessionsAssumption DEF Issue, Inv, Rooted, InHand, Used, Unused, NoToken
  <2>3. /\ token'[t].root = token[o].root
        /\ \A s \in Tokens : s # t => token'[s] = token[s]
    BY <1>1, <2>1, <2>2 DEF ChainTypeOK, TokenRow
  <2>4. \A v \in Logins : login'[v] = "issue" =>
          /\ login[v] = "issue" /\ call'[v].token = call[v].token
          /\ call[v].token \in Tokens /\ call[v].token # t
    BY <1>1, <1>2, <1>4, <2>2 DEF Issue, Reply, Go, ChainTypeOK, Inv, Rooted, InHand, Used
  <2> HIDE DEF o
  <2>5. Refreshing(w, token[o].root)
    BY <2>2 DEF Refreshing, o
  <2>6. \A r \in Tokens : token'[r].root = r <=> token[r].root = r
    BY <2>2, <2>3 DEF Used
  <2>7. ASSUME NEW r \in Tokens, GoesOn(r)' PROVE GoesOn(r)
    <3>1. CASE \E s \in Tokens : token'[s].root = r /\ Live(s)'
      BY <2>3, <2>5, <3>1 DEF GoesOn, Live
    <3>2. CASE \E v \in Logins : Refreshing(v, r)'
      BY <2>3, <2>4, <3>2 DEF GoesOn, Refreshing
    <3> QED BY <2>7, <3>1, <3>2 DEF GoesOn
  <2> QED BY <2>6, <2>7 DEF Shrinks
<1> QED BY <1>3, <1>4

LEMMA OpeningOpens ==
    ASSUME Inv, NEW w \in Logins, OpenSession(w)
    PROVE  SessionLifeSpec!LifeNext
<1>1. PICK t \in Tokens :
        /\ Unused(t)
        /\ token' = [token EXCEPT ![t] = [state |-> "live", user |-> call[w].user, root |-> t,
                                          from |-> None, code |-> call[w].code]]
  BY DEF OpenSession
<1>2. ChainTypeOK
  BY DEF Inv
<1>3. ~Used(t) /\ token[t].root # t
  BY <1>1, SessionsAssumption DEF Unused, Used, Inv, Rooted, NoToken
<1>4. /\ Live(t)' /\ token'[t].root = t
      /\ \A s \in Tokens : s # t => token'[s] = token[s]
  BY <1>1, <1>2 DEF ChainTypeOK, Live
<1>5. \A v \in Logins :
        /\ v # w => UNCHANGED <<login[v], call[v]>>
        /\ login[w] # "issue" /\ login'[w] # "issue"
        /\ login[v] = "issue" => call[v].token \in Tokens /\ call[v].token # t
  BY <1>2, <1>3 DEF OpenSession, Reply, Go, ChainTypeOK, Inv, Rooted, InHand, Used
<1>6. Life(t) = "new" /\ Life(t)' = "open"
  BY <1>3, <1>4 DEF Life, GoesOn
<1>7. ASSUME NEW r \in Tokens, r # t PROVE Life(r)' = Life(r)
  <2>1. ~Live(t)
    BY <1>3 DEF Live, Used
  <2>2. (\E s \in Tokens : token[s].root = r /\ Live(s))' <=> \E s \in Tokens : token[s].root = r /\ Live(s)
    BY <1>4, <1>7, <2>1 DEF Live
  <2>3. (\E v \in Logins : Refreshing(v, r))' <=> \E v \in Logins : Refreshing(v, r)
    BY <1>4, <1>5 DEF Refreshing
  <2> QED BY <1>4, <1>7, <2>2, <2>3 DEF Life, GoesOn
<1>8. SessionLifeSpec!Open(t)
  BY <1>6, <1>7 DEF SessionLifeSpec!Open
<1> QED BY <1>8 DEF SessionLifeSpec!LifeNext


LEMMA LifeStep == Inv /\ [Next]_officeVars => SessionLifeSpec!LifeNext
<1> SUFFICES ASSUME Inv, [Next]_officeVars PROVE SessionLifeSpec!LifeNext
  OBVIOUS
<1>1. CASE Quiet \/ Demotes
  <2>1. Shrinks
    BY <1>1, QuietShrinks, DemotingShrinks
  <2> QED BY <2>1, ShrinkingEnds
<1>2. ASSUME NEW w \in Logins, OpenSession(w) \/ Revoke(w) \/ Issue(w)
      PROVE  SessionLifeSpec!LifeNext
  BY <1>2, OpeningOpens, ShrinkingSteps, ShrinkingEnds
<1> QED BY <1>1, <1>2, StepKinds

\* A session is opened once, is one session however often its token is
\* exchanged, and once it has ended no refresh that was under way, no dead
\* request and no restart brings it back (auth.service.ts).
THEOREM SessionsImplementSessionLife == Spec => ImplementsSessionLife
<1>1. Init => SessionLifeSpec!LifeInit
  <2> SUFFICES ASSUME Init PROVE SessionLifeSpec!LifeInit
    OBVIOUS
  <2>1. \A r \in Tokens : token[r].root = r => Live(r)
    BY SessionsAssumption DEF Init, SessionsInit, NoToken, Live
  <2>2. \A r \in Tokens : Life(r) \in {"new", "open"}
    BY <2>1 DEF Life, GoesOn
  <2> QED BY <2>2 DEF SessionLifeSpec!LifeInit
<1>2. SessionLifeSpec!LifeNext => [SessionLifeSpec!LifeNext]_[r \in Tokens |-> Life(r)]
  OBVIOUS
<1> QED BY <1>1, InitInv, InvStep, LifeStep, PTL DEF Spec, ImplementsSessionLife, SessionLifeSpec!LifeSpec


-----------------------------------------------------------------------------
(* Why a session ends.                                                      *)

BudgetOK == budget \in Budget

LEMMA BudgetInit == Init => BudgetOK
  BY AccountsAssumption DEF Init, AccountsInit, BudgetOK

LEMMA SpendKeeps ==
    ASSUME budget \in Budget, NEW kind \in {"accounts", "sessions", "mail", "deaths"}, Spend(kind)
    PROVE  budget' \in Budget
  BY DEF Spend, Budget

LEMMA BudgetStep == BudgetOK /\ [Next]_officeVars => BudgetOK'
<1> SUFFICES ASSUME budget \in Budget, Next PROVE budget' \in Budget
  BY DEF officeVars, BudgetOK
<1>1. CASE AccountsNext
  <2>1. ASSUME NEW c \in Clerks, AskAccounts(c) \/ LeaveOff(c) PROVE budget' \in Budget
    BY <2>1, SpendKeeps DEF AskAccounts, Begin, LeaveOff
  <2>2. ASSUME NEW c \in Clerks, ProceedAccounts(c) PROVE UNCHANGED budget
    BY <2>2 DEF ProceedAccounts, CreateSchool, CreateStaff, CreateParent, DeleteLink, FindConflict,
                WritePhone, WriteRole, WriteActive, SwitchUser, SwitchStaff
  <2> QED BY <1>1, <2>1, <2>2 DEF AccountsNext
<1>2. ASSUME NEW c \in Clerks, NEW w \in Logins, Register(c, w) PROVE UNCHANGED budget
  BY <1>2 DEF Register, CreateSchool
<1>3. CASE SessionsNext
  <2>1. ASSUME NEW w \in Logins, AskSessions(w) \/ BreakOff(w) PROVE budget' \in Budget
    BY <2>1, SpendKeeps DEF AskSessions, Start, BreakOff
  <2>2. ASSUME NEW w \in Logins, ProceedSessions(w) PROVE UNCHANGED budget
    BY <2>2 DEF ProceedSessions, FindContact, StoreCode, Send, Cool, Uncode, Uncool, ReadCode,
                DropCode, Rewrite, Consume, FindAccount, OpenSession, Revoke, Issue, EndSession
  <2>3. ASSUME NEW d \in Devices, LogoutAll(d) PROVE budget' \in Budget
    BY <2>3, SpendKeeps DEF LogoutAll
  <2>4. ASSUME NEW k \in Keys, Lapse(k) \/ Thaw(k) PROVE UNCHANGED budget
    BY <2>4 DEF Lapse, Thaw
  <2>5. ASSUME NEW t \in Tokens, Expire(t) PROVE UNCHANGED budget
    BY <2>5 DEF Expire
  <2> QED BY <1>3, <2>1, <2>2, <2>3, <2>4, <2>5 DEF SessionsNext
<1>4. CASE MailNext
  <2>1. ASSUME NEW w \in Posters, AskMessages(w) \/ AskAnnouncements(w) \/ DropOut(w)
        PROVE  budget' \in Budget
    BY <2>1, SpendKeeps DEF AskMessages, AskAnnouncements, Take, DropOut
  <2>2. ASSUME NEW w \in Posters, ProceedMail(w) PROVE UNCHANGED budget
    BY <2>2 DEF ProceedMail, WriteMessage, TellRecipient, MarkMessages, ResolveTargets, FanOut,
                DeleteAnnouncement
  <2>3. CASE AskNotifications
    BY <2>3, SpendKeeps DEF AskNotifications
  <2> QED BY <1>4, <2>1, <2>2, <2>3 DEF MailNext
<1>5. CASE Restart
  BY <1>5, SpendKeeps DEF Restart
<1>6. ASSUME NEW c \in Clerks, AskStudents(c) PROVE budget' \in Budget
  BY <1>6, SpendKeeps DEF AskStudents, Begin
<1> QED BY <1>1, <1>2, <1>3, <1>4, <1>5, <1>6 DEF Next


Keeps == \A r \in Tokens : GoesOn(r) => GoesOn(r)'

\* What takes no token and no refresh away.
LEMMA HarmlessKeeps ==
    ASSUME UNCHANGED token,
           \A w \in Logins : login[w] = "issue" => login'[w] = "issue" /\ call'[w].token = call[w].token
    PROVE  Keeps
  BY DEF Keeps, GoesOn, Live, Refreshing

LEMMA DeathEnds ==
    ASSUME budget \in Budget, Inv, ~Keeps,
           Restart \/ \E w \in Logins : BreakOff(w)
    PROVE  \E w \in Logins : Dies(w)
<1>1. ChainTypeOK
  BY DEF Inv
<1>2. UNCHANGED token /\ budget'.deaths < budget.deaths
  BY DEF Restart, BreakOff, chain, Spend, Budget
<1>3. PICK w \in Logins : login[w] = "issue" /\ ~(login'[w] = "issue" /\ call'[w].token = call[w].token)
  BY <1>2, HarmlessKeeps
<1>4. login'[w] = "idle"
  BY <1>1, <1>3 DEF Restart, BreakOff, Reply, Go, ChainTypeOK
<1> QED BY <1>2, <1>3, <1>4 DEF Dies

LEMMA ProceedKeeps ==
    ASSUME Inv, NEW w \in Logins, AskSessions(w) \/ ProceedSessions(w), ~EndSession(w)
    PROVE  Keeps
<1>1. ChainTypeOK
  BY DEF Inv
<1> USE <1>1 DEF Go, Reply, ChainTypeOK
<1>2. CASE AskSessions(w)
  <2>1. ASSUME NEW d \in Devices, NEW k \in Keys, NEW n \in 0..codes,
               RequestOtp(w, k) \/ VerifyOtp(w, d, k, n) \/ Refresh(w, d) \/ Logout(w, d)
        PROVE  UNCHANGED token /\ \A v \in Logins : v # w => UNCHANGED <<login[v], call[v]>>
    BY <2>1 DEF RequestOtp, LookUp, VerifyOtp, Refresh, Logout, chain
  <2>2. ASSUME NEW k \in Keys, RequestOtp(w, k)
        PROVE  UNCHANGED token /\ \A v \in Logins : v # w => UNCHANGED <<login[v], call[v]>>
    BY <2>2 DEF RequestOtp, LookUp, chain
  <2>3. ASSUME NEW d \in Devices, Refresh(w, d) \/ Logout(w, d)
        PROVE  UNCHANGED token /\ \A v \in Logins : v # w => UNCHANGED <<login[v], call[v]>>
    BY <2>3 DEF Refresh, Logout, chain
  <2>4. UNCHANGED token /\ \A v \in Logins : v # w => UNCHANGED <<login[v], call[v]>>
    BY <1>2, <2>1, <2>2, <2>3 DEF AskSessions
  <2> QED BY <1>2, <2>4, HarmlessKeeps DEF AskSessions, Start
<1>3. CASE \/ FindContact(w) \/ StoreCode(w) \/ Send(w) \/ Cool(w) \/ Uncode(w) \/ Uncool(w)
           \/ ReadCode(w) \/ DropCode(w) \/ Rewrite(w) \/ Consume(w) \/ FindAccount(w)
  <2>1. login[w] # "issue" /\ UNCHANGED token
    BY <1>3 DEF FindContact, StoreCode, Send, Cool, Uncode, Uncool, ReadCode, DropCode, Rewrite,
                Consume, FindAccount, chain
  <2>2. \A v \in Logins : v # w => UNCHANGED <<login[v], call[v]>>
    <3>1. CASE FindContact(w) \/ StoreCode(w) \/ Send(w) \/ Cool(w) \/ Uncode(w) \/ Uncool(w)
      BY <3>1 DEF FindContact, StoreCode, Send, Cool, Uncode, Uncool
    <3>2. CASE ReadCode(w)
      BY <3>2 DEF ReadCode
    <3>3. CASE DropCode(w) \/ Rewrite(w) \/ Consume(w) \/ FindAccount(w)
      BY <3>3 DEF DropCode, Rewrite, Consume, FindAccount
    <3> QED BY <1>3, <3>1, <3>2, <3>3
  <2> QED BY <2>1, <2>2, HarmlessKeeps
<1>4. CASE OpenSession(w)
  <2>1. PICK t \in Tokens :
          /\ ~Used(t)
          /\ \A s \in Tokens : s # t => token'[s] = token[s]
    BY <1>4 DEF OpenSession, Unused, Used
  <2>2. \A v \in Logins : login[v] = "issue" =>
          call[v].token \in Tokens /\ call[v].token # t /\ UNCHANGED <<login[v], call[v]>>
    BY <1>4, <2>1 DEF OpenSession, Inv, Rooted, InHand, Used
  <2> QED BY <2>1, <2>2 DEF Keeps, GoesOn, Live, Refreshing, Used
<1>5. CASE Revoke(w)
  <2>1. CASE ~Live(call[w].token)
    BY <1>5, <2>1, HarmlessKeeps DEF Revoke
  <2>2. CASE Live(call[w].token)
    <3>1. /\ \A s \in Tokens : token'[s].root = token[s].root /\ (s # call[w].token => token'[s] = token[s])
          /\ login'[w] = "issue" /\ UNCHANGED call
          /\ \A v \in Logins : v # w => login'[v] = login[v]
      BY <1>5, <2>2 DEF Revoke, TokenRow
    <3>2. \A v \in Logins : login[v] = "issue" => v # w /\ call[v].token \in Tokens
      BY <1>5 DEF Revoke, Inv, Rooted, InHand, Used
    <3>3. ASSUME NEW r \in Tokens, GoesOn(r) PROVE GoesOn(r)'
      <4>1. CASE \E s \in Tokens : token[s].root = r /\ Live(s) /\ s # call[w].token
        BY <3>1, <4>1 DEF GoesOn, Live
      <4>2. CASE call[w].token \in Tokens /\ token[call[w].token].root = r
        BY <3>1, <4>2 DEF GoesOn, Refreshing
      <4>3. CASE \E v \in Logins : Refreshing(v, r)
        BY <3>1, <3>2, <4>3 DEF GoesOn, Refreshing
      <4> QED BY <3>3, <4>1, <4>2, <4>3 DEF GoesOn
    <3> QED BY <3>3 DEF Keeps
  <2> QED BY <2>1, <2>2
<1>6. CASE Issue(w)
  <2>1. PICK t \in Tokens :
          /\ Unused(t)
          /\ token' = [token EXCEPT ![t] = [token[call[w].token] EXCEPT !.state = "live",
                                                                        !.from = call[w].token]]
    BY <1>6 DEF Issue
  <2>2. call[w].token \in Tokens /\ ~Used(t)
    BY <1>6, <2>1 DEF Issue, Inv, Rooted, InHand, Used, Unused
  <2>3. /\ Live(t)' /\ token'[t].root = token[call[w].token].root
        /\ \A s \in Tokens : s # t => token'[s] = token[s]
    BY <2>1, <2>2 DEF Live, TokenRow
  <2>4. \A v \in Logins : login[v] = "issue" /\ v # w =>
          call[v].token \in Tokens /\ call[v].token # t /\ UNCHANGED <<login[v], call[v]>>
    BY <1>6, <2>2 DEF Issue, Inv, Rooted, InHand, Used
  <2>5. ASSUME NEW r \in Tokens, GoesOn(r) PROVE GoesOn(r)'
    <3>1. CASE \E s \in Tokens : token[s].root = r /\ Live(s)
      BY <2>2, <2>3, <3>1 DEF GoesOn, Live, Used
    <3>2. CASE \E v \in Logins : v # w /\ Refreshing(v, r)
      BY <2>3, <2>4, <3>2 DEF GoesOn, Refreshing
    <3>3. CASE Refreshing(w, r)
      BY <2>3, <3>3 DEF GoesOn, Refreshing
    <3> QED BY <2>5, <3>1, <3>2, <3>3 DEF GoesOn
  <2> QED BY <2>5 DEF Keeps
<1> QED BY <1>2, <1>3, <1>4, <1>5, <1>6 DEF ProceedSessions


\* A session ends by a logout, by the expiry of its token or by a refresh that
\* dies with the token it took; switching the account off, closing the school
\* and restarting the process otherwise leave it alone (auth.service.ts, logout,
\* logoutAll, refreshTokens).
THEOREM SessionsEndForAReason == Spec => SessionEndsForAReason
<1>1. Inv /\ BudgetOK /\ [Next]_officeVars =>
        [ (\E r \in Tokens : GoesOn(r) /\ ~GoesOn(r)') =>
            \/ \E d \in Devices : LogoutAll(d)
            \/ \E t \in Tokens : Expire(t)
            \/ \E w \in Logins : EndSession(w) \/ Dies(w) ]_<<accountVars, sessionVars, budget>>
  <2> SUFFICES ASSUME Inv, budget \in Budget, [Next]_officeVars, ~Keeps
               PROVE  \/ \E d \in Devices : LogoutAll(d)
                      \/ \E t \in Tokens : Expire(t)
                      \/ \E w \in Logins : EndSession(w) \/ Dies(w)
    BY DEF Keeps, BudgetOK
  <2>1. CASE UNCHANGED sessionVars
    BY <2>1, HarmlessKeeps DEF sessionVars
  <2>2. ASSUME NEW c \in Clerks, NEW w \in Logins, Register(c, w) PROVE FALSE
    BY <2>2, HarmlessKeeps DEF Register, LookUp, Go, chain, Inv, ChainTypeOK
  <2>3. CASE SessionsNext
    <3>1. ASSUME NEW k \in Keys, Lapse(k) \/ Thaw(k) PROVE FALSE
      BY <3>1, HarmlessKeeps DEF Lapse, Thaw, chain
    <3>2. ASSUME NEW w \in Logins, AskSessions(w) \/ ProceedSessions(w) PROVE EndSession(w)
      BY <3>2, ProceedKeeps
    <3> QED BY <2>3, <3>1, <3>2, DeathEnds DEF SessionsNext
  <2>4. CASE Restart
    BY <2>4, DeathEnds
  <2> QED BY <2>1, <2>2, <2>3, <2>4 DEF Next, officeVars
<1> QED BY <1>1, InitInv, InvStep, BudgetInit, BudgetStep, PTL DEF Spec, SessionEndsForAReason

-----------------------------------------------------------------------------
(* One code, one session.  A code is made once and waits under one key; of  *)
(* the requests that read it one consumes it, unless two had it in hand at  *)
(* once; and after that no copy of it is left to read or to put back.       *)

\* The code was read and waits to be judged.
InUse(w) == login[w] \in {"drop", "rewrite", "consume"}

\* The code was consumed and the session is not open yet.
Opening(w) == login[w] \in {"account", "open"}

\* The token of a sign-in.
First(t) == t \in Tokens /\ token[t].root = t

CodesMade ==
    /\ \A k \in Keys : challenge[k] # NoChallenge => challenge[k].code # 0
    /\ \A k \in Keys : challenge[k].code \in 0..codes
    /\ \A w \in Logins : InUse(w) => call[w].seen.code \in 1..codes
    /\ \A w \in Logins : login[w] = "consume" => call[w].code = call[w].seen.code
    /\ \A w \in Logins : Opening(w) => call[w].code \in 1..codes
    /\ \A t \in Tokens : token[t].code \in 0..codes

OneKey ==
    /\ \A j, k \in Keys : challenge[j].code # 0 /\ challenge[j].code = challenge[k].code => j = k
    /\ \A w \in Logins, k \in Keys :
          InUse(w) /\ call[w].seen.code = challenge[k].code => call[w].key = k
    /\ \A v, w \in Logins :
          InUse(v) /\ InUse(w) /\ call[v].seen.code = call[w].seen.code => call[v].key = call[w].key

OneReader ==
    \A v, w \in Logins :
        InUse(v) /\ InUse(w) /\ call[v].seen.code = call[w].seen.code
        /\ call[v].seen.code \notin contested => v = w

\* Code n waits nowhere and no request has read it.
Gone(n) ==
    /\ \A k \in Keys : challenge[k].code # n
    /\ \A w \in Logins : InUse(w) => call[w].seen.code # n

OneOpener ==
    \A w \in Logins : Opening(w) /\ call[w].code \notin contested =>
        /\ Gone(call[w].code)
        /\ \A v \in Logins : Opening(v) /\ call[v].code = call[w].code => v = w
        /\ \A t \in Tokens : First(t) => token[t].code # call[w].code

OneSession ==
    \A t \in Tokens : First(t) /\ token[t].code # 0 /\ token[t].code \notin contested =>
        /\ Gone(token[t].code)
        /\ \A s \in Tokens : First(s) /\ token[s].code = token[t].code => s = t

CodeInv == CodesMade /\ OneKey /\ OneReader /\ OneOpener /\ OneSession

LEMMA CodeInit == Init => CodeInv
<1> SUFFICES ASSUME Init PROVE CodeInv
  OBVIOUS
<1>1. \A t \in Tokens : token[t].code = 0
  BY DEF Init, SessionsInit, NoToken
<1>2. /\ \A k \in Keys : challenge[k] = NoChallenge
      /\ \A w \in Logins : login[w] = "idle"
      /\ codes = 0
  BY DEF Init, SessionsInit
<1> QED
  BY <1>1, <1>2 DEF CodeInv, CodesMade, OneKey, OneReader, OneOpener, OneSession, Gone, InUse,
                    Opening, NoChallenge

\* A step that makes no code, reads none, consumes none and opens no session.
Codeless ==
    /\ codes' = codes /\ contested' = contested
    /\ \A k \in Keys : challenge'[k] \in {challenge[k], NoChallenge}
    /\ \A w \in Logins : InUse(w)' =>
          UNCHANGED <<login[w], call[w].seen, call[w].key, call[w].code>>
    /\ \A w \in Logins : Opening(w)' => Opening(w) /\ UNCHANGED call[w].code
    /\ \A t \in Tokens : First(t)' => First(t) /\ token'[t].code = token[t].code
    /\ \A t \in Tokens : token'[t].code \in 0..codes

LEMMA CodelessKeeps ==
    ASSUME CodeInv, codes \in Nat, Codeless PROVE CodeInv'
<1>1. NoChallenge.code = 0
  BY DEF NoChallenge
<1>2. \A w \in Logins : InUse(w)' =>
         InUse(w) /\ call'[w].seen.code = call[w].seen.code /\ call'[w].key = call[w].key
  BY DEF Codeless, InUse
<1>3. CodesMade'
  <2>1. \A k \in Keys : /\ challenge'[k] # NoChallenge => challenge'[k].code # 0
                        /\ challenge'[k].code \in 0..codes
    BY <1>1 DEF CodeInv, CodesMade, Codeless
  <2>2. \A w \in Logins : login'[w] = "consume" =>
           login[w] = "consume" /\ call'[w].code = call[w].code
    BY DEF Codeless, InUse
  <2>3. \A w \in Logins : /\ InUse(w)' => call'[w].seen.code \in 1..codes
                          /\ login'[w] = "consume" => call'[w].code = call'[w].seen.code
    BY <1>2, <2>2 DEF CodeInv, CodesMade, InUse
  <2>4. \A w \in Logins : Opening(w)' => call'[w].code \in 1..codes
    BY DEF CodeInv, CodesMade, Codeless
  <2> QED
    BY <2>1, <2>3, <2>4 DEF CodesMade, Codeless
<1>4. OneKey'
  BY <1>1, <1>2 DEF CodeInv, CodesMade, OneKey, Codeless
<1>5. OneReader'
  BY <1>2 DEF CodeInv, OneReader, Codeless
<1>6. ASSUME NEW n \in 1..codes, Gone(n) PROVE Gone(n)'
  BY <1>1, <1>2, <1>6 DEF Gone, Codeless
<1>7. OneOpener'
  BY <1>6 DEF CodeInv, CodesMade, OneOpener, Codeless
<1>8. OneSession'
  <2>1. ASSUME NEW t \in Tokens, First(t)', token'[t].code # 0, token'[t].code \notin contested'
        PROVE  /\ Gone(token[t].code)'
               /\ \A s \in Tokens : First(s)' /\ token'[s].code = token'[t].code => s = t
    <3>1. First(t) /\ token'[t].code = token[t].code /\ token[t].code \notin contested
      BY <2>1 DEF Codeless
    <3>2. token[t].code \in 1..codes
      BY <2>1, <3>1 DEF CodeInv, CodesMade, Codeless
    <3>3. Gone(token[t].code)
      BY <2>1, <3>1 DEF CodeInv, OneSession
    <3>4. Gone(token[t].code)'
      BY <1>6, <3>1, <3>2, <3>3
    <3>5. \A s \in Tokens : First(s)' => First(s) /\ token'[s].code = token[s].code
      BY DEF Codeless
    <3> QED
      BY <2>1, <3>1, <3>4, <3>5 DEF CodeInv, OneSession
  <2> QED
    BY <2>1 DEF OneSession
<1> QED
  BY <1>3, <1>4, <1>5, <1>7, <1>8 DEF CodeInv

\* Steps of a request that leave every row's code and sign-in alone.
RowsKeepCodes ==
    \A t \in Tokens : token'[t].root = token[t].root /\ token'[t].code = token[t].code

LEMMA CodelessRows ==
    ASSUME CodeInv, RowsKeepCodes, codes' = codes
    PROVE  /\ \A t \in Tokens : First(t)' => First(t) /\ token'[t].code = token[t].code
           /\ \A t \in Tokens : token'[t].code \in 0..codes
  BY DEF CodeInv, CodesMade, RowsKeepCodes, First

LEMMA CodelessSteps ==
    ASSUME Inv, CodeInv, NEW w \in Logins,
           \/ AskSessions(w) \/ BreakOff(w)
           \/ FindContact(w) \/ Send(w) \/ Cool(w) \/ Uncode(w) \/ Uncool(w) \/ DropCode(w)
           \/ FindAccount(w) \/ Revoke(w) \/ Issue(w) \/ EndSession(w)
    PROVE  Codeless
<1>1. ChainTypeOK
  BY DEF Inv
<1> USE <1>1 DEF InUse, Opening, ChainTypeOK, Go, Reply
<1>2. CASE AskSessions(w) \/ BreakOff(w)
  <2>1. codes' = codes /\ contested' = contested /\ challenge' = challenge /\ token' = token
    BY <1>2 DEF AskSessions, RequestOtp, LookUp, VerifyOtp, Refresh, Logout, BreakOff, otp, chain
  <2>2. /\ \A v \in Logins \ {w} : UNCHANGED <<login[v], call[v]>>
        /\ login'[w] \in {"idle", "contact", "read", "revoke", "end"}
    <3>1. ASSUME NEW k \in Keys, RequestOtp(w, k)
          PROVE  /\ \A v \in Logins \ {w} : UNCHANGED <<login[v], call[v]>>
                 /\ login'[w] = "contact"
      BY <3>1 DEF RequestOtp, LookUp
    <3>2. ASSUME NEW d \in Devices, NEW k \in Keys, NEW n \in 0..codes, VerifyOtp(w, d, k, n)
          PROVE  /\ \A v \in Logins \ {w} : UNCHANGED <<login[v], call[v]>>
                 /\ login'[w] = "read"
      BY <3>2 DEF VerifyOtp
    <3>3. ASSUME NEW d \in Devices, Refresh(w, d) \/ Logout(w, d)
          PROVE  /\ \A v \in Logins \ {w} : UNCHANGED <<login[v], call[v]>>
                 /\ login'[w] \in {"revoke", "end"}
      BY <3>3 DEF Refresh, Logout
    <3> QED
      BY <1>2, <3>1, <3>2, <3>3 DEF AskSessions, BreakOff
  <2> QED
    BY <2>1, <2>2, CodelessRows DEF Codeless, RowsKeepCodes
<1>3. CASE FindContact(w)
  <2>1. /\ codes' = codes /\ contested' = contested /\ challenge' = challenge /\ token' = token
        /\ \A v \in Logins \ {w} : UNCHANGED <<login[v], call[v]>>
        /\ login'[w] \in {"store", "cool"}
    BY <1>3 DEF FindContact, otp, chain
  <2> QED
    BY <2>1, CodelessRows DEF Codeless, RowsKeepCodes
<1>4. CASE Send(w) \/ Cool(w) \/ Uncode(w) \/ Uncool(w) \/ DropCode(w)
  <2>1. /\ codes' = codes /\ contested' = contested /\ token' = token
        /\ \A k \in Keys : challenge'[k] \in {challenge[k], NoChallenge}
        /\ \A v \in Logins \ {w} : UNCHANGED <<login[v], call[v]>>
        /\ login'[w] \in {"cool", "uncode", "idle", "uncool"}
    BY <1>4 DEF Send, Cool, Uncode, Uncool, DropCode, chain
  <2> QED
    BY <2>1, CodelessRows DEF Codeless, RowsKeepCodes
<1>5. CASE FindAccount(w)
  <2>1. /\ codes' = codes /\ contested' = contested /\ challenge' = challenge /\ token' = token
        /\ \A v \in Logins \ {w} : UNCHANGED <<login[v], call[v]>>
        /\ login'[w] \in {"open", "idle"} /\ login[w] = "account"
    BY <1>5 DEF FindAccount, otp, chain
  <2>2. login'[w] = "open" => call'[w].code = call[w].code
    BY <1>5 DEF FindAccount, Call
  <2> QED
    BY <2>1, <2>2, CodelessRows DEF Codeless, RowsKeepCodes
<1>6. CASE Revoke(w) \/ EndSession(w)
  <2>1. call[w].token \in Tokens
    BY <1>6 DEF Revoke, EndSession, Inv, Rooted, InHand, Used
  <2>2. /\ codes' = codes /\ contested' = contested /\ challenge' = challenge
        /\ \A v \in Logins \ {w} : UNCHANGED <<login[v], call[v]>>
        /\ login'[w] \in {"issue", "idle"}
    BY <1>6 DEF Revoke, EndSession, otp
  <2>3. RowsKeepCodes
    BY <1>6, <2>1 DEF Revoke, EndSession, RowsKeepCodes, TokenRow
  <2> QED
    BY <2>2, <2>3, CodelessRows DEF Codeless
<1>7. CASE Issue(w)
  <2> DEFINE o == call[w].token
  <2>1. PICK t \in Tokens :
          /\ Unused(t)
          /\ token' = [token EXCEPT ![t] = [token[o] EXCEPT !.state = "live", !.from = o]]
    BY <1>7 DEF Issue
  <2>2. o \in Tokens /\ Used(token[o].root) /\ ~Used(t)
    BY <1>7, <2>1 DEF Issue, Inv, Rooted, InHand, Used, Unused
  <2>3. /\ token'[t].root = token[o].root /\ token'[t].code = token[o].code
        /\ \A s \in Tokens : s # t => token'[s] = token[s]
    BY <2>1, <2>2 DEF TokenRow
  <2>4. \A s \in Tokens : First(s)' => First(s) /\ token'[s].code = token[s].code
    BY <2>2, <2>3 DEF First, Used
  <2>5. \A s \in Tokens : token'[s].code \in 0..codes
    BY <2>2, <2>3 DEF CodeInv, CodesMade
  <2>6. /\ codes' = codes /\ contested' = contested /\ challenge' = challenge
        /\ \A v \in Logins \ {w} : UNCHANGED <<login[v], call[v]>>
        /\ login'[w] = "idle"
    BY <1>7 DEF Issue, otp
  <2> QED
    BY <2>4, <2>5, <2>6 DEF Codeless
<1> QED
  BY <1>2, <1>3, <1>4, <1>5, <1>6, <1>7

\* What no request does.
LEMMA CodelessEvents ==
    ASSUME Inv, CodeInv,
           \/ UNCHANGED sessionVars
           \/ \E c \in Clerks, w \in Logins : Register(c, w)
           \/ \E d \in Devices : LogoutAll(d)
           \/ \E k \in Keys : Lapse(k) \/ Thaw(k)
           \/ \E t \in Tokens : Expire(t)
           \/ Restart
    PROVE  Codeless
<1>1. ChainTypeOK
  BY DEF Inv
<1> USE <1>1 DEF InUse, Opening, ChainTypeOK
<1>2. CASE UNCHANGED sessionVars
  BY <1>2, CodelessRows DEF sessionVars, Codeless, RowsKeepCodes
<1>3. ASSUME NEW c \in Clerks, NEW w \in Logins, Register(c, w) PROVE Codeless
  <2>1. /\ codes' = codes /\ contested' = contested /\ challenge' = challenge /\ token' = token
        /\ \A v \in Logins \ {w} : UNCHANGED <<login[v], call[v]>>
        /\ login'[w] = "contact"
    BY <1>3 DEF Register, LookUp, Go, otp, chain
  <2> QED
    BY <2>1, CodelessRows DEF Codeless, RowsKeepCodes
<1>4. ASSUME NEW d \in Devices, LogoutAll(d) PROVE Codeless
  <2>1. codes' = codes /\ contested' = contested /\ UNCHANGED <<challenge, login, call>>
    BY <1>4 DEF LogoutAll, otp
  <2>2. RowsKeepCodes
    BY <1>4 DEF LogoutAll, RowsKeepCodes, TokenRow
  <2> QED
    BY <2>1, <2>2, CodelessRows DEF Codeless
<1>5. ASSUME NEW k \in Keys, Lapse(k) \/ Thaw(k) PROVE Codeless
  <2>1. /\ codes' = codes /\ contested' = contested /\ UNCHANGED <<token, login, call>>
        /\ \A j \in Keys : challenge'[j] \in {challenge[j], NoChallenge}
    BY <1>5 DEF Lapse, Thaw, chain
  <2> QED
    BY <2>1, CodelessRows DEF Codeless, RowsKeepCodes
<1>6. ASSUME NEW t \in Tokens, Expire(t) PROVE Codeless
  <2>1. codes' = codes /\ contested' = contested /\ UNCHANGED <<challenge, login, call>>
    BY <1>6 DEF Expire, otp
  <2>2. RowsKeepCodes
    BY <1>6 DEF Expire, RowsKeepCodes, TokenRow
  <2> QED
    BY <2>1, <2>2, CodelessRows DEF Codeless
<1>7. CASE Restart
  <2>1. /\ codes' = codes /\ contested' = contested /\ UNCHANGED <<token, challenge>>
        /\ \A w \in Logins : login'[w] = "idle"
    BY <1>7 DEF Restart, otp
  <2> QED
    BY <2>1, CodelessRows DEF Codeless, RowsKeepCodes
<1> QED
  BY <1>2, <1>3, <1>4, <1>5, <1>6, <1>7

\* A new code is nowhere else.
LEMMA StoreKeepsCodes ==
    ASSUME Inv, CodeInv, NEW w \in Logins, StoreCode(w) PROVE CodeInv'
<1>1. ChainTypeOK
  BY DEF Inv
<1> DEFINE k == call[w].key
           n == codes + 1
<1>2. k \in Keys /\ codes \in Nat
  BY <1>1 DEF StoreCode, ChainTypeOK
<1>3. /\ challenge'[k].code = n /\ challenge'[k] # NoChallenge
      /\ \A j \in Keys : j # k => challenge'[j] = challenge[j]
      /\ codes' = n /\ contested' = contested /\ token' = token
  BY <1>1, <1>2 DEF StoreCode, ChainTypeOK, NoChallenge, chain
<1>4. /\ ~InUse(w)' /\ ~Opening(w)'
      /\ \A v \in Logins : v # w => UNCHANGED <<login[v], call[v]>>
  BY <1>1 DEF StoreCode, Go, ChainTypeOK, InUse, Opening
<1>5. /\ \A j \in Keys : challenge[j].code # n
      /\ \A v \in Logins : InUse(v) => call[v].seen.code # n
      /\ \A v \in Logins : Opening(v) => call[v].code # n
      /\ \A t \in Tokens : token[t].code # n
  BY <1>2 DEF CodeInv, CodesMade
<1> HIDE DEF k, n
<1>6. \A v \in Logins : /\ InUse(v)' => v # w /\ InUse(v)
                        /\ Opening(v)' => v # w /\ Opening(v)
  BY <1>4 DEF InUse, Opening
<1>7. CodesMade'
  <2>1. n \in Nat /\ n # 0 /\ \A m \in 0..codes : m \in 0..n
    BY <1>2 DEF n
  <2>2. \A m \in 1..codes : m \in 1..n
    BY <1>2 DEF n
  <2>3. \A j \in Keys : /\ challenge'[j] # NoChallenge => challenge'[j].code # 0
                        /\ challenge'[j].code \in 0..n
    BY <1>3, <2>1 DEF CodeInv, CodesMade
  <2>4. \A v \in Logins :
          /\ InUse(v)' => call'[v].seen.code \in 1..n
          /\ login'[v] = "consume" => call'[v].code = call'[v].seen.code
          /\ Opening(v)' => call'[v].code \in 1..n
    BY <1>4, <1>6, <2>2 DEF CodeInv, CodesMade, InUse
  <2> QED
    BY <1>3, <2>1, <2>3, <2>4 DEF CodeInv, CodesMade
<1>8. OneKey'
  BY <1>3, <1>4, <1>5, <1>6 DEF CodeInv, OneKey
<1>9. OneReader'
  BY <1>3, <1>4, <1>6 DEF CodeInv, OneReader
<1>10. ASSUME NEW m, m # n, Gone(m) PROVE Gone(m)'
  BY <1>3, <1>4, <1>6, <1>10 DEF Gone
<1>11. OneOpener'
  BY <1>3, <1>4, <1>5, <1>6, <1>10 DEF CodeInv, OneOpener, First
<1>12. OneSession'
  BY <1>3, <1>5, <1>10 DEF CodeInv, OneSession, First
<1> QED
  BY <1>7, <1>8, <1>9, <1>11, <1>12 DEF CodeInv

\* Who reads a code that another request has in hand contests it.
LEMMA ReadKeepsCodes ==
    ASSUME Inv, CodeInv, NEW w \in Logins, ReadCode(w) PROVE CodeInv'
<1>1. ChainTypeOK
  BY DEF Inv
<1> DEFINE k == call[w].key
           c == challenge[k]
<1>2. k \in Keys /\ login[w] = "read" /\ c \in Challenge
  BY <1>1 DEF ReadCode, ChainTypeOK
<1>3. /\ UNCHANGED <<challenge, codes, token>>
      /\ \A v \in Logins : v # w => UNCHANGED <<login[v], call[v]>>
      /\ contested' \in {contested, contested \union {c.code}}
  BY <1>1 DEF ReadCode, Go, Reply, chain, ChainTypeOK
<1>4. CASE c = NoChallenge
  <2>1. login'[w] = "idle" /\ contested' = contested
    BY <1>1, <1>4 DEF ReadCode, Reply, Go, ChainTypeOK
  <2>2. Codeless
    BY <1>3, <2>1, CodelessRows DEF Codeless, RowsKeepCodes, InUse, Opening
  <2> QED
    BY <1>1, <2>2, CodelessKeeps DEF ChainTypeOK
<1>5. CASE c # NoChallenge
  <2>1. call'[w] = [call[w] EXCEPT !.seen = c] /\ login'[w] \in {"drop", "rewrite", "consume"}
    BY <1>1, <1>5 DEF ReadCode, Go, ChainTypeOK
  <2>2. /\ call'[w].seen = c /\ call'[w].key = k /\ call'[w].code = call[w].code
        /\ InUse(w)' /\ ~Opening(w)'
    BY <1>1, <2>1 DEF ChainTypeOK, Call, InUse, Opening
  <2>3. login'[w] = "consume" => c.code = call[w].code
    BY <1>1, <1>5 DEF ReadCode, Go, ChainTypeOK
  <2>4. contested' = IF Using(k, c.code) # {} THEN contested \union {c.code} ELSE contested
    BY <1>5 DEF ReadCode
  <2>5. c.code \in 1..codes /\ \A j \in Keys : challenge[j].code = c.code => j = k
    BY <1>1, <1>2, <1>5 DEF CodeInv, CodesMade, OneKey, ChainTypeOK
  <2>6. \A v \in Logins : InUse(v) /\ call[v].seen.code = c.code => call[v].key = k
    BY <1>2 DEF CodeInv, OneKey
  <2>7. ASSUME c.code \notin contested', NEW v \in Logins, InUse(v) PROVE call[v].seen.code # c.code
    BY <2>4, <2>6, <2>7 DEF Using, InUse
  <2>8. \A v \in Logins : /\ v # w => (InUse(v)' <=> InUse(v)) /\ (Opening(v)' <=> Opening(v))
    BY <1>3 DEF InUse, Opening
  <2>9. c.code \in {challenge[j].code : j \in Keys}
    BY <1>2
  <2> HIDE DEF c, k
  <2>10. CodesMade'
    <3>1. \A v \in Logins :
            /\ InUse(v)' => call'[v].seen.code \in 1..codes
            /\ login'[v] = "consume" => call'[v].code = call'[v].seen.code
            /\ Opening(v)' => call'[v].code \in 1..codes
      <4> TAKE v \in Logins
      <4>1. CASE v = w
        BY <2>2, <2>3, <2>5, <4>1
      <4>2. CASE v # w
        BY <1>3, <2>8, <4>2 DEF CodeInv, CodesMade
      <4> QED
        BY <4>1, <4>2
    <3> QED
      BY <1>3, <3>1 DEF CodeInv, CodesMade
  <2>11. OneKey'
    <3>1. ASSUME NEW v \in Logins, NEW j \in Keys, InUse(v)', call'[v].seen.code = challenge[j].code
          PROVE  call'[v].key = j
      <4>1. CASE v = w
        BY <2>2, <2>5, <3>1, <4>1
      <4>2. CASE v # w
        BY <1>3, <2>8, <3>1, <4>2 DEF CodeInv, OneKey
      <4> QED
        BY <4>1, <4>2
    <3>2. ASSUME NEW u \in Logins, NEW v \in Logins, InUse(u)', InUse(v)',
                 call'[u].seen.code = call'[v].seen.code
          PROVE  call'[u].key = call'[v].key
      <4>1. CASE u # w /\ v # w
        BY <1>3, <2>8, <3>2, <4>1 DEF CodeInv, OneKey
      <4>2. CASE u = w \/ v = w
        BY <1>3, <2>2, <2>6, <2>8, <3>2, <4>2
      <4> QED
        BY <4>1, <4>2
    <3> QED
      BY <1>3, <3>1, <3>2 DEF CodeInv, OneKey
  <2>12. OneReader'
    <3>1. ASSUME NEW u \in Logins, NEW v \in Logins, InUse(u)', InUse(v)',
                 call'[u].seen.code = call'[v].seen.code, call'[u].seen.code \notin contested'
          PROVE  u = v
      <4>1. CASE u # w /\ v # w
        BY <1>3, <2>8, <3>1, <4>1 DEF CodeInv, OneReader
      <4>2. CASE u = w \/ v = w
        BY <1>3, <2>2, <2>7, <2>8, <3>1, <4>2
      <4> QED
        BY <4>1, <4>2
    <3> QED
      BY <3>1 DEF OneReader
  <2>13. ASSUME NEW m, Gone(m) PROVE Gone(m)'
    BY <1>3, <2>2, <2>8, <2>9, <2>13 DEF Gone
  <2>14. OneOpener'
    <3>1. \A v \in Logins : Opening(v)' => v # w /\ Opening(v) /\ call'[v] = call[v]
      BY <1>3, <2>2, <2>8
    <3>2. \A m : m \notin contested' => m \notin contested
      BY <1>3
    <3> QED
      BY <1>3, <2>13, <3>1, <3>2 DEF CodeInv, OneOpener, First
  <2>15. OneSession'
    BY <1>3, <2>13 DEF CodeInv, OneSession, First
  <2> QED
    BY <2>10, <2>11, <2>12, <2>14, <2>15 DEF CodeInv
<1> QED
  BY <1>4, <1>5

\* A copy that goes back is the one copy in hand, unless the code is contested.
LEMMA RewriteKeepsCodes ==
    ASSUME Inv, CodeInv, NEW w \in Logins, Rewrite(w) PROVE CodeInv'
<1>1. ChainTypeOK
  BY DEF Inv
<1> DEFINE k == call[w].key
           n == call[w].seen.code
<1>2. /\ k \in Keys /\ InUse(w) /\ n \in 1..codes
      /\ call[w].seen \in Challenge
  BY <1>1 DEF Rewrite, ChainTypeOK, InUse, CodeInv, CodesMade, Call
<1>3. /\ UNCHANGED <<codes, contested, token>>
      /\ challenge'[k].code = n /\ \A j \in Keys : j # k => challenge'[j] = challenge[j]
      /\ ~InUse(w)' /\ ~Opening(w)'
      /\ \A v \in Logins : v # w => UNCHANGED <<login[v], call[v]>>
  BY <1>1, <1>2 DEF Rewrite, Reply, Go, ChainTypeOK, InUse, Opening, chain, Challenge
<1>4. challenge'[k] # NoChallenge
  BY <1>2, <1>3 DEF NoChallenge
<1> HIDE DEF k, n
<1>5. \A v \in Logins : /\ InUse(v)' => v # w /\ InUse(v) /\ call'[v] = call[v]
                        /\ Opening(v)' => v # w /\ Opening(v) /\ call'[v] = call[v]
  BY <1>3 DEF InUse, Opening
<1>6. /\ \A j \in Keys : challenge[j].code = n => j = k
      /\ \A v \in Logins : InUse(v) /\ call[v].seen.code = n => call[v].key = k
  BY <1>2 DEF CodeInv, OneKey, n, k
<1>7. CodesMade'
  <2>1. \A j \in Keys : /\ challenge'[j] # NoChallenge => challenge'[j].code # 0
                        /\ challenge'[j].code \in 0..codes
    BY <1>2, <1>3, <1>4 DEF CodeInv, CodesMade
  <2>2. \A v \in Logins :
          /\ InUse(v)' => call'[v].seen.code \in 1..codes
          /\ login'[v] = "consume" => call'[v].code = call'[v].seen.code
          /\ Opening(v)' => call'[v].code \in 1..codes
    BY <1>3, <1>5 DEF CodeInv, CodesMade, InUse
  <2> QED
    BY <1>3, <2>1, <2>2 DEF CodeInv, CodesMade
<1>8. OneKey'
  BY <1>3, <1>5, <1>6 DEF CodeInv, OneKey
<1>9. OneReader'
  BY <1>3, <1>5 DEF CodeInv, OneReader
<1>10. ASSUME NEW m, Gone(m) PROVE Gone(m)' /\ m # n
  BY <1>2, <1>3, <1>5, <1>10 DEF Gone, n
<1>11. OneOpener'
  BY <1>3, <1>5, <1>10 DEF CodeInv, OneOpener, First
<1>12. OneSession'
  BY <1>3, <1>10 DEF CodeInv, OneSession, First
<1> QED
  BY <1>7, <1>8, <1>9, <1>11, <1>12 DEF CodeInv

\* Consuming the one copy in hand leaves none anywhere, unless the code is
\* contested.
LEMMA ConsumeKeepsCodes ==
    ASSUME Inv, CodeInv, NEW w \in Logins, Consume(w) PROVE CodeInv'
<1>1. ChainTypeOK
  BY DEF Inv
<1> DEFINE k == call[w].key
           n == call[w].code
<1>2. /\ k \in Keys /\ InUse(w) /\ n \in 1..codes /\ call[w].seen.code = n
  BY <1>1 DEF Consume, ChainTypeOK, InUse, CodeInv, CodesMade
<1>3. /\ UNCHANGED <<codes, contested, token, call>>
      /\ challenge'[k] = NoChallenge /\ \A j \in Keys : j # k => challenge'[j] = challenge[j]
      /\ ~InUse(w)' /\ Opening(w)' /\ ~Opening(w) /\ login'[w] # "consume"
      /\ \A v \in Logins : v # w => login'[v] = login[v]
  BY <1>1, <1>2 DEF Consume, Go, ChainTypeOK, InUse, Opening, chain
<1>4. NoChallenge.code = 0 /\ codes \in Nat
  BY <1>1 DEF NoChallenge, ChainTypeOK
<1> HIDE DEF k, n
<1>5. \A v \in Logins : /\ InUse(v)' => v # w /\ InUse(v)
                        /\ Opening(v)' => v = w \/ Opening(v)
  BY <1>3 DEF InUse, Opening
<1>6. \A j \in Keys : challenge[j].code = n => j = k
  BY <1>2 DEF CodeInv, OneKey, k
<1>7. CodesMade'
  <2>1. \A j \in Keys : /\ challenge'[j] # NoChallenge => challenge'[j].code # 0
                        /\ challenge'[j].code \in 0..codes
    BY <1>3, <1>4 DEF CodeInv, CodesMade
  <2>2. \A v \in Logins :
          /\ InUse(v)' => call'[v].seen.code \in 1..codes
          /\ login'[v] = "consume" => call'[v].code = call'[v].seen.code
          /\ Opening(v)' => call'[v].code \in 1..codes
    BY <1>2, <1>3, <1>5 DEF CodeInv, CodesMade, n
  <2> QED
    BY <1>3, <2>1, <2>2 DEF CodeInv, CodesMade
<1>8. OneKey'
  BY <1>3, <1>4, <1>5 DEF CodeInv, CodesMade, OneKey
<1>9. OneReader'
  BY <1>3, <1>5 DEF CodeInv, OneReader
<1>10. ASSUME NEW m, m # 0, Gone(m) PROVE Gone(m)' /\ m # n
  BY <1>2, <1>3, <1>4, <1>5, <1>10 DEF Gone
<1>11. n \notin contested => Gone(n)'
  <2>1. \A j \in Keys : challenge'[j].code # n
    BY <1>2, <1>3, <1>4, <1>6
  <2>2. n \notin contested => \A v \in Logins : InUse(v) /\ v # w => call[v].seen.code # n
    BY <1>2 DEF CodeInv, OneReader
  <2>3. \A v \in Logins : InUse(v)' => InUse(v) /\ v # w /\ call'[v].seen.code = call[v].seen.code
    BY <1>3, <1>5
  <2> QED
    BY <2>1, <2>2, <2>3, <1>3 DEF Gone, n
<1>12. /\ \A v \in Logins : Opening(v) /\ call[v].code \notin contested => call[v].code # n
       /\ \A t \in Tokens : First(t) /\ token[t].code \notin contested => token[t].code # n
  BY <1>2 DEF CodeInv, OneOpener, OneSession, Gone
<1>13. OneOpener'
  <2>1. ASSUME NEW v \in Logins, Opening(v)', call'[v].code \notin contested'
        PROVE  /\ Gone(call[v].code)'
               /\ \A u \in Logins : Opening(u)' /\ call'[u].code = call'[v].code => u = v
               /\ \A t \in Tokens : First(t)' => token'[t].code # call'[v].code
    <3>1. CASE v = w
      BY <1>3, <1>5, <1>11, <1>12, <2>1, <3>1 DEF First, n
    <3>2. CASE v # w
      <4>1. Opening(v) /\ call[v].code # 0 /\ call'[v].code = call[v].code
            /\ call[v].code \notin contested
        BY <1>3, <1>5, <2>1, <3>2 DEF CodeInv, CodesMade
      <4>2. Gone(call[v].code)' /\ call[v].code # n
        BY <1>3, <1>10, <4>1 DEF CodeInv, OneOpener
      <4> QED
        BY <1>3, <1>5, <4>1, <4>2 DEF CodeInv, OneOpener, First, n
    <3> QED
      BY <3>1, <3>2
  <2> QED
    BY <2>1 DEF OneOpener
<1>14. OneSession'
  <2>1. ASSUME NEW t \in Tokens, First(t)', token'[t].code # 0, token'[t].code \notin contested'
        PROVE  Gone(token[t].code)'
    BY <1>3, <1>10, <2>1 DEF CodeInv, OneSession, First
  <2> QED
    BY <1>3, <2>1 DEF CodeInv, OneSession, First
<1> QED
  BY <1>7, <1>8, <1>9, <1>13, <1>14 DEF CodeInv

\* The session takes the place of the request that opens it.
LEMMA OpenKeepsCodes ==
    ASSUME Inv, CodeInv, NEW w \in Logins, OpenSession(w) PROVE CodeInv'
<1>1. ChainTypeOK
  BY DEF Inv
<1> DEFINE n == call[w].code
<1>2. PICK t \in Tokens :
        /\ Unused(t)
        /\ token' = [token EXCEPT ![t] = [state |-> "live", user |-> call[w].user, root |-> t,
                                          from |-> None, code |-> n]]
  BY DEF OpenSession
<1>3. /\ UNCHANGED <<challenge, codes, contested>>
      /\ ~InUse(w)' /\ ~Opening(w)' /\ Opening(w)
      /\ \A v \in Logins : v # w => UNCHANGED <<login[v], call[v]>>
  BY <1>1 DEF OpenSession, Reply, Go, ChainTypeOK, InUse, Opening, otp
<1>4. /\ token'[t].code = n /\ \A s \in Tokens : s # t => token'[s] = token[s]
      /\ ~First(t) /\ First(t)' /\ n \in 1..codes
  <2>1. token[t] = NoToken
    BY <1>2 DEF Unused, Inv, Rooted
  <2>2. token'[t].code = n /\ token'[t].root = t /\ \A s \in Tokens : s # t => token'[s] = token[s]
    BY <1>1, <1>2 DEF ChainTypeOK
  <2>3. ~First(t) /\ First(t)'
    BY <2>1, <2>2, SessionsAssumption DEF First, NoToken
  <2> QED
    BY <1>3, <2>2, <2>3 DEF CodeInv, CodesMade
<1> HIDE DEF n
<1>5. \A v \in Logins : /\ InUse(v)' => v # w /\ InUse(v) /\ call'[v] = call[v]
                        /\ Opening(v)' => v # w /\ Opening(v) /\ call'[v] = call[v]
  BY <1>3 DEF InUse, Opening
<1>6. \A s \in Tokens : First(s)' => s = t \/ (First(s) /\ token'[s].code = token[s].code)
  BY <1>4 DEF First
<1>7. CodesMade'
  <2>1. \A v \in Logins :
          /\ InUse(v)' => call'[v].seen.code \in 1..codes
          /\ login'[v] = "consume" => call'[v].code = call'[v].seen.code
          /\ Opening(v)' => call'[v].code \in 1..codes
    BY <1>3, <1>5 DEF CodeInv, CodesMade, InUse
  <2> QED
    BY <1>3, <1>4, <2>1 DEF CodeInv, CodesMade
<1>8. OneKey'
  BY <1>3, <1>5 DEF CodeInv, OneKey
<1>9. OneReader'
  BY <1>3, <1>5 DEF CodeInv, OneReader
<1>10. ASSUME NEW m, Gone(m) PROVE Gone(m)'
  BY <1>3, <1>5, <1>10 DEF Gone
<1>11. n \notin contested =>
         /\ Gone(n)
         /\ \A v \in Logins : Opening(v) /\ call[v].code = n => v = w
         /\ \A s \in Tokens : First(s) => token[s].code # n
  BY <1>3 DEF CodeInv, OneOpener, n
<1>12. OneOpener'
  BY <1>3, <1>4, <1>5, <1>6, <1>10, <1>11 DEF CodeInv, OneOpener
<1>13. OneSession'
  <2>1. ASSUME NEW s \in Tokens, First(s)', token'[s].code # 0, token'[s].code \notin contested'
        PROVE  /\ Gone(token[s].code)'
               /\ \A r \in Tokens : First(r)' /\ token'[r].code = token'[s].code => r = s
    <3>1. CASE s = t
      BY <1>3, <1>4, <1>6, <1>10, <1>11, <2>1, <3>1
    <3>2. CASE s # t
      BY <1>3, <1>4, <1>6, <1>10, <1>11, <2>1, <3>2 DEF CodeInv, OneSession
    <3> QED
      BY <3>1, <3>2
  <2> QED
    BY <2>1 DEF OneSession
<1> QED
  BY <1>7, <1>8, <1>9, <1>12, <1>13 DEF CodeInv

LEMMA CodeStep == Inv /\ CodeInv /\ [Next]_officeVars => CodeInv'
<1> SUFFICES ASSUME Inv, CodeInv, [Next]_officeVars PROVE CodeInv'
  OBVIOUS
<1>1. codes \in Nat
  BY DEF Inv, ChainTypeOK
<1>2. CASE SessionsNext
  <2>1. ASSUME NEW w \in Logins, AskSessions(w) \/ ProceedSessions(w) \/ BreakOff(w)
        PROVE  CodeInv'
    BY <1>1, <2>1, CodelessSteps, CodelessKeeps, StoreKeepsCodes, ReadKeepsCodes, RewriteKeepsCodes,
       ConsumeKeepsCodes, OpenKeepsCodes
       DEF ProceedSessions
  <2> QED
    BY <1>1, <1>2, <2>1, CodelessEvents, CodelessKeeps DEF SessionsNext
<1> QED
  BY <1>1, <1>2, CodelessEvents, CodelessKeeps DEF Next, officeVars

\* "Consume the challenge before issuing tokens" (auth.service.ts, verifyOtp): a
\* code starts one session however many requests, devices, schools and phones
\* there are, and wherever requests die, as long as no two of them had the code in
\* hand at the same time.
THEOREM CodesStartOneSession == Spec => []CodeStartsOneSession
<1>1. Inv /\ CodeInv => CodeStartsOneSession
  BY DEF CodeInv, OneSession, CodeStartsOneSession, First
<1> QED
  BY <1>1, InitInv, InvStep, CodeInit, CodeStep, PTL DEF Spec

-----------------------------------------------------------------------------
(* The holder of a session.  A session is in the hands of one device: it has *)
(* the session's last token, or it asked for the exchange under way, or an   *)
(* answer was lost on the way to it.                                        *)

SameSession(t, u) == t \in Tokens /\ u \in Tokens /\ token[t].root = token[u].root

Owned ==
    /\ \A d, e \in Devices : SameSession(held[d], held[e]) => d = e
    /\ \A w \in Logins, d \in Devices :
          InHand(w) /\ SameSession(call[w].token, held[d]) => call[w].device = d
    /\ \A v, w \in Logins :
          InHand(v) /\ InHand(w) /\ SameSession(call[v].token, call[w].token) =>
             call[v].device = call[w].device

Current ==
    \A d \in Devices, t \in Tokens :
        d \notin missed /\ Live(t) /\ SameSession(t, held[d]) => t = held[d]

HolderInv == Owned /\ Current

LEMMA HolderInit == Init => HolderInv
<1> SUFFICES ASSUME Init PROVE HolderInv
  OBVIOUS
<1>1. \A t \in Tokens, d \in Devices : held[d] = t => token[t].root = t
  BY DEF Init, SessionsInit
<1>2. \A t \in Tokens : token[t].root \in Tokens => token[t].root = t /\ \E d \in Devices : held[d] = t
  BY SessionsAssumption DEF Init, SessionsInit, NoToken
<1>3. \A d, e \in Devices : held[d] # None /\ held[d] = held[e] => d = e
  BY SessionsAssumption DEF Init, SessionsInit
<1>4. \A w \in Logins : ~InHand(w)
  BY DEF Init, SessionsInit, InHand
<1>5. \A d, e \in Devices : SameSession(held[d], held[e]) => d = e
  BY <1>1, <1>3, SessionsAssumption DEF SameSession
<1>6. \A t \in Tokens, d \in Devices : SameSession(t, held[d]) => t = held[d]
  BY <1>1, <1>2 DEF SameSession
<1> QED
  BY <1>4, <1>5, <1>6 DEF HolderInv, Owned, Current

\* A step that gives out no token: sessions keep their rows, a token is taken
\* up by the device that has it, and devices only forget tokens.
NoNews ==
    /\ \A t \in Tokens : token'[t].root = token[t].root /\ (Live(t)' => Live(t))
    /\ \A d \in Devices : held'[d] \in {held[d], None}
    /\ missed \subseteq missed'
    /\ \A w \in Logins : InHand(w)' =>
          \/ InHand(w) /\ UNCHANGED <<call[w].token, call[w].device>>
          \/ \E d \in Devices : held[d] = call'[w].token /\ call'[w].device = d

LEMMA NoNewsKeeps ==
    ASSUME HolderInv, NoNews PROVE HolderInv'
<1>1. None \notin Tokens
  BY SessionsAssumption
<1>2. \A d \in Devices : held'[d] \in Tokens => held'[d] = held[d]
  BY <1>1 DEF NoNews
<1>3. \A t, u : SameSession(t, u)' => SameSession(t, u)
  BY DEF NoNews, SameSession
<1>4. \A w \in Logins : \A t : InHand(w)' /\ SameSession(call'[w].token, t) =>
         \/ InHand(w) /\ SameSession(call[w].token, t) /\ call'[w].device = call[w].device
         \/ \E d \in Devices : SameSession(held[d], t) /\ call'[w].device = d
  BY DEF NoNews
<1>5. \A t, u : SameSession(t, u) => SameSession(u, t) /\ t \in Tokens /\ u \in Tokens
  BY DEF SameSession
<1>6. \A d, e \in Devices : SameSession(held[d], held[e])' => d = e
  BY <1>2, <1>3, <1>5 DEF HolderInv, Owned
<1>7. ASSUME NEW w \in Logins, NEW d \in Devices, InHand(w)', SameSession(call[w].token, held[d])'
      PROVE  call'[w].device = d
  <2>1. SameSession(call'[w].token, held[d])
    BY <1>2, <1>3, <1>5, <1>7
  <2> QED
    BY <1>4, <1>7, <2>1 DEF HolderInv, Owned
<1>8. ASSUME NEW v \in Logins, NEW w \in Logins, InHand(v)', InHand(w)',
             SameSession(call[v].token, call[w].token)'
      PROVE  call'[v].device = call'[w].device
  <2>1. SameSession(call'[v].token, call'[w].token) /\ SameSession(call'[w].token, call'[v].token)
    BY <1>3, <1>5, <1>8
  <2>2. CASE InHand(v) /\ SameSession(call[v].token, call'[w].token) /\ call'[v].device = call[v].device
    <3>1. SameSession(call'[w].token, call[v].token)
      BY <1>5, <2>2
    <3> QED
      BY <1>4, <1>5, <1>8, <2>2, <3>1 DEF HolderInv, Owned
  <2>3. ASSUME NEW d \in Devices, SameSession(held[d], call'[w].token), call'[v].device = d
        PROVE  call'[v].device = call'[w].device
    <3>1. SameSession(call'[w].token, held[d])
      BY <1>5, <2>3
    <3> QED
      BY <1>4, <1>8, <2>3, <3>1 DEF HolderInv, Owned
  <2> QED
    BY <1>4, <1>8, <2>1, <2>2, <2>3
<1>9. Current'
  BY <1>2, <1>3, <1>5 DEF HolderInv, Current, NoNews
<1> QED
  BY <1>6, <1>7, <1>8, <1>9 DEF HolderInv, Owned

LEMMA NoNewsSteps ==
    ASSUME Inv, NEW w \in Logins,
           AskSessions(w) \/ BreakOff(w) \/ (ProceedSessions(w) /\ ~OpenSession(w) /\ ~Issue(w))
    PROVE  NoNews
<1>1. ChainTypeOK
  BY DEF Inv
<1> USE <1>1 DEF InHand, ChainTypeOK, Go, Reply, Live
<1>2. CASE AskSessions(w)
  <2>1. ASSUME NEW k \in Keys, RequestOtp(w, k) PROVE NoNews
    BY <2>1 DEF RequestOtp, LookUp, chain, NoNews
  <2>2. ASSUME NEW d \in Devices, NEW k \in Keys, NEW n \in 0..codes, VerifyOtp(w, d, k, n)
        PROVE  NoNews
    BY <2>2 DEF VerifyOtp, chain, NoNews
  <2>3. ASSUME NEW d \in Devices, Refresh(w, d) \/ Logout(w, d) PROVE NoNews
    <3>1. /\ call'[w].token = held[d] /\ call'[w].device = d
          /\ \A v \in Logins : v # w => UNCHANGED <<login[v], call[v]>>
          /\ UNCHANGED <<token, held, missed>>
      BY <2>3 DEF Refresh, Logout, chain, Call
    <3> QED BY <3>1 DEF NoNews
  <2> QED BY <1>2, <2>1, <2>2, <2>3 DEF AskSessions
<1>3. CASE BreakOff(w)
  BY <1>3 DEF BreakOff, chain, NoNews
<1>4. CASE \/ FindContact(w) \/ StoreCode(w) \/ Send(w) \/ Cool(w) \/ Uncode(w) \/ Uncool(w)
           \/ ReadCode(w) \/ DropCode(w) \/ Rewrite(w) \/ Consume(w) \/ FindAccount(w)
  <2>1. UNCHANGED <<token, held, missed>>
    BY <1>4 DEF FindContact, StoreCode, Send, Cool, Uncode, Uncool, ReadCode, DropCode, Rewrite,
                Consume, FindAccount, chain
  <2>2. \A v \in Logins : v # w => UNCHANGED <<login[v], call[v]>>
    <3>1. CASE FindContact(w) \/ StoreCode(w) \/ Send(w) \/ Cool(w) \/ Uncode(w) \/ Uncool(w)
      BY <3>1 DEF FindContact, StoreCode, Send, Cool, Uncode, Uncool
    <3>2. CASE ReadCode(w)
      BY <3>2 DEF ReadCode
    <3>3. CASE DropCode(w) \/ Rewrite(w) \/ Consume(w) \/ FindAccount(w)
      BY <3>3 DEF DropCode, Rewrite, Consume, FindAccount
    <3> QED BY <1>4, <3>1, <3>2, <3>3
  <2>3. ~InHand(w)'
    <3>1. CASE FindContact(w) \/ StoreCode(w) \/ Send(w) \/ Cool(w) \/ Uncode(w) \/ Uncool(w)
      BY <3>1 DEF FindContact, StoreCode, Send, Cool, Uncode, Uncool
    <3>2. CASE ReadCode(w)
      BY <3>2 DEF ReadCode
    <3>3. CASE DropCode(w) \/ Rewrite(w) \/ Consume(w) \/ FindAccount(w)
      BY <3>3 DEF DropCode, Rewrite, Consume, FindAccount
    <3> QED BY <1>4, <3>1, <3>2, <3>3
  <2> QED BY <2>1, <2>2, <2>3 DEF NoNews
<1>5. CASE Revoke(w) \/ EndSession(w)
  <2>1. call[w].token \in Tokens
    BY <1>5 DEF Revoke, EndSession, Inv, Rooted, Used
  <2>2. \A t \in Tokens : token'[t].root = token[t].root /\ (Live(t)' => Live(t))
    BY <1>5, <2>1 DEF Revoke, EndSession, TokenRow
  <2>3. /\ missed' = missed /\ \A d \in Devices : held'[d] \in {held[d], None}
        /\ \A v \in Logins : v # w => UNCHANGED <<login[v], call[v]>>
        /\ InHand(w)' => InHand(w) /\ call'[w] = call[w]
    BY <1>5 DEF Revoke, EndSession
  <2> QED BY <2>2, <2>3 DEF NoNews
<1> QED BY <1>2, <1>3, <1>4, <1>5 DEF ProceedSessions

LEMMA NoNewsEvents ==
    ASSUME Inv,
           \/ UNCHANGED sessionVars
           \/ \E c \in Clerks, w \in Logins : Register(c, w)
           \/ \E d \in Devices : LogoutAll(d)
           \/ \E k \in Keys : Lapse(k) \/ Thaw(k)
           \/ \E t \in Tokens : Expire(t)
           \/ Restart
    PROVE  NoNews
<1>1. ChainTypeOK
  BY DEF Inv
<1> USE <1>1 DEF InHand, ChainTypeOK, Live, NoNews
<1>2. CASE UNCHANGED sessionVars
  BY <1>2 DEF sessionVars
<1>3. ASSUME NEW c \in Clerks, NEW w \in Logins, Register(c, w) PROVE NoNews
  BY <1>3 DEF Register, LookUp, Go, chain
<1>4. ASSUME NEW d \in Devices, LogoutAll(d) PROVE NoNews
  BY <1>4 DEF LogoutAll, TokenRow
<1>5. ASSUME NEW k \in Keys, Lapse(k) \/ Thaw(k) PROVE NoNews
  BY <1>5 DEF Lapse, Thaw, chain
<1>6. ASSUME NEW t \in Tokens, Expire(t) PROVE NoNews
  BY <1>6 DEF Expire, TokenRow
<1>7. CASE Restart
  BY <1>7 DEF Restart
<1> QED
  BY <1>2, <1>3, <1>4, <1>5, <1>6, <1>7

\* A new token reaches the device that asked for it, or is missed by it.
LEMMA OpenKeepsHolder ==
    ASSUME Inv, HolderInv, NEW w \in Logins, OpenSession(w) PROVE HolderInv'
<1>1. ChainTypeOK
  BY DEF Inv
<1> DEFINE d == call[w].device
<1>2. PICK t \in Tokens :
        /\ Unused(t)
        /\ token' = [token EXCEPT ![t] = [state |-> "live", user |-> call[w].user, root |-> t,
                                          from |-> None, code |-> call[w].code]]
        /\ Hand(d, t)
  BY DEF OpenSession
<1>3. /\ token'[t].root = t /\ ~Used(t)
      /\ \A s \in Tokens : s # t => token'[s] = token[s]
  BY <1>1, <1>2 DEF ChainTypeOK, Unused, Used
<1>4. \A v \in Logins : InHand(v)' => InHand(v) /\ call'[v] = call[v]
  BY <1>1 DEF OpenSession, Reply, Go, ChainTypeOK, InHand
<1>5. /\ \A e \in Devices : e # d => held'[e] = held[e] /\ (e \in missed => e \in missed')
      /\ \A e \in Devices : e = d => (held'[e] = t \/ (held'[e] = held[e] /\ e \in missed'))
  BY <1>1, <1>2 DEF Hand, ChainTypeOK
<1> HIDE DEF d
<1>6. \A s, u : SameSession(s, u)' /\ Used(s) => u # t /\ SameSession(s, u)
  BY <1>3 DEF Inv, Rooted, SameSession, Used
<1>7. \A s, u : SameSession(s, u)' => SameSession(u, s)' /\ s \in Tokens /\ u \in Tokens
  BY DEF SameSession
<1>8. None \notin Tokens
  BY SessionsAssumption
<1>9. \A e \in Devices : held[e] \in Tokens => Used(held[e])
  BY <1>8 DEF Inv, Rooted
<1>10. \A v \in Logins : InHand(v)' => InHand(v) /\ call'[v] = call[v] /\ Used(call[v].token)
  BY <1>4 DEF Inv, Rooted
<1>11. \A e \in Devices : \/ held'[e] = held[e] /\ (e = d => e \in missed')
                          \/ held'[e] = t /\ e = d
  BY <1>5
<1>12. ASSUME NEW e \in Devices, NEW f \in Devices, SameSession(held[e], held[f])' PROVE e = f
  <2>1. CASE held'[e] = held[e]
    <3>1. Used(held[e]) /\ held'[f] # t /\ SameSession(held[e], held'[f])
      BY <1>6, <1>7, <1>9, <1>12, <2>1
    <3> QED
      BY <1>11, <3>1 DEF HolderInv, Owned
  <2>2. CASE held'[f] = held[f]
    <3>1. Used(held[f]) /\ held'[e] # t /\ SameSession(held[f], held'[e])
      BY <1>6, <1>7, <1>9, <1>12, <2>2
    <3> QED
      BY <1>11, <3>1 DEF HolderInv, Owned
  <2> QED
    BY <1>11, <2>1, <2>2
<1>13. ASSUME NEW v \in Logins, NEW e \in Devices, InHand(v)', SameSession(call[v].token, held[e])'
       PROVE  call'[v].device = e
  <2>1. Used(call[v].token) /\ held'[e] # t /\ SameSession(call[v].token, held'[e])
    BY <1>6, <1>10, <1>13
  <2> QED
    BY <1>10, <1>11, <1>13, <2>1 DEF HolderInv, Owned
<1>14. ASSUME NEW u \in Logins, NEW v \in Logins, InHand(u)', InHand(v)',
              SameSession(call[u].token, call[v].token)'
       PROVE  call'[u].device = call'[v].device
  <2>1. SameSession(call[u].token, call[v].token)
    BY <1>6, <1>10, <1>14
  <2> QED
    BY <1>10, <1>14, <2>1 DEF HolderInv, Owned
<1>15. ASSUME NEW e \in Devices, NEW s \in Tokens, e \notin missed', Live(s)', SameSession(s, held[e])'
       PROVE  s = held'[e]
  <2>1. CASE held'[e] = held[e]
    <3>1. SameSession(held[e], s) /\ s # t
      BY <1>6, <1>7, <1>9, <1>15, <2>1
    <3>2. e # d /\ e \notin missed
      BY <1>5, <1>11, <1>15, <1>7, <1>9, <2>1, <1>3
    <3>3. Live(s) /\ SameSession(s, held[e])
      BY <1>3, <1>15, <3>1 DEF Live, SameSession
    <3> QED
      BY <2>1, <3>2, <3>3 DEF HolderInv, Current
  <2>2. CASE held'[e] = t
    <3>1. ~Used(s) \/ ~SameSession(s, t)'
      BY <1>6
    <3>2. Live(s)' /\ s # t => Used(s)
      BY <1>3 DEF Live, Used
    <3> QED
      BY <1>15, <2>2, <3>1, <3>2
  <2> QED
    BY <1>11, <2>1, <2>2
<1> QED
  BY <1>12, <1>13, <1>14, <1>15 DEF HolderInv, Owned, Current

LEMMA IssueKeepsHolder ==
    ASSUME Inv, Inv', HolderInv, NEW w \in Logins, Issue(w) PROVE HolderInv'
<1>1. ChainTypeOK
  BY DEF Inv
<1> DEFINE d == call[w].device
           o == call[w].token
<1>2. PICK t \in Tokens :
        /\ Unused(t)
        /\ token' = [token EXCEPT ![t] = [token[o] EXCEPT !.state = "live", !.from = o]]
        /\ Hand(d, t)
  BY DEF Issue
<1>3. Used(o) /\ InHand(w) /\ ~Used(t)
  BY <1>2 DEF Issue, Inv, Rooted, InHand, Unused, Used
<1>4. /\ token'[t].root = token[o].root /\ token'[t].state = "live"
      /\ \A s \in Tokens : s # t => token'[s] = token[s]
  BY <1>1, <1>2, <1>3 DEF ChainTypeOK, Used, TokenRow
<1>5. \A v \in Logins : InHand(v)' => InHand(v) /\ call'[v] = call[v] /\ Used(call[v].token)
  BY <1>1 DEF Issue, Reply, Go, ChainTypeOK, InHand, Inv, Rooted
<1>6. \A e \in Devices : \/ held'[e] = held[e] /\ (e \in missed => e \in missed' \/ e = d)
                            /\ (e = d => e \in missed')
                         \/ held'[e] = t /\ e = d
  BY <1>1, <1>2 DEF Hand, ChainTypeOK
<1>7. \A e \in Devices : held[e] \in Tokens => Used(held[e])
  BY SessionsAssumption DEF Inv, Rooted
<1>8. \A e \in Devices : SameSession(o, held[e]) => d = e
  BY <1>3 DEF HolderInv, Owned
<1>9. \A v \in Logins : InHand(v) /\ SameSession(call[v].token, o) => call[v].device = d
  BY <1>3 DEF HolderInv, Owned
<1>10. \A s \in Tokens : Live(s)' /\ token'[s].root = token'[t].root => s = t
  BY <1>4 DEF Inv, Unique, Live
<1> HIDE DEF d, o
\* The new token is one of the session of the old one.
<1>11. \A s, u : SameSession(s, u)' /\ Used(s) => IF u = t THEN SameSession(s, o) ELSE SameSession(s, u)
  BY <1>3, <1>4 DEF SameSession, Used
<1>12. \A s, u : SameSession(s, u) => SameSession(u, s) /\ s \in Tokens /\ u \in Tokens
  BY DEF SameSession
<1>13. \A s, u : SameSession(s, u)' => SameSession(u, s)' /\ s \in Tokens /\ u \in Tokens
  BY DEF SameSession
<1>14. ASSUME NEW e \in Devices, NEW f \in Devices, SameSession(held[e], held[f])',
              held'[e] = held[e]
       PROVE  e = f
  <2>1. Used(held[e])
    BY <1>7, <1>13, <1>14
  <2>2. CASE held'[f] = t
    <3>1. SameSession(held[e], o)
      BY <1>11, <1>14, <2>1, <2>2
    <3> QED
      BY <1>3, <1>6, <1>8, <1>12, <2>1, <2>2, <3>1, <1>7
  <2>3. CASE held'[f] = held[f]
    BY <1>3, <1>7, <1>11, <1>13, <1>14, <2>1, <2>3 DEF HolderInv, Owned
  <2> QED
    BY <1>6, <2>2, <2>3
<1>15. \A e, f \in Devices : SameSession(held[e], held[f])' => e = f
  BY <1>6, <1>13, <1>14
<1>16. ASSUME NEW v \in Logins, NEW e \in Devices, InHand(v)', SameSession(call[v].token, held[e])'
       PROVE  call'[v].device = e
  <2>1. Used(call[v].token) /\ InHand(v) /\ call'[v] = call[v]
    BY <1>5, <1>16
  <2>2. CASE held'[e] = t
    <3>1. SameSession(call[v].token, o)
      BY <1>11, <1>16, <2>1, <2>2
    <3> QED
      BY <1>3, <1>6, <1>7, <1>9, <2>1, <2>2, <3>1 DEF SameSession
  <2>3. CASE held'[e] = held[e]
    <3>1. SameSession(call[v].token, held[e])
      BY <1>3, <1>7, <1>11, <1>13, <1>16, <2>1, <2>3
    <3> QED
      BY <2>1, <3>1 DEF HolderInv, Owned
  <2> QED
    BY <1>6, <2>2, <2>3
<1>17. ASSUME NEW u \in Logins, NEW v \in Logins, InHand(u)', InHand(v)',
              SameSession(call[u].token, call[v].token)'
       PROVE  call'[u].device = call'[v].device
  BY <1>3, <1>5, <1>11, <1>17 DEF HolderInv, Owned
<1>18. ASSUME NEW e \in Devices, NEW s \in Tokens, e \notin missed', Live(s)', SameSession(s, held[e])'
       PROVE  s = held'[e]
  <2>1. CASE held'[e] = t
    BY <1>10, <1>18, <2>1 DEF SameSession
  <2>2. CASE held'[e] = held[e] /\ e # d /\ e \notin missed
    <3>1. Used(held[e]) /\ SameSession(held[e], s)'
      BY <1>7, <1>13, <1>18, <2>2
    <3>2. s # t
      BY <1>8, <1>11, <1>12, <2>2, <3>1
    <3>3. SameSession(held[e], s)
      BY <1>11, <2>2, <3>1, <3>2
    <3>4. Live(s)
      BY <1>4, <1>18, <3>2 DEF Live
    <3> QED
      BY <1>12, <2>2, <3>3, <3>4 DEF HolderInv, Current
  <2> QED
    BY <1>6, <1>18, <2>1, <2>2
<1> QED
  BY <1>15, <1>16, <1>17, <1>18 DEF HolderInv, Owned, Current

LEMMA HolderStep == Inv /\ HolderInv /\ [Next]_officeVars => HolderInv'
<1> SUFFICES ASSUME Inv, HolderInv, [Next]_officeVars PROVE HolderInv'
  OBVIOUS
<1>1. Inv'
  BY InvStep
<1>2. CASE SessionsNext
  BY <1>1, <1>2, NoNewsSteps, NoNewsEvents, NoNewsKeeps, OpenKeepsHolder, IssueKeepsHolder
     DEF SessionsNext
<1> QED
  BY <1>2, NoNewsEvents, NoNewsKeeps DEF Next, officeVars

\* A device can go on with its session as long as the session goes on: unless an
\* answer was lost or one of its own requests is under way, the token it has is
\* the live one (auth.service.ts, refreshTokens).
THEOREM HoldersCanRefresh == Spec => []HolderCanRefresh
<1>1. Inv /\ HolderInv => HolderCanRefresh
  <2> SUFFICES ASSUME Inv, HolderInv, NEW d \in Devices, held[d] # None, d \notin missed,
                      \A w \in Logins : call[w].device # d, GoesOn(token[held[d]].root)
               PROVE  Live(held[d])
    BY DEF HolderCanRefresh
  <2>1. held[d] \in Tokens
    BY DEF Inv, Rooted, Used
  <2>2. ASSUME NEW w \in Logins, Refreshing(w, token[held[d]].root) PROVE FALSE
    <3>1. InHand(w) /\ call[w].token \in Tokens
      BY <2>2 DEF Refreshing, InHand, Inv, Rooted, Used
    <3> QED
      BY <2>1, <2>2, <3>1 DEF HolderInv, Owned, SameSession, Refreshing
  <2>3. PICK t \in Tokens : token[t].root = token[held[d]].root /\ Live(t)
    BY <2>2 DEF GoesOn
  <2> QED
    BY <2>1, <2>3 DEF HolderInv, Current, SameSession
<1> QED BY <1>1, InitInv, InvStep, HolderInit, HolderStep, PTL DEF Spec


-----------------------------------------------------------------------------
(* What ChainTypeOK leaves out of SessionTypeOK.                             *)

\* Calls of a request that hands a token to a device in the end.
AtDevice == {"read", "consume", "account", "open", "revoke", "issue"}

OtherTypes ==
    /\ cooling \subseteq Keys /\ sent \subseteq Keys \X Nat
    /\ missed \subseteq Devices /\ contested \subseteq Nat
    /\ \A w \in Logins : login[w] \in AtDevice => call[w].device \in Devices

LEMMA OtherTypesOfSteps ==
    ASSUME Inv, OtherTypes, NEW w \in Logins, ProceedSessions(w)
    PROVE  OtherTypes'
<1>1. ChainTypeOK
  BY DEF Inv
<1>2. /\ login \in [Logins -> Steps] /\ call \in [Logins -> Call] /\ call[w] \in Call
      /\ cooling \subseteq Keys /\ sent \subseteq Keys \X Nat
      /\ missed \subseteq Devices /\ contested \subseteq Nat
      /\ \A v \in Logins : login[v] \in AtDevice => call[v].device \in Devices
  BY <1>1 DEF ChainTypeOK, OtherTypes
<1>3. ~(login[w] \in {"idle", "revoke", "issue", "end"}) => call[w].key \in Keys
  BY <1>1 DEF ChainTypeOK
<1>4. \A v \in Logins : v # w => login'[v] = login[v] /\ call'[v] = call[v]
  BY <1>2 DEF ProceedSessions, FindContact, StoreCode, Send, Cool, Uncode, Uncool, ReadCode, DropCode,
              Rewrite, Consume, FindAccount, OpenSession, Revoke, Issue, EndSession, Go, Reply
<1>5. login'[w] \in AtDevice => call'[w].device \in Devices
  <2>1. CASE FindContact(w) \/ StoreCode(w) \/ Send(w) \/ Cool(w) \/ Uncode(w) \/ Uncool(w)
    BY <1>2, <2>1 DEF FindContact, StoreCode, Send, Cool, Uncode, Uncool, Go, Reply, AtDevice
  <2>2. CASE DropCode(w) \/ Rewrite(w) \/ OpenSession(w) \/ Issue(w) \/ EndSession(w)
    BY <1>2, <2>2 DEF DropCode, Rewrite, OpenSession, Issue, EndSession, Go, Reply, AtDevice
  <2>3. CASE ReadCode(w)
    <3>1. login[w] = "read"
      BY <2>3 DEF ReadCode
    <3>2. login'[w] = "idle" \/ call' = [call EXCEPT ![w].seen = challenge[call[w].key]]
      BY <1>2, <2>3 DEF ReadCode, Go, Reply
    <3> QED
      BY <1>2, <3>1, <3>2 DEF AtDevice, Call
  <2>4. CASE Consume(w) \/ Revoke(w)
    BY <1>2, <2>4 DEF Consume, Revoke, Go, Reply, AtDevice
  <2>5. CASE FindAccount(w)
    <3>1. login[w] = "account"
      BY <2>5 DEF FindAccount
    <3>2. login'[w] = "idle" \/ call' = [call EXCEPT ![w].user = call[w].seen.user]
      BY <1>2, <2>5 DEF FindAccount, Go, Reply
    <3> QED
      BY <1>2, <3>1, <3>2 DEF AtDevice, Call
  <2> QED
    BY <2>1, <2>2, <2>3, <2>4, <2>5 DEF ProceedSessions
<1>6. cooling' \subseteq Keys
  <2>1. CASE Cool(w)
    BY <1>2, <1>3, <2>1 DEF Cool
  <2>2. CASE Uncool(w)
    BY <1>2, <2>2 DEF Uncool
  <2> QED
    BY <1>2, <2>1, <2>2 DEF ProceedSessions, FindContact, StoreCode, Send, Uncode, ReadCode, DropCode,
       Rewrite, Consume, FindAccount, OpenSession, Revoke, Issue, EndSession, otp
<1>7. sent' \subseteq Keys \X Nat
  <2>1. CASE Send(w)
    <3>1. <<call[w].key, call[w].code>> \in Keys \X Nat
      BY <1>2, <1>3, <2>1 DEF Send, Call
    <3>2. sent' \subseteq sent \union {<<call[w].key, call[w].code>>}
      BY <2>1 DEF Send
    <3> QED
      BY <1>2, <3>1, <3>2
  <2> QED
    BY <1>2, <2>1 DEF ProceedSessions, FindContact, StoreCode, Cool, Uncode, Uncool, ReadCode, DropCode,
       Rewrite, Consume, FindAccount, OpenSession, Revoke, Issue, EndSession, otp
<1>8. missed' \subseteq Devices
  <2>1. CASE OpenSession(w) \/ Issue(w)
    BY <1>2, <2>1 DEF OpenSession, Issue, Hand, AtDevice
  <2> QED
    BY <1>2, <2>1 DEF ProceedSessions, FindContact, StoreCode, Send, Cool, Uncode, Uncool, ReadCode,
       DropCode, Rewrite, Consume, FindAccount, Revoke, EndSession, chain
<1>9. contested' \subseteq Nat
  <2>1. CASE ReadCode(w)
    <3>1. challenge[call[w].key] \in Challenge
      BY <1>1, <1>3, <2>1 DEF ReadCode, ChainTypeOK
    <3>2. contested' \subseteq contested \union {challenge[call[w].key].code}
      BY <2>1 DEF ReadCode
    <3> QED
      BY <1>2, <3>1, <3>2 DEF Challenge
  <2> QED
    BY <1>2, <2>1 DEF ProceedSessions, FindContact, StoreCode, Send, Cool, Uncode, Uncool, DropCode,
       Rewrite, Consume, FindAccount, OpenSession, Revoke, Issue, EndSession, otp
<1> QED
  BY <1>2, <1>4, <1>5, <1>6, <1>7, <1>8, <1>9 DEF OtherTypes

LEMMA OtherTypesStep == Inv /\ OtherTypes /\ [Next]_officeVars => OtherTypes'
<1> SUFFICES ASSUME Inv, OtherTypes, [Next]_officeVars PROVE OtherTypes'
  OBVIOUS
<1>1. ChainTypeOK
  BY DEF Inv
<1>2. /\ login \in [Logins -> Steps] /\ call \in [Logins -> Call]
      /\ cooling \subseteq Keys /\ sent \subseteq Keys \X Nat
      /\ missed \subseteq Devices /\ contested \subseteq Nat
      /\ \A v \in Logins : login[v] \in AtDevice => call[v].device \in Devices
  BY <1>1 DEF ChainTypeOK, OtherTypes
<1>3. CASE UNCHANGED sessionVars
  BY <1>3 DEF OtherTypes, sessionVars
<1>4. ASSUME NEW w \in Logins, NEW k, call' = [call EXCEPT ![w].key = k] /\ Go(w, "contact"),
             UNCHANGED <<otp, chain>>
      PROVE  OtherTypes'
  BY <1>2, <1>4 DEF OtherTypes, Go, otp, chain, AtDevice
<1>5. ASSUME NEW w \in Logins, AskSessions(w) PROVE OtherTypes'
  <2>1. ASSUME NEW k \in Keys, RequestOtp(w, k) PROVE OtherTypes'
    BY <1>4, <2>1 DEF RequestOtp, LookUp
  <2>2. ASSUME NEW d \in Devices, NEW k \in Keys, NEW n \in 0..codes, VerifyOtp(w, d, k, n)
        PROVE  OtherTypes'
    <3>1. call'[w].device = d /\ \A v \in Logins : v # w => login'[v] = login[v] /\ call'[v] = call[v]
      BY <1>2, <2>2 DEF VerifyOtp, Go, Call
    <3> QED
      BY <1>2, <2>2, <3>1 DEF VerifyOtp, OtherTypes, otp, chain
  <2>3. ASSUME NEW d \in Devices, Refresh(w, d) \/ Logout(w, d) PROVE OtherTypes'
    <3>1. call'[w].device = d /\ \A v \in Logins : v # w => login'[v] = login[v] /\ call'[v] = call[v]
      BY <1>2, <2>3 DEF Refresh, Logout, Go, Call
    <3> QED
      BY <1>2, <2>3, <3>1 DEF Refresh, Logout, OtherTypes, otp, chain
  <2> QED
    BY <1>5, <2>1, <2>2, <2>3 DEF AskSessions
<1>6. ASSUME NEW w \in Logins, BreakOff(w) PROVE OtherTypes'
  BY <1>2, <1>6 DEF BreakOff, OtherTypes, Go, Reply, otp, chain, AtDevice
<1>7. ASSUME NEW d \in Devices, LogoutAll(d) PROVE OtherTypes'
  BY <1>7 DEF LogoutAll, OtherTypes, otp
<1>8. ASSUME NEW k \in Keys, Lapse(k) \/ Thaw(k) PROVE OtherTypes'
  BY <1>8 DEF Lapse, Thaw, OtherTypes, chain
<1>9. ASSUME NEW t \in Tokens, Expire(t) PROVE OtherTypes'
  BY <1>9 DEF Expire, OtherTypes, otp
<1>10. ASSUME NEW c \in Clerks, NEW w \in Logins, Register(c, w) PROVE OtherTypes'
  BY <1>4, <1>10 DEF Register, LookUp
<1>11. CASE Restart
  <2>1. missed' \subseteq Devices
    BY <1>2, <1>11 DEF Restart, Call
  <2> QED
    BY <1>2, <1>11, <2>1 DEF Restart, OtherTypes, otp, AtDevice
<1> QED
  BY <1>3, <1>5, <1>6, <1>7, <1>8, <1>9, <1>10, <1>11, OtherTypesOfSteps
     DEF Next, SessionsNext, officeVars

LEMMA SessionTypesAlways == Spec => []SessionTypeOK
<1>1. Init => OtherTypes
  BY DEF Init, SessionsInit, OtherTypes, AtDevice
<1>2. Inv /\ OtherTypes => SessionTypeOK
  BY DEF Inv, ChainTypeOK, OtherTypes, SessionTypeOK, Steps
<1> QED BY <1>1, <1>2, InitInv, InvStep, OtherTypesStep, PTL DEF Spec
===============================================================================
