------------------------------- MODULE Sessions -------------------------------
(***************************************************************************)
(* Signing in and staying signed in (auth.service.ts).  A code sent to the *)
(* user's phone (or mail address, which is handled alike) starts a         *)
(* session; its refresh token is exchanged for the next one again and      *)
(* again; logging out ends it.  The code waits in Redis under the school   *)
(* and the phone; tokens are rows of table refresh_tokens.                 *)
(*                                                                         *)
(* An action is one call of Redis, the database or the carrier.  The       *)
(* lookup of the school, which comes first, is joined with the call that   *)
(* follows it.  Accounts and schools change under the requests' feet as    *)
(* module Accounts lets them.                                              *)
(***************************************************************************)
EXTENDS Accounts

CONSTANTS
    Logins,      \* requests about sessions the process may have in flight
    Devices,     \* clients: each keeps the last refresh token it received
    Tokens,      \* identities of rows of table refresh_tokens
    Keys,        \* bound: schools and phones that people sign in with
    MaxAttempts, \* OTP_MAX_ATTEMPTS
    FirstHeld,   \* tokens of sessions there are at the start
    FirstSignedIn \* and whose they are

ASSUME SessionsAssumption ==
    /\ None \notin Tokens \union Devices
    /\ Keys \subseteq Schools \X Phones
    /\ MaxAttempts \in Nat \ {0}
    /\ FirstHeld \in [Devices -> Tokens \union {None}]
    /\ \A d, e \in Devices : FirstHeld[d] # None /\ FirstHeld[d] = FirstHeld[e] => d = e
    /\ FirstSignedIn \in DOMAIN FirstUsers

VARIABLES
    challenge,   \* Redis: the code that waits for a school and phone
    cooling,     \* Redis: schools and phones that must wait for the next code
    codes,       \* number of codes made so far
    sent,        \* codes that reached a phone
    token,       \* table refresh_tokens
    held,        \* the token each device has
    login,       \* the next call of each request
    call,        \* the local variables of each request
    missed,      \* history: devices that missed an answer with a token
    contested    \* history: codes that two requests were using at once

sessionVars == <<challenge, cooling, codes, sent, token, held, login, call, missed, contested>>
otp == <<challenge, cooling, codes, sent, contested>>
chain == <<token, held, missed>>

NoChallenge == [code |-> 0, user |-> None, attempts |-> 0]

Challenge == [code : Nat, user : Users \union {None}, attempts : Nat]

\* root is the token of the sign-in, from the token this one was exchanged for,
\* code the code of the sign-in: history, the table has no such columns.
NoToken == [state |-> "none", user |-> None, root |-> None, from |-> None, code |-> 0]

TokenRow == [state : {"none", "live", "revoked", "expired"}, user : Users \union {None},
             root  : Tokens \union {None}, from : Tokens \union {None}, code : Nat]

NoCall == [device |-> None, key |-> None, user |-> None, token |-> None, code |-> 0,
           seen |-> NoChallenge]

Call == [device : Devices \union {None}, key   : Keys \union {None},
         user   : Users \union {None},   token : Tokens \union {None},
         code   : Nat,                   seen  : Challenge]

SessionTypeOK ==
    /\ challenge \in [Keys -> Challenge]
    /\ cooling \subseteq Keys
    /\ codes \in Nat
    /\ sent \subseteq Keys \X Nat
    /\ token \in [Tokens -> TokenRow]
    /\ held \in [Devices -> Tokens \union {None}]
    /\ login \in [Logins -> {"idle", "contact", "store", "send", "cool", "uncode", "uncool",
                             "read", "drop", "rewrite", "consume", "account", "open",
                             "revoke", "issue", "end"}]
    /\ call \in [Logins -> Call]
    /\ missed \subseteq Devices
    /\ contested \subseteq Nat

SessionsInit ==
    /\ challenge = [k \in Keys |-> NoChallenge]
    /\ cooling = {}
    /\ codes = 0
    /\ sent = {}
    /\ held = IF budget.sessions > 0 THEN FirstHeld ELSE [d \in Devices |-> None]
    /\ token = [t \in Tokens |->
          IF \E d \in Devices : held[d] = t
            THEN [state |-> "live", user |-> FirstSignedIn, root |-> t, from |-> None, code |-> 0]
            ELSE NoToken]
    /\ login = [w \in Logins |-> "idle"]
    /\ call = [w \in Logins |-> NoCall]
    /\ missed = {}
    /\ contested = {}

Start(w) == login[w] = "idle" /\ Spend("sessions")

Go(w, next) == login' = [login EXCEPT ![w] = next]

Reply(w) == Go(w, "idle") /\ call' = [call EXCEPT ![w] = NoCall]

Live(t) == token[t].state = "live"

-----------------------------------------------------------------------------
(* requestOtp.                                                              *)

LookUp(w, k) == call' = [call EXCEPT ![w].key = k] /\ Go(w, "contact") /\ UNCHANGED <<otp, chain>>

\* The school is active and no code was asked for in the last minute.
RequestOtp(w, k) == school[k[1]] = "active" /\ k \notin cooling /\ LookUp(w, k)

Reaches(u, k) == user[u].school = k[1] /\ user[u].phone = k[2] /\ user[u].active

\* Without an active user of that phone the answer is the same as with one.
FindContact(w) ==
    /\ login[w] = "contact"
    /\ IF \E u \in Users : Reaches(u, call[w].key)
         THEN \E u \in Users :
                 /\ Reaches(u, call[w].key)
                 /\ call' = [call EXCEPT ![w].user = u]
                 /\ Go(w, "store")
         ELSE Go(w, "cool") /\ UNCHANGED call
    /\ UNCHANGED <<otp, chain, budget>>

\* The new code replaces one that waits.
StoreCode(w) ==
    /\ login[w] = "store"
    /\ codes' = codes + 1
    /\ challenge' = [challenge EXCEPT ![call[w].key] =
                        [code |-> codes + 1, user |-> call[w].user, attempts |-> 0]]
    /\ call' = [call EXCEPT ![w].code = codes + 1]
    /\ Go(w, "send")
    /\ UNCHANGED <<cooling, sent, contested, chain, budget>>

\* email.sendOtp or termii.sendOtp; one that reports a failure may have
\* delivered all the same.
Send(w) ==
    /\ login[w] = "send"
    /\ \/ sent' = sent \union {<<call[w].key, call[w].code>>} /\ Go(w, "cool")
       \/ sent' \in {sent, sent \union {<<call[w].key, call[w].code>>}} /\ Go(w, "uncode")
    /\ UNCHANGED <<challenge, cooling, codes, contested, chain, call, budget>>

Cool(w) ==
    /\ login[w] = "cool"
    /\ cooling' = cooling \union {call[w].key}
    /\ Reply(w)
    /\ UNCHANGED <<challenge, codes, sent, contested, chain, budget>>

\* The clean-up of a failed delivery deletes what waits under the key.
Uncode(w) ==
    /\ login[w] = "uncode"
    /\ challenge' = [challenge EXCEPT ![call[w].key] = NoChallenge]
    /\ Go(w, "uncool")
    /\ UNCHANGED <<cooling, codes, sent, contested, chain, call, budget>>

Uncool(w) ==
    /\ login[w] = "uncool"
    /\ cooling' = cooling \ {call[w].key}
    /\ Reply(w)
    /\ UNCHANGED <<challenge, codes, sent, contested, chain, budget>>

\* Redis forgets: a challenge after five minutes, a cooldown after one.
Lapse(k) ==
    /\ challenge[k] # NoChallenge
    /\ challenge' = [challenge EXCEPT ![k] = NoChallenge]
    /\ UNCHANGED <<cooling, codes, sent, contested, chain, login, call, budget>>

Thaw(k) ==
    /\ k \in cooling
    /\ cooling' = cooling \ {k}
    /\ UNCHANGED <<challenge, codes, sent, contested, chain, login, call, budget>>

-----------------------------------------------------------------------------
(* verifyOtp.                                                               *)

\* A device enters a code, n = 0 for one that was never sent.
VerifyOtp(w, d, k, n) ==
    /\ school[k[1]] = "active"
    /\ n = 0 \/ <<k, n>> \in sent
    /\ call' = [call EXCEPT ![w].device = d, ![w].key = k, ![w].code = n]
    /\ Go(w, "read")
    /\ UNCHANGED <<otp, chain>>

\* Requests that took the code of k from Redis and are not done with it.
Using(k, n) == {v \in Logins : login[v] \in {"drop", "rewrite", "consume"} /\ call[v].key = k
                               /\ call[v].seen.code = n}

\* The challenge is read and judged; the copy goes on with the request.
ReadCode(w) ==
    /\ login[w] = "read"
    /\ LET c == challenge[call[w].key]
       IN  /\ IF c = NoChallenge
                THEN Reply(w)
                ELSE /\ call' = [call EXCEPT ![w].seen = c]
                     /\ Go(w, IF c.attempts >= MaxAttempts THEN "drop"
                              ELSE IF c.code = call[w].code THEN "consume"
                              ELSE IF c.attempts + 1 >= MaxAttempts THEN "drop" ELSE "rewrite")
           /\ contested' = IF c # NoChallenge /\ Using(call[w].key, c.code) # {}
                             THEN contested \union {c.code} ELSE contested
    /\ UNCHANGED <<challenge, cooling, codes, sent, chain, budget>>

DropCode(w) ==
    /\ login[w] = "drop"
    /\ challenge' = [challenge EXCEPT ![call[w].key] = NoChallenge]
    /\ Reply(w)
    /\ UNCHANGED <<cooling, codes, sent, contested, chain, budget>>

\* A mistyped code: the copy goes back with one attempt more.
Rewrite(w) ==
    /\ login[w] = "rewrite"
    /\ challenge' = [challenge EXCEPT ![call[w].key] = [call[w].seen EXCEPT !.attempts = @ + 1]]
    /\ Reply(w)
    /\ UNCHANGED <<cooling, codes, sent, contested, chain, budget>>

\* Mutant of Consume: the code is left where it is.
ConsumeNothing(w) ==
    /\ login[w] = "consume"
    /\ Go(w, "account")
    /\ UNCHANGED <<otp, chain, call, budget>>

\* "Consume the challenge before issuing tokens."
Consume(w) ==
    /\ login[w] = "consume"
    /\ challenge' = [challenge EXCEPT ![call[w].key] = NoChallenge]
    /\ Go(w, "account")
    /\ UNCHANGED <<cooling, codes, sent, contested, chain, call, budget>>

\* The account of the challenge is still active under this phone; the update of
\* phoneVerifiedAt and lastLogin follows.
FindAccount(w) ==
    /\ login[w] = "account"
    /\ LET u == call[w].seen.user
       IN  IF Reaches(u, call[w].key)
             THEN call' = [call EXCEPT ![w].user = u] /\ Go(w, "open")
             ELSE Reply(w)
    /\ UNCHANGED <<otp, chain, budget>>

-----------------------------------------------------------------------------
(* Tokens.                                                                  *)

\* generateTokenPair: the new row.  The device gets the token, or never learns
\* of it because the answer is lost.
Hand(d, t) ==
    \/ held' = [held EXCEPT ![d] = t] /\ missed' = missed \ {d}
    \/ UNCHANGED held /\ missed' = missed \union {d}

Unused(t) == token[t].state = "none" /\ t = CHOOSE u \in Tokens : token[u].state = "none"

OpenSession(w) ==
    /\ login[w] = "open"
    /\ \E t \in Tokens :
          /\ Unused(t)
          /\ token' = [token EXCEPT ![t] = [state |-> "live", user |-> call[w].user, root |-> t,
                                            from |-> None, code |-> call[w].code]]
          /\ Hand(call[w].device, t)
    /\ Reply(w)
    /\ UNCHANGED <<otp, budget>>

\* What refreshTokens and getCurrentUserFromRefreshToken ask of a token.
Accepted(t) == Live(t) /\ user[token[t].user].active

\* refreshTokens: the token is found live and its user active.
Refresh(w, d) ==
    /\ held[d] # None
    /\ Accepted(held[d])
    /\ call' = [call EXCEPT ![w].device = d, ![w].token = held[d], ![w].user = token[held[d]].user]
    /\ Go(w, "revoke")
    /\ UNCHANGED <<otp, chain>>

\* Mutant of Revoke: an update by id, whatever the row says.
RevokeById(w) ==
    /\ login[w] = "revoke"
    /\ token' = [token EXCEPT ![call[w].token].state = "revoked"]
    /\ Go(w, "issue")
    /\ UNCHANGED <<otp, held, missed, call, budget>>

\* Mutant of Revoke: a token that comes twice ends the session.
RevokeChain(w) ==
    /\ login[w] = "revoke"
    /\ token' = [t \in Tokens |-> IF Live(t) /\ token[t].root = token[call[w].token].root
                                   THEN [token[t] EXCEPT !.state = "revoked"] ELSE token[t]]
    /\ IF Live(call[w].token) THEN Go(w, "issue") /\ UNCHANGED call ELSE Reply(w)
    /\ UNCHANGED <<otp, held, missed, budget>>

\* updateMany where revokedAt is null; with count 0 the token was used already.
Revoke(w) ==
    /\ login[w] = "revoke"
    /\ IF Live(call[w].token)
         THEN /\ token' = [token EXCEPT ![call[w].token].state = "revoked"]
              /\ Go(w, "issue")
              /\ UNCHANGED call
         ELSE Reply(w) /\ UNCHANGED token
    /\ UNCHANGED <<otp, held, missed, budget>>

\* Mutant of Issue: the device is sent the old token.
IssueKeepOld(w) ==
    /\ login[w] = "issue"
    /\ \E t \in Tokens :
          /\ Unused(t)
          /\ token' = [token EXCEPT ![t] = [token[call[w].token] EXCEPT !.state = "live",
                                                                       !.from = call[w].token]]
          /\ Hand(call[w].device, call[w].token)
    /\ Reply(w)
    /\ UNCHANGED <<otp, budget>>

Issue(w) ==
    /\ login[w] = "issue"
    /\ \E t \in Tokens :
          /\ Unused(t)
          /\ token' = [token EXCEPT ![t] = [token[call[w].token] EXCEPT !.state = "live",
                                                                       !.from = call[w].token]]
          /\ Hand(call[w].device, t)
    /\ Reply(w)
    /\ UNCHANGED <<otp, budget>>

\* logout: the row is read; a token that is not revoked yet is revoked by its
\* id.  The device forgets it.
Logout(w, d) ==
    /\ held[d] # None
    /\ token[held[d]].state # "revoked"
    /\ call' = [call EXCEPT ![w].device = d, ![w].token = held[d]]
    /\ Go(w, "end")
    /\ UNCHANGED <<otp, chain>>

EndSession(w) ==
    /\ login[w] = "end"
    /\ token' = [token EXCEPT ![call[w].token].state = "revoked"]
    /\ held' = [held EXCEPT ![call[w].device] = None]
    /\ Reply(w)
    /\ UNCHANGED <<otp, missed, budget>>

\* logoutAll, by a device whose access token is good: one updateMany.
LogoutAll(d) ==
    /\ Spend("sessions")
    /\ held[d] # None
    /\ LET u == token[held[d]].user
       IN  /\ Authenticated(u)
           /\ token' = [t \in Tokens |-> IF token[t].state \in {"live", "expired"} /\ token[t].user = u
                                          THEN [token[t] EXCEPT !.state = "revoked"] ELSE token[t]]
    /\ UNCHANGED <<otp, held, missed, login, call>>

\* expiresAt passes.
Expire(t) ==
    /\ Live(t)
    /\ token' = [token EXCEPT ![t].state = "expired"]
    /\ UNCHANGED <<otp, held, missed, login, call, budget>>

\* A call is rejected, or the process dies.
BreakOff(w) ==
    /\ login[w] # "idle"
    /\ Spend("deaths")
    /\ Reply(w)
    /\ UNCHANGED <<otp, chain>>

ProceedSessions(w) ==
    \/ FindContact(w) \/ StoreCode(w) \/ Send(w) \/ Cool(w) \/ Uncode(w) \/ Uncool(w)
    \/ ReadCode(w) \/ DropCode(w) \/ Rewrite(w) \/ Consume(w) \/ FindAccount(w) \/ OpenSession(w)
    \/ Revoke(w) \/ Issue(w) \/ EndSession(w)

AskSessions(w) == Start(w) /\ (
    \/ \E k \in Keys : RequestOtp(w, k)
    \/ \E d \in Devices, k \in Keys, n \in 0..codes : VerifyOtp(w, d, k, n)
    \/ \E d \in Devices : Refresh(w, d) \/ Logout(w, d) )

SessionsNext ==
    \/ \E w \in Logins : AskSessions(w) \/ ProceedSessions(w) \/ BreakOff(w)
    \/ \E d \in Devices : LogoutAll(d)
    \/ \E k \in Keys : Lapse(k) \/ Thaw(k)
    \/ \E t \in Tokens : Expire(t)

-----------------------------------------------------------------------------
(* Properties.                                                              *)

Refreshing(w, r) == login[w] = "issue" /\ token[call[w].token].root = r

\* A session goes on: a token of it is live, or a refresh that took the last one
\* is about to create the next.
GoesOn(r) ==
    \/ \E t \in Tokens : token[t].root = r /\ Live(t)
    \/ \E w \in Logins : Refreshing(w, r)

\* A session has at most one live token, and none while a refresh is between
\* revoking the old one and creating the new one, however many refreshes of one
\* token are in flight and wherever they die: each token is exchanged at most
\* once.
OneLiveToken ==
    /\ \A s, t \in Tokens : Live(s) /\ Live(t) /\ token[s].root = token[t].root => s = t
    /\ \A t \in Tokens, w \in Logins : Live(t) => ~Refreshing(w, token[t].root)
    /\ \A s, t \in Tokens : token[s].from # None /\ token[s].from = token[t].from => s = t

\* The device has the live token of its session while the session goes on,
\* unless an answer with a token was lost on the way to it or one of its
\* requests is still under way.
HolderCanRefresh ==
    \A d \in Devices :
        LET t == held[d]
        IN  /\ t # None /\ d \notin missed
            /\ \A w \in Logins : call[w].device # d
            /\ GoesOn(token[t].root)
            => Live(t)

Dies(w) == login[w] = "issue" /\ login[w]' = "idle" /\ budget'.deaths < budget.deaths

\* A session ends by a logout, by the expiry of its token or by a refresh that
\* dies with the token it took.  Deactivating the account does not end it, it only
\* keeps it from being refreshed; closing the school does not even do that.
SessionEndsForAReason ==
    [][ (\E r \in Tokens : GoesOn(r) /\ ~GoesOn(r)') =>
            \/ \E d \in Devices : LogoutAll(d)
            \/ \E t \in Tokens : Expire(t)
            \/ \E w \in Logins : EndSession(w) \/ Dies(w)
      ]_<<accountVars, sessionVars, budget>>

\* A code starts one session, unless two requests had it in hand at once: dying
\* requests, failed deliveries and codes replaced by newer ones included.
CodeStartsOneSession ==
    \A s, t \in Tokens :
        /\ token[s].code # 0 /\ token[s].code = token[t].code
        /\ token[s].root = s /\ token[t].root = t
        /\ token[s].code \notin contested
        => s = t

\* Each session lives as SessionLife says.
Life(r) == IF token[r].root # r THEN "new" ELSE IF GoesOn(r) THEN "open" ELSE "ended"

SessionLifeSpec == INSTANCE SessionLife WITH Sessions <- Tokens, life <- [r \in Tokens |-> Life(r)]

ImplementsSessionLife == SessionLifeSpec!LifeSpec
==============================================================================
