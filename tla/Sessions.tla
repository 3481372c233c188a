------------------------------- MODULE Sessions --------------------------------
(***************************************************************************)
(* The admin account and its session (src/internal/api/auth.go).  Both are *)
(* rows of the settings table: the account is a user name, a password hash *)
(* and the setup_complete flag, the session a token and its expiry.        *)
(*                                                                         *)
(* Handlers hold no lock, so each statement on the table is a step of its  *)
(* own, and each may fail.  Nothing is kept in memory: a crash is the      *)
(* failure of every call in progress.  A call creates at most one session, *)
(* whose token is named by the call.                                       *)
(***************************************************************************)
EXTENDS Naturals, FiniteSets

CONSTANTS
  None,      \* an absent row, no cookie
  People,    \* who may call; a person's password is named like the person
  Changed,   \* the password a change sets
  Calls,     \* calls of the management API
  TTL,       \* sessionTTL
  MaxTime    \* bound on the clock

ASSUME SessionsAssumption ==
  TTL \in Nat \ {0} /\ MaxTime \in Nat /\ Changed \notin People /\ None \notin Calls

VARIABLES
  username, hash, complete,  \* the account
  token, expiry,             \* the session; expiry 0 = no row
  now,
  call,      \* the calls
  wroteAt,   \* history: when each token was stored
  loggedOut, \* history: cookies whose logout was acknowledged
  crossed    \* history: two setups were past their check together

account == <<username, hash, complete>>
session == <<token, expiry>>
history == <<wroteAt, loggedOut, crossed>>
vars    == <<account, session, now, call, history>>

Passwords == People \cup {Changed}
Kind == {"setup", "login", "logout", "password", "use"}
Step == {"idle", "setupCheck", "writeUser", "writeHash", "writeComplete",
         "loginCheck", "readUser", "readHash", "writeToken", "writeExpiry",
         "readToken", "readExpiry", "clearToken", "clearExpiry",
         "readCurrent", "changeHash", "accepted", "refused", "failed"}

(* user and password are what the client typed, cookie the token it sends,  *)
(* until the expiry createSession computed, late whether the cookie was     *)
(* already logged out when the call began.                                  *)
NoCall == [kind |-> None, step |-> "idle", user |-> None, password |-> None, cookie |-> None,
           until |-> 0, late |-> FALSE]

Init ==
  /\ username = None /\ hash = None /\ complete = FALSE
  /\ token = None /\ expiry = 0
  /\ now = 0
  /\ call = [c \in Calls |-> NoCall]
  /\ wroteAt = [c \in Calls |-> 0]
  /\ loggedOut = {}
  /\ crossed = FALSE

-----------------------------------------------------------------------------

At(c, step) == call[c].step = step
Goto(c, step) == call' = [call EXCEPT ![c].step = step]
SettingUp == {c \in Calls : call[c].step \in {"writeUser", "writeHash", "writeComplete"}}

(* The cookies clients hold: a call hands its token out when it succeeds.   *)
Issued == {c \in Calls : At(c, "accepted") /\ call[c].kind \in {"setup", "login"}}

(* A client calls a public endpoint.                                        *)
BeginPublic(c, kind, user, password) ==
  /\ At(c, "idle")
  /\ call' = [call EXCEPT ![c] = [NoCall EXCEPT !.kind = kind, !.user = user, !.password = password,
                !.step = IF kind = "setup" THEN "setupCheck" ELSE "loginCheck"]]
  /\ UNCHANGED <<account, session, now, history>>

(* A client calls an endpoint behind ServeHTTP's authorisation.             *)
BeginPrivate(c, kind, cookie, password) ==
  /\ At(c, "idle")
  /\ call' = [call EXCEPT ![c] = [NoCall EXCEPT !.kind = kind, !.cookie = cookie, !.password = password,
                !.step = "readToken", !.late = cookie \in loggedOut]]
  /\ UNCHANGED <<account, session, now, history>>

(* handleSetup: an account that exists is not replaced.                     *)
SetupCheck(c) ==
  /\ At(c, "setupCheck")
  /\ Goto(c, IF complete THEN "refused" ELSE "writeUser")
  /\ crossed' = (crossed \/ (~complete /\ SettingUp # {}))
  /\ UNCHANGED <<account, session, now, wroteAt, loggedOut>>

(* Mutant: the account counts as complete before its hash is stored.        *)
WriteUserDone(c) ==
  /\ At(c, "writeUser")
  /\ username' = call[c].user /\ complete' = TRUE
  /\ Goto(c, "writeHash")
  /\ UNCHANGED <<hash, session, now, history>>

WriteUser(c) ==
  /\ At(c, "writeUser")
  /\ username' = call[c].user
  /\ Goto(c, "writeHash")
  /\ UNCHANGED <<hash, complete, session, now, history>>

WriteHash(c) ==
  /\ At(c, "writeHash")
  /\ hash' = call[c].password
  /\ Goto(c, "writeComplete")
  /\ UNCHANGED <<username, complete, session, now, history>>

(* createSession computes the expiry, then stores the token.                *)
NewSession(c) == call' = [call EXCEPT ![c].step = "writeToken", ![c].until = now + TTL]

WriteComplete(c) ==
  /\ At(c, "writeComplete")
  /\ complete' = TRUE
  /\ NewSession(c)
  /\ UNCHANGED <<username, hash, session, now, history>>

(* handleLogin.                                                             *)
LoginCheck(c) ==
  /\ At(c, "loginCheck")
  /\ Goto(c, IF complete THEN "readUser" ELSE "refused")
  /\ UNCHANGED <<account, session, now, history>>

(* The name is compared after both reads; a call with a wrong one ends here *)
(* as it would there.                                                       *)
ReadUser(c) ==
  /\ At(c, "readUser")
  /\ Goto(c, IF username = call[c].user THEN "readHash" ELSE "refused")
  /\ UNCHANGED <<account, session, now, history>>

ReadHash(c) ==
  /\ At(c, "readHash")
  /\ IF hash = call[c].password THEN NewSession(c) ELSE Goto(c, "refused")
  /\ UNCHANGED <<account, session, now, history>>

WriteToken(c) ==
  /\ At(c, "writeToken")
  /\ token' = c
  /\ wroteAt' = [wroteAt EXCEPT ![c] = now]
  /\ Goto(c, "writeExpiry")
  /\ UNCHANGED <<account, expiry, now, loggedOut, crossed>>

(* Mutant: the expiry is computed when it is stored.                        *)
WriteExpiryFromNow(c) ==
  /\ At(c, "writeExpiry")
  /\ expiry' = now + TTL
  /\ Goto(c, "accepted")
  /\ UNCHANGED <<account, token, now, history>>

WriteExpiry(c) ==
  /\ At(c, "writeExpiry")
  /\ expiry' = call[c].until
  /\ Goto(c, "accepted")
  /\ UNCHANGED <<account, token, now, history>>

-----------------------------------------------------------------------------

(* isAuthenticated.                                                         *)
ReadToken(c) ==
  /\ At(c, "readToken")
  /\ Goto(c, IF token = call[c].cookie THEN "readExpiry" ELSE "refused")
  /\ UNCHANGED <<account, session, now, history>>

(* A missing expiry refuses; one in the past clears the session and then    *)
(* refuses; otherwise the handler of the endpoint runs.                     *)
Authorized(c) ==
  Goto(c, CASE call[c].kind = "logout" -> "clearToken"
            [] call[c].kind = "password" -> "readCurrent"
            [] OTHER -> "accepted")

ReadExpiry(c) ==
  /\ At(c, "readExpiry")
  /\ \/ expiry = 0 /\ Goto(c, "refused")
     \/ expiry > now /\ Authorized(c)
     \/ /\ 0 < expiry /\ expiry <= now
        /\ call' = [call EXCEPT ![c].step = "clearToken", ![c].kind = "use"]
  /\ UNCHANGED <<account, session, now, history>>

(* Mutant: logging out only takes the cookie back.                          *)
ClearCookie(c) ==
  /\ At(c, "clearToken")
  /\ token' = IF call[c].kind = "logout" THEN token ELSE None
  /\ Goto(c, "clearExpiry")
  /\ UNCHANGED <<account, expiry, now, history>>

(* clearSession and clearExpiredSession delete what is stored by then.      *)
ClearToken(c) ==
  /\ At(c, "clearToken")
  /\ token' = None
  /\ Goto(c, "clearExpiry")
  /\ UNCHANGED <<account, expiry, now, history>>

ClearExpiry(c) ==
  /\ At(c, "clearExpiry")
  /\ expiry' = 0
  /\ Goto(c, IF call[c].kind = "logout" THEN "accepted" ELSE "refused")
  /\ loggedOut' = IF call[c].kind = "logout" THEN loggedOut \cup {call[c].cookie} ELSE loggedOut
  /\ UNCHANGED <<account, token, now, wroteAt, crossed>>

(* handlePasswordChange.                                                    *)
ReadCurrent(c) ==
  /\ At(c, "readCurrent")
  /\ Goto(c, IF hash = call[c].password THEN "changeHash" ELSE "refused")
  /\ UNCHANGED <<account, session, now, history>>

ChangeHash(c) ==
  /\ At(c, "changeHash")
  /\ hash' = Changed
  /\ Goto(c, "accepted")
  /\ UNCHANGED <<username, complete, session, now, history>>

(* The statement fails, or the process dies: what was written stays.        *)
FailStep(c) ==
  /\ call[c].step \notin {"idle", "accepted", "refused", "failed"}
  /\ Goto(c, "failed")
  /\ UNCHANGED <<account, session, now, history>>

Tick == now < MaxTime /\ now' = now + 1 /\ UNCHANGED <<account, session, call, history>>

Next ==
  \/ \E c \in Calls :
       \/ \E p \in People : BeginPublic(c, "setup", p, p)
       \/ \E p \in People : \E pw \in {p, Changed} : BeginPublic(c, "login", p, pw)
       \/ \E kind \in {"logout", "use"}, cookie \in Issued : BeginPrivate(c, kind, cookie, None)
       \/ \E cookie \in Issued, pw \in Passwords : BeginPrivate(c, "password", cookie, pw)
       \/ SetupCheck(c) \/ WriteUser(c) \/ WriteHash(c) \/ WriteComplete(c)
       \/ LoginCheck(c) \/ ReadUser(c) \/ ReadHash(c) \/ WriteToken(c) \/ WriteExpiry(c)
       \/ ReadToken(c) \/ ReadExpiry(c) \/ ClearToken(c) \/ ClearExpiry(c)
       \/ ReadCurrent(c) \/ ChangeHash(c) \/ FailStep(c)
  \/ Tick

Spec == Init /\ [][Next]_vars

-----------------------------------------------------------------------------

TypeOK ==
  /\ username \in People \cup {None}
  /\ hash \in Passwords \cup {None}
  /\ complete \in BOOLEAN
  /\ token \in Calls \cup {None}
  /\ expiry \in 0 .. MaxTime + TTL
  /\ now \in 0 .. MaxTime
  /\ \A c \in Calls : /\ call[c].kind \in Kind \cup {None}
                      /\ call[c].step \in Step
                      /\ call[c].cookie \in Calls \cup {None}
                      /\ call[c].until \in 0 .. MaxTime + TTL
  /\ wroteAt \in [Calls -> 0 .. MaxTime]
  /\ loggedOut \subseteq Calls
  /\ crossed \in BOOLEAN

(* Whatever two logins write in whatever order, and whichever write fails,  *)
(* the stored token is accepted no longer than 24 hours after it was stored. *)
SessionIsBounded == TypeOK /\ (token # None => expiry <= wroteAt[token] + TTL)

(* After a logout was acknowledged no call that begins with that cookie is  *)
(* let in, whatever logins and checks run beside the logout.                *)
LoggedOutStaysOut ==
  \A c \in Calls : call[c].late => call[c].step \in {"readToken", "refused", "failed"}

(* Setups that do not cross leave the name and the password of one person   *)
(* or the password it was changed to, however often a setup failed halfway. *)
AccountIsOnePersons ==
  complete /\ ~crossed => hash \in {username, Changed}

(* One setup creates the account: every other one is told that it exists.   *)
OneSetup ==
  Cardinality({c \in Calls : call[c].kind = "setup" /\ At(c, "accepted")}) <= 1

(* A session that was handed out lasts until it expires, is logged out or   *)
(* is replaced by the next one.                                             *)
SessionLasts ==
  [][\A c \in Calls :
       token = c /\ token' = None /\ At(c, "accepted") /\ now < wroteAt[c] + TTL
       => \E d \in Calls : call[d].kind = "logout" /\ At(d, "clearToken")]_vars

=============================================================================
