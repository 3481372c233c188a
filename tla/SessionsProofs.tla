---------------------------- MODULE SessionsProofs -----------------------------
(***************************************************************************)
(* Theorems about Sessions, for any number of calls and people, any time   *)
(* to live and any horizon of the clock.                                   *)
(***************************************************************************)
EXTENDS Sessions, TLAPS

Call == [kind : Kind \cup {None}, step : Step, user : People \cup {None},
         password : Passwords \cup {None}, cookie : Calls \cup {None},
         until : 0 .. MaxTime + TTL, late : BOOLEAN]

Types ==
  /\ username \in People \cup {None}
  /\ hash \in Passwords \cup {None}
  /\ complete \in BOOLEAN
  /\ token \in Calls \cup {None}
  /\ expiry \in 0 .. MaxTime + TTL
  /\ now \in 0 .. MaxTime
  /\ call \in [Calls -> Call]
  /\ wroteAt \in [Calls -> 0 .. MaxTime]
  /\ loggedOut \subseteq Calls
  /\ crossed \in BOOLEAN

(* The steps and kinds by name, so that the proofs need not expand the sets. *)
LEMMA Names ==
  /\ \A s \in {"idle", "setupCheck", "writeUser", "writeHash", "writeComplete", "loginCheck",
             "readUser", "readHash", "writeToken", "writeExpiry"} : s \in Step
  /\ \A s \in {"readToken", "readExpiry", "clearToken", "clearExpiry", "readCurrent", "changeHash",
             "accepted", "refused", "failed"} : s \in Step
  /\ {"setup", "login", "logout", "password", "use"} = Kind
BY DEF Step, Kind

LEMMA NoCallType == NoCall \in Call
<1>1. 0 \in 0 .. MaxTime + TTL
  BY SessionsAssumption
<1> QED BY <1>1, Names DEF Call, NoCall

(* What the steps do to the record of their call keeps its type.            *)
LEMMA CallUpdates ==
  ASSUME call \in [Calls -> Call], NEW c \in Calls
  PROVE  /\ \A s \in Step : [call EXCEPT ![c].step = s] \in [Calls -> Call]
         /\ \A s \in Step, u \in 0 .. MaxTime + TTL :
              [call EXCEPT ![c].step = s, ![c].until = u] \in [Calls -> Call]
         /\ \A s \in Step, k \in Kind :
              [call EXCEPT ![c].step = s, ![c].kind = k] \in [Calls -> Call]
         /\ \A x \in Call : [call EXCEPT ![c] = x] \in [Calls -> Call]
BY DEF Call

LEMMA TypesInit == Init => Types
<1> SUFFICES ASSUME Init PROVE Types
  OBVIOUS
<1>1. 0 \in 0 .. MaxTime + TTL /\ 0 \in 0 .. MaxTime
  BY SessionsAssumption
<1> QED BY <1>1, NoCallType DEF Init, Types

(* Every step but the two that begin a call changes the record of one call, *)
(* in its place and perhaps in its kind or expiry.                          *)
LEMMA CallNext ==
  ASSUME Types, NEW c \in Calls,
         \/ SetupCheck(c) \/ WriteUser(c) \/ WriteHash(c) \/ WriteComplete(c)
         \/ LoginCheck(c) \/ ReadUser(c) \/ ReadHash(c) \/ WriteToken(c) \/ WriteExpiry(c)
         \/ ReadToken(c) \/ ReadExpiry(c) \/ ClearToken(c) \/ ClearExpiry(c)
         \/ ReadCurrent(c) \/ ChangeHash(c) \/ FailStep(c)
  PROVE  call' \in [Calls -> Call]
<1> USE Names DEF Types
<1>1. now + TTL \in 0 .. MaxTime + TTL
  BY SessionsAssumption
<1>2. CASE SetupCheck(c)
  BY <1>2, CallUpdates DEF SetupCheck, Goto
<1>3. CASE WriteUser(c)
  BY <1>3, CallUpdates DEF WriteUser, Goto
<1>4. CASE WriteHash(c)
  BY <1>4, CallUpdates DEF WriteHash, Goto
<1>5. CASE WriteComplete(c)
  BY <1>1, <1>5, CallUpdates DEF WriteComplete, NewSession
<1>6. CASE LoginCheck(c)
  BY <1>6, CallUpdates DEF LoginCheck, Goto
<1>7. CASE ReadUser(c)
  BY <1>7, CallUpdates DEF ReadUser, Goto
<1>8. CASE ReadHash(c)
  <2>1. CASE NewSession(c)
    BY <1>1, <2>1, CallUpdates DEF NewSession
  <2>2. CASE Goto(c, "refused")
    BY <2>2, CallUpdates DEF Goto
  <2> QED BY <1>8, <2>1, <2>2 DEF ReadHash
<1>9. CASE WriteToken(c)
  BY <1>9, CallUpdates DEF WriteToken, Goto
<1>10. CASE WriteExpiry(c)
  BY <1>10, CallUpdates DEF WriteExpiry, Goto
<1>11. CASE ReadToken(c)
  BY <1>11, CallUpdates DEF ReadToken, Goto
<1>12. CASE ReadExpiry(c)
  <2>1. CASE Goto(c, "refused")
    BY <2>1, CallUpdates DEF Goto
  <2>2. CASE Authorized(c)
    BY <2>2, CallUpdates DEF Authorized, Goto
  <2>3. CASE call' = [call EXCEPT ![c].step = "clearToken", ![c].kind = "use"]
    BY <2>3, CallUpdates
  <2> QED BY <1>12, <2>1, <2>2, <2>3 DEF ReadExpiry
<1>13. CASE ClearToken(c)
  BY <1>13, CallUpdates DEF ClearToken, Goto
<1>14. CASE ClearExpiry(c)
  BY <1>14, CallUpdates DEF ClearExpiry, Goto
<1>15. CASE ReadCurrent(c)
  BY <1>15, CallUpdates DEF ReadCurrent, Goto
<1>16. CASE ChangeHash(c)
  BY <1>16, CallUpdates DEF ChangeHash, Goto
<1>17. CASE FailStep(c)
  BY <1>17, CallUpdates DEF FailStep, Goto
<1> QED
  BY <1>2, <1>3, <1>4, <1>5, <1>6, <1>7, <1>8, <1>9, <1>10, <1>11, <1>12, <1>13, <1>14, <1>15, <1>16, <1>17

LEMMA BeginPublicType ==
  ASSUME Types, NEW c \in Calls, NEW kind \in {"setup", "login"}, NEW p \in People,
         NEW pw \in Passwords, BeginPublic(c, kind, p, pw)
  PROVE  call' \in [Calls -> Call]
<1>1. [NoCall EXCEPT !.kind = kind, !.user = p, !.password = pw,
         !.step = IF kind = "setup" THEN "setupCheck" ELSE "loginCheck"] \in Call
  BY NoCallType, Names DEF Call
<1> QED BY <1>1, CallUpdates DEF BeginPublic, Types

LEMMA BeginPrivateType ==
  ASSUME Types, NEW c \in Calls, NEW kind \in {"logout", "use", "password"}, NEW cookie \in Calls,
         NEW pw \in Passwords \cup {None}, BeginPrivate(c, kind, cookie, pw)
  PROVE  call' \in [Calls -> Call]
<1>1. [NoCall EXCEPT !.kind = kind, !.cookie = cookie, !.password = pw,
         !.step = "readToken", !.late = cookie \in loggedOut] \in Call
  <2>1. (cookie \in loggedOut) \in BOOLEAN
    OBVIOUS
  <2> QED BY <2>1, NoCallType, Names DEF Call
<1> QED BY <1>1, CallUpdates DEF BeginPrivate, Types

(* What a step leaves of the calls.                                         *)
Kept(c) == /\ call'[c].user = call[c].user /\ call'[c].password = call[c].password
           /\ call'[c].cookie = call[c].cookie /\ call'[c].late = call[c].late
           /\ \A d \in Calls : d # c => call'[d] = call[d]

LEMMA GotoKeeps ==
  ASSUME Types, NEW c \in Calls, NEW s, Goto(c, s)
  PROVE  Kept(c) /\ call'[c].step = s /\ call'[c].kind = call[c].kind /\ call'[c].until = call[c].until
BY DEF Types, Call, Goto, Kept

LEMMA NewSessionKeeps ==
  ASSUME Types, NEW c \in Calls, NewSession(c)
  PROVE  Kept(c) /\ call'[c].step = "writeToken" /\ call'[c].kind = call[c].kind /\ call'[c].until = now + TTL
BY DEF Types, Call, NewSession, Kept

LEMMA ExpireKeeps ==
  ASSUME Types, NEW c \in Calls, call' = [call EXCEPT ![c].step = "clearToken", ![c].kind = "use"]
  PROVE  Kept(c) /\ call'[c].step = "clearToken" /\ call'[c].kind = "use" /\ call'[c].until = call[c].until
BY DEF Types, Call, Kept

LEMMA TypesNext ==
  ASSUME Types, [Next]_vars,
         \A c \in Calls : call[c].step # "idle" /\ call[c].kind = "logout" => call[c].cookie \in Calls
  PROVE  Types'
<1> USE SessionsAssumption DEF account, session, history
<1>1. ASSUME NEW c \in Calls, NEW kind \in {"setup", "login"}, NEW p \in People,
             NEW pw \in Passwords, BeginPublic(c, kind, p, pw)
      PROVE  Types'
  BY <1>1, BeginPublicType DEF BeginPublic, Types
<1>2. ASSUME NEW c \in Calls, NEW kind \in {"logout", "use", "password"}, NEW cookie \in Calls,
             NEW pw \in Passwords \cup {None}, BeginPrivate(c, kind, cookie, pw)
      PROVE  Types'
  BY <1>2, BeginPrivateType DEF BeginPrivate, Types
<1>3. ASSUME NEW c \in Calls,
             \/ SetupCheck(c) \/ LoginCheck(c) \/ ReadUser(c) \/ ReadHash(c) \/ ReadToken(c)
             \/ ReadExpiry(c) \/ ReadCurrent(c) \/ FailStep(c)
      PROVE  Types'
  <2>1. UNCHANGED <<account, session, now, wroteAt, loggedOut>> /\ crossed' \in BOOLEAN
    BY <1>3 DEF SetupCheck, LoginCheck, ReadUser, ReadHash, ReadToken, ReadExpiry, ReadCurrent, FailStep, Types
  <2> QED BY <1>3, <2>1, CallNext DEF Types
<1>4. ASSUME NEW c \in Calls, WriteUser(c) \/ WriteHash(c) \/ WriteComplete(c) \/ ChangeHash(c)
      PROVE  Types'
  <2>1. call[c].user \in People \cup {None} /\ call[c].password \in Passwords \cup {None}
    BY DEF Types, Call
  <2>2. /\ username' \in People \cup {None} /\ hash' \in Passwords \cup {None} /\ complete' \in BOOLEAN
        /\ UNCHANGED <<session, now, history>>
    BY <1>4, <2>1 DEF WriteUser, WriteHash, WriteComplete, ChangeHash, Types, Passwords
  <2> QED BY <1>4, <2>2, CallNext DEF Types
<1>5. ASSUME NEW c \in Calls, WriteToken(c) \/ WriteExpiry(c) \/ ClearToken(c) \/ ClearExpiry(c)
      PROVE  Types'
  <2>1. call[c].until \in 0 .. MaxTime + TTL /\ 0 \in 0 .. MaxTime + TTL
    BY DEF Types, Call
  <2>2. /\ token' \in Calls \cup {None} /\ expiry' \in 0 .. MaxTime + TTL
        /\ wroteAt' \in [Calls -> 0 .. MaxTime] /\ loggedOut' \subseteq Calls
        /\ UNCHANGED <<account, now, crossed>>
    BY <1>5, <2>1 DEF WriteToken, WriteExpiry, ClearToken, ClearExpiry, At, Types
  <2> QED BY <1>5, <2>2, CallNext DEF Types
<1>6. CASE Tick
  BY <1>6 DEF Tick, Types
<1>7. CASE UNCHANGED vars
  BY <1>7 DEF vars, Types
<1> QED
  BY <1>1, <1>2, <1>3, <1>4, <1>5, <1>6, <1>7 DEF Next, Passwords, Issued

(* The session a token names is not accepted for longer than TTL after the  *)
(* token was stored: the expiry in the table, and each expiry a login is    *)
(* about to write, was computed before its own token was stored, and no     *)
(* token was stored after the one in the table.                             *)
ExpiryInv ==
  /\ expiry <= now + TTL
  /\ \A c \in Calls : wroteAt[c] <= now
  /\ \A c \in Calls : call[c].step = "writeToken" => call[c].until <= now + TTL
  /\ \A c \in Calls : call[c].step = "writeExpiry" => call[c].until <= wroteAt[c] + TTL
  /\ token # None => /\ expiry <= wroteAt[token] + TTL
                     /\ \A c \in Calls : wroteAt[c] <= wroteAt[token]

LEMMA ExpiryInvNext == Types /\ Types' /\ ExpiryInv /\ [Next]_vars => ExpiryInv'
<1> SUFFICES ASSUME Types, Types', ExpiryInv, [Next]_vars PROVE ExpiryInv'
  OBVIOUS
<1> USE SessionsAssumption DEF account, session, history
<1>0. now \in Nat /\ TTL \in Nat /\ expiry \in Nat /\ \A c \in Calls : wroteAt[c] \in Nat /\ call[c].until \in Nat
  BY DEF Types, Call
<1>1. ASSUME NEW c \in Calls, UNCHANGED <<session, now, wroteAt>>,
             \A d \in Calls : d # c => call'[d] = call[d],
             call'[c].step # "writeExpiry",
             call'[c].step = "writeToken" => call'[c].until <= now + TTL
      PROVE  ExpiryInv'
  BY <1>0, <1>1 DEF ExpiryInv
<1>2. ASSUME NEW c \in Calls, NEW kind, NEW p, NEW pw, BeginPublic(c, kind, p, pw) PROVE ExpiryInv'
  BY <1>1, <1>2 DEF BeginPublic, NoCall, Types
<1>3. ASSUME NEW c \in Calls, NEW kind, NEW cookie, NEW pw, BeginPrivate(c, kind, cookie, pw) PROVE ExpiryInv'
  BY <1>1, <1>3 DEF BeginPrivate, NoCall, Types
<1>4. ASSUME NEW c \in Calls, SetupCheck(c) \/ WriteUser(c) \/ WriteHash(c) \/ LoginCheck(c) \/ ReadUser(c)
      PROVE  ExpiryInv'
  BY <1>1, <1>4, GotoKeeps DEF Kept, SetupCheck, WriteUser, WriteHash, LoginCheck, ReadUser
<1>5. ASSUME NEW c \in Calls, WriteComplete(c) \/ ReadHash(c) PROVE ExpiryInv'
  BY <1>0, <1>1, <1>5, GotoKeeps, NewSessionKeeps DEF Kept, WriteComplete, ReadHash
<1>6. ASSUME NEW c \in Calls, ReadToken(c) \/ ReadCurrent(c) \/ ChangeHash(c) \/ FailStep(c) PROVE ExpiryInv'
  BY <1>1, <1>6, GotoKeeps DEF Kept, ReadToken, ReadCurrent, ChangeHash, FailStep
<1>7. ASSUME NEW c \in Calls, ReadExpiry(c) PROVE ExpiryInv'
  BY <1>1, <1>7, GotoKeeps, ExpireKeeps DEF Kept, ReadExpiry, Authorized
<1>8. ASSUME NEW c \in Calls, WriteToken(c) PROVE ExpiryInv'
  <2>1. call'[c].step = "writeExpiry" /\ call'[c].until = call[c].until /\ Kept(c)
    BY <1>8, GotoKeeps DEF WriteToken
  <2>2. wroteAt'[c] = now /\ \A d \in Calls : d # c => wroteAt'[d] = wroteAt[d]
    BY <1>8 DEF WriteToken, Types
  <2>3. token' = c /\ UNCHANGED <<expiry, now>> /\ call[c].step = "writeToken"
    BY <1>8 DEF WriteToken, At
  <2> QED BY <1>0, <2>1, <2>2, <2>3 DEF ExpiryInv, Kept
<1>9. ASSUME NEW c \in Calls, WriteExpiry(c) PROVE ExpiryInv'
  <2>1. call'[c].step = "accepted" /\ Kept(c)
    BY <1>9, GotoKeeps DEF WriteExpiry
  <2>2. expiry' = call[c].until /\ UNCHANGED <<token, now, wroteAt>> /\ call[c].until <= wroteAt[c] + TTL
    BY <1>9 DEF WriteExpiry, At, ExpiryInv
  <2>3. token \in Calls \cup {None}
    BY DEF Types
  <2> QED BY <1>0, <2>1, <2>2, <2>3 DEF ExpiryInv, Kept
<1>10. ASSUME NEW c \in Calls, ClearToken(c) PROVE ExpiryInv'
  BY <1>10, GotoKeeps DEF ClearToken, ExpiryInv, Kept
<1>11. ASSUME NEW c \in Calls, ClearExpiry(c) PROVE ExpiryInv'
  <2>1. call'[c].step \notin {"writeToken", "writeExpiry"} /\ Kept(c)
    BY <1>11, GotoKeeps DEF ClearExpiry
  <2>2. expiry' = 0 /\ UNCHANGED <<token, now, wroteAt>> /\ token \in Calls \cup {None}
    BY <1>11 DEF ClearExpiry, Types
  <2> QED BY <1>0, <2>1, <2>2 DEF ExpiryInv, Kept
<1>12. CASE Tick
  BY <1>0, <1>12 DEF Tick, ExpiryInv
<1>13. CASE UNCHANGED vars
  BY <1>13 DEF vars, ExpiryInv
<1> QED
  BY <1>2, <1>3, <1>4, <1>5, <1>6, <1>7, <1>8, <1>9, <1>10, <1>11, <1>12, <1>13 DEF Next

(* A setup that did not cross another one is the only one past its check,   *)
(* and what it has written is still there.                                  *)
SetupInv ==
  /\ \A c \in Calls : call[c].kind = "setup" => call[c].password = call[c].user
  /\ \A c \in Calls : call[c].step \in {"setupCheck", "writeUser", "writeHash", "writeComplete"} =>
       call[c].kind = "setup"
  /\ ~crossed =>
       /\ \A c, d \in SettingUp : c = d
       /\ SettingUp # {} => ~complete
       /\ \A c \in Calls :
            /\ call[c].step \in {"writeHash", "writeComplete"} => username = call[c].user
            /\ call[c].step = "writeComplete" => hash \in {username, Changed}
       /\ complete => hash \in {username, Changed}

LEMMA SetupInvNext == Types /\ SetupInv /\ [Next]_vars => SetupInv'
<1> SUFFICES ASSUME Types, SetupInv, [Next]_vars PROVE SetupInv'
  OBVIOUS
<1> USE DEF account, session, history
(* A call that is no setup past its check, before or after the step.        *)
<1>1. ASSUME NEW c \in Calls, UNCHANGED <<account, crossed>>,
             \A d \in Calls : d # c => call'[d] = call[d],
             c \notin SettingUp, call'[c].step \notin {"writeUser", "writeHash", "writeComplete"},
             call'[c].kind = "setup" => call'[c].password = call'[c].user,
             call'[c].step = "setupCheck" => call'[c].kind = "setup"
      PROVE  SetupInv'
  BY <1>1 DEF SetupInv, SettingUp
<1>2. ASSUME NEW c \in Calls, NEW kind \in {"setup", "login"}, NEW p, NEW pw, kind = "setup" => p = pw,
             BeginPublic(c, kind, p, pw)
      PROVE  SetupInv'
  BY <1>1, <1>2 DEF BeginPublic, NoCall, At, SettingUp, Types
<1>3. ASSUME NEW c \in Calls, NEW kind \in {"logout", "use", "password"}, NEW cookie, NEW pw,
             BeginPrivate(c, kind, cookie, pw)
      PROVE  SetupInv'
  BY <1>1, <1>3 DEF BeginPrivate, NoCall, At, SettingUp, Types
<1>4. ASSUME NEW c \in Calls,
             LoginCheck(c) \/ ReadUser(c) \/ ReadToken(c) \/ ReadCurrent(c)
      PROVE  SetupInv'
  <2>1. /\ UNCHANGED <<account, crossed>> /\ Kept(c) /\ call'[c].kind = call[c].kind
        /\ call'[c].step \in {"readUser", "readHash", "refused", "readExpiry", "changeHash"}
        /\ c \notin SettingUp
    BY <1>4, GotoKeeps DEF LoginCheck, ReadUser, ReadToken, ReadCurrent, At, SettingUp
  <2> QED BY <1>1, <2>1 DEF Kept, SetupInv
<1>5. ASSUME NEW c \in Calls, ReadHash(c) PROVE SetupInv'
  <2>1. /\ UNCHANGED <<account, crossed>> /\ Kept(c) /\ call'[c].kind = call[c].kind
        /\ call'[c].step \in {"writeToken", "refused"} /\ c \notin SettingUp
    BY <1>5, GotoKeeps, NewSessionKeeps DEF ReadHash, At, SettingUp
  <2> QED BY <1>1, <2>1 DEF Kept, SetupInv
<1>6. ASSUME NEW c \in Calls, ReadExpiry(c) PROVE SetupInv'
  <2>1. /\ UNCHANGED <<account, crossed>> /\ Kept(c) /\ call'[c].kind \in {call[c].kind, "use"}
        /\ call'[c].step \in {"refused", "clearToken", "readCurrent", "accepted"} /\ c \notin SettingUp
    BY <1>6, GotoKeeps, ExpireKeeps DEF ReadExpiry, Authorized, At, SettingUp
  <2> QED BY <1>1, <2>1 DEF Kept, SetupInv
<1>7. ASSUME NEW c \in Calls, WriteToken(c) \/ WriteExpiry(c) \/ ClearToken(c) \/ ClearExpiry(c)
      PROVE  SetupInv'
  <2>1. /\ UNCHANGED <<account, crossed>> /\ Kept(c) /\ call'[c].kind = call[c].kind
        /\ call'[c].step \in {"writeExpiry", "accepted", "clearExpiry", "refused"} /\ c \notin SettingUp
    BY <1>7, GotoKeeps DEF WriteToken, WriteExpiry, ClearToken, ClearExpiry, At, SettingUp
  <2> QED BY <1>1, <2>1 DEF Kept, SetupInv
<1>8. ASSUME NEW c \in Calls, FailStep(c) PROVE SetupInv'
  <2>1. /\ UNCHANGED <<account, crossed>> /\ Kept(c) /\ call'[c].kind = call[c].kind
        /\ call'[c].step = "failed"
    BY <1>8, GotoKeeps DEF FailStep
  <2> QED BY <2>1 DEF Kept, SetupInv, SettingUp
<1>9. ASSUME NEW c \in Calls, ChangeHash(c) PROVE SetupInv'
  <2>1. /\ UNCHANGED <<username, complete, crossed>> /\ hash' = Changed
        /\ Kept(c) /\ call'[c].kind = call[c].kind /\ call'[c].step = "accepted"
    BY <1>9, GotoKeeps DEF ChangeHash
  <2> QED BY <2>1 DEF Kept, SetupInv, SettingUp
<1>10. ASSUME NEW c \in Calls, SetupCheck(c) PROVE SetupInv'
  <2>1. /\ UNCHANGED account /\ Kept(c) /\ call'[c].kind = call[c].kind
        /\ call'[c].step = IF complete THEN "refused" ELSE "writeUser"
        /\ crossed' = (crossed \/ (~complete /\ SettingUp # {}))
        /\ c \notin SettingUp /\ call[c].kind = "setup"
    BY <1>10, GotoKeeps DEF SetupCheck, At, SettingUp, SetupInv
  <2>2. CASE complete
    <3>1. crossed' = crossed /\ call'[c].step = "refused"
      BY <2>1, <2>2 DEF Types
    <3>2. call'[c].password = call'[c].user /\ \A d \in Calls : d # c => call'[d] = call[d]
      BY <2>1 DEF Kept, SetupInv
    <3> QED BY <1>1, <2>1, <3>1, <3>2
  <2>3. CASE ~complete
    <3>1. SettingUp' = SettingUp \cup {c}
      BY <2>1, <2>3 DEF SettingUp, Kept
    <3>2. ~crossed' => ~crossed /\ SettingUp' = {c}
      BY <2>1, <2>3, <3>1
    <3>3. /\ \A d \in Calls : call'[d].kind = call[d].kind
          /\ \A d \in Calls : call'[d].password = call[d].password /\ call'[d].user = call[d].user
          /\ \A d \in Calls : call'[d].step = IF d = c THEN "writeUser" ELSE call[d].step
      BY <2>1, <2>3 DEF Kept
    <3>4. ~crossed' => /\ \A d, e \in SettingUp' : d = e
                       /\ SettingUp' # {} => ~complete'
                       /\ complete' => hash' \in {username', Changed}
      BY <2>1, <2>3, <3>2
    <3>5. ~crossed' => \A d \in Calls : call'[d].step \notin {"writeHash", "writeComplete"}
      BY <3>2, <3>3 DEF SettingUp
    <3> QED BY <2>1, <3>3, <3>4, <3>5 DEF SetupInv
  <2> QED BY <2>2, <2>3
<1>11. ASSUME NEW c \in Calls, WriteUser(c) \/ WriteHash(c) PROVE SetupInv'
  <2>1. /\ Kept(c) /\ call'[c].kind = call[c].kind /\ UNCHANGED <<complete, crossed>>
        /\ call[c].kind = "setup" /\ c \in SettingUp
    BY <1>11, GotoKeeps DEF WriteUser, WriteHash, At, SetupInv, SettingUp
  <2>2. CASE WriteUser(c)
    <3>1. call'[c].step = "writeHash" /\ username' = call[c].user /\ hash' = hash
      BY <2>2, GotoKeeps DEF WriteUser
    <3> QED BY <2>1, <3>1 DEF Kept, SetupInv, SettingUp
  <2>3. CASE WriteHash(c)
    <3>1. /\ call'[c].step = "writeComplete" /\ username' = username /\ hash' = call[c].password
          /\ call[c].step = "writeHash"
      BY <2>3, GotoKeeps DEF WriteHash, At
    <3> QED BY <2>1, <3>1 DEF Kept, SetupInv, SettingUp
  <2> QED BY <1>11, <2>2, <2>3
<1>12. ASSUME NEW c \in Calls, WriteComplete(c) PROVE SetupInv'
  <2>1. /\ Kept(c) /\ call'[c].kind = call[c].kind /\ UNCHANGED <<username, hash, crossed>>
        /\ call'[c].step = "writeToken" /\ complete' = TRUE
        /\ call[c].step = "writeComplete" /\ c \in SettingUp
    BY <1>12, NewSessionKeeps DEF WriteComplete, At, SettingUp
  <2> QED BY <2>1 DEF Kept, SetupInv, SettingUp
<1>13. CASE Tick \/ UNCHANGED vars
  BY <1>13 DEF Tick, vars, SetupInv, SettingUp
<1> QED
  BY <1>2, <1>3, <1>4, <1>5, <1>6, <1>7, <1>8, <1>9, <1>10, <1>11, <1>12, <1>13 DEF Next

(* A cookie belongs to a call that has ended; once its logout has taken the *)
(* token out of the table nothing puts it back.                             *)
CookieInv ==
  /\ \A c \in Calls : call[c].step # "idle" /\ call[c].kind \in {"logout", "password"} =>
       call[c].cookie \in Issued
  /\ \A c \in Calls : call[c].kind = "logout" /\ call[c].step = "clearExpiry" => token # call[c].cookie
  /\ loggedOut \subseteq Issued
  /\ token \notin loggedOut
  /\ \A c \in Calls : call[c].late =>
       call[c].cookie \in loggedOut /\ call[c].step \in {"readToken", "refused", "failed"}

LEMMA CookieInvNext == Types /\ CookieInv /\ [Next]_vars => CookieInv'
<1> SUFFICES ASSUME Types, CookieInv, [Next]_vars PROVE CookieInv'
  OBVIOUS
<1> USE DEF account, session, history
<1>0. None \notin Calls
  BY SessionsAssumption
(* A call that neither begins, touches the token nor ends a logout.         *)
<1>1. ASSUME NEW c \in Calls, UNCHANGED <<token, loggedOut>>, Kept(c),
             c \notin Issued, call[c].step # "idle",
             call'[c].kind \in {call[c].kind, "use"},
             call[c].late => call'[c].step \in {"refused", "failed"},
             ~(call'[c].kind = "logout" /\ call'[c].step = "clearExpiry")
      PROVE  CookieInv'
  BY <1>1 DEF CookieInv, Issued, Kept, At
<1>2. ASSUME NEW c \in Calls, NEW kind \in {"setup", "login"}, NEW p, NEW pw, BeginPublic(c, kind, p, pw)
      PROVE  CookieInv'
  <2>1. /\ call'[c].kind = kind /\ call'[c].step \in {"setupCheck", "loginCheck"} /\ ~call'[c].late
        /\ \A d \in Calls : d # c => call'[d] = call[d]
        /\ UNCHANGED <<token, loggedOut>> /\ c \notin Issued
    BY <1>2 DEF BeginPublic, NoCall, At, Types, Issued
  <2> QED BY <2>1 DEF CookieInv, Issued, At
<1>3. ASSUME NEW c \in Calls, NEW kind \in {"logout", "use", "password"}, NEW cookie \in Issued, NEW pw,
             BeginPrivate(c, kind, cookie, pw)
      PROVE  CookieInv'
  <2>1. /\ call'[c].kind = kind /\ call'[c].step = "readToken" /\ call'[c].cookie = cookie
        /\ call'[c].late = (cookie \in loggedOut)
        /\ \A d \in Calls : d # c => call'[d] = call[d]
        /\ UNCHANGED <<token, loggedOut>> /\ c \notin Issued
    BY <1>3 DEF BeginPrivate, NoCall, At, Types, Issued
  <2>2. Issued' = Issued
    BY <2>1 DEF Issued, At
  <2>3. call'[c].late => call'[c].cookie \in loggedOut
    BY <2>1
  <2> QED BY <2>1, <2>2, <2>3 DEF CookieInv
<1>4. ASSUME NEW c \in Calls,
             SetupCheck(c) \/ WriteUser(c) \/ WriteHash(c) \/ LoginCheck(c) \/ ReadUser(c) \/ ReadCurrent(c)
      PROVE  CookieInv'
  <2>1. /\ UNCHANGED <<token, loggedOut>> /\ Kept(c) /\ c \notin Issued /\ ~call[c].late /\ call[c].step # "idle"
        /\ call'[c].kind = call[c].kind /\ call'[c].step # "clearExpiry"
    BY <1>4, GotoKeeps
    DEF SetupCheck, WriteUser, WriteHash, LoginCheck, ReadUser, ReadCurrent, At, Issued, CookieInv
  <2> QED BY <1>1, <2>1
<1>5. ASSUME NEW c \in Calls, WriteComplete(c) \/ ReadHash(c) PROVE CookieInv'
  <2>1. /\ UNCHANGED <<token, loggedOut>> /\ Kept(c) /\ c \notin Issued /\ ~call[c].late /\ call[c].step # "idle"
        /\ call'[c].kind = call[c].kind /\ call'[c].step # "clearExpiry"
    BY <1>5, GotoKeeps, NewSessionKeeps DEF WriteComplete, ReadHash, At, Issued, CookieInv
  <2> QED BY <1>1, <2>1
<1>6. ASSUME NEW c \in Calls, ReadToken(c) PROVE CookieInv'
  <2>1. /\ UNCHANGED <<token, loggedOut>> /\ Kept(c) /\ c \notin Issued /\ call[c].step # "idle"
        /\ call'[c].kind = call[c].kind
        /\ call'[c].step = IF token = call[c].cookie THEN "readExpiry" ELSE "refused"
    BY <1>6, GotoKeeps DEF ReadToken, At, Issued
  <2>2. call[c].late => token # call[c].cookie
    BY DEF CookieInv
  <2> QED BY <1>1, <2>1, <2>2
<1>7. ASSUME NEW c \in Calls, ReadExpiry(c) PROVE CookieInv'
  <2>1. /\ UNCHANGED <<token, loggedOut>> /\ Kept(c) /\ c \notin Issued /\ ~call[c].late /\ call[c].step # "idle"
        /\ call'[c].kind \in {call[c].kind, "use"} /\ call'[c].step # "clearExpiry"
    BY <1>7, GotoKeeps, ExpireKeeps DEF ReadExpiry, Authorized, At, Issued, CookieInv
  <2> QED BY <1>1, <2>1
<1>8. ASSUME NEW c \in Calls, ChangeHash(c) \/ FailStep(c) PROVE CookieInv'
  <2>1. /\ UNCHANGED <<token, loggedOut>> /\ Kept(c) /\ c \notin Issued /\ call[c].step # "idle"
        /\ call[c].late => call'[c].step = "failed"
        /\ call'[c].kind = call[c].kind /\ call'[c].step # "clearExpiry"
    BY <1>8, GotoKeeps DEF ChangeHash, FailStep, At, Issued, CookieInv
  <2> QED BY <1>1, <2>1
<1>9. ASSUME NEW c \in Calls, WriteToken(c) PROVE CookieInv'
  <2>1. /\ token' = c /\ UNCHANGED loggedOut /\ Kept(c) /\ c \notin Issued /\ ~call[c].late /\ call[c].step # "idle"
        /\ call'[c].kind = call[c].kind /\ call'[c].step = "writeExpiry"
    BY <1>9, GotoKeeps DEF WriteToken, At, Issued, CookieInv
  <2>2. Issued' = Issued
    BY <2>1 DEF Issued, At, Kept
  <2>3. \A d \in Calls : call[d].step # "idle" /\ call[d].kind = "logout" => call[d].cookie # c
    BY <2>1 DEF CookieInv
  <2> QED BY <2>1, <2>2, <2>3 DEF CookieInv, Kept
<1>10. ASSUME NEW c \in Calls, WriteExpiry(c) PROVE CookieInv'
  <2>1. /\ UNCHANGED <<token, loggedOut>> /\ Kept(c) /\ c \notin Issued /\ ~call[c].late /\ call[c].step # "idle"
        /\ call'[c].kind = call[c].kind /\ call'[c].step = "accepted"
    BY <1>10, GotoKeeps DEF WriteExpiry, At, Issued, CookieInv
  <2> QED BY <1>1, <2>1
<1>11. ASSUME NEW c \in Calls, ClearToken(c) PROVE CookieInv'
  <2>1. /\ token' = None /\ UNCHANGED loggedOut /\ Kept(c) /\ c \notin Issued /\ ~call[c].late /\ call[c].step # "idle"
        /\ call'[c].kind = call[c].kind /\ call'[c].step = "clearExpiry"
    BY <1>11, GotoKeeps DEF ClearToken, At, Issued, CookieInv
  <2>2. Issued' = Issued
    BY <2>1 DEF Issued, At, Kept
  <2> QED BY <1>0, <2>1, <2>2 DEF CookieInv, Kept, Issued
<1>12. ASSUME NEW c \in Calls, ClearExpiry(c) PROVE CookieInv'
  <2>1. /\ token' = token /\ Kept(c) /\ c \notin Issued /\ ~call[c].late /\ call[c].step # "idle"
        /\ call'[c].kind = call[c].kind /\ call'[c].step \in {"accepted", "refused"}
        /\ call[c].kind \in {"setup", "login"} => call'[c].step = "refused"
        /\ loggedOut' = IF call[c].kind = "logout" THEN loggedOut \cup {call[c].cookie} ELSE loggedOut
    BY <1>12, GotoKeeps DEF ClearExpiry, At, Issued, CookieInv
  <2>2. Issued' = Issued
    BY <2>1 DEF Issued, At, Kept
  <2>3. call[c].kind = "logout" => call[c].cookie \in Issued /\ token # call[c].cookie
    BY <1>12 DEF ClearExpiry, At, CookieInv
  <2> QED BY <2>1, <2>2, <2>3 DEF CookieInv, Kept
<1>13. CASE Tick \/ UNCHANGED vars
  BY <1>13 DEF Tick, vars, CookieInv, Issued, At
<1> QED
  BY <1>2, <1>3, <1>4, <1>5, <1>6, <1>7, <1>8, <1>9, <1>10, <1>11, <1>12, <1>13 DEF Next

Inv == Types /\ ExpiryInv /\ SetupInv /\ CookieInv

LEMMA InvInit == Init => Inv
<1> SUFFICES ASSUME Init PROVE Inv
  OBVIOUS
<1>1. TTL \in Nat
  BY SessionsAssumption
<1>2. \A c \in Calls : /\ call[c].kind = None /\ call[c].step = "idle" /\ ~call[c].late
                       /\ call[c].user = None /\ call[c].password = None
  BY DEF Init, NoCall
<1>3. ExpiryInv
  BY <1>1, <1>2 DEF Init, ExpiryInv
<1>4. SetupInv
  BY <1>2 DEF Init, SetupInv, SettingUp
<1>5. CookieInv
  BY <1>2 DEF Init, CookieInv, Issued, At
<1> QED BY <1>3, <1>4, <1>5, TypesInit DEF Inv

LEMMA InvNext == Inv /\ [Next]_vars => Inv'
<1> SUFFICES ASSUME Inv, [Next]_vars PROVE Inv'
  OBVIOUS
<1>1. \A c \in Calls : call[c].step # "idle" /\ call[c].kind = "logout" => call[c].cookie \in Calls
  BY DEF Inv, CookieInv, Issued
<1>2. Types'
  BY <1>1, TypesNext DEF Inv
<1> QED BY <1>2, ExpiryInvNext, SetupInvNext, CookieInvNext DEF Inv

LEMMA Invariant == Spec => []Inv
BY InvInit, InvNext, PTL DEF Spec

(* createSession stores a token and its expiry in two statements           *)
(* (auth.go:254-275): whatever logins, logouts and failures interleave, the *)
(* stored token is accepted no longer than TTL after it was stored.         *)
THEOREM SessionsExpire == Spec => []SessionIsBounded
<1>1. Inv => SessionIsBounded
  BY DEF Inv, Types, ExpiryInv, SessionIsBounded, TypeOK, Call
<1> QED BY <1>1, Invariant, PTL

(* clearSession (auth.go:248) is final: a call that begins with a cookie    *)
(* whose logout was acknowledged is not let in.                             *)
THEOREM LogoutIsFinal == Spec => []LoggedOutStaysOut
<1>1. Inv => LoggedOutStaysOut
  BY DEF Inv, CookieInv, LoggedOutStaysOut
<1> QED BY <1>1, Invariant, PTL

(* Setups that do not overlap, however many of them failed halfway, leave   *)
(* an account whose name and password one person chose (auth.go:76-118).    *)
THEOREM AccountHasOneOwner == Spec => []AccountIsOnePersons
<1>1. Inv => AccountIsOnePersons
  BY DEF Inv, SetupInv, AccountIsOnePersons
<1> QED BY <1>1, Invariant, PTL

=============================================================================
