----------------------------- MODULE AdminAuth -----------------------------
(***************************************************************************)
(* Staff sign-in (admin/service.go, totp.go, middleware.go, store.go and   *)
(* the auth handlers of admin/handlers.go): password, lockout counter,     *)
(* second factor, enrolment of an authenticator, and the one-time refresh  *)
(* tokens of a session.  Requests run concurrently; each reads a row and   *)
(* writes later without a lock.  One account: accounts share nothing.      *)
(* An authenticator is named by the enrolment window whose derived secret  *)
(* it holds, 0 for none.                                                   *)
(***************************************************************************)
EXTENDS Naturals, FiniteSets, Sequences

CONSTANTS Procs,        \* requests in flight
          FailLimit,    \* adminLoginFailLimit
          MaxWindow,    \* enrolment windows that pass (bound)
          MaxSessions,  \* sessions ever opened (bound)
          MaxTokens,    \* refresh tokens ever issued (bound)
          MaxMoves      \* expiries, redeployments, operator moves, Redis faults (bound)

VARIABLES row,      \* admin_user: is it active, the sealed authenticator
          enforce,  \* ADMIN_TOTP_ENFORCE of the running deployment
          fails,    \* the Redis counter of wrong passwords
          window,   \* the current enrolment window
          scanned,  \* windows whose secret was handed out and scanned
          held,     \* scoped and access tokens somebody still can present
          sess,     \* admin_session rows, oldest first
          used,     \* refresh tokens exchanged, one entry per exchange
          minted,   \* refresh tokens minted so far
          job,      \* what each request is doing
          tried,    \* wrong passwords compared since the counter last was empty
          lost,     \* failures the limiter could not count since then
          moves     \* bounded moves taken so far

adminVars == <<row, enforce, fails, window, scanned, held, sess, used, minted, job,
               tried, lost, moves>>
idVars == <<row, window, scanned>>
sessVars == <<sess, used, minted>>
lockVars == <<fails, tried, lost>>

Free == [pc |-> "idle", good |-> FALSE, seen |-> 0, s |-> 0, t |-> 0]
AdminInit ==
    /\ row = [active |-> TRUE, totp |-> 0] /\ enforce \in BOOLEAN
    /\ fails = 0 /\ tried = 0 /\ lost = 0 /\ moves = 0
    /\ window = 1 /\ scanned = {} /\ held = {}
    /\ sess = <<>> /\ used = <<>> /\ minted = 0
    /\ job = [p \in Procs |-> Free]

At(p, pc) == job[p].pc = pc
Goto(p, pc) == job' = [job EXCEPT ![p].pc = pc]
Done(p) == job' = [job EXCEPT ![p] = Free]
Move == moves < MaxMoves /\ moves' = moves + 1
TOTPEnabled(u) == u.totp # 0

-----------------------------------------------------------------------------
(* Sessions.                                                                *)
CreateSession(how) ==
    sess' = Append(sess, [hash |-> minted', live |-> TRUE, fresh |-> TRUE,
                          factor |-> how, ruled |-> enforce])
issuePair(how) ==
    /\ Len(sess) < MaxSessions /\ minted < MaxTokens /\ minted' = minted + 1
    /\ CreateSession(how)
    /\ held' = held \cup {"access"}
    /\ UNCHANGED used
FindSessionByRefreshHash(t) == {s \in DOMAIN sess : sess[s].hash = t /\ sess[s].live}
RevokeSession(s) == sess' = [sess EXCEPT ![s].live = FALSE]
RotateSession(s, old) == sess[s].live /\ sess[s].hash = old

-----------------------------------------------------------------------------
(* Login: the counter is read, then the row, then the password is compared. *)
\* Mutant: the account locks one failure late.
LocksLate == fails > FailLimit
Locked == fails >= FailLimit
Login(p, good) ==
    /\ At(p, "idle") /\ ~Locked
    /\ job' = [job EXCEPT ![p] = [Free EXCEPT !.pc = "login", !.good = good]]
    /\ UNCHANGED <<idVars, enforce, lockVars, held, sessVars, moves>>
\* The throttled answers, and the per-IP budget, which refuses whoever asks.
LoginThrottled(p) ==
    /\ At(p, "login") /\ Done(p) /\ Move
    /\ UNCHANGED <<idVars, enforce, lockVars, held, sessVars>>
GetUserByEmail(p) ==
    /\ At(p, "login")
    /\ IF row.active THEN job' = [job EXCEPT ![p].pc = "compare", ![p].seen = row.totp]
                     ELSE Done(p)
    /\ UNCHANGED <<idVars, enforce, lockVars, held, sessVars, moves>>
countFailure ==
    \/ fails' = fails + 1 /\ UNCHANGED <<lost, moves>>
    \/ Move /\ lost' = lost + 1 /\ UNCHANGED fails
WrongPassword(p) ==
    /\ At(p, "compare") /\ ~job[p].good
    /\ countFailure /\ tried' = tried + 1
    /\ Done(p)
    /\ UNCHANGED <<idVars, enforce, held, sessVars>>
Reset ==
    \/ fails' = 0 /\ tried' = 0 /\ lost' = 0 /\ UNCHANGED moves
    \/ Move /\ UNCHANGED <<fails, tried, lost>>
IssueTOTPEnroll == held' = held \cup {"enroll"}
IssueTOTPChallenge == held' = held \cup {"challenge"}
RightPassword(p) ==
    /\ At(p, "compare") /\ job[p].good
    /\ Reset
    /\ \/ enforce /\ job[p].seen = 0 /\ IssueTOTPEnroll /\ UNCHANGED sessVars
       \/ job[p].seen # 0 /\ IssueTOTPChallenge /\ UNCHANGED sessVars
       \/ ~enforce /\ job[p].seen = 0 /\ issuePair("password")
    /\ Done(p)
    /\ UNCHANGED <<idVars, enforce>>

-----------------------------------------------------------------------------
(* The second step of a login.                                              *)
validateTOTP(secret, app) == secret # 0 /\ secret = app
VerifyTOTPLogin(p) ==
    /\ At(p, "idle") /\ "challenge" \in held
    /\ row.active /\ TOTPEnabled(row)
    /\ job' = [job EXCEPT ![p] = [Free EXCEPT !.pc = "verify", !.seen = row.totp]]
    /\ UNCHANGED <<idVars, enforce, lockVars, held, sessVars, moves>>
VerifyCode(secret) ==
    \/ \E app \in scanned : validateTOTP(secret, app) /\ issuePair("code")
    \/ UNCHANGED <<held, sessVars>>          \* a wrong code
verifyTOTPLogin(p) ==
    /\ At(p, "verify") /\ VerifyCode(job[p].seen) /\ Done(p)
    /\ UNCHANGED <<idVars, enforce, lockVars, moves>>

-----------------------------------------------------------------------------
(* Enrolment: admitted by the middleware, served later.                     *)
TOTPEnrollAuth(p) ==
    /\ At(p, "idle") /\ row.active
    /\ "access" \in held \/ ("enroll" \in held /\ ~TOTPEnabled(row))
    /\ job' = [job EXCEPT ![p] = [Free EXCEPT !.pc = "enroll"]]
    /\ UNCHANGED <<idVars, enforce, lockVars, held, sessVars, moves>>
BeginTOTPEnroll == scanned' = scanned \cup {window}
enrollTOTP(p) ==
    /\ At(p, "enroll") /\ BeginTOTPEnroll /\ Done(p)
    /\ UNCHANGED <<row, window, enforce, lockVars, held, sessVars, moves>>
pendingTOTPSecret(app) == IF app \in {window, window - 1} THEN app ELSE 0
SetUserTOTPSecret(secret) == row' = [row EXCEPT !.totp = secret]
ConfirmTOTPEnroll(app) ==
    IF pendingTOTPSecret(app) # 0 THEN SetUserTOTPSecret(pendingTOTPSecret(app)) ELSE UNCHANGED row
confirmTOTP(p) ==
    /\ At(p, "enroll") /\ (\E app \in scanned : ConfirmTOTPEnroll(app)) /\ Done(p)
    /\ UNCHANGED <<window, scanned, enforce, lockVars, held, sessVars, moves>>
Required == "access" \in held /\ row.active
DisableTOTP(p) ==
    /\ At(p, "idle") /\ Required /\ TOTPEnabled(row)
    /\ job' = [job EXCEPT ![p] = [Free EXCEPT !.pc = "disable", !.seen = row.totp]]
    /\ UNCHANGED <<idVars, enforce, lockVars, held, sessVars, moves>>
DisableCode(secret) ==
    \/ (\E app \in scanned : validateTOTP(secret, app)) /\ SetUserTOTPSecret(0)
    \/ UNCHANGED row
disableTOTP(p) ==
    /\ At(p, "disable") /\ DisableCode(job[p].seen) /\ Done(p)
    /\ UNCHANGED <<window, scanned, enforce, lockVars, held, sessVars, moves>>

-----------------------------------------------------------------------------
(* Refresh and logout: the session is found by the token, changed by its id. *)
Refresh(p, t) ==
    /\ At(p, "idle")
    /\ \E s \in FindSessionByRefreshHash(t) :
         job' = [job EXCEPT ![p] = [Free EXCEPT !.pc = IF sess[s].fresh THEN "refresh" ELSE "revoke",
                                                !.s = s, !.t = t]]
    /\ UNCHANGED <<idVars, enforce, lockVars, held, sessVars, moves>>
RefreshUser(p) ==
    /\ At(p, "refresh")
    /\ IF row.active THEN Goto(p, "rotate") ELSE Done(p)
    /\ UNCHANGED <<idVars, enforce, lockVars, held, sessVars, moves>>
Rotate(p) ==
    /\ At(p, "rotate") /\ Done(p)
    /\ IF RotateSession(job[p].s, job[p].t)
       THEN /\ minted < MaxTokens /\ minted' = minted + 1
            /\ sess' = [sess EXCEPT ![job[p].s].hash = minted', ![job[p].s].fresh = TRUE]
            /\ used' = Append(used, job[p].t)
            /\ held' = held \cup {"access"}
       ELSE UNCHANGED <<held, sessVars>>
    /\ UNCHANGED <<idVars, enforce, lockVars, moves>>
Logout(p, t) ==
    /\ At(p, "idle")
    /\ \E s \in FindSessionByRefreshHash(t) :
         job' = [job EXCEPT ![p] = [Free EXCEPT !.pc = "revoke", !.s = s, !.t = t]]
    /\ UNCHANGED <<idVars, enforce, lockVars, held, sessVars, moves>>
Revoke(p) ==
    /\ At(p, "revoke") /\ Done(p) /\ RevokeSession(job[p].s)
    /\ UNCHANGED <<idVars, enforce, lockVars, held, used, minted, moves>>

-----------------------------------------------------------------------------
(* Time, the deployment and the operator.                                   *)
enrollWindowAt ==
    /\ window < MaxWindow /\ window' = window + 1
    /\ UNCHANGED <<row, scanned, enforce, lockVars, held, sessVars, job, moves>>
FailWindowEnds ==
    /\ fails > 0 /\ fails' = 0 /\ tried' = 0 /\ lost' = 0
    /\ UNCHANGED <<idVars, enforce, held, sessVars, job, moves>>
TokenExpires ==
    /\ Move /\ \E k \in held : held' = held \ {k}
    /\ UNCHANGED <<idVars, enforce, lockVars, sessVars, job>>
SessionExpires ==
    /\ Move /\ \E s \in DOMAIN sess : sess[s].live /\ sess[s].fresh /\ sess' = [sess EXCEPT ![s].fresh = FALSE]
    /\ UNCHANGED <<idVars, enforce, lockVars, held, used, minted, job>>
Redeploy ==      \* the flag is read from the environment; requests in flight die
    /\ Move /\ ~enforce /\ enforce' = TRUE
    /\ job' = [p \in Procs |-> Free]
    /\ UNCHANGED <<idVars, lockVars, held, sessVars>>
OperatorDisables ==      \* SQL by hand: no code sets admin_user.status away from active
    /\ Move /\ row.active /\ row' = [row EXCEPT !.active = FALSE]
    /\ UNCHANGED <<window, scanned, enforce, lockVars, held, sessVars, job>>
EnsureSuperadmin ==
    /\ ~row.active /\ row' = [row EXCEPT !.active = TRUE]
    /\ UNCHANGED <<window, scanned, enforce, lockVars, held, sessVars, job, moves>>

ProcNext(p) ==
    \/ \E good \in BOOLEAN : Login(p, good)
    \/ LoginThrottled(p) \/ GetUserByEmail(p) \/ WrongPassword(p) \/ RightPassword(p)
    \/ VerifyTOTPLogin(p) \/ verifyTOTPLogin(p)
    \/ TOTPEnrollAuth(p) \/ enrollTOTP(p) \/ confirmTOTP(p)
    \/ DisableTOTP(p) \/ disableTOTP(p)
    \/ \E t \in 1..minted : Refresh(p, t) \/ Logout(p, t)
    \/ RefreshUser(p) \/ Rotate(p) \/ Revoke(p)
AdminNext ==
    \/ \E p \in Procs : ProcNext(p)
    \/ enrollWindowAt \/ FailWindowEnds \/ TokenExpires \/ SessionExpires
    \/ Redeploy \/ OperatorDisables \/ EnsureSuperadmin
AdminSpec == AdminInit /\ [][AdminNext]_adminVars

-----------------------------------------------------------------------------
AdminTypeOK ==
    /\ row \in [active : BOOLEAN, totp : 0..MaxWindow]
    /\ held \subseteq {"access", "enroll", "challenge"}
    /\ scanned \subseteq 1..MaxWindow /\ window \in 1..MaxWindow
    /\ Len(sess) <= minted /\ minted <= MaxTokens
\* The counter is read before the row and raised after bcrypt, so concurrent
\* attempts overshoot; never by more than the requests in flight.
LockHolds == tried <= FailLimit + Cardinality(Procs) - 1 + lost
\* A refresh token is exchanged once, however many requests present it.
ExchangedOnce == \A i, j \in DOMAIN used : used[i] = used[j] => i = j
\* No session of a deployment that enforces the second factor was opened
\* with the password alone, whatever the row said when the login read it.
FactorEnforced == \A s \in DOMAIN sess : sess[s].ruled => sess[s].factor = "code"
\* The sealed authenticator is one somebody scanned: enrolment around a
\* window boundary cannot lock the account's owner out.
AuthenticatorHeld == row.totp # 0 => row.totp \in scanned
\* Staff sign-in: the lock overshoots by at most the requests in flight,
\* refresh tokens are single use, enforcement admits nobody on a password
\* alone, and the stored authenticator is one that was handed out.
AdminInv == AdminTypeOK /\ LockHolds /\ ExchangedOnce /\ FactorEnforced /\ AuthenticatorHeld
\* A revoked session is dead: no request that found it earlier puts a new
\* token on it (RotateSession tests revoked_at in the same UPDATE).
RevokedIsDead ==
    [][\A s \in DOMAIN sess : ~sess[s].live => sess'[s] = sess[s]]_adminVars
=============================================================================
