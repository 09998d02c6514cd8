------------------------------- MODULE SignUp -------------------------------
(***************************************************************************)
(* How a phone becomes a profile (auth/service.go, auth/telegram_login.go, *)
(* auth/ratelimit.go): by a one-time code, by phone and password, or      *)
(* through Telegram.  The paths race for one phone; the profile, its      *)
(* welcome trial, its referral and the first session commit together.     *)
(* One phone; every other phone behaves the same and shares nothing with  *)
(* it.                                                                     *)
(***************************************************************************)
EXTENDS Naturals, FiniteSets, Sequences

CONSTANTS Requests,      \* sign-in requests in flight
          MaxAttempts,   \* maxOTPAttempts
          MaxCodes,      \* codes requested at most (bound)
          Limit          \* attempts the rate limiter allows per window

VARIABLES profile,   \* the profile row of the phone, once committed
          claimed,   \* the request whose insert of that phone is uncommitted
          trials,    \* trial entitlements of the profile
          referrals, \* referral rows naming the profile as referee
          sessions,  \* first sessions handed out, per path
          botRef,    \* a /start ref_ code kept for the Telegram user
          codes,     \* otp_challenge rows, oldest first
          otpOn,     \* the OTP channel is not "off"
          lim,       \* the limiter's counter and whether it has an expiry
          ttlLost,   \* the expiry has been lost once (bound on that fault)
          job        \* what each request is doing

signUpVars == <<profile, claimed, trials, referrals, sessions, botRef, codes, otpOn, lim, ttlLost, job>>
storeVars == <<profile, claimed, trials, referrals, sessions, botRef>>

Free == [pc |-> "idle", path |-> "none", code |-> 0]
Nobody == "nobody"
SignUpInit ==
    /\ profile = "none" /\ claimed = Nobody /\ trials = 0 /\ referrals = 0 /\ sessions = 0
    /\ botRef \in BOOLEAN /\ codes = <<>> /\ otpOn = TRUE
    /\ lim = [n |-> 0, ttl |-> FALSE] /\ ttlLost = FALSE
    /\ job = [r \in Requests |-> Free]

At(r, pc) == job[r].pc = pc
Goto(r, pc) == job' = [job EXCEPT ![r].pc = pc]
Done(r) == job' = [job EXCEPT ![r] = Free]

-----------------------------------------------------------------------------
(* The limiter: one Redis script counts and arms the window, and arms it    *)
(* again whenever the counter is found without an expiry.                   *)
Hit == lim' = [n   |-> IF lim.n > Limit THEN lim.n ELSE lim.n + 1,
               ttl |-> IF lim.n = 0 \/ ~lim.ttl THEN TRUE ELSE lim.ttl]
Allow == lim'.n <= Limit
WindowEnds ==
    /\ lim.ttl /\ lim' = [n |-> 0, ttl |-> FALSE]
    /\ UNCHANGED <<storeVars, codes, otpOn, ttlLost, job>>
LoseTTL ==      \* a failover, an operator's PERSIST
    /\ lim.ttl /\ ~ttlLost /\ ttlLost' = TRUE
    /\ lim' = [lim EXCEPT !.ttl = FALSE]
    /\ UNCHANGED <<storeVars, codes, otpOn, job>>

-----------------------------------------------------------------------------
(* One-time codes.                                                          *)
RequestOTP ==
    /\ otpOn /\ Len(codes) < MaxCodes
    /\ codes' = Append(codes, [attempts |-> 0, consumed |-> FALSE, expired |-> FALSE])
    /\ UNCHANGED <<storeVars, otpOn, lim, ttlLost, job>>
CodeExpires ==
    /\ \E i \in DOMAIN codes : ~codes[i].expired /\ codes' = [codes EXCEPT ![i].expired = TRUE]
    /\ UNCHANGED <<storeVars, otpOn, lim, ttlLost, job>>
TurnOtpOff == otpOn /\ otpOn' = FALSE /\ UNCHANGED <<storeVars, codes, lim, ttlLost, job>>

LatestOTPChallenge == {i \in DOMAIN codes : ~codes[i].consumed /\
                         \A j \in DOMAIN codes : j > i => codes[j].consumed}
(* VerifyOTP reads the newest unconsumed challenge and judges the attempts  *)
(* and the expiry on what it read.                                          *)
VerifyOTP(r) ==
    /\ At(r, "idle") /\ otpOn
    /\ \E i \in LatestOTPChallenge :
         /\ codes[i].attempts < MaxAttempts /\ ~codes[i].expired
         /\ job' = [job EXCEPT ![r] = [pc |-> "compare", path |-> "otp", code |-> i]]
    /\ UNCHANGED <<storeVars, codes, otpOn, lim, ttlLost>>
IncrementOTPAttempts(r) ==
    /\ At(r, "compare") /\ codes' = [codes EXCEPT ![job[r].code].attempts = @ + 1] /\ Done(r)
    /\ UNCHANGED <<storeVars, otpOn, lim, ttlLost>>
ConsumeOTP(r) ==
    /\ At(r, "compare") /\ codes' = [codes EXCEPT ![job[r].code].consumed = TRUE] /\ Goto(r, "lookup")
    /\ UNCHANGED <<storeVars, otpOn, lim, ttlLost>>

-----------------------------------------------------------------------------
(* Register and the Telegram paths enter the same find-or-create.           *)
Register(r) ==
    /\ At(r, "idle") /\ Hit
    /\ job' = [job EXCEPT ![r] = IF Allow THEN [Free EXCEPT !.pc = "lookup", !.path = "register"] ELSE Free]
    /\ UNCHANGED <<storeVars, codes, otpOn, ttlLost>>
TelegramArrives(r) ==
    /\ At(r, "idle")
    /\ job' = [job EXCEPT ![r] = [Free EXCEPT !.pc = "lookup", !.path = "telegram"]]
    /\ UNCHANGED <<storeVars, codes, otpOn, lim, ttlLost>>
rememberReferral ==
    /\ ~botRef /\ botRef' = TRUE
    /\ UNCHANGED <<profile, claimed, trials, referrals, sessions, codes, otpOn, lim, ttlLost, job>>

GetProfileByPhone(r) ==
    /\ At(r, "lookup")
    /\ CASE profile = "none" -> Goto(r, "insert")
         [] profile # "none" /\ job[r].path = "register" -> Done(r)        \* ErrPhoneTaken
         [] profile # "none" /\ job[r].path # "register" -> Goto(r, "session")
    /\ UNCHANGED <<storeVars, codes, otpOn, lim, ttlLost>>

(* The unique index on the phone makes a second insert wait for the first   *)
(* one's commit and then fail; Register reports the phone taken, the code   *)
(* path fails, the Telegram path goes back to its savepoint and reads the   *)
(* winner.                                                                  *)
CreateProfile(r) ==
    /\ At(r, "insert") /\ claimed = Nobody /\ profile = "none"
    /\ claimed' = r /\ Goto(r, "commit")
    /\ UNCHANGED <<profile, trials, referrals, sessions, botRef, codes, otpOn, lim, ttlLost>>
(* Mutant: the winner's profile is taken for the one just created.          *)
TakesItForItsOwn(r) ==
    /\ At(r, "insert") /\ profile # "none"
    /\ IF job[r].path = "telegram" THEN Goto(r, "commit") ELSE Done(r)
    /\ UNCHANGED <<storeVars, codes, otpOn, lim, ttlLost>>
PhoneTaken(r) ==
    /\ At(r, "insert") /\ profile # "none"
    /\ IF job[r].path = "telegram" THEN Goto(r, "session") ELSE Done(r)
    /\ UNCHANGED <<storeVars, codes, otpOn, lim, ttlLost>>
(* A referral code that is taken aborts the transaction: the retry of       *)
(* createProfileWithReferral runs in the same transaction and fails too.    *)
ReferralCodeTaken(r) ==
    /\ At(r, "insert") /\ claimed = Nobody /\ Done(r)
    /\ UNCHANGED <<storeVars, codes, otpOn, lim, ttlLost>>

grantSignupTrial == trials' = trials + 1
(* The referral is a savepoint of its own: unknown codes only skip it.      *)
applySignupReferral(r) ==
    IF job[r].path = "telegram" /\ botRef
    THEN /\ botRef' = FALSE /\ referrals' \in {referrals, referrals + 1}
    ELSE UNCHANGED <<botRef, referrals>>
CommitSignUp(r) ==
    /\ At(r, "commit") /\ profile' = job[r].path /\ claimed' = Nobody
    /\ grantSignupTrial /\ applySignupReferral(r)
    /\ sessions' = IF sessions < 2 THEN sessions + 1 ELSE sessions
    /\ Done(r)
    /\ UNCHANGED <<codes, otpOn, lim, ttlLost>>
SignIn(r) ==
    /\ At(r, "session") /\ sessions' = (IF sessions < 2 THEN sessions + 1 ELSE sessions) /\ Done(r)
    /\ UNCHANGED <<profile, claimed, trials, referrals, botRef, codes, otpOn, lim, ttlLost>>
(* An error, a cancelled request or a crash rolls the transaction back.     *)
Rollback(r) ==
    /\ ~At(r, "idle") /\ Done(r)
    /\ claimed' = IF claimed = r THEN Nobody ELSE claimed
    /\ UNCHANGED <<profile, trials, referrals, sessions, botRef, codes, otpOn, lim, ttlLost>>

Proceed(r) ==
    \/ IncrementOTPAttempts(r) \/ ConsumeOTP(r) \/ GetProfileByPhone(r) \/ CreateProfile(r)
    \/ PhoneTaken(r) \/ ReferralCodeTaken(r) \/ CommitSignUp(r) \/ SignIn(r) \/ Rollback(r)

SignUpNext ==
    \/ \E r \in Requests : VerifyOTP(r) \/ Register(r) \/ TelegramArrives(r) \/ Proceed(r)
    \/ RequestOTP \/ CodeExpires \/ TurnOtpOff \/ rememberReferral
    \/ WindowEnds \/ LoseTTL

(* Requests run to their end; Redis expires a key that has an expiry; a      *)
(* learner who is refused tries again.                                      *)
SignUpFairness ==
    /\ \A r \in Requests : WF_signUpVars(Proceed(r))
    /\ WF_signUpVars(WindowEnds)
    /\ SF_signUpVars(lim.n > Limit /\ \E r \in Requests : Register(r))
SignUpSpec == SignUpInit /\ [][SignUpNext]_signUpVars /\ SignUpFairness
-----------------------------------------------------------------------------
(* However many paths race for the phone, one profile comes out of it, with *)
(* exactly one welcome trial and at most one referral, which only a sign-up *)
(* through Telegram brings; and guesses in flight together get past the     *)
(* attempt limit by less than their number.                                 *)
SignUpInv ==
    /\ trials = (IF profile = "none" THEN 0 ELSE 1)
    /\ referrals <= 1 /\ (referrals = 1 => profile = "telegram")
    /\ sessions > 0 => profile # "none"
    /\ claimed # Nobody => profile = "none" /\ job[claimed].pc = "commit"
    /\ \A i \in DOMAIN codes : codes[i].attempts < MaxAttempts + Cardinality(Requests)

(* A limit that is reached is lifted again, also when the counter has lost  *)
(* its expiry.                                                              *)
LimitLifts == lim.n > Limit ~> lim.n = 0
=============================================================================
