------------------------------ MODULE MCRetries ------------------------------
(***************************************************************************)
(* What callers from outside send again until it is answered: Payme's and  *)
(* Click's webhooks, the pushes the HUMO relay brings, and a learner's     *)
(* sign-up.  They share no row, so a behaviour exercises one of them,      *)
(* chosen at the start, and the others rest in their initial states.       *)
(***************************************************************************)
EXTENDS Payme
LOCAL INSTANCE SequencesExt

CONSTANTS
    Rows, Paying, Declining, ClickWorkers, ClickAborts,          \* Click
    Msgs, Calls, MaxFaults,                                      \* HumoWatcher
    Requests, MaxAttempts, MaxCodes, Limit                       \* SignUp

VARIABLES
    part,                                                        \* the one that moves
    cStatus, cTombs, row, cRowLock, cReq, cGrants, cAborts,      \* Click
    up, told, spool, drain, call, events, matches, acked, faults, \* HumoWatcher
    profile, claimed, trials, referrals, sessions, botRef, codes, otpOn, lim, ttlLost,
    job                                                          \* SignUp

clickVars == <<cStatus, cTombs, row, cRowLock, cReq, cGrants, cAborts>>
humoVars == <<up, told, spool, drain, call, events, matches, acked, faults>>
signUpVars ==
    <<profile, claimed, trials, referrals, sessions, botRef, codes, otpOn, lim, ttlLost, job>>

Click == INSTANCE Click WITH
    Workers <- ClickWorkers, MaxAborts <- ClickAborts,
    status <- cStatus, tombs <- cTombs, rowLock <- cRowLock, req <- cReq,
    grants <- cGrants, aborts <- cAborts
Humo == INSTANCE HumoWatcher
Sign == INSTANCE SignUp

RetriesInit ==
    /\ part \in {"payme", "click", "humo", "signup"}
    /\ Init /\ Click!Init /\ Humo!Init /\ Sign!SignUpInit
    /\ part # "signup" => ~botRef

PaymeMoves ==
    part = "payme" /\ Next /\ UNCHANGED <<part, clickVars, humoVars, signUpVars>>
ClickMoves ==
    part = "click" /\ Click!Next /\ UNCHANGED <<part, vars, humoVars, signUpVars>>
HumoMoves ==
    part = "humo" /\ Humo!Next /\ UNCHANGED <<part, vars, clickVars, signUpVars>>
SignUpMoves ==
    part = "signup" /\ Sign!SignUpNext /\ UNCHANGED <<part, vars, clickVars, humoVars>>

RetriesNext == PaymeMoves \/ ClickMoves \/ HumoMoves \/ SignUpMoves

(* The fairness of Payme, HumoWatcher and SignUp, each while it moves.      *)
RetriesFairness ==
    /\ \A w \in Workers : WF_vars(part = "payme" /\ (CreateStep(w) \/ Commit(w)))
    /\ \A t \in PaymeIds :
          SF_vars(part = "payme" /\ \E w \in Workers : PerformTransaction(w, t))
    /\ WF_humoVars(part = "humo" /\ Humo!Restart)
    /\ WF_humoVars(part = "humo" /\ Humo!Ack)
    /\ WF_humoVars(part = "humo" /\ \E k \in Calls : Humo!Post(k))
    /\ \A k \in Calls : WF_humoVars(part = "humo" /\
          (Humo!ApiLookup(k) \/ Humo!ApiInsert(k) \/ Humo!ApiMatch(k)))
    /\ \A r \in Requests : WF_signUpVars(part = "signup" /\ Sign!Proceed(r))
    /\ WF_signUpVars(part = "signup" /\ Sign!WindowEnds)
    /\ SF_signUpVars(part = "signup" /\ lim.n > 1 /\ \E r \in Requests : Sign!Register(r))

RetriesSpec ==
    RetriesInit /\ [][RetriesNext]_<<part, vars, clickVars, humoVars, signUpVars>>
    /\ RetriesFairness

-----------------------------------------------------------------------------
(* Click: a paid order has a confirmed row; where Click does not both pay   *)
(* and decline a transaction, its order has one grant and its row keeps the *)
(* verdict (confirmAndGrant, rejectTransaction).                            *)
ClickSafe == [](part = "click" => Click!ClickInv) /\ Click!VerdictIsFinal

(* The relay: nothing the watcher forgets is unrecorded, nothing is counted *)
(* twice (drain_spool, the fingerprint of IngestHumoPush).                  *)
HumoInv == Humo!HumoInv

(* Sign-up: racing paths make one profile with one trial and one referral.  *)
SignUpInv == Sign!SignUpInv

(* A caller that keeps trying gets there in the end: a Payme transaction    *)
(* asked to perform leaves state 1 (performTransaction), a spooled message  *)
(* is recorded and leaves the spool (drain_spool), a learner who hit the    *)
(* sign-up limit is let through again (Allow).                              *)
Txn == SetToSeq(PaymeIds)
Messages == SetToSeq(Msgs)
Waiting(i) ==
    CASE part = "payme"  -> txn[Txn[i]].state = Pending
      [] part = "humo"   -> Contains(spool, Messages[i])
      [] part = "signup" -> lim.n > 1
      [] part = "click"  -> FALSE
Served(i) ==
    CASE part = "payme"  -> txn[Txn[i]].state # Pending
      [] part = "humo"   -> events[Messages[i]] = 1 /\ ~Contains(spool, Messages[i])
      [] part = "signup" -> lim.n = 0
      [] part = "click"  -> TRUE
RetriesEnd == \A i \in 1 .. 2 : Waiting(i) ~> Served(i)
=============================================================================
