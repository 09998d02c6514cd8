----------------------------- MODULE ExamSession -----------------------------
(***************************************************************************)
(* One exam session from its start to its verdict                           *)
(* (backend/internal/session/service.go, expire.go, rules.go): answers,     *)
(* finish requests and the expiry sweep meet on the session row, which each *)
(* of them locks (GetExamSessionForUpdate) before it looks at the status.   *)
(*                                                                         *)
(* A request that locks runs in one transaction: what it wrote is there at  *)
(* its commit, or not at all when it dies.  The leaderboard point comes     *)
(* after the commit.  Views read the row and the answers without a lock,    *)
(* by two statements.                                                       *)
(***************************************************************************)
EXTENDS Integers, FiniteSets

CONSTANTS
    Questions,   \* the questions drawn for the session
    Modes,       \* the modes that can be started
    Allowed,     \* errors_allowed of the timed modes (exam configuration, ExamErrorsAllowed,
                 \* PlacementErrorsAllowed)
    Limit,       \* time_limit_sec, in ticks
    Grace,       \* ExpiryGrace, in ticks
    Workers,     \* requests that may run at the same time
    Sweeper,     \* the goroutine of RunExpiryWorker
    MaxTime,     \* bound on the clock
    MaxCrashes,  \* bound on requests that die
    None

ExamLike == {"exam", "grand_mock", "placement"}

ASSUME SessionAssumption ==
    /\ IsFiniteSet(Questions) /\ IsFiniteSet(Workers)
    /\ Modes \subseteq ExamLike \cup {"practice", "mistakes", "review"}
    /\ Allowed \in [ExamLike -> Nat]
    /\ Limit \in Nat /\ Grace \in Nat /\ MaxTime \in Nat /\ MaxCrashes \in Nat
    /\ Limit + Grace < MaxTime
    /\ Sweeper \notin Workers
    /\ None \notin Workers \cup {Sweeper}

Actors == Workers \cup {Sweeper}

VARIABLES
    now,       \* the application's clock (Service.now)
    row,       \* exam_session: mode, status, stopped_reason, score, started_at
    answers,   \* session_answer: "none", "right" or "wrong" per question
    reviews,   \* FSRS reviews recorded per question (RecordReview)
    cert,      \* grand_mock_certificate rows of the session
    points,    \* leaderboard points recorded
    revealed,  \* questions whose correct answer a response has shown
    rowLock,   \* the request that holds the session row
    req,       \* the requests
    crashes    \* requests that died so far

vars == <<now, row, answers, reviews, cert, points, revealed, rowLock, req, crashes>>

Kinds == {"answer", "finish", "expire", "view"}
NoReq == [kind |-> "none", at |-> "idle", q |-> None, right |-> FALSE, seen |-> "none"]

TypeOK ==
    /\ now \in 0..MaxTime
    /\ row \in [mode : Modes \cup {None},
                status : {"none", "in_progress", "passed", "failed", "abandoned"},
                reason : {"", "completed", "time_up", "too_many_errors"},
                score : 0..Cardinality(Questions), start : 0..MaxTime]
    /\ answers \in [Questions -> {"none", "right", "wrong"}]
    /\ reviews \in [Questions -> Nat]
    /\ cert \in Nat /\ points \in Nat
    /\ revealed \subseteq Questions
    /\ rowLock \in Actors \cup {None}
    /\ req \in [Actors -> [kind : Kinds \cup {"none"}, at : {"idle", "wait", "locked", "point"},
                            q : Questions \cup {None}, right : BOOLEAN,
                            seen : {"none", "in_progress", "passed", "failed", "abandoned"}]]
    /\ crashes \in 0..MaxCrashes

Init ==
    /\ now = 0
    /\ row = [mode |-> None, status |-> "none", reason |-> "", score |-> 0, start |-> 0]
    /\ answers = [q \in Questions |-> "none"]
    /\ reviews = [q \in Questions |-> 0]
    /\ cert = 0 /\ points = 0
    /\ revealed = {}
    /\ rowLock = None
    /\ req = [w \in Actors |-> NoReq]
    /\ crashes = 0

Right(a) == {q \in Questions : a[q] = "right"}
Wrong(a) == {q \in Questions : a[q] = "wrong"}
Total == Cardinality(Questions)
CountSessionAnswers(a) == [right |-> Cardinality(Right(a)), wrong |-> Cardinality(Wrong(a))]
Budget == Allowed[row.mode]
Timed == row.mode \in ExamLike
PastDeadline == Timed /\ now >= row.start + Limit

-----------------------------------------------------------------------------
CreateExamSession(m) == row' = [row EXCEPT !.mode = m, !.status = "in_progress", !.start = now]

\* StartSession.  vip and ready stand
\* for the gates: Billing.Status, and the study gates of MockEligibility.
StartSession(m) ==
    /\ row.status = "none"
    /\ \E vip, ready \in BOOLEAN :
          /\ m \in {"exam", "grand_mock", "mistakes"} => vip
          /\ m = "grand_mock" => ready
    /\ CreateExamSession(m)
    /\ UNCHANGED <<now, answers, reviews, cert, points, revealed, rowLock, req, crashes>>

\* A learner's request arrives.
Arrive(w, kind, q, right) ==
    /\ row.status # "none"
    /\ req[w].at = "idle"
    /\ req' = [req EXCEPT ![w] = [kind |-> kind, at |-> "wait", q |-> q, right |-> right,
                                  seen |-> "none"]]
    /\ UNCHANGED <<now, row, answers, reviews, cert, points, revealed, rowLock, crashes>>

\* ExpireTimedOutSessions lists the session: past its deadline by the grace.
Sweep ==
    /\ row.status = "in_progress" /\ Timed
    /\ row.start + Limit < now - Grace
    /\ Arrive(Sweeper, "expire", None, FALSE)

\* The row as the lock finds it.
GetExamSessionForUpdate(w) ==
    /\ rowLock = None
    /\ rowLock' = w
    /\ req' = [req EXCEPT ![w].at = "locked", ![w].seen = row.status]

LockSession(w) ==
    /\ req[w].at = "wait" /\ req[w].kind # "view"
    /\ GetExamSessionForUpdate(w)
    /\ UNCHANGED <<now, row, answers, reviews, cert, points, revealed, crashes>>

\* The transaction ends, by commit or rollback.
EndTx(w, at) ==
    /\ rowLock' = IF rowLock = w THEN None ELSE rowLock
    /\ req' = [req EXCEPT ![w] = IF at = "idle" THEN NoReq ELSE [@ EXCEPT !.at = at]]

-----------------------------------------------------------------------------
(* The verdict.                                                            *)

\* EvaluateExam.
EvaluateExam(a, timedOut, tooMany) ==
    IF tooMany THEN [status |-> "failed", reason |-> "too_many_errors"]
    ELSE [status |-> IF Cardinality(Right(a)) >= Total - Budget /\ Cardinality(Wrong(a)) <= Budget
                        THEN "passed" ELSE "failed",
          reason |-> IF timedOut THEN "time_up" ELSE "completed"]

\* Mutant: a placement passes whatever is left unanswered.
EvaluatePlacementPartial(a, timedOut, tooMany) ==
    IF tooMany THEN [status |-> "failed", reason |-> "too_many_errors"]
    ELSE IF timedOut THEN [status |-> "failed", reason |-> "time_up"]
    ELSE [status |-> IF Cardinality(Wrong(a)) <= Budget THEN "passed" ELSE "failed",
          reason |-> "completed"]

\* EvaluatePlacement: only a complete run passes.
EvaluatePlacement(a, timedOut, tooMany) ==
    IF tooMany THEN [status |-> "failed", reason |-> "too_many_errors"]
    ELSE IF timedOut THEN [status |-> "failed", reason |-> "time_up"]
    ELSE [status |-> IF Total > 0 /\ Right(a) \cup Wrong(a) = Questions
                           /\ Cardinality(Wrong(a)) <= Budget
                        THEN "passed" ELSE "failed",
          reason |-> "completed"]

\* Untimed modes: passed when everything is answered, else abandoned.
EvaluateOther(a) ==
    IF Right(a) \cup Wrong(a) = Questions THEN [status |-> "passed", reason |-> "completed"]
    ELSE [status |-> "abandoned", reason |-> ""]

Verdict(a, timedOut, tooMany) ==
    CASE row.mode \in {"exam", "grand_mock"} -> EvaluateExam(a, timedOut, tooMany)
      [] row.mode = "placement" -> EvaluatePlacement(a, timedOut, tooMany)
      [] OTHER -> EvaluateOther(a)

FinishExamSession(v, score) ==
    row' = [row EXCEPT !.status = v.status, !.reason = v.reason, !.score = score]

\* The certificate of a passed grand mock: ON CONFLICT (session) keeps one.
InsertGrandMockCertificate(v) ==
    cert' = IF row.mode = "grand_mock" /\ v.status = "passed" THEN 1 ELSE cert

\* finishInternal on a row that is in progress: FinishExamSession, and the
\* certificate of a passed grand mock (one per session: ON CONFLICT).
FinishInternal(a, timedOut, tooMany) ==
    LET v == Verdict(a, timedOut, tooMany)
    IN  /\ FinishExamSession(v, CountSessionAnswers(a).right)
        /\ InsertGrandMockCertificate(v)

-----------------------------------------------------------------------------
(* SubmitAnswer, under the lock.                                           *)

Answering(w) == req[w].at = "locked" /\ req[w].kind = "answer"

GetSessionAnswer(q) == answers[q] # "none"

\* ErrSessionFinished, ErrAlreadyAnswered: nothing is written.
AnswerRefused(w) ==
    /\ Answering(w)
    /\ req[w].seen # "in_progress" \/ (~PastDeadline /\ GetSessionAnswer(req[w].q))
    /\ EndTx(w, "idle")
    /\ UNCHANGED <<now, row, answers, reviews, cert, points, revealed, crashes>>

\* Past the time limit: the answer is dropped and the session finished.
AnswerTimeUp(w) ==
    /\ Answering(w) /\ req[w].seen = "in_progress"
    /\ PastDeadline
    /\ FinishInternal(answers, TRUE, FALSE)
    /\ EndTx(w, "idle")
    /\ UNCHANGED <<now, answers, reviews, points, revealed, crashes>>

\* ShouldStopForErrors.
StopForErrors(a) == CountSessionAnswers(a).wrong > Budget

GetAnswerForScoring(w) == IF req[w].right THEN "right" ELSE "wrong"
InsertSessionAnswer(w) == [answers EXCEPT ![req[w].q] = GetAnswerForScoring(w)]

\* InsertSessionAnswer, RecordReview (unless skip_fsrs), the stop on too many
\* mistakes, commit; the response shows the question's correct answer.
AnswerRecord(w) ==
    /\ Answering(w) /\ req[w].seen = "in_progress"
    /\ ~PastDeadline
    /\ LET q == req[w].q
           a == InsertSessionAnswer(w)
       IN  /\ ~GetSessionAnswer(q)
           /\ answers' = a
           /\ \E skip \in BOOLEAN :
                 reviews' = IF skip THEN reviews ELSE [reviews EXCEPT ![q] = @ + 1]
           /\ IF Timed /\ StopForErrors(a)
                 THEN FinishInternal(a, FALSE, TRUE) ELSE UNCHANGED <<row, cert>>
           /\ revealed' = revealed \cup {q}
    /\ EndTx(w, IF req[w].right THEN "point" ELSE "idle")
    /\ UNCHANGED <<now, points, crashes>>

\* Leaderboard.RecordPoint, after the commit.
RecordPoint(w) ==
    /\ req[w].at = "point"
    /\ points' = points + 1
    /\ req' = [req EXCEPT ![w] = NoReq]
    /\ UNCHANGED <<now, row, answers, reviews, cert, revealed, rowLock, crashes>>

-----------------------------------------------------------------------------
(* FinishSession and expireOne, under the lock.                            *)

\* Mutant: a finished session is graded again.
FinishSessionAgain(w) ==
    /\ req[w].at = "locked" /\ req[w].kind = "finish"
    /\ FinishInternal(answers, PastDeadline, FALSE)
    /\ EndTx(w, "idle")
    /\ UNCHANGED <<now, answers, reviews, points, revealed, crashes>>

\* FinishSession; a finished session is answered with what is stored.
FinishSession(w) ==
    /\ req[w].at = "locked" /\ req[w].kind = "finish"
    /\ IF req[w].seen = "in_progress" THEN FinishInternal(answers, PastDeadline, FALSE)
       ELSE UNCHANGED <<row, cert>>
    /\ EndTx(w, "idle")
    /\ UNCHANGED <<now, answers, reviews, points, revealed, crashes>>

\* Mutant: the comparison with the deadline is the wrong way round.
ExpireOneBefore(w) ==
    /\ req[w].at = "locked" /\ req[w].kind = "expire"
    /\ IF req[w].seen = "in_progress" /\ ~PastDeadline THEN FinishInternal(answers, TRUE, FALSE)
       ELSE UNCHANGED <<row, cert>>
    /\ EndTx(w, "idle")
    /\ UNCHANGED <<now, answers, reviews, points, revealed, crashes>>

\* expireOne re-checks the status and the deadline under the lock.
ExpireOne(w) ==
    /\ req[w].at = "locked" /\ req[w].kind = "expire"
    /\ IF req[w].seen = "in_progress" /\ PastDeadline THEN FinishInternal(answers, TRUE, FALSE)
       ELSE UNCHANGED <<row, cert>>
    /\ EndTx(w, "idle")
    /\ UNCHANGED <<now, answers, reviews, points, revealed, crashes>>

-----------------------------------------------------------------------------
(* GetSession, ListSessionQuestionAccesses.                                *)

GetExamSession(w) == req' = [req EXCEPT ![w].at = "locked", ![w].seen = row.status]

ViewRow(w) ==
    /\ req[w].at = "wait" /\ req[w].kind = "view"
    /\ GetExamSession(w)
    /\ UNCHANGED <<now, row, answers, reviews, cert, points, revealed, rowLock, crashes>>

\* Mutant: practice sessions show every key.
KeyShownPractice(w, q) ==
    answers[q] # "none" \/ req[w].seen # "in_progress" \/ ~Timed

\* The key of answered questions; of the others once the session is over.
KeyShown(w, q) == GetSessionAnswer(q) \/ req[w].seen # "in_progress"

ListSessionQuestionsWithAnswers(w) == {q \in Questions : KeyShown(w, q)}

ViewAnswers(w) ==
    /\ req[w].at = "locked" /\ req[w].kind = "view"
    /\ revealed' = revealed \cup ListSessionQuestionsWithAnswers(w)
    /\ req' = [req EXCEPT ![w] = NoReq]
    /\ UNCHANGED <<now, row, answers, reviews, cert, points, rowLock, crashes>>

\* A request dies: its transaction is rolled back; after the commit only the
\* leaderboard point is lost.
Crash(w) ==
    /\ req[w].at # "idle"
    /\ crashes < MaxCrashes
    /\ crashes' = crashes + 1
    /\ EndTx(w, "idle")
    /\ UNCHANGED <<now, row, answers, reviews, cert, points, revealed>>

\* Time is counted from the start of the session.
Tick ==
    /\ row.status # "none"
    /\ now < MaxTime
    /\ now' = now + 1
    /\ UNCHANGED <<row, answers, reviews, cert, points, revealed, rowLock, req, crashes>>

Work(w) ==
    \/ AnswerRefused(w) \/ AnswerTimeUp(w) \/ AnswerRecord(w) \/ RecordPoint(w)
    \/ FinishSession(w) \/ ExpireOne(w) \/ ViewRow(w) \/ ViewAnswers(w)

Next ==
    \/ \E m \in Modes : StartSession(m)
    \/ \E w \in Workers :
          \/ \E q \in Questions, right \in BOOLEAN : Arrive(w, "answer", q, right)
          \/ \E kind \in {"finish", "view"} : Arrive(w, kind, None, FALSE)
    \/ \E w \in Actors : LockSession(w) \/ Work(w) \/ Crash(w)
    \/ Sweep \/ Tick

Spec == Init /\ [][Next]_vars

\* RunExpiryWorker's ticker keeps firing; a request that holds the row goes
\* on, and Postgres hands a free row lock to somebody who waits for it.
FairSpec ==
    /\ Spec
    /\ WF_vars(Tick)
    /\ WF_vars(Sweep)
    /\ WF_vars(\E w \in Actors : LockSession(w))
    /\ \A w \in Actors : WF_vars(Work(w))

-----------------------------------------------------------------------------
Finished == row.status \in {"passed", "failed", "abandoned"}

\* The stored score is the number of correct answers that are stored: no
\* answer lands after a concurrent finish or sweep (the lock of SubmitAnswer).
ScoreIsCount == Finished => row.score = Cardinality(Right(answers))

\* What "passed" means, by the answers that are stored: an exam within its
\* mistake budget and nothing more unanswered than it forgives, a placement
\* answered completely and in time (EvaluateExam, EvaluatePlacement).
PassIsEarned ==
    row.status = "passed" =>
        /\ Timed => Cardinality(Wrong(answers)) <= Budget
        /\ row.mode \in {"exam", "grand_mock"} => Cardinality(Right(answers)) >= Total - Budget
        /\ row.mode \notin {"exam", "grand_mock"} =>
              Right(answers) \cup Wrong(answers) = Questions /\ row.reason = "completed"

\* A certificate exists exactly for a passed grand mock, and once.
CertificateIffPassed ==
    cert = IF row.mode = "grand_mock" /\ row.status = "passed" THEN 1 ELSE 0

\* Only the deadline ends a session for time: never before it, and never a
\* session without one (expireOne).
TimeUpIsLate == row.reason = "time_up" => PastDeadline

\* The verdict follows from the answers that are stored and from the clock,
\* whoever of a learner's request and the sweep came to it first: score,
\* pass, certificate and time-out (finishInternal under the row lock).
VerdictEarned == ScoreIsCount /\ PassIsEarned /\ CertificateIffPassed /\ TimeUpIsLate

\* A timed session ends with the mistake that exceeds its budget, not a later
\* one, and is failed for that reason (SubmitAnswer's stop).
StopsAtTheMistake ==
    Timed => /\ Cardinality(Wrong(answers)) <= Budget + 1
             /\ Cardinality(Wrong(answers)) > Budget
                   <=> row.reason = "too_many_errors" /\ row.status = "failed"

\* One answer counts once: at most one review of a question and only with its
\* answer, and no more leaderboard points than correct answers, whatever is
\* retried, refused or dies on the way (SubmitAnswer's transaction).
AnswerCountsOnce ==
    /\ \A q \in Questions : reviews[q] <= IF answers[q] = "none" THEN 0 ELSE 1
    /\ points <= Cardinality(Right(answers))

\* Nobody sees the correct answer of a question that can still be answered
\* (KeyShown is decided on a row read earlier than the answers).
KeySealed == row.status = "in_progress" => \A q \in revealed : answers[q] # "none"

\* Marking: the verdict, the moment it falls, and what an answer counts for.
MarkingInv == TypeOK /\ VerdictEarned /\ StopsAtTheMistake /\ AnswerCountsOnce

\* A verdict is final: finish, sweep and answers that come later change
\* neither the row nor the answers.
VerdictIsFinal == [][Finished => row' = row /\ answers' = answers /\ cert' = cert]_vars

\* A timed session that nobody finishes is closed in the end (the sweep).
TimedIsClosed == (row.status = "in_progress" /\ Timed) ~> Finished
=============================================================================
