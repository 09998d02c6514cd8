----------------------------- MODULE ExamProofs -----------------------------
(***************************************************************************)
(* The safety of what a learner works through: exam sessions               *)
(* (ExamSession), ordered practice (PracticeWalk), the leaderboard         *)
(* (Leaderboard) and bilets (Tickets), one part each.  This part is about  *)
(* the marking of a session, for any questions, modes, budgets, deadlines  *)
(* and requests.                                                           *)
(*                                                                         *)
(* The verdict rests on the lock: a request that works on the row holds it *)
(* and has seen the status the row still has (LockHeld), so an answer that *)
(* is written and a verdict that is given never meet.  A view, which takes *)
(* no lock, has seen a finished session only if it is finished (ViewSeen). *)
(* A leaderboard point that is still to come is owed by an answer that is  *)
(* already stored (PointsOwed).                                            *)
(***************************************************************************)
EXTENDS MCStudy, FiniteSetTheorems, WellFoundedInduction, TLAPS

Status == {"none", "in_progress", "passed", "failed", "abandoned"}
Row == [mode : Modes \cup {None}, status : Status,
        reason : {"", "completed", "time_up", "too_many_errors"},
        score : 0..Cardinality(Questions), start : 0..MaxTime]
Request == [kind : Kinds \cup {"none"}, at : {"idle", "wait", "locked", "point"},
            q : Questions \cup {None}, right : BOOLEAN, seen : Status]
Sheet == [Questions -> {"none", "right", "wrong"}]

\* A request at work on the row has the lock, and the row is as it saw it.
LockHeld(w) ==
    req[w].at = "locked" /\ req[w].kind # "view" => rowLock = w /\ req[w].seen = row.status

\* A view that saw a session which was over can show every key.
ViewSeen(w) ==
    req[w].at = "locked" /\ req[w].kind = "view" /\ req[w].seen # "in_progress" => Finished

\* An answer is one to a question of the session.
AnswerNamed(w) == req[w].kind = "answer" => req[w].q \in Questions

Sound(w) == LockHeld(w) /\ ViewSeen(w) /\ AnswerNamed(w)

\* Nothing has happened in a session that has not started.
Fresh ==
    row.status = "none" =>
        /\ \A w \in Actors : req[w].at = "idle"
        /\ \A q \in Questions : answers[q] = "none"
        /\ revealed = {} /\ row.reason = ""

Due == {w \in Actors : req[w].at = "point"}

\* Every point recorded or still to be recorded belongs to a right answer.
PointsOwed == points + Cardinality(Due) <= Cardinality(Right(answers))

ReviewedOnce == \A q \in Questions : reviews[q] <= IF answers[q] = "none" THEN 0 ELSE 1

Marking == VerdictEarned /\ StopsAtTheMistake
Counting == PointsOwed /\ ReviewedOnce
Flight == (\A w \in Actors : Sound(w)) /\ Fresh
IInv == TypeOK /\ Marking /\ Counting /\ Flight /\ KeySealed

-----------------------------------------------------------------------------
(* The operators.                                                          *)

LEMMA Typed ==
    TypeOK <=> /\ now \in 0..MaxTime /\ row \in Row /\ answers \in Sheet
               /\ reviews \in [Questions -> Nat] /\ cert \in Nat /\ points \in Nat
               /\ revealed \subseteq Questions /\ rowLock \in Actors \cup {None}
               /\ req \in [Actors -> Request] /\ crashes \in 0..MaxCrashes
BY DEF TypeOK, Row, Request, Sheet, Status

\* The counts of CountSessionAnswers are numbers up to the session's length.
LEMMA Counted ==
    ASSUME NEW a \in Sheet
    PROVE  /\ IsFiniteSet(Right(a)) /\ Cardinality(Right(a)) \in 0..Total
           /\ IsFiniteSet(Wrong(a)) /\ Cardinality(Wrong(a)) \in 0..Total
           /\ Total \in Nat
<1>1. Right(a) \in SUBSET Questions /\ Wrong(a) \in SUBSET Questions
  BY DEF Right, Wrong
<1>2. IsFiniteSet(Questions) /\ Total \in Nat
  BY SessionAssumption, FS_CardinalityType DEF Total
<1>3. IsFiniteSet(Right(a)) /\ Cardinality(Right(a)) <= Total
  BY <1>1, <1>2, FS_Subset DEF Total
<1>4. IsFiniteSet(Wrong(a)) /\ Cardinality(Wrong(a)) <= Total
  BY <1>1, <1>2, FS_Subset DEF Total
<1>5. Cardinality(Right(a)) \in Nat /\ Cardinality(Wrong(a)) \in Nat
  BY <1>3, <1>4, FS_CardinalityType
<1>6. QED
  BY <1>2, <1>3, <1>4, <1>5

\* InsertSessionAnswer counts the answer once, as right or as wrong.
LEMMA Marked ==
    ASSUME NEW a \in Sheet, NEW q \in Questions, a[q] = "none", NEW m \in {"right", "wrong"},
           NEW b \in Sheet, b[q] = m, \A p \in Questions \ {q} : b[p] = a[p]
    PROVE  /\ Cardinality(Right(b)) = Cardinality(Right(a)) + IF m = "right" THEN 1 ELSE 0
           /\ Cardinality(Wrong(b)) = Cardinality(Wrong(a)) + IF m = "right" THEN 0 ELSE 1
<1>2. /\ IsFiniteSet(Right(a)) /\ Cardinality(Right(a)) \in Nat
      /\ IsFiniteSet(Wrong(a)) /\ Cardinality(Wrong(a)) \in Nat
  BY Counted
<1> DEFINE Grows == /\ Cardinality(Right(b)) = Cardinality(Right(a)) + IF m = "right" THEN 1 ELSE 0
                    /\ Cardinality(Wrong(b)) = Cardinality(Wrong(a)) + IF m = "right" THEN 0 ELSE 1
<1>3. ASSUME m = "right" PROVE Grows
  <2>1. Right(b) = Right(a) \cup {q} /\ q \notin Right(a) /\ Wrong(b) = Wrong(a)
    BY <1>3 DEF Right, Wrong, Sheet
  <2>2. Cardinality(Right(a) \cup {q}) = Cardinality(Right(a)) + 1
    BY <1>2, <2>1, FS_AddElement
  <2>3. QED
    BY <1>2, <1>3, <2>1, <2>2
<1>4. ASSUME m = "wrong" PROVE Grows
  <2>1. Wrong(b) = Wrong(a) \cup {q} /\ q \notin Wrong(a) /\ Right(b) = Right(a)
    BY <1>4 DEF Right, Wrong, Sheet
  <2>2. Cardinality(Wrong(a) \cup {q}) = Cardinality(Wrong(a)) + 1
    BY <1>2, <2>1, FS_AddElement
  <2>3. QED
    BY <1>2, <1>4, <2>1, <2>2
<1>5. Grows
  BY <1>3, <1>4
<1>6. QED
  BY <1>5

\* What EvaluateExam, EvaluatePlacement and the untimed rule can say.
LEMMA VerdictFacts ==
    ASSUME NEW a \in Sheet, NEW timedOut \in BOOLEAN, NEW tooMany \in BOOLEAN, tooMany => Timed
    PROVE  LET v == Verdict(a, timedOut, tooMany)
           IN  /\ v.status \in {"passed", "failed", "abandoned"}
               /\ v.reason \in {"", "completed", "time_up", "too_many_errors"}
               /\ v.reason = "too_many_errors" <=> tooMany
               /\ tooMany => v.status = "failed"
               /\ v.reason = "time_up" => timedOut /\ Timed
               /\ v.status = "passed" =>
                     /\ Timed => Cardinality(Wrong(a)) <= Budget
                     /\ row.mode \in {"exam", "grand_mock"} => Cardinality(Right(a)) >= Total - Budget
                     /\ row.mode \notin {"exam", "grand_mock"} =>
                           Right(a) \cup Wrong(a) = Questions /\ v.reason = "completed"
<1>1. CASE row.mode \in {"exam", "grand_mock"}
  BY <1>1 DEF Verdict, EvaluateExam, Timed, ExamLike
<1>2. CASE row.mode = "placement"
  BY <1>2 DEF Verdict, EvaluatePlacement, Timed, ExamLike
<1>3. CASE row.mode \notin ExamLike
  BY <1>3 DEF Verdict, EvaluateOther, Timed, ExamLike
<1>4. QED
  BY <1>1, <1>2, <1>3 DEF ExamLike

-----------------------------------------------------------------------------
(* The row.                                                                *)

\* A step that touches neither row nor answers: time only makes a session
\* later.
LEMMA MarkingStays ==
    ASSUME TypeOK, Marking, UNCHANGED <<row, answers, cert>>, now' \in 0..MaxTime, now' >= now
    PROVE  Marking'
<1>1. VerdictEarned'
  <2>1. ScoreIsCount' /\ PassIsEarned' /\ CertificateIffPassed'
    BY DEF Marking, VerdictEarned, ScoreIsCount, PassIsEarned, CertificateIffPassed, Finished,
           Right, Wrong, Budget, Timed, Total
  <2>2. PastDeadline => PastDeadline'
    <3>1. row \in Row /\ now \in 0..MaxTime
      BY Typed
    <3>2. row.start \in 0..MaxTime
      BY <3>1 DEF Row
    <3>3. Limit \in Nat /\ MaxTime \in Nat
      BY SessionAssumption
    <3>4. QED
      BY <3>1, <3>2, <3>3 DEF PastDeadline, Timed
  <2>3. TimeUpIsLate'
    BY <2>2 DEF Marking, VerdictEarned, TimeUpIsLate
  <2>4. QED
    BY <2>1, <2>3 DEF VerdictEarned
<1>2. StopsAtTheMistake'
  BY DEF Marking, StopsAtTheMistake, Wrong, Budget, Timed
<1>3. QED
  BY <1>1, <1>2 DEF Marking

\* finishInternal, on the answers that are stored with it, gives a verdict
\* that is earned.
LEMMA Finishing ==
    ASSUME TypeOK, Marking, row.status = "in_progress", now' = now,
           NEW a \in Sheet, answers' = a,
           NEW timedOut \in BOOLEAN, NEW tooMany \in BOOLEAN,
           tooMany => Timed, timedOut => PastDeadline \/ ~Timed,
           Timed => /\ Cardinality(Wrong(a)) <= Budget + 1
                    /\ Cardinality(Wrong(a)) > Budget <=> tooMany,
           FinishInternal(a, timedOut, tooMany)
    PROVE  Marking' /\ row' \in Row /\ cert' \in Nat /\ Finished'
<1> DEFINE v == Verdict(a, timedOut, tooMany)
           n == Cardinality(Right(a))
<1>1. /\ v.status \in {"passed", "failed", "abandoned"}
      /\ v.reason \in {"", "completed", "time_up", "too_many_errors"}
      /\ v.reason = "too_many_errors" <=> tooMany
      /\ tooMany => v.status = "failed"
      /\ v.reason = "time_up" => timedOut /\ Timed
      /\ v.status = "passed" =>
            /\ Timed => Cardinality(Wrong(a)) <= Budget
            /\ row.mode \in {"exam", "grand_mock"} => Cardinality(Right(a)) >= Total - Budget
            /\ row.mode \notin {"exam", "grand_mock"} =>
                  Right(a) \cup Wrong(a) = Questions /\ v.reason = "completed"
  BY VerdictFacts, ZenonT(60)
<1>2. row' = [row EXCEPT !.status = v.status, !.reason = v.reason, !.score = n]
  BY DEF FinishInternal, FinishExamSession, CountSessionAnswers
<1>3. cert' = IF row.mode = "grand_mock" /\ v.status = "passed" THEN 1 ELSE cert
  BY DEF FinishInternal, InsertGrandMockCertificate
<1>4. row \in Row /\ cert \in Nat /\ n \in 0..Cardinality(Questions)
  BY Typed, Counted DEF Total
<1> HIDE DEF v, n
<1>5. /\ row' \in Row
      /\ row'.status = v.status /\ row'.reason = v.reason /\ row'.score = n
      /\ row'.mode = row.mode /\ row'.start = row.start
  BY <1>1, <1>2, <1>4 DEF Row, Status
<1>6. Finished' /\ cert' \in Nat
  BY <1>1, <1>3, <1>4, <1>5 DEF Finished
<1>7. Timed' <=> Timed
  BY <1>5 DEF Timed
<1>8. Budget' = Budget
  BY <1>5 DEF Budget
<1>9. Right(answers)' = Right(a) /\ Wrong(answers)' = Wrong(a) /\ Total' = Total
  BY DEF Right, Wrong, Total
<1>10. ScoreIsCount'
  BY <1>5, <1>9 DEF ScoreIsCount, n
<1>11. PassIsEarned'
  BY <1>1, <1>5, <1>7, <1>8, <1>9 DEF PassIsEarned
<1>12. CertificateIffPassed'
  <2>1. cert = 0
    BY DEF Marking, VerdictEarned, CertificateIffPassed
  <2>2. QED
    BY <1>3, <1>5, <2>1 DEF CertificateIffPassed
<1>13. TimeUpIsLate'
  <2>1. PastDeadline => PastDeadline'
    BY <1>5, <1>7 DEF PastDeadline
  <2>2. QED
    BY <1>1, <1>5, <2>1 DEF TimeUpIsLate
<1>14. StopsAtTheMistake'
  BY <1>1, <1>5, <1>7, <1>8, <1>9 DEF StopsAtTheMistake
<1>15. QED
  BY <1>5, <1>6, <1>10, <1>11, <1>12, <1>13, <1>14 DEF Marking, VerdictEarned

-----------------------------------------------------------------------------
(* The requests.                                                           *)

\* The points still to come are finitely many.
LEMMA DueFinite == IsFiniteSet(Due) /\ Cardinality(Due) \in Nat
<1>1. IsFiniteSet(Actors) /\ Due \in SUBSET Actors
  BY SessionAssumption, FS_AddElement DEF Actors, Due
<1>2. QED
  BY <1>1, FS_Subset, FS_CardinalityType

\* The points still to come, when one request changes.
LEMMA DueStep ==
    ASSUME TypeOK, NEW w \in Actors, NEW r \in Request, req' = [req EXCEPT ![w] = r]
    PROVE  /\ req' \in [Actors -> Request] /\ req'[w] = r
           /\ \A u \in Actors \ {w} : req'[u] = req[u]
           /\ Cardinality(Due) \in Nat /\ Cardinality(Due') \in Nat
           /\ Cardinality(Due') = Cardinality(Due)
                + (IF r.at = "point" THEN 1 ELSE 0) - (IF req[w].at = "point" THEN 1 ELSE 0)
<1>1. /\ req' \in [Actors -> Request] /\ req'[w] = r
      /\ \A u \in Actors \ {w} : req'[u] = req[u]
  BY Typed
<1>2. IsFiniteSet(Actors)
  BY SessionAssumption, FS_AddElement DEF Actors
<1>3. Due \in SUBSET Actors /\ Due' \in SUBSET Actors
  BY DEF Due
<1>4. IsFiniteSet(Due) /\ Cardinality(Due) \in Nat /\ Cardinality(Due') \in Nat
  BY <1>2, <1>3, FS_Subset, FS_CardinalityType
<1>5. CASE r.at = "point"
  <2>1. Due' = Due \cup {w} /\ (w \in Due <=> req[w].at = "point")
    BY <1>1, <1>5 DEF Due
  <2>2. Cardinality(Due \cup {w}) = IF w \in Due THEN Cardinality(Due) ELSE Cardinality(Due) + 1
    BY <1>4, FS_AddElement
  <2>3. QED
    BY <1>1, <1>4, <1>5, <2>1, <2>2
<1>6. CASE r.at # "point"
  <2>1. Due' = Due \ {w} /\ (w \in Due <=> req[w].at = "point")
    BY <1>1, <1>6 DEF Due
  <2>2. Cardinality(Due \ {w}) = IF w \in Due THEN Cardinality(Due) - 1 ELSE Cardinality(Due)
    BY <1>4, FS_RemoveElement
  <2>3. QED
    BY <1>1, <1>4, <1>6, <2>1, <2>2
<1>7. QED
  BY <1>5, <1>6

\* A step that writes neither the row nor an answer, of one request.
LEMMA QuietStep ==
    ASSUME IInv, UNCHANGED <<row, answers, reviews, cert>>,
           now' \in 0..MaxTime, now' >= now, crashes' \in 0..MaxCrashes,
           NEW w \in Actors, NEW r \in Request, req' = [req EXCEPT ![w] = r], Sound(w)',
           row.status = "none" => r.at = "idle" /\ revealed' = revealed,
           rowLock' \in Actors \cup {None},
           \A u \in Actors \ {w} : rowLock = u => rowLock' = u,
           \/ points' = points /\ (r.at = "point" => req[w].at = "point")
           \/ points' = points + 1 /\ req[w].at = "point" /\ r.at # "point",
           revealed' \subseteq Questions,
           row.status = "in_progress" => \A q \in revealed' : q \in revealed \/ answers[q] # "none"
    PROVE  IInv'
<1>0. TypeOK /\ points \in Nat
  BY Typed DEF IInv
<1>1. /\ req' \in [Actors -> Request] /\ req'[w] = r
      /\ \A u \in Actors \ {w} : req'[u] = req[u]
      /\ Cardinality(Due) \in Nat /\ Cardinality(Due') \in Nat
      /\ Cardinality(Due') = Cardinality(Due)
           + (IF r.at = "point" THEN 1 ELSE 0) - (IF req[w].at = "point" THEN 1 ELSE 0)
  BY <1>0, DueStep
<1>p. points' \in Nat
  BY <1>0
<1>2. TypeOK'
  BY <1>0, <1>1, <1>p DEF TypeOK, Request, Status
<1>3. Marking'
  BY <1>0, MarkingStays DEF IInv
<1>4. Counting'
  <2>1. PointsOwed'
    <3>0. answers \in Sheet
      BY <1>0, Typed
    <3>1. Cardinality(Right(answers)) \in Nat /\ Right(answers)' = Right(answers)
      BY <3>0, Counted DEF Right
    <3>2. points + Cardinality(Due) <= Cardinality(Right(answers))
      BY DEF IInv, Counting, PointsOwed
    <3>3. points' + Cardinality(Due') <= Cardinality(Right(answers))
      BY <1>0, <1>1, <3>1, <3>2
    <3>4. QED
      BY <3>1, <3>3 DEF PointsOwed
  <2>2. QED
    BY <2>1 DEF IInv, Counting, ReviewedOnce
<1>5. Flight'
  <2>1. ASSUME NEW u \in Actors PROVE Sound(u)'
    <3>1. CASE u = w
      BY <3>1
    <3>2. CASE u # w
      BY <1>1, <3>2 DEF IInv, Flight, Sound, LockHeld, ViewSeen, AnswerNamed, Finished
    <3>3. QED
      BY <3>1, <3>2
  <2>2. Fresh'
    BY <1>1 DEF IInv, Flight, Fresh
  <2>3. QED
    BY <2>1, <2>2 DEF Flight
<1>6. KeySealed'
  BY DEF IInv, KeySealed
<1>7. QED
  BY <1>2, <1>3, <1>4, <1>5, <1>6 DEF IInv

\* Arrivals, locks, refused answers, views, points, crashes and the clock.
LEMMA QuietActions ==
    ASSUME IInv, NEW w \in Actors,
           \/ \E kind \in Kinds, q \in Questions \cup {None}, right \in BOOLEAN :
                 (kind = "answer" => q \in Questions) /\ Arrive(w, kind, q, right)
           \/ LockSession(w) \/ AnswerRefused(w) \/ RecordPoint(w) \/ ViewRow(w) \/ ViewAnswers(w)
           \/ Crash(w) \/ Tick \/ UNCHANGED vars
    PROVE  IInv'
<1>0. /\ TypeOK /\ now \in 0..MaxTime /\ crashes \in 0..MaxCrashes /\ req \in [Actors -> Request]
      /\ rowLock \in Actors \cup {None} /\ revealed \subseteq Questions /\ req[w] \in Request
      /\ now \in Int /\ now >= now
      /\ NoReq \in Request /\ NoReq.at = "idle" /\ NoReq.kind = "none"
  BY Typed, SessionAssumption DEF IInv, Request, NoReq, Status
<1>s. Sound(w) /\ Fresh /\ row \in Row
  BY Typed DEF IInv, Flight
<1>1. ASSUME NEW kind \in Kinds, NEW q \in Questions \cup {None}, NEW right \in BOOLEAN,
             kind = "answer" => q \in Questions, Arrive(w, kind, q, right)
      PROVE  IInv'
  <2> DEFINE r == [kind |-> kind, at |-> "wait", q |-> q, right |-> right, seen |-> "none"]
  <2>1. r \in Request /\ r.at = "wait" /\ r.kind = kind /\ r.q = q
    BY DEF Request, Status
  <2>2. /\ req' = [req EXCEPT ![w] = r] /\ row.status # "none" /\ req[w].at = "idle"
        /\ UNCHANGED <<now, row, answers, reviews, cert, points, revealed, rowLock, crashes>>
    BY <1>1 DEF Arrive
  <2> HIDE DEF r
  <2>3. Sound(w)'
    BY <1>0, <1>1, <2>1, <2>2 DEF Sound, LockHeld, ViewSeen, AnswerNamed
  <2>4. QED
    BY <1>0, <2>1, <2>2, <2>3, QuietStep
<1>2. CASE LockSession(w) \/ ViewRow(w)
  <2> DEFINE r == [req[w] EXCEPT !.at = "locked", !.seen = row.status]
  <2>1. r \in Request /\ r.at = "locked" /\ r.kind = req[w].kind /\ r.q = req[w].q
        /\ r.seen = row.status
    BY <1>0, <1>s DEF Request, Row
  <2>2. /\ req' = [req EXCEPT ![w] = r] /\ req[w].at = "wait"
        /\ UNCHANGED <<now, row, answers, reviews, cert, points, revealed, crashes>>
    BY <1>0, <1>2 DEF LockSession, ViewRow, GetExamSessionForUpdate, GetExamSession
  <2>3. /\ rowLock' \in Actors \cup {None} /\ \A u \in Actors \ {w} : rowLock = u => rowLock' = u
        /\ req[w].kind # "view" => rowLock' = w
    BY <1>0, <1>2, SessionAssumption DEF LockSession, ViewRow, GetExamSessionForUpdate, Actors
  <2>4. row.status # "none"
    BY <1>s, <2>2 DEF Fresh
  <2> HIDE DEF r
  <2>5. req'[w] = r
    BY <1>0, <2>2
  <2>6. Sound(w)'
    <3>1. LockHeld(w)'
      BY <2>1, <2>2, <2>3, <2>5 DEF LockHeld
    <3>2. ViewSeen(w)'
      BY <1>s, <2>1, <2>2, <2>4, <2>5 DEF ViewSeen, Finished, Row, Status
    <3>3. AnswerNamed(w)'
      BY <1>s, <2>1, <2>5 DEF Sound, AnswerNamed
    <3>4. QED
      BY <3>1, <3>2, <3>3 DEF Sound
  <2>7. QED
    BY <1>0, <2>1, <2>2, <2>3, <2>4, <2>6, QuietStep
<1>3. CASE AnswerRefused(w) \/ RecordPoint(w) \/ ViewAnswers(w) \/ Crash(w)
  <2>1. /\ req' = [req EXCEPT ![w] = NoReq]
        /\ UNCHANGED <<now, row, answers, reviews, cert>>
    BY <1>3 DEF AnswerRefused, RecordPoint, ViewAnswers, Crash, EndTx
  <2>2. /\ rowLock' \in Actors \cup {None} /\ \A u \in Actors \ {w} : rowLock = u => rowLock' = u
        /\ crashes' \in 0..MaxCrashes
    BY <1>0, <1>3, SessionAssumption DEF AnswerRefused, RecordPoint, ViewAnswers, Crash, EndTx
  <2>3. points' = points \/ (points' = points + 1 /\ req[w].at = "point")
    BY <1>3 DEF AnswerRefused, RecordPoint, ViewAnswers, Crash
  <2>4. req[w].at # "idle" /\ row.status # "none"
    BY <1>3, <1>s DEF AnswerRefused, RecordPoint, ViewAnswers, Crash, Answering, Fresh
  <2>5. /\ revealed' \subseteq Questions
        /\ row.status = "in_progress" => \A q \in revealed' : q \in revealed \/ answers[q] # "none"
    <3>1. CASE revealed' = revealed
      BY <1>0, <3>1
    <3>2. CASE ViewAnswers(w)
      <4>1. row.status = "in_progress" => req[w].seen = "in_progress"
        BY <1>s, <3>2 DEF ViewAnswers, Sound, ViewSeen, Finished
      <4>2. QED
        BY <1>0, <3>2, <4>1 DEF ViewAnswers, ListSessionQuestionsWithAnswers, KeyShown,
                                GetSessionAnswer
    <3>3. QED
      BY <1>3, <3>1, <3>2 DEF AnswerRefused, RecordPoint, Crash
  <2>6. req'[w] = NoReq
    BY <1>0, <2>1
  <2>7. Sound(w)'
    BY <1>0, <2>6 DEF Sound, LockHeld, ViewSeen, AnswerNamed
  <2>8. QED
    BY <1>0, <2>1, <2>2, <2>3, <2>4, <2>5, <2>7, QuietStep
<1>4. CASE Tick \/ UNCHANGED vars
  <2>1. /\ UNCHANGED <<row, answers, reviews, cert, points, revealed, rowLock, req, crashes>>
        /\ now' \in 0..MaxTime /\ now' >= now
    BY <1>0, <1>4, SessionAssumption DEF Tick, vars
  <2>2. req' = [req EXCEPT ![w] = req[w]]
    BY <1>0, <2>1
  <2>3. Sound(w)'
    BY <1>s, <2>1 DEF Sound, LockHeld, ViewSeen, AnswerNamed, Finished
  <2>4. row.status = "none" => req[w].at = "idle"
    BY <1>s DEF Fresh
  <2>5. QED
    BY <1>0, <2>1, <2>2, <2>3, <2>4, QuietStep
<1>5. QED
  BY <1>1, <1>2, <1>3, <1>4

\* StartSession: the row is there, nothing is answered.
LEMMA StartStep ==
    ASSUME IInv, NEW m \in Modes, StartSession(m)
    PROVE  IInv'
<1>0. /\ TypeOK /\ row \in Row /\ now \in 0..MaxTime /\ answers \in Sheet
      /\ Fresh /\ row.status = "none"
  BY Typed DEF IInv, Flight, StartSession
<1>1. /\ row' = [row EXCEPT !.mode = m, !.status = "in_progress", !.start = now]
      /\ UNCHANGED <<now, answers, reviews, cert, points, revealed, rowLock, req, crashes>>
  BY DEF StartSession, CreateExamSession
<1>2. /\ row' \in Row /\ row'.status = "in_progress" /\ row'.mode = m /\ row'.reason = ""
  BY <1>0, <1>1 DEF Row, Status, Fresh
<1>3. TypeOK'
  BY <1>0, <1>1, <1>2 DEF TypeOK, Row, Status
<1>4. Marking'
  <2>1. Wrong(answers)' = {} /\ Cardinality({}) = 0
    BY <1>0, <1>1, FS_EmptySet DEF Fresh, Wrong
  <2>2. Timed' => Budget' \in Nat
    BY <1>2, SessionAssumption DEF Timed, Budget
  <2>3. StopsAtTheMistake'
    <3> SUFFICES ASSUME Timed'
                 PROVE  /\ Cardinality(Wrong(answers))' <= Budget' + 1
                        /\ ~(Cardinality(Wrong(answers))' > Budget')
      BY <1>2 DEF StopsAtTheMistake
    <3>1. Cardinality(Wrong(answers))' = 0
      BY <2>1
    <3>2. QED
      BY <2>2, <3>1
  <2>4. cert' = 0
    BY <1>0, <1>1 DEF IInv, Marking, VerdictEarned, CertificateIffPassed
  <2>5. VerdictEarned'
    BY <1>2, <2>4 DEF VerdictEarned, ScoreIsCount, PassIsEarned, CertificateIffPassed,
                      TimeUpIsLate, Finished
  <2>6. QED
    BY <2>3, <2>5 DEF Marking
<1>5. Counting'
  BY <1>1 DEF IInv, Counting, PointsOwed, ReviewedOnce, Due, Right
<1>6. Flight'
  BY <1>0, <1>1, <1>2 DEF IInv, Flight, Fresh, Sound, LockHeld, ViewSeen, AnswerNamed
<1>7. KeySealed'
  BY <1>0, <1>1 DEF Fresh, KeySealed
<1>8. QED
  BY <1>3, <1>4, <1>5, <1>6, <1>7 DEF IInv

\* The request that holds the row ends its transaction: nobody else is at work
\* on the row, and no view has seen it finished.
LEMMA HolderStep ==
    ASSUME IInv, NEW w \in Actors, req[w].at = "locked", req[w].kind # "view",
           req[w].seen = "in_progress", NEW at \in {"idle", "point"}, EndTx(w, at),
           row' \in Row, row'.status # "none"
    PROVE  /\ row.status = "in_progress"
           /\ \E r \in Request : r.at = at /\ req' = [req EXCEPT ![w] = r]
           /\ rowLock' \in Actors \cup {None}
           /\ Flight'
<1>0. TypeOK /\ req \in [Actors -> Request] /\ rowLock \in Actors \cup {None} /\ req[w] \in Request
  BY Typed DEF IInv
<1>1. Sound(w) /\ row.status = "in_progress" /\ rowLock = w
  BY DEF IInv, Flight, Sound, LockHeld
<1> DEFINE r == IF at = "idle" THEN NoReq ELSE [req[w] EXCEPT !.at = at]
<1>2. r \in Request /\ r.at = at
  BY <1>0 DEF Request, NoReq, Status
<1>3. r.kind = "answer" => r.q \in Questions
  BY <1>0, <1>1 DEF Request, NoReq, Sound, AnswerNamed
<1>4. req' = [req EXCEPT ![w] = r] /\ rowLock' = None
  BY <1>0, <1>1 DEF EndTx
<1> HIDE DEF r
<1>5. req'[w] = r /\ \A u \in Actors \ {w} : req'[u] = req[u]
  BY <1>0, <1>4
<1>6. Sound(w)'
  BY <1>2, <1>3, <1>5 DEF Sound, LockHeld, ViewSeen, AnswerNamed
<1>7. ASSUME NEW u \in Actors \ {w} PROVE Sound(u)'
  <2>1. Sound(u) /\ req'[u] = req[u]
    BY <1>5 DEF IInv, Flight
  <2>2. LockHeld(u)'
    BY <1>1, <2>1 DEF Sound, LockHeld
  <2>3. ViewSeen(u)'
    BY <1>1, <2>1 DEF Sound, ViewSeen, Finished
  <2>4. AnswerNamed(u)'
    BY <2>1 DEF Sound, AnswerNamed
  <2>5. QED
    BY <2>2, <2>3, <2>4 DEF Sound
<1>8. Flight'
  BY <1>6, <1>7 DEF Flight, Fresh
<1>9. QED
  BY <1>1, <1>2, <1>4, <1>8

\* A verdict on what is stored: by the deadline, by the learner, by the sweep.
LEMMA VerdictStep ==
    ASSUME IInv, NEW w \in Actors, req[w].at = "locked", req[w].kind # "view",
           req[w].seen = "in_progress", NEW timedOut \in BOOLEAN, timedOut => PastDeadline,
           FinishInternal(answers, timedOut, FALSE), EndTx(w, "idle"),
           UNCHANGED <<now, answers, reviews, points, revealed, crashes>>
    PROVE  IInv' /\ row.status = "in_progress"
<1>0. /\ TypeOK /\ answers \in Sheet /\ points \in Nat /\ req \in [Actors -> Request]
  BY Typed DEF IInv
<1>1. row.status = "in_progress"
  BY DEF IInv, Flight, Sound, LockHeld
<1>2. Timed => /\ Cardinality(Wrong(answers)) <= Budget + 1
               /\ Cardinality(Wrong(answers)) > Budget <=> FALSE
  BY <1>1 DEF IInv, Marking, StopsAtTheMistake
<1>3. Marking' /\ row' \in Row /\ cert' \in Nat /\ Finished'
  BY <1>0, <1>1, <1>2, Finishing DEF IInv
<1>4. row'.status \notin {"none", "in_progress"}
  BY <1>3 DEF Finished
<1>5. PICK r \in Request : r.at = "idle" /\ req' = [req EXCEPT ![w] = r]
  BY <1>3, <1>4, HolderStep
<1>6. rowLock' \in Actors \cup {None} /\ Flight'
  BY <1>3, <1>4, HolderStep
<1>d. /\ req' \in [Actors -> Request] /\ Cardinality(Due) \in Nat
      /\ Cardinality(Due') = Cardinality(Due)
           + (IF r.at = "point" THEN 1 ELSE 0) - (IF req[w].at = "point" THEN 1 ELSE 0)
  BY <1>0, <1>5, DueStep
<1>7. /\ req' \in [Actors -> Request]
      /\ Cardinality(Due) \in Nat /\ Cardinality(Due') = Cardinality(Due)
  BY <1>5, <1>d
<1>8. TypeOK'
  BY <1>0, <1>3, <1>6, <1>7 DEF TypeOK, Row, Request, Status
<1>9. Counting'
  BY <1>7 DEF IInv, Counting, PointsOwed, ReviewedOnce, Right
<1>10. KeySealed'
  BY <1>4 DEF KeySealed
<1>11. QED
  BY <1>1, <1>3, <1>6, <1>8, <1>9, <1>10 DEF IInv

\* SubmitAnswer's commit: the answer, its review and the point it owes, and
\* the verdict if it is one mistake too many.
LEMMA RecordStep ==
    ASSUME IInv, NEW w \in Actors, AnswerRecord(w)
    PROVE  IInv' /\ row.status = "in_progress"
<1>0. /\ TypeOK /\ answers \in Sheet /\ points \in Nat /\ req \in [Actors -> Request]
      /\ reviews \in [Questions -> Nat] /\ row \in Row /\ req[w] \in Request /\ cert \in Nat
  BY Typed DEF IInv
<1> DEFINE q == req[w].q
           m == GetAnswerForScoring(w)
           a == [answers EXCEPT ![q] = m]
           at == IF req[w].right THEN "point" ELSE "idle"
<1>1. /\ req[w].at = "locked" /\ req[w].kind = "answer" /\ req[w].seen = "in_progress"
      /\ answers[q] = "none" /\ answers' = a /\ EndTx(w, at)
      /\ revealed' = revealed \cup {q} /\ UNCHANGED <<now, points, crashes>>
  BY DEF AnswerRecord, Answering, GetSessionAnswer, InsertSessionAnswer
<1>2. q \in Questions /\ row.status = "in_progress"
  BY <1>1 DEF IInv, Flight, Sound, LockHeld, AnswerNamed
<1>3. m \in {"right", "wrong"} /\ (m = "right" <=> at = "point") /\ at \in {"idle", "point"}
  BY <1>0 DEF GetAnswerForScoring, Request
<1>4. IF Timed /\ StopForErrors(a) THEN FinishInternal(a, FALSE, TRUE) ELSE UNCHANGED <<row, cert>>
  BY DEF AnswerRecord, InsertSessionAnswer
<1>5. /\ reviews' \in [Questions -> Nat]
      /\ \A p \in Questions : reviews'[p] = reviews[p] \/ (p = q /\ reviews'[p] = reviews[p] + 1)
  BY <1>0, <1>2 DEF AnswerRecord
<1>e. a \in Sheet /\ a[q] = m /\ \A p \in Questions \ {q} : a[p] = answers[p]
  BY <1>0, <1>2, <1>3 DEF Sheet
<1> HIDE DEF q, m, at, a
<1>6. /\ a \in Sheet /\ a[q] = m /\ \A p \in Questions \ {q} : a[p] = answers[p]
      /\ Cardinality(Right(a)) = Cardinality(Right(answers)) + IF m = "right" THEN 1 ELSE 0
      /\ Cardinality(Wrong(a)) = Cardinality(Wrong(answers)) + IF m = "right" THEN 0 ELSE 1
  BY <1>0, <1>1, <1>2, <1>3, <1>e, Marked
<1>7. /\ Cardinality(Right(answers)) \in Nat /\ Cardinality(Wrong(answers)) \in Nat
      /\ Cardinality(Right(a)) \in Nat /\ Cardinality(Wrong(a)) \in Nat
  BY <1>0, <1>6, Counted
<1>8. Timed => Budget \in Nat /\ Cardinality(Wrong(answers)) <= Budget
  BY <1>2, <1>7, SessionAssumption DEF Timed, Budget, IInv, Marking, StopsAtTheMistake
<1>9. StopForErrors(a) <=> Cardinality(Wrong(a)) > Budget
  BY DEF StopForErrors, CountSessionAnswers
<1>10. Marking' /\ row' \in Row /\ cert' \in Nat /\ row'.status # "none"
  <2>1. CASE Timed /\ StopForErrors(a)
    <3>1. /\ Cardinality(Wrong(a)) <= Budget + 1 /\ (Cardinality(Wrong(a)) > Budget <=> TRUE)
      BY <1>6, <1>7, <1>8, <1>9, <2>1
    <3>2. Marking' /\ row' \in Row /\ cert' \in Nat /\ Finished'
      BY <1>0, <1>1, <1>2, <1>4, <1>6, <2>1, <3>1, Finishing DEF IInv
    <3>3. QED
      BY <3>2 DEF Finished
  <2>2. CASE ~(Timed /\ StopForErrors(a))
    <3>1. UNCHANGED <<row, cert, now>> /\ answers' = a
      BY <1>1, <1>4, <2>2
    <3>2. VerdictEarned'
      BY <1>2, <3>1 DEF IInv, Marking, VerdictEarned, ScoreIsCount, PassIsEarned,
         CertificateIffPassed, TimeUpIsLate, Finished, PastDeadline, Timed
    <3>3. Wrong(answers)' = Wrong(a) /\ Budget' = Budget /\ Timed' = Timed
      BY <3>1 DEF Wrong, Budget, Timed
    <3>4. Timed => ~(Cardinality(Wrong(a)) > Budget) /\ Cardinality(Wrong(a)) <= Budget + 1
      BY <1>7, <1>8, <1>9, <2>2
    <3>5. StopsAtTheMistake'
      BY <1>2, <3>1, <3>3, <3>4 DEF StopsAtTheMistake
    <3>6. QED
      BY <1>0, <1>2, <3>1, <3>2, <3>5 DEF Marking
  <2>3. QED
    BY <2>1, <2>2
<1>11. PICK r \in Request : r.at = at /\ req' = [req EXCEPT ![w] = r]
  BY <1>1, <1>3, <1>10, HolderStep
<1>12. rowLock' \in Actors \cup {None} /\ Flight'
  BY <1>1, <1>3, <1>10, HolderStep
<1>13. /\ req' \in [Actors -> Request] /\ Cardinality(Due) \in Nat
       /\ Cardinality(Due') = Cardinality(Due) + IF m = "right" THEN 1 ELSE 0
  <2>1. /\ req' \in [Actors -> Request] /\ Cardinality(Due) \in Nat
        /\ Cardinality(Due') = Cardinality(Due)
             + (IF r.at = "point" THEN 1 ELSE 0) - (IF req[w].at = "point" THEN 1 ELSE 0)
    BY <1>0, <1>11, DueStep
  <2>2. QED
    BY <1>1, <1>3, <1>11, <2>1
<1>14. TypeOK'
  <2>1. revealed' \subseteq Questions
    BY <1>0, <1>1, <1>2 DEF TypeOK
  <2>2. QED
    BY <1>0, <1>1, <1>5, <1>6, <1>10, <1>12, <1>13, <2>1
       DEF TypeOK, Row, Request, Sheet, Status
<1>15. Counting'
  <2>1. points + Cardinality(Due) <= Cardinality(Right(answers))
    BY DEF IInv, Counting, PointsOwed
  <2>2. Right(answers)' = Right(a)
    BY <1>1 DEF Right
  <2>3. PointsOwed'
    BY <1>0, <1>1, <1>6, <1>7, <1>13, <2>1, <2>2 DEF PointsOwed
  <2>4. ReviewedOnce'
    BY <1>0, <1>1, <1>2, <1>3, <1>5, <1>6 DEF IInv, Counting, ReviewedOnce
  <2>5. QED
    BY <2>3, <2>4 DEF Counting
<1>16. KeySealed'
  <2> SUFFICES ASSUME NEW p \in revealed' PROVE answers'[p] # "none"
    BY DEF KeySealed
  <2>1. CASE p = q
    BY <1>1, <1>3, <1>6, <2>1
  <2>2. CASE p # q
    <3>1. p \in revealed /\ p \in Questions
      BY <1>0, <1>1, <2>2 DEF TypeOK
    <3>2. QED
      BY <1>1, <1>2, <1>6, <2>2, <3>1 DEF IInv, KeySealed
  <2>3. QED
    BY <2>1, <2>2
<1>17. QED
  BY <1>2, <1>10, <1>12, <1>14, <1>15, <1>16 DEF IInv

\* The three ways to a verdict under the lock: an answer past the deadline,
\* FinishSession and expireOne.
LEMMA ClosingActions ==
    ASSUME IInv, NEW w \in Actors,
           AnswerTimeUp(w) \/ FinishSession(w) \/ ExpireOne(w)
    PROVE  IInv' /\ (UNCHANGED <<row, answers, cert>> \/ row.status = "in_progress")
<1>0. PastDeadline \in BOOLEAN
  BY DEF PastDeadline, Timed
<1>1. CASE AnswerTimeUp(w)
  BY <1>1, VerdictStep DEF AnswerTimeUp, Answering
<1>2. CASE FinishSession(w) /\ req[w].seen = "in_progress"
  BY <1>0, <1>2, VerdictStep DEF FinishSession
<1>3. CASE ExpireOne(w) /\ req[w].seen = "in_progress" /\ PastDeadline
  BY <1>3, VerdictStep DEF ExpireOne
<1>4. CASE /\ UNCHANGED <<now, row, answers, reviews, cert, points, revealed, crashes>>
           /\ EndTx(w, "idle") /\ req[w].at = "locked"
  <2>1. /\ req \in [Actors -> Request] /\ rowLock \in Actors \cup {None} /\ now \in 0..MaxTime
        /\ crashes \in 0..MaxCrashes /\ revealed \subseteq Questions
        /\ NoReq \in Request /\ NoReq.at = "idle" /\ NoReq.kind = "none"
    BY Typed DEF IInv, Request, NoReq, Status
  <2>2. req' = [req EXCEPT ![w] = NoReq] /\ now \in Int /\ now >= now
    BY <1>4, <2>1, SessionAssumption DEF EndTx
  <2>3. /\ rowLock' \in Actors \cup {None} /\ \A u \in Actors \ {w} : rowLock = u => rowLock' = u
    BY <1>4, <2>1 DEF EndTx
  <2>4. req'[w] = NoReq
    BY <2>1, <2>2
  <2>5. Sound(w)'
    BY <2>1, <2>4 DEF Sound, LockHeld, ViewSeen, AnswerNamed
  <2>6. QED
    BY <1>4, <2>1, <2>2, <2>3, <2>5, QuietStep
<1>5. QED
  BY <1>1, <1>2, <1>3, <1>4 DEF FinishSession, ExpireOne

\* Every step keeps the inductive invariant, and touches row, answers and
\* certificate only while the session has not been decided.
LEMMA EveryStep ==
    ASSUME IInv, [Next]_vars
    PROVE  IInv' /\ (UNCHANGED <<row, answers, cert>> \/ row.status \in {"none", "in_progress"})
<1>0. Sweeper \in Actors /\ Workers \subseteq Actors
  BY DEF Actors
<1>1. ASSUME NEW m \in Modes, StartSession(m)
      PROVE  IInv' /\ row.status = "none"
  BY <1>1, StartStep DEF StartSession
<1>2. ASSUME NEW w \in Actors, LockSession(w) \/ Work(w) \/ Crash(w)
      PROVE  IInv' /\ (UNCHANGED <<row, answers, cert>> \/ row.status = "in_progress")
  <2>1. CASE AnswerRecord(w)
    BY <2>1, RecordStep
  <2>2. CASE AnswerTimeUp(w) \/ FinishSession(w) \/ ExpireOne(w)
    BY <2>2, ClosingActions
  <2>3. CASE LockSession(w) \/ AnswerRefused(w) \/ RecordPoint(w) \/ ViewRow(w) \/ ViewAnswers(w)
             \/ Crash(w)
    <3>1. IInv'
      BY <2>3, QuietActions
    <3>2. UNCHANGED <<row, answers, cert>>
      BY <2>3 DEF LockSession, AnswerRefused, RecordPoint, ViewRow, ViewAnswers, Crash
    <3>3. QED
      BY <3>1, <3>2
  <2>4. QED
    BY <1>2, <2>1, <2>2, <2>3 DEF Work
<1>3. ASSUME NEW w \in Actors, NEW kind \in Kinds, NEW q \in Questions \cup {None},
             NEW right \in BOOLEAN, kind = "answer" => q \in Questions, Arrive(w, kind, q, right)
      PROVE  IInv' /\ UNCHANGED <<row, answers, cert>>
  BY <1>3, QuietActions DEF Arrive
<1>4. CASE \E w \in Workers :
              \/ \E q \in Questions, right \in BOOLEAN : Arrive(w, "answer", q, right)
              \/ \E kind \in {"finish", "view"} : Arrive(w, kind, None, FALSE)
  BY <1>0, <1>3, <1>4 DEF Kinds
<1>5. CASE Sweep
  <2>1. Arrive(Sweeper, "expire", None, FALSE)
    BY <1>5 DEF Sweep
  <2>2. QED
    BY <1>0, <1>3, <2>1 DEF Kinds
<1>6. CASE Tick \/ UNCHANGED vars
  <2>1. IInv'
    BY <1>0, <1>6, QuietActions
  <2>2. QED
    BY <1>6, <2>1 DEF Tick, vars
<1>7. QED
  BY <1>1, <1>2, <1>4, <1>5, <1>6 DEF Next

-----------------------------------------------------------------------------
(* The theorems.                                                           *)

LEMMA InitIInv == Init => IInv
<1> SUFFICES ASSUME Init PROVE IInv
  OBVIOUS
<1>1. Right(answers) = {} /\ Wrong(answers) = {} /\ Due = {} /\ Cardinality({}) = 0
  BY FS_EmptySet DEF Init, Right, Wrong, Due, NoReq
<1>2. TypeOK
  <2>1. Cardinality(Questions) \in Nat
    BY SessionAssumption, FS_CardinalityType
  <2>2. /\ row = [mode |-> None, status |-> "none", reason |-> "", score |-> 0, start |-> 0]
        /\ req = [w \in Actors |-> NoReq] /\ answers = [q \in Questions |-> "none"]
        /\ reviews = [q \in Questions |-> 0] /\ now = 0 /\ crashes = 0
    BY DEF Init
  <2>3. NoReq \in Request
    BY DEF Request, NoReq, Status
  <2>4. 0 \in 0..MaxTime /\ 0 \in 0..MaxCrashes /\ 0 \in 0..Cardinality(Questions)
    BY <2>1, SessionAssumption
  <2>5. row \in Row
    BY <2>2, <2>4 DEF Row, Status
  <2>6. /\ answers \in Sheet /\ req \in [Actors -> Request] /\ reviews \in [Questions -> Nat]
    BY <2>2, <2>3 DEF Sheet
  <2>7. QED
    BY <2>2, <2>4, <2>5, <2>6, Typed DEF Init
<1>3. Marking
  <2>1. Timed => Budget \in Nat
    BY SessionAssumption DEF Timed, Budget
  <2>2. StopsAtTheMistake
    <3>r. row.reason # "too_many_errors"
      BY DEF Init
    <3>1. Cardinality(Wrong(answers)) = 0
      BY <1>1
    <3> SUFFICES ASSUME Timed
                 PROVE  /\ Cardinality(Wrong(answers)) <= Budget + 1
                        /\ ~(Cardinality(Wrong(answers)) > Budget)
      BY <3>r DEF StopsAtTheMistake
    <3>2. Budget \in Nat
      BY <2>1
    <3>3. QED
      BY <3>1, <3>2
  <2>3. VerdictEarned
    BY DEF Init, VerdictEarned, ScoreIsCount, PassIsEarned, CertificateIffPassed, TimeUpIsLate,
           Finished
  <2>4. QED
    BY <2>2, <2>3 DEF Marking
<1>4. Counting
  <2>1. points = 0 /\ Cardinality(Due) = 0 /\ Cardinality(Right(answers)) = 0
    BY <1>1 DEF Init
  <2>r. reviews = [q \in Questions |-> 0] /\ answers = [q \in Questions |-> "none"]
    BY DEF Init
  <2>2. ReviewedOnce
    BY <2>r DEF ReviewedOnce
  <2>3. QED
    BY <2>1, <2>2 DEF Counting, PointsOwed
<1>5. Flight /\ KeySealed
  BY DEF Init, Flight, Sound, LockHeld, ViewSeen, AnswerNamed, Fresh, KeySealed, NoReq
<1>6. QED
  BY <1>2, <1>3, <1>4, <1>5 DEF IInv

\* The inductive invariant holds in every reachable state.
THEOREM Invariance == Spec => []IInv
<1>1. IInv /\ [Next]_vars => IInv'
  BY EveryStep
<1>2. QED
  BY <1>1, InitIInv, PTL DEF Spec

\* The verdict follows from the stored answers and the clock, falls with the
\* mistake that exceeds the budget, and an answer counts once: however answers,
\* finish requests, the sweep and dying requests meet on the row.
THEOREM MarkingThm == Spec => []MarkingInv
<1>1. IInv => MarkingInv
  <2> SUFFICES ASSUME IInv PROVE MarkingInv
    OBVIOUS
  <2>1. TypeOK /\ VerdictEarned /\ StopsAtTheMistake /\ ReviewedOnce
    BY DEF IInv, Marking, Counting
  <2>2. points <= Cardinality(Right(answers))
    <3>1. points \in Nat /\ answers \in Sheet /\ req \in [Actors -> Request]
      BY <2>1, Typed
    <3>2. Cardinality(Due) \in Nat
      BY DueFinite
    <3>3. points + Cardinality(Due) <= Cardinality(Right(answers))
      BY DEF IInv, Counting, PointsOwed
    <3>4. QED
      BY <3>1, <3>2, <3>3, Counted
  <2>3. QED
    BY <2>1, <2>2 DEF MarkingInv, AnswerCountsOnce, ReviewedOnce
<1>2. QED
  BY <1>1, Invariance, PTL

\* Nobody is shown the key of a question that can still be answered, though a
\* view decides on a row it read before the answers.
THEOREM KeySealedThm == Spec => []KeySealed
<1>1. IInv => KeySealed
  BY DEF IInv
<1>2. QED
  BY <1>1, Invariance, PTL

\* A verdict is final: no later answer, finish or sweep changes the row, the
\* answers or the certificate.
THEOREM VerdictIsFinalThm == Spec => VerdictIsFinal
<1>1. IInv /\ [Next]_vars => [Finished => row' = row /\ answers' = answers /\ cert' = cert]_vars
  BY EveryStep DEF Finished
<1>2. QED
  BY <1>1, Invariance, PTL DEF Spec, VerdictIsFinal
-----------------------------------------------------------------------------
(***************************************************************************)
(* Ordered practice (PracticeWalk), for any number of sessions, topics of   *)
(* any length and any number of walks.                                      *)
(*                                                                         *)
(* WalkInv needs to know why an answer of the current walk passes the guard *)
(* of AdvancePracticeCursor: its session was drawn at or before the cursor  *)
(* (DrawnBehind), a session about to wrap begins at the start, and a        *)
(* session that is not open has no questions to answer.                     *)
(***************************************************************************)
WalkConstants ==
    Bank \in Nat /\ MinBank \in Nat /\ MinBank <= Bank /\ MaxWalks \in Nat \ {0}

SessRow == [at : {"new", "wrap", "draw", "open"}, from : 0..Bank,
            len : 0..Bank, answered : SUBSET (1..Bank), walk : 0..MaxWalks]

\* The questions of a session are in the topic, and it is answered only when open.
Drawn(r) ==
    /\ r.from + r.len <= Bank /\ r.answered \subseteq 1..r.len
    /\ r.at # "open" => r.len = 0
    /\ r.at \in {"new", "wrap"} => r.from = 0
    /\ r.at = "new" => r.walk = 0
SessionsOK(f) == f \in [Sessions -> SessRow] /\ \A s \in Sessions : Drawn(f[s])

\* A session of the current walk was drawn at or before the cursor.
DrawnBehind == \A s \in Sessions : sess[s].walk <= walk /\ (sess[s].walk = walk => sess[s].from <= cursor)

Counters == total \in MinBank..Bank /\ cursor \in 0..Bank /\ walk \in 1..MaxWalks
Covered == \A i \in 0..(cursor - 1) : \E s \in Sessions : i \in Ordered!Answered(s)

WalkIInv == Counters /\ SessionsOK(sess) /\ DrawnBehind /\ Covered /\ Ordered!WalkAdvances

-----------------------------------------------------------------------------
(* The operators.                                                          *)

LEMMA MaxFacts ==
    ASSUME NEW b \in Nat, NEW S \in SUBSET (0..b), S # {}
    PROVE  Ordered!Max(S) \in S /\ \A x \in S : x <= Ordered!Max(S)
<1> DEFINE R == OpToRel(<, Nat)
           T == {b - x : x \in S}
<1>1. IsWellFoundedOn(R, Nat)
  BY NatLessThanWellFounded, Zenon
<1>2. T \subseteq Nat /\ T # {}
  <2>1. \A x \in S : b - x \in Nat
    OBVIOUS
  <2>2. PICK x \in S : TRUE
    OBVIOUS
  <2>3. b - x \in T
    OBVIOUS
  <2>4. QED
    BY <2>1, <2>3
<1>3. PICK m \in T : \A y \in T : ~(<<y, m>> \in R)
  <2> HIDE DEF R, T
  <2>1. QED
    BY <1>1, <1>2, WFMin
<1>4. \A y \in T : ~(y < m)
  BY <1>2, <1>3 DEF OpToRel
<1>5. PICK x \in S : m = b - x
  BY <1>3
<1>6. \A y \in S : x >= y
  <2> TAKE y \in S
  <2>1. b - y \in T /\ ~(b - y < m)
    BY <1>4
  <2>2. y \in 0..b /\ x \in 0..b
    OBVIOUS
  <2> HIDE DEF T
  <2>3. QED
    BY <1>5, <2>1, <2>2
<1>7. Ordered!Max(S) \in S /\ \A y \in S : Ordered!Max(S) >= y
  BY <1>5, <1>6, Zenon DEF Ordered!Max
<1>8. QED
  BY <1>7

\* The contiguous run is answered as a whole.
LEMMA PrefixFacts ==
    ASSUME WalkConstants, NEW A \in SUBSET (1..Bank)
    PROVE  /\ Ordered!Prefix(A) \in 0..Bank /\ 1..Ordered!Prefix(A) \subseteq A
           /\ \A n \in Nat : A \subseteq 1..n => Ordered!Prefix(A) <= n
<1> DEFINE S == {0} \cup {n \in A : 1..n \subseteq A}
<1>1. S \in SUBSET (0..Bank) /\ S # {} /\ Bank \in Nat
  <2>1. Bank \in Nat /\ 0 \in S
    BY DEF WalkConstants
  <2>2. \A n \in S : n \in 0..Bank
    BY <2>1
  <2>3. QED
    BY <2>1, <2>2
<1>2. \A n \in S : 1..n \subseteq A /\ (n = 0 \/ n \in A)
  OBVIOUS
<1>3. Ordered!Prefix(A) = Ordered!Max(S)
  BY DEF Ordered!Prefix
<1> HIDE DEF S
<1>4. Ordered!Prefix(A) \in S
  BY <1>1, <1>3, MaxFacts
<1>5. Ordered!Prefix(A) \in 0..Bank /\ 1..Ordered!Prefix(A) \subseteq A
  BY <1>1, <1>2, <1>4
<1>6. ASSUME NEW n \in Nat, A \subseteq 1..n PROVE Ordered!Prefix(A) <= n
  <2>1. Ordered!Prefix(A) = 0 \/ Ordered!Prefix(A) \in 1..n
    BY <1>2, <1>4, <1>6
  <2>2. QED
    BY <2>1
<1>7. QED
  BY <1>5, <1>6

LEMMA MaxOfTwo ==
    ASSUME NEW b \in Nat, NEW x \in 0..b, NEW y \in 0..b
    PROVE  Ordered!Max({x, y}) \in {x, y} /\ x <= Ordered!Max({x, y}) /\ y <= Ordered!Max({x, y})
<1>1. {x, y} \in SUBSET (0..b) /\ {x, y} # {} /\ x \in {x, y} /\ y \in {x, y}
  OBVIOUS
<1>2. QED
  BY <1>1, MaxFacts

\* A draw does not reach past the end of the topic.
LEMMA DrawFits ==
    ASSUME WalkConstants, Counters, NEW f \in 0..Bank, NEW c \in 1..Bank
    PROVE  /\ Ordered!OrderedQuestionIDsByCategory(f, c) \in 0..Bank
           /\ f + Ordered!OrderedQuestionIDsByCategory(f, c) <= Bank
<1>1. total \in 0..Bank /\ Bank \in Nat /\ Ordered!CountValidQuestionsInCategory = total
  BY DEF WalkConstants, Counters, Ordered!CountValidQuestionsInCategory
<1> DEFINE S == {0, total - f}
           m == Ordered!Max(S)
<1>2. m \in S /\ \A x \in S : m >= x
  <2>1. \E x \in S : \A y \in S : x >= y
    BY <1>1
  <2>2. QED
    BY <2>1, Zenon DEF Ordered!Max
<1>3. m \in 0..Bank /\ f + m <= Bank
  BY <1>1, <1>2
<1> HIDE DEF S, m
<1> DEFINE T == {c, m}
           k == Ordered!Min(T)
<1>4. k \in T /\ \A x \in T : k <= x
  <2>1. \E x \in T : \A y \in T : x <= y
    BY <1>1, <1>3
  <2>2. QED
    BY <2>1, Zenon DEF Ordered!Min
<1>5. k \in 0..Bank /\ f + k <= Bank
  BY <1>1, <1>3, <1>4
<1>6. Ordered!OrderedQuestionIDsByCategory(f, c) = k
  BY <1>1 DEF Ordered!OrderedQuestionIDsByCategory, S, m
<1> HIDE DEF k
<1>7. QED
  BY <1>5, <1>6

-----------------------------------------------------------------------------
(* The steps.                                                              *)

LEMMA SessMoved ==
    ASSUME SessionsOK(sess), NEW s \in Sessions, NEW r \in SessRow, Drawn(r),
           sess' = [sess EXCEPT ![s] = r]
    PROVE  /\ SessionsOK(sess') /\ sess'[s] = r /\ sess[s] \in SessRow /\ Drawn(sess[s])
           /\ \A x \in Sessions \ {s} : sess'[x] = sess[x]
  BY DEF SessionsOK

\* What has been answered stays answered while a session keeps its place.
LEMMA CoveredKept ==
    ASSUME Covered, \A s \in Sessions : sess[s].answered \subseteq sess'[s].answered
                                        /\ (sess[s].answered # {} => sess'[s].from = sess[s].from),
           NEW i \in 0..(cursor - 1)
    PROVE  \E s \in Sessions : i \in Ordered!Answered(s)'
<1>1. PICK s \in Sessions : i \in Ordered!Answered(s)
  BY DEF Covered
<1>2. PICK n \in sess[s].answered : i = sess[s].from + n - 1
  BY <1>1 DEF Ordered!Answered
<1>3. n \in sess'[s].answered /\ i = sess'[s].from + n - 1
  BY <1>2
<1>4. QED
  BY <1>3 DEF Ordered!Answered

\* A step of the draw: the cursor stays, or goes back to the start of a new walk.
LEMMA DrawStep ==
    ASSUME WalkConstants, WalkIInv, NEW s \in Sessions, NEW r \in SessRow, Drawn(r),
           sess' = [sess EXCEPT ![s] = r], UNCHANGED total,
           sess[s].at # "open", r.answered = {},
           \/ UNCHANGED <<cursor, walk>>
           \/ cursor' = 0 /\ walk' = walk + 1 /\ walk < MaxWalks,
           r.walk <= walk', r.walk = walk' => r.from <= cursor'
    PROVE  WalkIInv'
<1>1. /\ Counters /\ SessionsOK(sess) /\ DrawnBehind /\ Covered /\ Ordered!WalkAdvances
  BY DEF WalkIInv
<1>2. /\ SessionsOK(sess') /\ sess'[s] = r /\ sess[s] \in SessRow /\ Drawn(sess[s])
      /\ \A x \in Sessions \ {s} : sess'[x] = sess[x]
  BY <1>1, SessMoved
<1>3. Counters'
  BY <1>1 DEF Counters, WalkConstants
<1>4. walk \in Nat /\ cursor \in Nat /\ \A x \in Sessions : sess[x].walk \in Nat /\ sess[x].from \in Nat
  BY <1>1 DEF Counters, SessionsOK, SessRow
<1>5. DrawnBehind'
  <2> SUFFICES ASSUME NEW x \in Sessions
               PROVE  sess'[x].walk <= walk' /\ (sess'[x].walk = walk' => sess'[x].from <= cursor')
    BY DEF DrawnBehind
  <2>1. CASE x = s
    BY <1>2, <2>1
  <2>2. CASE x # s
    BY <1>1, <1>2, <1>4, <2>2 DEF DrawnBehind
  <2>3. QED
    BY <2>1, <2>2
<1>6. sess[s].answered = {}
  <2>1. sess[s].len = 0 /\ sess[s].answered \subseteq 1..sess[s].len
    BY <1>2 DEF Drawn
  <2>2. QED
    BY <2>1
<1>7. Covered'
  <2>1. CASE UNCHANGED cursor
    <3>1. \A x \in Sessions : sess[x].answered \subseteq sess'[x].answered
                              /\ (sess[x].answered # {} => sess'[x].from = sess[x].from)
      BY <1>2, <1>6
    <3>2. QED
      BY <1>1, <2>1, <3>1, CoveredKept DEF Covered
  <2>2. CASE cursor' = 0
    BY <2>2 DEF Covered
  <2>3. QED
    BY <2>1, <2>2
<1>8. Ordered!WalkAdvances'
  <2> SUFFICES ASSUME NEW x \in Sessions, sess'[x].at = "open", sess'[x].walk = walk',
                      sess'[x].answered # {}
               PROVE  cursor' >= sess'[x].from + Ordered!Prefix(sess'[x].answered)
    BY DEF Ordered!WalkAdvances
  <2>1. x # s
    BY <1>2
  <2>2. sess'[x] = sess[x]
    BY <1>2, <2>1
  <2>3. sess[x].walk <= walk
    BY <1>1 DEF DrawnBehind
  <2>4. UNCHANGED <<cursor, walk>>
    BY <1>4, <2>2, <2>3
  <2>5. QED
    BY <1>1, <2>2, <2>4 DEF Ordered!WalkAdvances
<1>9. QED
  BY <1>2, <1>3, <1>5, <1>7, <1>8 DEF WalkIInv

LEMMA DrawKeeps ==
    ASSUME WalkConstants, WalkIInv, NEW s \in Sessions,
           Ordered!DrawRead(s) \/ Ordered!DrawWrap(s) \/ Ordered!DrawCreate(s)
    PROVE  WalkIInv'
<1>1. /\ Counters /\ sess[s] \in SessRow /\ Drawn(sess[s]) /\ Bank \in Nat
      /\ sess[s].walk <= walk /\ (sess[s].walk = walk => sess[s].from <= cursor)
  BY DEF WalkIInv, SessionsOK, DrawnBehind, WalkConstants
<1>2. walk \in 1..MaxWalks /\ cursor \in 0..Bank /\ MaxWalks \in Nat
  BY <1>1 DEF Counters, WalkConstants
<1>3. sess[s].at # "open" => sess[s].len = 0 /\ sess[s].answered = {}
  BY <1>1 DEF Drawn
<1>4. CASE Ordered!DrawRead(s)
  <2> DEFINE at == IF cursor >= total THEN "wrap" ELSE "draw"
             from == IF cursor >= total THEN 0 ELSE cursor
             r == [sess[s] EXCEPT !.at = at, !.from = from, !.walk = walk]
  <2>1. sess[s].at = "new" /\ UNCHANGED <<total, cursor, walk>> /\ sess' = [sess EXCEPT ![s] = r]
    BY <1>4 DEF Ordered!DrawRead, Ordered!GetPracticeCursor, Ordered!CountValidQuestionsInCategory
  <2>2. /\ at \in {"wrap", "draw"} /\ from \in 0..Bank /\ from <= cursor
        /\ at = "wrap" => from = 0
    BY <1>1, <1>2
  <2> HIDE DEF at, from
  <2>3. walk \in 0..MaxWalks /\ at \in {"new", "wrap", "draw", "open"} /\ from \in 0..Bank
    BY <1>2, <2>2
  <2>4. /\ r \in SessRow /\ r.at = at /\ r.from = from /\ r.walk = walk
        /\ r.len = sess[s].len /\ r.answered = sess[s].answered
    BY <1>1, <2>3 DEF SessRow
  <2> HIDE DEF r
  <2>5. Drawn(r) /\ r.answered = {}
    BY <1>1, <1>3, <2>1, <2>2, <2>4 DEF Drawn
  <2>6. r.walk <= walk' /\ r.from <= cursor'
    BY <1>2, <2>1, <2>2, <2>4
  <2>7. QED
    BY <2>1, <2>4, <2>5, <2>6, DrawStep
<1>5. CASE Ordered!DrawWrap(s)
  <2> DEFINE r == [sess[s] EXCEPT !.at = "draw", !.walk = walk + 1]
  <2>1. /\ sess[s].at = "wrap" /\ walk < MaxWalks /\ cursor' = 0 /\ walk' = walk + 1
        /\ sess' = [sess EXCEPT ![s] = r] /\ UNCHANGED total
    BY <1>5 DEF Ordered!DrawWrap, Ordered!ResetPracticeCursor
  <2>2. walk + 1 \in 0..MaxWalks
    BY <1>2, <2>1
  <2>3. /\ r \in SessRow /\ r.at = "draw" /\ r.from = sess[s].from /\ r.walk = walk + 1
        /\ r.len = sess[s].len /\ r.answered = sess[s].answered
    BY <1>1, <2>2 DEF SessRow
  <2> HIDE DEF r
  <2>4. Drawn(r) /\ r.answered = {} /\ r.from = 0
    BY <1>1, <1>3, <2>1, <2>3 DEF Drawn
  <2>5. r.walk <= walk' /\ r.from <= cursor'
    BY <1>2, <2>1, <2>3, <2>4
  <2>6. QED
    BY <2>1, <2>3, <2>4, <2>5, DrawStep
<1>6. CASE Ordered!DrawCreate(s)
  <2>1. PICK c \in 1..Bank :
          sess' = [sess EXCEPT ![s] =
                     [@ EXCEPT !.at = "open", !.len = Ordered!OrderedQuestionIDsByCategory(sess[s].from, c)]]
    BY <1>6 DEF Ordered!DrawCreate
  <2>2. sess[s].at = "draw" /\ UNCHANGED <<total, cursor, walk>>
    BY <1>6 DEF Ordered!DrawCreate
  <2> DEFINE k == Ordered!OrderedQuestionIDsByCategory(sess[s].from, c)
             r == [sess[s] EXCEPT !.at = "open", !.len = k]
  <2>3. sess[s].from \in 0..Bank
    BY <1>1 DEF SessRow
  <2>4. k \in 0..Bank /\ sess[s].from + k <= Bank
    BY <1>1, <2>3, DrawFits
  <2>5. sess' = [sess EXCEPT ![s] = r]
    BY <2>1
  <2> HIDE DEF k
  <2>6. /\ r \in SessRow /\ r.at = "open" /\ r.from = sess[s].from /\ r.walk = sess[s].walk
        /\ r.len = k /\ r.answered = sess[s].answered
    BY <1>1, <2>4 DEF SessRow
  <2> HIDE DEF r
  <2>7. Drawn(r) /\ r.answered = {}
    BY <1>3, <2>2, <2>4, <2>6 DEF Drawn
  <2>8. r.walk <= walk' /\ (r.walk = walk' => r.from <= cursor')
    BY <1>1, <2>2, <2>6
  <2>9. QED
    BY <2>2, <2>5, <2>6, <2>7, <2>8, DrawStep
<1>7. QED
  BY <1>4, <1>5, <1>6

LEMMA Below ==
    ASSUME NEW c \in Nat
    PROVE  \A i \in 0..(c - 1) : i \in Nat /\ i < c
  OBVIOUS

\* An answer moves the cursor to the end of the run it completes.
LEMMA AnswerKeeps ==
    ASSUME WalkConstants, WalkIInv, NEW s \in Sessions, Ordered!SubmitAnswer(s)
    PROVE  WalkIInv'
<1>1. /\ Counters /\ SessionsOK(sess) /\ DrawnBehind /\ Covered /\ Ordered!WalkAdvances
      /\ sess[s] \in SessRow /\ Drawn(sess[s]) /\ Bank \in Nat
  BY DEF WalkIInv, SessionsOK, WalkConstants
<1>2. PICK n :
        /\ n \in (1..sess[s].len) \ sess[s].answered
        /\ sess' = [sess EXCEPT ![s].answered = sess[s].answered \cup {n}]
        /\ cursor' = IF Ordered!WalkGuard(s)
                     THEN Ordered!Max({cursor, sess[s].from + Ordered!Prefix(sess[s].answered \cup {n})})
                     ELSE cursor
  BY DEF Ordered!SubmitAnswer
<1>3. sess[s].at = "open" /\ UNCHANGED <<total, walk>>
  BY DEF Ordered!SubmitAnswer
<1> DEFINE A == sess[s].answered \cup {n}
           r == [sess[s] EXCEPT !.answered = A]
           f == sess[s].from
           p == Ordered!Prefix(A)
<1>4. sess' = [sess EXCEPT ![s] = r]
  BY <1>2
<1>5. cursor' = IF f <= cursor THEN Ordered!Max({cursor, f + p}) ELSE cursor
  BY <1>2 DEF Ordered!WalkGuard
<1>6. /\ f \in 0..Bank /\ sess[s].len \in 0..Bank /\ f + sess[s].len <= Bank
      /\ sess[s].answered \subseteq 1..sess[s].len /\ cursor \in 0..Bank
  BY <1>1 DEF SessRow, Drawn, Counters
<1>7. A \in SUBSET (1..Bank) /\ A \subseteq 1..sess[s].len /\ sess[s].answered \subseteq A
  BY <1>1, <1>2, <1>6
<1> HIDE DEF A
<1>8. p \in 0..Bank /\ 1..p \subseteq A /\ p <= sess[s].len
  BY <1>6, <1>7, PrefixFacts
<1>9. /\ r \in SessRow /\ r.at = "open" /\ r.from = f /\ r.walk = sess[s].walk
      /\ r.len = sess[s].len /\ r.answered = A
  BY <1>1, <1>3, <1>7 DEF SessRow
<1> HIDE DEF r
<1>10. Drawn(r)
  BY <1>6, <1>7, <1>9 DEF Drawn
<1>11. /\ SessionsOK(sess') /\ sess'[s] = r
       /\ \A x \in Sessions \ {s} : sess'[x] = sess[x]
  BY <1>1, <1>4, <1>9, <1>10, SessMoved
<1> HIDE DEF f, p
<1>12. /\ cursor' \in 0..Bank /\ cursor' >= cursor
       /\ f <= cursor => cursor' >= f + p /\ cursor' \in {cursor, f + p}
       /\ ~(f <= cursor) => cursor' = cursor
  <2>1. f + p \in 0..Bank
    BY <1>1, <1>6, <1>8
  <2>2. CASE f <= cursor
    <3>1. cursor' = Ordered!Max({cursor, f + p})
      BY <1>5, <2>2
    <3>2. /\ Ordered!Max({cursor, f + p}) \in {cursor, f + p} /\ cursor <= Ordered!Max({cursor, f + p})
          /\ f + p <= Ordered!Max({cursor, f + p})
      BY <1>1, <1>6, <2>1, MaxOfTwo
    <3>3. QED
      BY <1>6, <2>1, <2>2, <3>1, <3>2
  <2>3. CASE ~(f <= cursor)
    BY <1>5, <1>6, <2>3
  <2>4. QED
    BY <2>2, <2>3
<1>13. Counters'
  BY <1>1, <1>3, <1>12 DEF Counters
<1>14. DrawnBehind'
  <2> SUFFICES ASSUME NEW x \in Sessions
               PROVE  sess'[x].walk <= walk /\ (sess'[x].walk = walk => sess'[x].from <= cursor')
    BY <1>3 DEF DrawnBehind
  <2>1. sess'[x].walk = sess[x].walk /\ sess'[x].from = sess[x].from
    BY <1>9, <1>11 DEF f
  <2>2. sess[x].from \in 0..Bank
    BY <1>1 DEF SessionsOK, SessRow
  <2>3. QED
    BY <1>1, <1>6, <1>12, <2>1, <2>2 DEF DrawnBehind
<1>15. Covered'
  <2> SUFFICES ASSUME NEW i \in Nat, i < cursor' PROVE \E x \in Sessions : i \in Ordered!Answered(x)'
    <3>1. cursor' \in Nat
      BY <1>12
    <3>2. \A i \in 0..(cursor' - 1) : i \in Nat /\ i < cursor'
      BY <3>1, Below, Zenon
    <3>3. QED
      BY <3>2, Zenon DEF Covered
  <2>1. CASE i < cursor
    <3>1. \A x \in Sessions : sess[x].answered \subseteq sess'[x].answered
                              /\ (sess[x].answered # {} => sess'[x].from = sess[x].from)
      BY <1>7, <1>9, <1>11 DEF f
    <3>2. i \in 0..(cursor - 1)
      BY <1>6, <2>1
    <3>3. QED
      BY <1>1, <3>1, <3>2, CoveredKept
  <2>2. CASE ~(i < cursor)
    <3> DEFINE k == i - f + 1
    <3>1. cursor \in Nat /\ cursor' \in Nat /\ f \in Nat /\ p \in Nat
      BY <1>6, <1>8, <1>12
    <3>2. k \in 1..p /\ i = f + k - 1
      <4>1. cursor' # cursor
        BY <2>2, <3>1
      <4>2. f <= cursor /\ cursor' = f + p
        BY <1>12, <4>1
      <4>3. QED
        BY <2>2, <3>1, <4>2
    <3> HIDE DEF k
    <3>3. k \in sess'[s].answered /\ i = sess'[s].from + k - 1
      BY <1>8, <1>9, <1>11, <3>2
    <3>4. QED
      BY <3>3 DEF Ordered!Answered
  <2>3. QED
    BY <2>1, <2>2
<1>16. Ordered!WalkAdvances'
  <2> SUFFICES ASSUME NEW x \in Sessions, sess'[x].at = "open", sess'[x].walk = walk,
                      sess'[x].answered # {}
               PROVE  cursor' >= sess'[x].from + Ordered!Prefix(sess'[x].answered)
    BY <1>3 DEF Ordered!WalkAdvances
  <2>1. CASE x = s
    <3>1. sess[s].walk = walk /\ f <= cursor
      BY <1>1, <1>9, <1>11, <2>1 DEF DrawnBehind, f
    <3>2. QED
      BY <1>9, <1>11, <1>12, <2>1, <3>1 DEF p
  <2>2. CASE x # s
    <3>1. sess'[x] = sess[x] /\ cursor >= sess[x].from + Ordered!Prefix(sess[x].answered)
      BY <1>1, <1>11, <2>2 DEF Ordered!WalkAdvances
    <3>2. sess[x].from \in 0..Bank /\ sess[x].answered \in SUBSET (1..Bank)
      BY <1>1 DEF SessionsOK, SessRow
    <3>3. Ordered!Prefix(sess[x].answered) \in 0..Bank
      BY <3>2, PrefixFacts
    <3>4. QED
      BY <1>6, <1>12, <3>1, <3>2, <3>3
  <2>3. QED
    BY <2>1, <2>2
<1>17. QED
  BY <1>11, <1>13, <1>14, <1>15, <1>16 DEF WalkIInv

LEMMA OutsideKeeps ==
    ASSUME WalkConstants, WalkIInv, Ordered!ResetPracticeProgress \/ Ordered!Quarantine \/ UNCHANGED Ordered!vars
    PROVE  WalkIInv'
<1>1. /\ Counters /\ SessionsOK(sess) /\ DrawnBehind /\ Covered /\ Ordered!WalkAdvances
  BY DEF WalkIInv
<1>2. CASE Ordered!ResetPracticeProgress
  <2>1. walk < MaxWalks /\ cursor' = 0 /\ walk' = walk + 1 /\ UNCHANGED <<total, sess>>
    BY <1>2 DEF Ordered!ResetPracticeProgress, Ordered!ResetPracticeCursor
  <2>2. walk \in Nat /\ \A x \in Sessions : sess[x].walk \in Nat /\ sess[x].walk <= walk
    BY <1>1 DEF Counters, DrawnBehind, SessionsOK, SessRow
  <2>3. \A x \in Sessions : sess[x].walk <= walk' /\ sess[x].walk # walk'
    BY <2>1, <2>2
  <2>4. Counters'
    BY <1>1, <2>1 DEF Counters, WalkConstants
  <2>5. Covered'
    BY <2>1 DEF Covered
  <2>6. DrawnBehind' /\ Ordered!WalkAdvances'
    BY <2>1, <2>3 DEF DrawnBehind, Ordered!WalkAdvances
  <2>7. QED
    BY <1>1, <2>1, <2>4, <2>5, <2>6 DEF WalkIInv
<1>3. CASE Ordered!Quarantine \/ UNCHANGED Ordered!vars
  <2>1. UNCHANGED <<cursor, walk, sess>> /\ total' \in MinBank..Bank
    BY <1>1, <1>3 DEF Ordered!Quarantine, Ordered!vars, Counters, WalkConstants
  <2>2. Counters' /\ SessionsOK(sess') /\ DrawnBehind'
    BY <1>1, <2>1 DEF Counters, DrawnBehind
  <2>3. Covered' /\ Ordered!WalkAdvances'
    BY <1>1, <2>1 DEF Covered, Ordered!Answered, Ordered!WalkAdvances
  <2>4. QED
    BY <2>2, <2>3 DEF WalkIInv
<1>4. QED
  BY <1>2, <1>3

\* However sessions are drawn, answered out of order or long after, wrapped and
\* reset, for topics of any length: every question before the cursor has been
\* answered, and the cursor has reached the end of the run of every session of
\* the current walk (orderedCategoryDraw, AdvancePracticeCursor).
THEOREM WalkThm ==
    ASSUME WalkConstants
    PROVE  Ordered!Spec => []WalkInv
<1>1. Ordered!Init => WalkIInv
  <2> SUFFICES ASSUME Ordered!Init PROVE WalkIInv
    OBVIOUS
  <2> DEFINE r == Ordered!NoSession
  <2>1. /\ r \in SessRow /\ r.at = "new" /\ r.from = 0 /\ r.len = 0 /\ r.answered = {} /\ r.walk = 0
    BY DEF Ordered!NoSession, SessRow, WalkConstants
  <2>2. total = Bank /\ cursor = 0 /\ walk = 1 /\ sess = [s \in Sessions |-> r]
    BY DEF Ordered!Init
  <2> HIDE DEF r
  <2>3. sess \in [Sessions -> SessRow] /\ \A s \in Sessions : sess[s] = r
    BY <2>1, <2>2
  <2>4. Drawn(r)
    BY <2>1 DEF Drawn, WalkConstants
  <2>5. Counters /\ SessionsOK(sess)
    BY <2>2, <2>3, <2>4 DEF Counters, SessionsOK, WalkConstants
  <2>6. DrawnBehind /\ Ordered!WalkAdvances
    BY <2>1, <2>2, <2>3 DEF DrawnBehind, Ordered!WalkAdvances
  <2>7. Covered
    BY <2>2 DEF Covered
  <2>8. QED
    BY <2>5, <2>6, <2>7 DEF WalkIInv
<1>2. WalkIInv /\ [Ordered!Next]_Ordered!vars => WalkIInv'
  BY DrawKeeps, AnswerKeeps, OutsideKeeps DEF Ordered!Next
<1>3. WalkIInv => WalkInv
  BY DEF WalkIInv, WalkInv, Counters, SessionsOK, SessRow, Covered, Ordered!WalkInv, Ordered!CursorCountsAnswers,
         Ordered!TypeOK
<1>4. QED
  BY <1>1, <1>2, <1>3, PTL DEF Ordered!Spec

-----------------------------------------------------------------------------
(***************************************************************************)
(* The leaderboard, for any players, days and requests in flight.          *)
(*                                                                         *)
(* A point may be written late, over a newer one, or over a rebuilt board, *)
(* so what bounds the board must leave room for every point in flight:     *)
(* what it shows, what a request has read and what a rebuild has counted,  *)
(* each with the answers in flight on top, is covered by the answers given *)
(* and those counted twice (Room).                                         *)
(*                                                                         *)
(* The totals are recursive sums over the days.  That such a sum exists    *)
(* and what it is needs induction; the theorems of NaturalsInduction take  *)
(* an operator and cannot be instantiated here, so the induction is over a *)
(* set of numbers, from the least-number principle of WellFoundedInduction *)
(* (NatSet).                                                               *)
(***************************************************************************)
\* Finitely many requests are in flight; caps are numbers; there is a day.
LeaderConstants ==
    IsFiniteSet(Requests) /\ FreeCap \in Nat /\ VipCap \in Nat /\ MaxDay \in Nat \ {0}

-----------------------------------------------------------------------------
(* Induction over numbers, and sums over days.                             *)

LEMMA NatLeast ==
    ASSUME NEW T, T \subseteq Nat, T # {}
    PROVE  \E x \in T : \A y \in T : x <= y
<1> DEFINE R == {ss \in Nat \X Nat : ss[1] < ss[2]}
<1>1. IsWellFoundedOn(R, Nat)
  BY NatLessThanWellFounded DEF OpToRel
<1>2. \A x, y \in Nat : y < x => <<y, x>> \in R
  OBVIOUS
<1> HIDE DEF R
<1>3. \E x \in T : \A y \in T : ~(<<y, x>> \in R)
  BY <1>1, WFMin
<1>4. PICK x \in T : \A y \in T : ~(<<y, x>> \in R)
  BY <1>3
<1>5. ASSUME NEW y \in T PROVE x <= y
  <2>1. x \in Nat /\ y \in Nat
    OBVIOUS
  <2>2. ~(y < x)
    BY <1>2, <1>4, <2>1
  <2>3. QED
    BY <2>1, <2>2
<1>6. QED
  BY <1>5

LEMMA NatSet ==
    ASSUME NEW S, 0 \in S, \A n \in Nat : n \in S => n + 1 \in S
    PROVE  Nat \subseteq S
<1> SUFFICES ASSUME NEW m \in Nat, m \notin S PROVE FALSE
  OBVIOUS
<1>1. PICK x \in Nat \ S : \A y \in Nat \ S : x <= y
  <2> DEFINE T == Nat \ S
  <2>1. T \subseteq Nat /\ T # {}
    OBVIOUS
  <2> HIDE DEF T
  <2>2. \E x \in T : \A y \in T : x <= y
    BY <2>1, NatLeast
  <2>3. QED
    BY <2>2 DEF T
<1>2. x # 0 /\ x - 1 \in Nat /\ (x - 1) + 1 = x /\ ~(x <= x - 1)
  BY <1>1
<1>3. x - 1 \in S
  BY <1>1, <1>2
<1>4. QED
  BY <1>1, <1>2, <1>3

\* s holds the sums of f up to each day.
Sums(s, f, n) == s = [d \in 0..n |-> IF d = 0 THEN 0 ELSE s[d - 1] + f[d]]

LEMMA SumsExist ==
    ASSUME NEW f
    PROVE  \A n \in Nat : \E s : Sums(s, f, n)
<1> DEFINE S == {n \in Nat : \E s : Sums(s, f, n)}
<1>1. 0 \in S
  <2>1. Sums([d \in 0..0 |-> 0], f, 0)
    BY DEF Sums
  <2>2. QED
    BY <2>1
<1>2. ASSUME NEW n \in Nat, n \in S PROVE n + 1 \in S
  <2>1. PICK s : Sums(s, f, n)
    BY <1>2
  <2> DEFINE t == [d \in 0..(n + 1) |-> IF d = n + 1 THEN s[n] + f[n + 1] ELSE s[d]]
  <2>2. s = [d \in 0..n |-> IF d = 0 THEN 0 ELSE s[d - 1] + f[d]]
    BY <2>1 DEF Sums
  <2>3. ASSUME NEW d \in 0..(n + 1) PROVE t[d] = IF d = 0 THEN 0 ELSE t[d - 1] + f[d]
    <3>1. CASE d = n + 1
      BY <3>1
    <3>2. CASE d # n + 1
      <4>1. d \in 0..n
        BY <3>2
      <4>2. t[d] = s[d] /\ (d # 0 => d - 1 \in 0..(n + 1) /\ d - 1 # n + 1 /\ t[d - 1] = s[d - 1])
        BY <3>2, <4>1
      <4>3. s[d] = IF d = 0 THEN 0 ELSE s[d - 1] + f[d]
        BY <2>2, <4>1
      <4>4. QED
        BY <4>2, <4>3
    <3>3. QED
      BY <3>1, <3>2
  <2>4. t = [d \in 0..(n + 1) |-> t[d]]
    OBVIOUS
  <2> HIDE DEF t
  <2>5. Sums(t, f, n + 1)
    BY <2>3, <2>4 DEF Sums
  <2>6. QED
    BY <2>5
<1> HIDE DEF S
<1>3. Nat \subseteq S
  BY <1>1, <1>2, NatSet
<1>4. QED
  BY <1>3 DEF S

\* The recursive definition means what it says.
LEMMA SumDaysIs ==
    ASSUME NEW f, MaxDay \in Nat
    PROVE  \E s : Sums(s, f, MaxDay) /\ Points!SumDays(f) = s[MaxDay]
<1> DEFINE c == CHOOSE s : s = [d \in 0..MaxDay |-> IF d = 0 THEN 0 ELSE s[d - 1] + f[d]]
<1>1. \E s : s = [d \in 0..MaxDay |-> IF d = 0 THEN 0 ELSE s[d - 1] + f[d]]
  BY SumsExist DEF Sums
<1>2. c = [d \in 0..MaxDay |-> IF d = 0 THEN 0 ELSE c[d - 1] + f[d]]
  BY <1>1
<1>3. Points!SumDays(f) = c[MaxDay]
  BY DEF Points!SumDays
<1>4. QED
  BY <1>2, <1>3 DEF Sums

\* A sum of numbers is a number; it grows with what is summed.
LEMMA SumsGrow ==
    ASSUME NEW N \in Nat, NEW f \in [1..N -> Nat], NEW g \in [1..N -> Nat], NEW s, NEW t,
           Sums(s, f, N), Sums(t, g, N), \A d \in 1..N : f[d] <= g[d]
    PROVE  s[N] \in Nat /\ t[N] \in Nat /\ s[N] <= t[N]
<1> DEFINE S == {n \in Nat : n <= N => s[n] \in Nat /\ t[n] \in Nat /\ s[n] <= t[n]}
<1>1. \A d \in 0..N : /\ s[d] = IF d = 0 THEN 0 ELSE s[d - 1] + f[d]
                      /\ t[d] = IF d = 0 THEN 0 ELSE t[d - 1] + g[d]
  BY DEF Sums
<1>2. 0 \in S
  BY <1>1
<1>3. ASSUME NEW n \in Nat, n \in S PROVE n + 1 \in S
  <2> SUFFICES ASSUME n + 1 <= N PROVE s[n + 1] \in Nat /\ t[n + 1] \in Nat /\ s[n + 1] <= t[n + 1]
    OBVIOUS
  <2>1. n + 1 \in 0..N /\ n + 1 # 0 /\ (n + 1) - 1 = n /\ n + 1 \in 1..N /\ n <= N
    OBVIOUS
  <2>2. s[n] \in Nat /\ t[n] \in Nat /\ s[n] <= t[n]
    BY <1>3, <2>1
  <2>3. s[n + 1] = s[n] + f[n + 1] /\ t[n + 1] = t[n] + g[n + 1]
    BY <1>1, <2>1
  <2>4. f[n + 1] \in Nat /\ g[n + 1] \in Nat /\ f[n + 1] <= g[n + 1]
    BY <2>1
  <2>5. QED
    BY <2>2, <2>3, <2>4
<1> HIDE DEF S
<1>4. Nat \subseteq S
  BY <1>2, <1>3, NatSet
<1>5. QED
  BY <1>4 DEF S

\* Two sums that differ on one day differ by that day.
AlikeBut(f, g, x, N) == x \in 1..N /\ \A d \in 1..N : d # x => f[d] = g[d]

Balance(s, t, f, g, x, N) == s[N] + g[x] = t[N] + f[x]

LEMMA SameStep ==
    ASSUME NEW sn \in Nat, NEW tn \in Nat, NEW a \in Nat, NEW b \in Nat, NEW fx \in Nat, NEW gx \in Nat,
           a = b
    PROVE  /\ sn + a \in Nat /\ tn + b \in Nat
           /\ (sn = tn => sn + a = tn + b)
           /\ (sn + gx = tn + fx => (sn + a) + gx = (tn + b) + fx)
OBVIOUS

LEMMA SumsDiffer ==
    ASSUME NEW N \in Nat, NEW f \in [1..N -> Nat], NEW g \in [1..N -> Nat], NEW s, NEW t,
           Sums(s, f, N), Sums(t, g, N), NEW x, AlikeBut(f, g, x, N)
    PROVE  Balance(s, t, f, g, x, N)
<1>1. x \in 1..N
  BY DEF AlikeBut
<1> DEFINE S == {n \in Nat : n <= N => /\ s[n] \in Nat /\ t[n] \in Nat
                                       /\ n < x => s[n] = t[n]
                                       /\ x <= n => s[n] + g[x] = t[n] + f[x]}
<1>2. \A d \in 0..N : /\ s[d] = IF d = 0 THEN 0 ELSE s[d - 1] + f[d]
                      /\ t[d] = IF d = 0 THEN 0 ELSE t[d - 1] + g[d]
  BY DEF Sums
<1>3. 0 \in S
  BY <1>1, <1>2
<1>4. ASSUME NEW n \in Nat, n \in S PROVE n + 1 \in S
  <2> SUFFICES ASSUME n + 1 <= N
               PROVE  /\ s[n + 1] \in Nat /\ t[n + 1] \in Nat
                      /\ n + 1 < x => s[n + 1] = t[n + 1]
                      /\ x <= n + 1 => s[n + 1] + g[x] = t[n + 1] + f[x]
    OBVIOUS
  <2>1. n + 1 \in 0..N /\ n + 1 # 0 /\ (n + 1) - 1 = n /\ n + 1 \in 1..N /\ n <= N
    OBVIOUS
  <2>2. /\ s[n] \in Nat /\ t[n] \in Nat /\ (n < x => s[n] = t[n])
        /\ (x <= n => s[n] + g[x] = t[n] + f[x])
    BY <1>4, <2>1
  <2>3. s[n + 1] = s[n] + f[n + 1] /\ t[n + 1] = t[n] + g[n + 1]
    BY <1>2, <2>1
  <2>4. f[n + 1] \in Nat /\ g[n + 1] \in Nat /\ f[x] \in Nat /\ g[x] \in Nat
    BY <1>1, <2>1
  <2>5. CASE n + 1 = x
    <3>1. n < x /\ ~(n + 1 < x)
      BY <1>1, <2>5
    <3>2. s[n] = t[n] /\ s[n + 1] = s[n] + f[x] /\ t[n + 1] = t[n] + g[x]
      BY <2>2, <2>3, <2>5, <3>1
    <3> DEFINE sn == s[n]  fx == f[x]  gx == g[x]
    <3>3. sn \in Nat /\ fx \in Nat /\ gx \in Nat /\ s[n + 1] = sn + fx /\ t[n + 1] = sn + gx
      BY <2>2, <2>4, <3>2
    <3>4. SUFFICES s[n + 1] \in Nat /\ t[n + 1] \in Nat /\ s[n + 1] + gx = t[n + 1] + fx
      BY <3>1
    <3> HIDE DEF sn, fx, gx
    <3>5. QED
      BY <3>3
  <2>6. CASE n + 1 # x
    <3>1. f[n + 1] = g[n + 1]
      BY <2>1, <2>6 DEF AlikeBut
    <3>2. (n + 1 < x => n < x) /\ (x <= n + 1 => x <= n)
      BY <1>1, <2>6
    <3> DEFINE sn == s[n]  tn == t[n]  a == f[n + 1]  b == g[n + 1]  fx == f[x]  gx == g[x]
    <3>3. sn \in Nat /\ tn \in Nat /\ a \in Nat /\ b \in Nat /\ fx \in Nat /\ gx \in Nat /\ a = b
      BY <2>2, <2>4, <3>1
    <3>4. /\ n + 1 < x => sn = tn
          /\ x <= n + 1 => sn + gx = tn + fx
      BY <2>2, <3>2
    <3>5. s[n + 1] = sn + a /\ t[n + 1] = tn + b
      BY <2>3
    <3>6. SUFFICES /\ s[n + 1] \in Nat /\ t[n + 1] \in Nat
                   /\ n + 1 < x => s[n + 1] = t[n + 1]
                   /\ x <= n + 1 => s[n + 1] + gx = t[n + 1] + fx
      OBVIOUS
    <3> HIDE DEF sn, tn, a, b, fx, gx
    <3>7. QED
      BY <3>3, <3>4, <3>5, SameStep
  <2>7. QED
    BY <2>5, <2>6
<1> HIDE DEF S
<1>5. Nat \subseteq S
  BY <1>3, <1>4, NatSet
<1>6. QED
  BY <1>1, <1>5 DEF S, Balance

LEMMA SumZero ==
    ASSUME NEW N \in Nat, NEW f \in [1..N -> Nat], NEW s, Sums(s, f, N), \A d \in 1..N : f[d] = 0
    PROVE  s[N] = 0
<1> DEFINE S == {n \in Nat : n <= N => s[n] = 0}
<1>1. \A d \in 0..N : s[d] = IF d = 0 THEN 0 ELSE s[d - 1] + f[d]
  BY DEF Sums
<1>2. 0 \in S
  BY <1>1
<1>3. ASSUME NEW n \in Nat, n \in S PROVE n + 1 \in S
  <2> SUFFICES ASSUME n + 1 <= N PROVE s[n + 1] = 0
    OBVIOUS
  <2>1. n + 1 \in 0..N /\ n + 1 # 0 /\ (n + 1) - 1 = n /\ n + 1 \in 1..N /\ n <= N
    OBVIOUS
  <2>2. s[n] = 0
    BY <1>3, <2>1
  <2>3. s[n + 1] = s[n] + f[n + 1] /\ f[n + 1] = 0
    BY <1>1, <2>1
  <2>4. QED
    BY <2>2, <2>3
<1> HIDE DEF S
<1>4. Nat \subseteq S
  BY <1>2, <1>3, NatSet
<1>5. QED
  BY <1>4 DEF S

\* What these say of SumDays.
LEMMA SumDaysFacts ==
    ASSUME MaxDay \in Nat, NEW f \in [Points!Days -> Nat], NEW g \in [Points!Days -> Nat]
    PROVE  /\ Points!SumDays(f) \in Nat
           /\ (\A d \in Points!Days : f[d] <= g[d]) => Points!SumDays(f) <= Points!SumDays(g)
           /\ \A x \in Points!Days : (\A d \in Points!Days : d # x => f[d] = g[d]) =>
                 Points!SumDays(f) + g[x] = Points!SumDays(g) + f[x]
           /\ (\A d \in Points!Days : f[d] = 0) => Points!SumDays(f) = 0
<1>1. PICK s : Sums(s, f, MaxDay) /\ Points!SumDays(f) = s[MaxDay]
  BY SumDaysIs
<1>2. PICK t : Sums(t, g, MaxDay) /\ Points!SumDays(g) = t[MaxDay]
  BY SumDaysIs
<1>3. Points!Days = 1..MaxDay /\ f \in [1..MaxDay -> Nat] /\ g \in [1..MaxDay -> Nat]
  BY DEF Points!Days
<1>4. s[MaxDay] \in Nat
  <2>1. \A d \in 1..MaxDay : f[d] <= f[d]
    BY <1>3
  <2>2. QED
    BY <1>1, <1>3, <2>1, SumsGrow
<1>5. (\A d \in 1..MaxDay : f[d] <= g[d]) => s[MaxDay] <= t[MaxDay]
  BY <1>1, <1>2, <1>3, SumsGrow
<1>6. ASSUME NEW x \in 1..MaxDay, \A d \in 1..MaxDay : d # x => f[d] = g[d]
      PROVE  s[MaxDay] + g[x] = t[MaxDay] + f[x]
  <2>1. MaxDay \in Nat /\ Sums(s, f, MaxDay) /\ Sums(t, g, MaxDay)
    BY <1>1, <1>2
  <2>2. f \in [1..MaxDay -> Nat] /\ g \in [1..MaxDay -> Nat]
    BY <1>3
  <2>3. AlikeBut(f, g, x, MaxDay)
    BY <1>6 DEF AlikeBut
  <2>4. Balance(s, t, f, g, x, MaxDay)
    BY <2>1, <2>2, <2>3, SumsDiffer
  <2>5. QED
    BY <2>4 DEF Balance
<1>7. (\A d \in 1..MaxDay : f[d] = 0) => s[MaxDay] = 0
  BY <1>1, <1>3, SumZero
<1>8. QED
  BY <1>1, <1>2, <1>3, <1>4, <1>5, <1>6, <1>7

-----------------------------------------------------------------------------
(* The invariant.                                                           *)

LeaderRow == [pc : {"idle", "answered", "read"}, who : Players \cup {0}, on : 0..MaxDay,
              cur : [Points!AllPeriods -> Nat]]
LeaderTool == [pc : {"idle", "counted"}, period : Points!AllPeriods, on : 0..MaxDay, total : [Players -> Nat]]
LeaderTypes ==
    /\ today \in Points!Days
    /\ scored \in [Players -> [Points!Days -> Nat]]
    /\ board \in [Points!Keys -> [Players -> Nat]]
    /\ doubled \in [Points!Keys -> [Players -> Nat]]
    /\ rq \in [Requests -> LeaderRow]
    /\ tool \in LeaderTool

\* A request in flight knows whose point it carries and for which day; a station's is never read.
Carried(x) ==
    \/ x = Points!NoRq
    \/ x.pc = "answered" /\ x.who \in Players /\ x.on \in Points!Days
    \/ x.pc = "read" /\ x.who \in Players \ Stations /\ x.on \in Points!Days
Carriers == \A r \in Requests : Carried(rq[r])
ToolKnows == tool = Points!NoTool \/ (tool.pc = "counted" /\ tool.on \in Points!Days)

\* The answers of q in flight towards key k; what q has earned there.
Towards(x, k, q) == x.pc # "idle" /\ x.who = q /\ (k = 0 \/ x.on = k)
Flying(k, q) == {r \in Requests : Towards(rq[r], k, q)}
Earned(k, q) == IF k = 0 THEN Points!Total(q) ELSE scored[q][k]
\* v points may stand at key k: there is room for those in flight on top.
Room(k, q, v) == v + Cardinality(Flying(k, q)) <= Earned(k, q) + doubled[k][q]

BoardRoom == \A k \in Points!Keys, q \in Players : Room(k, q, board[k][q])
HasRead(x) ==
    x.pc = "read" => Room(x.on, x.who, x.cur["daily"]) /\ Room(0, x.who, x.cur["alltime"])
ReadRoom == \A r \in Requests : HasRead(rq[r])
HasCounted(x) ==
    x.pc = "counted" => \A q \in Players : Room(Points!RedisKey(x.period, x.on), q, x.total[q])
ToolRoom == HasCounted(tool)

ToolCap == tool.pc = "counted" /\ tool.period = "daily" => \A q \in Players : tool.total[q] <= Points!DailyCap(q)
\* Stations are never counted.
NoStation ==
    /\ \A k \in Points!Keys : \A q \in Players \cap Stations : board[k][q] = 0
    /\ \A q \in Players \cap Stations : tool.total[q] = 0

LeaderIInv ==
    /\ LeaderTypes /\ Carriers /\ ToolKnows
    /\ BoardRoom /\ ReadRoom /\ ToolRoom
    /\ Points!CapHolds /\ ToolCap /\ NoStation

-----------------------------------------------------------------------------
(* Room, step by step.                                                      *)

\* A step takes no room from anyone.
RoomKept == \A k \in Points!Keys, q \in Players, v \in Nat : Room(k, q, v) => Room(k, q, v)'

LEMMA LeaderSets ==
    ASSUME LeaderConstants
    PROVE  /\ Points!Days = 1..MaxDay /\ Points!Keys = 0..MaxDay /\ MaxDay \in Nat
           /\ Points!Days \subseteq Points!Keys /\ 0 \in Points!Keys /\ 0 \notin Points!Days
           /\ Points!AllPeriods = {"daily", "alltime"}
           /\ \A k \in Points!Keys : k = 0 \/ k \in Points!Days
BY DEF LeaderConstants, Points!Days, Points!Keys, Points!AllPeriods

LEMMA EarnedTyped ==
    ASSUME LeaderConstants, LeaderTypes, NEW k \in Points!Keys, NEW q \in Players
    PROVE  Earned(k, q) \in Nat
<1>1. scored[q] \in [Points!Days -> Nat]
  BY DEF LeaderTypes
<1>2. MaxDay \in Nat
  BY LeaderSets
<1>3. Points!SumDays(scored[q]) \in Nat
  BY <1>1, <1>2, SumDaysFacts
<1>4. QED
  BY <1>1, <1>3, LeaderSets DEF Earned, Points!Total

LEMMA EarnedTypedNext ==
    ASSUME LeaderConstants, LeaderTypes', NEW k \in Points!Keys, NEW q \in Players
    PROVE  Earned(k, q)' \in Nat
<1>1. scored'[q] \in [Points!Days -> Nat]
  BY DEF LeaderTypes
<1>2. MaxDay \in Nat
  BY LeaderSets
<1>3. Points!SumDays(scored'[q]) \in Nat
  BY <1>1, <1>2, SumDaysFacts
<1>4. QED
  BY <1>1, <1>3, LeaderSets DEF Earned, Points!Total

LEMMA FlyingFinite ==
    ASSUME LeaderConstants, NEW k, NEW q
    PROVE  IsFiniteSet(Flying(k, q)) /\ Cardinality(Flying(k, q)) \in Nat
<1>1. Flying(k, q) \subseteq Requests
  BY DEF Flying
<1>2. IsFiniteSet(Flying(k, q))
  BY <1>1, FS_Subset DEF LeaderConstants
<1>3. QED
  BY <1>2, FS_CardinalityType

LEMMA FlyingFiniteNext ==
    ASSUME LeaderConstants, NEW k, NEW q
    PROVE  IsFiniteSet(Flying(k, q)') /\ Cardinality(Flying(k, q)') \in Nat
<1>1. Flying(k, q)' \subseteq Requests
  BY DEF Flying
<1>2. IsFiniteSet(Flying(k, q)')
  BY <1>1, FS_Subset DEF LeaderConstants
<1>3. QED
  BY <1>2, FS_CardinalityType

LEMMA FlyingAfter ==
    ASSUME LeaderConstants, NEW r \in Requests, NEW n, NEW k, NEW q, rq \in [Requests -> LeaderRow],
           rq' = [rq EXCEPT ![r] = n]
    PROVE  /\ Cardinality(Flying(k, q)') <= Cardinality(Flying(k, q)) + 1
           /\ ~Towards(n, k, q) => Cardinality(Flying(k, q)') <= Cardinality(Flying(k, q))
           /\ Towards(rq[r], k, q) => Cardinality(Flying(k, q)') <= Cardinality(Flying(k, q))
           /\ ~Towards(n, k, q) /\ Towards(rq[r], k, q) =>
                 Cardinality(Flying(k, q)') + 1 = Cardinality(Flying(k, q))
<1> DEFINE A == Flying(k, q)  B == Flying(k, q)'
<1>1. IsFiniteSet(A) /\ IsFiniteSet(B) /\ Cardinality(A) \in Nat /\ Cardinality(B) \in Nat
  BY FlyingFinite, FlyingFiniteNext
<1>2. /\ \A o \in Requests : o # r => rq'[o] = rq[o]
      /\ rq'[r] = n
  OBVIOUS
<1>3. /\ \A o : o \in A <=> o \in Requests /\ Towards(rq[o], k, q)
      /\ \A o : o \in B <=> o \in Requests /\ Towards(rq'[o], k, q)
  BY DEF Flying, Towards
<1>4. /\ B \subseteq A \cup {r}
      /\ ~Towards(n, k, q) => B = A \ {r}
      /\ Towards(rq[r], k, q) => B \subseteq A
      /\ Towards(rq[r], k, q) => r \in A
  BY <1>2, <1>3
<1> HIDE DEF A, B
<1>5. IsFiniteSet(A \cup {r}) /\ Cardinality(A \cup {r}) = (IF r \in A THEN Cardinality(A) ELSE Cardinality(A) + 1)
  BY <1>1, FS_AddElement
<1>6. IsFiniteSet(A \ {r}) /\ Cardinality(A \ {r}) = (IF r \in A THEN Cardinality(A) - 1 ELSE Cardinality(A))
  BY <1>1, FS_RemoveElement
<1>7. Cardinality(B) <= Cardinality(A \cup {r})
  BY <1>4, <1>5, FS_Subset
<1>8. B \subseteq A => Cardinality(B) <= Cardinality(A)
  BY <1>1, FS_Subset
<1>9. Cardinality(B) <= Cardinality(A) + 1
  BY <1>1, <1>5, <1>7
<1>10. ~Towards(n, k, q) => Cardinality(B) <= Cardinality(A)
  BY <1>4, <1>8
<1>11. Towards(rq[r], k, q) => Cardinality(B) <= Cardinality(A)
  BY <1>4, <1>8
<1>12. ASSUME ~Towards(n, k, q), Towards(rq[r], k, q) PROVE Cardinality(B) + 1 = Cardinality(A)
  <2>1. Cardinality(B) = Cardinality(A) - 1
    BY <1>4, <1>6, <1>12
  <2>2. QED
    BY <1>1, <2>1
<1>13. QED
  BY <1>9, <1>10, <1>11, <1>12 DEF A, B

\* The arithmetic of Room.
LEMMA RoomSums ==
    ASSUME NEW v \in Nat, NEW c \in Nat, NEW e \in Nat, NEW d \in Nat,
           NEW c2 \in Nat, NEW e2 \in Nat, NEW d2 \in Nat, v + c <= e + d,
           \/ c2 <= c /\ e <= e2 /\ d <= d2
           \/ c2 <= c + 1 /\ e2 = e + 1 /\ d <= d2
           \/ c2 <= c + 1 /\ e <= e2 /\ d2 = d + 1
    PROVE  v + c2 <= e2 + d2
OBVIOUS

LEMMA RoomCase ==
    ASSUME LeaderConstants, LeaderTypes, LeaderTypes',
           NEW k \in Points!Keys, NEW q \in Players, NEW v \in Nat, Room(k, q, v),
           \/ /\ Cardinality(Flying(k, q)') <= Cardinality(Flying(k, q))
              /\ Earned(k, q) <= Earned(k, q)' /\ doubled[k][q] <= doubled'[k][q]
           \/ /\ Cardinality(Flying(k, q)') <= Cardinality(Flying(k, q)) + 1
              /\ Earned(k, q)' = Earned(k, q) + 1 /\ doubled[k][q] <= doubled'[k][q]
           \/ /\ Cardinality(Flying(k, q)') <= Cardinality(Flying(k, q)) + 1
              /\ Earned(k, q) <= Earned(k, q)' /\ doubled'[k][q] = doubled[k][q] + 1
    PROVE  Room(k, q, v)'
<1> DEFINE c == Cardinality(Flying(k, q))  c2 == Cardinality(Flying(k, q)')
           e == Earned(k, q)  e2 == Earned(k, q)'  d == doubled[k][q]  d2 == doubled'[k][q]
<1>1. c \in Nat /\ c2 \in Nat
  BY FlyingFinite, FlyingFiniteNext
<1>2. e \in Nat
  BY EarnedTyped
<1>3. e2 \in Nat
  BY EarnedTypedNext
<1>4. d \in Nat /\ d2 \in Nat
  BY DEF LeaderTypes
<1>5. v + c <= e + d
  BY DEF Room
<1>6. \/ c2 <= c /\ e <= e2 /\ d <= d2
      \/ c2 <= c + 1 /\ e2 = e + 1 /\ d <= d2
      \/ c2 <= c + 1 /\ e <= e2 /\ d2 = d + 1
  OBVIOUS
<1>7. (v + c2 <= e2 + d2) => Room(k, q, v)'
  BY DEF Room
<1> HIDE DEF c, c2, e, e2, d, d2
<1>8. QED
  BY <1>1, <1>2, <1>3, <1>4, <1>5, <1>6, <1>7, RoomSums

LEMMA IdleTowards ==
    ASSUME NEW k, NEW q
    PROVE  ~Towards(Points!NoRq, k, q) /\ Points!NoRq.pc = "idle"
BY DEF Towards, Points!NoRq

LEMMA KeyKnown ==
    ASSUME LeaderConstants, NEW p \in Points!AllPeriods, NEW d \in Points!Days
    PROVE  /\ Points!RedisKey(p, d) \in Points!Keys
           /\ Points!RedisKey("daily", d) = d /\ Points!RedisKey("alltime", d) = 0
BY LeaderSets DEF Points!RedisKey

\* What a request that is not touched has read still has room.
LEMMA ReadKept ==
    ASSUME LeaderConstants, RoomKept, NEW x \in LeaderRow, Carried(x), HasRead(x)
    PROVE  x.pc = "read" => Room(x.on, x.who, x.cur["daily"])' /\ Room(0, x.who, x.cur["alltime"])'
<1> SUFFICES ASSUME x.pc = "read" PROVE Room(x.on, x.who, x.cur["daily"])' /\ Room(0, x.who, x.cur["alltime"])'
  OBVIOUS
<1>1. x.who \in Players /\ x.on \in Points!Days
  BY DEF Carried, Points!NoRq
<1>2. x.cur \in [Points!AllPeriods -> Nat]
  BY DEF LeaderRow
<1>3. x.cur["daily"] \in Nat /\ x.cur["alltime"] \in Nat
  BY <1>2, LeaderSets
<1>4. Room(x.on, x.who, x.cur["daily"]) /\ Room(0, x.who, x.cur["alltime"])
  BY DEF HasRead
<1>5. x.on \in Points!Keys /\ 0 \in Points!Keys
  BY <1>1, LeaderSets
<1>6. QED
  BY <1>1, <1>3, <1>4, <1>5 DEF RoomKept

LEMMA CountKept ==
    ASSUME LeaderConstants, RoomKept, LeaderTypes, ToolKnows, ToolRoom, tool' = tool
    PROVE  ToolRoom'
<1> SUFFICES ASSUME tool.pc = "counted", NEW q \in Players
             PROVE  Room(Points!RedisKey(tool.period, tool.on), q, tool.total[q])'
  BY DEF ToolRoom, HasCounted
<1>1. tool.on \in Points!Days
  BY DEF ToolKnows, Points!NoTool
<1>2. tool.period \in Points!AllPeriods /\ tool.total[q] \in Nat
  BY DEF LeaderTypes, LeaderTool
<1>3. Points!RedisKey(tool.period, tool.on) \in Points!Keys
  BY <1>1, <1>2, KeyKnown
<1>4. Room(Points!RedisKey(tool.period, tool.on), q, tool.total[q])
  BY DEF ToolRoom, HasCounted
<1> DEFINE kk == Points!RedisKey(tool.period, tool.on)  vv == tool.total[q]
<1>5. \A k \in Points!Keys, v \in Nat : Room(k, q, v) => Room(k, q, v)'
  BY DEF RoomKept
<1>6. PICK k \in Points!Keys, v \in Nat : k = kk /\ v = vv
  BY <1>2, <1>3
<1>7. Room(k, q, v)'
  BY <1>4, <1>5, <1>6
<1>8. kk' = kk /\ vv' = vv
  OBVIOUS
<1>9. QED
  BY <1>6, <1>7, <1>8 DEF Room, Flying, Earned

LEMMA BoardKept ==
    ASSUME LeaderConstants, RoomKept, LeaderTypes, BoardRoom, board' = board
    PROVE  BoardRoom'
<1> SUFFICES ASSUME NEW k \in Points!Keys, NEW q \in Players PROVE Room(k, q, board[k][q])'
  BY DEF BoardRoom
<1>1. board[k][q] \in Nat
  BY DEF LeaderTypes
<1>2. PICK v \in Nat : v = board[k][q]
  BY <1>1
<1>3. Room(k, q, v)
  BY <1>2 DEF BoardRoom
<1>4. Room(k, q, v)'
  BY <1>3 DEF RoomKept
<1>5. QED
  BY <1>2, <1>4 DEF Room

LEMMA ReadSame ==
    ASSUME NEW o, NEW y, rq'[o] = y, HasRead(y)'
    PROVE  HasRead(rq[o])'
BY DEF HasRead, Room, Flying, Earned

\* Requests but r stay; what r then has read has room.
LEMMA ReadsKept ==
    ASSUME LeaderConstants, RoomKept, LeaderTypes, Carriers, ReadRoom, NEW r \in Requests, NEW n,
           rq' = [rq EXCEPT ![r] = n], HasRead(n)'
    PROVE  ReadRoom'
<1> SUFFICES ASSUME NEW o \in Requests PROVE HasRead(rq[o])'
  BY DEF ReadRoom
<1>1. CASE o = r
  <2>1. rq'[o] = n
    BY <1>1 DEF LeaderTypes
  <2>2. QED
    BY <2>1, ReadSame
<1>2. CASE o # r
  <2>1. rq'[o] = rq[o] /\ rq[o] \in LeaderRow /\ Carried(rq[o]) /\ HasRead(rq[o])
    BY <1>2 DEF LeaderTypes, Carriers, ReadRoom
  <2>2. PICK y \in LeaderRow : y = rq[o]
    BY <2>1
  <2>3. Carried(y) /\ HasRead(y)
    BY <2>1, <2>2
  <2>4. y.pc = "read" => Room(y.on, y.who, y.cur["daily"])' /\ Room(0, y.who, y.cur["alltime"])'
    BY <2>2, <2>3, ReadKept
  <2>5. rq'[o] = y
    BY <2>1, <2>2
  <2>6. HasRead(y)'
    BY <2>4 DEF HasRead
  <2>7. QED
    BY <2>5, <2>6, ReadSame
<1>3. QED
  BY <1>1, <1>2

LEMMA QuietRoom ==
    ASSUME LeaderConstants, LeaderTypes, LeaderTypes', scored' = scored,
           \A k \in Points!Keys, q \in Players : doubled[k][q] <= doubled'[k][q],
           rq' = rq \/ \E r \in Requests : rq' = [rq EXCEPT ![r] = Points!NoRq]
    PROVE  RoomKept
<1> SUFFICES ASSUME NEW k \in Points!Keys, NEW q \in Players, NEW v \in Nat, Room(k, q, v)
             PROVE  Room(k, q, v)'
  BY DEF RoomKept
<1>1. Earned(k, q)' = Earned(k, q) /\ Earned(k, q) \in Nat
  BY EarnedTyped DEF Earned, Points!Total
<1>2. Earned(k, q) <= Earned(k, q)' /\ doubled[k][q] <= doubled'[k][q]
  BY <1>1
<1>3. Cardinality(Flying(k, q)') <= Cardinality(Flying(k, q))
  <2>1. CASE rq' = rq
    <3>1. Flying(k, q)' = Flying(k, q)
      BY <2>1 DEF Flying
    <3>2. Cardinality(Flying(k, q)) \in Nat
      BY FlyingFinite
    <3>3. QED
      BY <3>1, <3>2
  <2>2. CASE \E r \in Requests : rq' = [rq EXCEPT ![r] = Points!NoRq]
    <3>1. PICK r \in Requests : rq' = [rq EXCEPT ![r] = Points!NoRq]
      BY <2>2
    <3>2. rq \in [Requests -> LeaderRow]
      BY DEF LeaderTypes
    <3> DEFINE n == Points!NoRq
    <3>3. ~Towards(n, k, q) /\ rq' = [rq EXCEPT ![r] = n]
      BY <3>1, IdleTowards
    <3> HIDE DEF n
    <3>4. QED
      BY <3>2, <3>3, FlyingAfter
  <2>3. QED
    BY <2>1, <2>2
<1>4. QED
  BY <1>2, <1>3, RoomCase

LEMMA NoRqTyped ==
    ASSUME LeaderConstants
    PROVE  /\ Points!NoRq \in LeaderRow /\ Points!NoRq.pc = "idle" /\ Carried(Points!NoRq)
           /\ HasRead(Points!NoRq)'
<1>1. 0 \in 0..MaxDay
  BY LeaderSets
<1>2. [p \in Points!AllPeriods |-> 0] \in [Points!AllPeriods -> Nat]
  OBVIOUS
<1>3. Points!NoRq \in LeaderRow /\ Points!NoRq.pc = "idle"
  BY <1>1, <1>2 DEF Points!NoRq, LeaderRow
<1>4. QED
  BY <1>3 DEF Carried, HasRead

LEMMA NoToolTyped ==
    ASSUME LeaderConstants
    PROVE  /\ Points!NoTool \in LeaderTool /\ Points!NoTool.pc = "idle"
           /\ \A q \in Players : Points!NoTool.total[q] = 0
<1>1. 0 \in 0..MaxDay /\ "daily" \in Points!AllPeriods
  BY LeaderSets
<1>2. [q \in Players |-> 0] \in [Players -> Nat]
  OBVIOUS
<1>3. QED
  BY <1>1, <1>2 DEF Points!NoTool, LeaderTool

LEMMA CarriersKept ==
    ASSUME LeaderTypes, Carriers, NEW r \in Requests, NEW n, n \in LeaderRow, Carried(n),
           rq' = [rq EXCEPT ![r] = n]
    PROVE  rq' \in [Requests -> LeaderRow] /\ Carriers'
<1>1. rq' \in [Requests -> LeaderRow]
  BY DEF LeaderTypes
<1>2. ASSUME NEW o \in Requests PROVE Carried(rq[o])'
  <2>1. rq'[o] = n \/ rq'[o] = rq[o]
    BY DEF LeaderTypes
  <2>2. Carried(rq[o])
    BY DEF Carriers
  <2>3. Carried(rq'[o])
    BY <2>1, <2>2
  <2>4. QED
    BY <2>3 DEF Carried, Points!NoRq
<1>3. QED
  BY <1>1, <1>2 DEF Carriers

LEMMA LosePointKeeps ==
    ASSUME LeaderConstants, LeaderIInv, NEW r \in Requests, Points!LosePoint(r)
    PROVE  LeaderIInv'
<1>1. /\ LeaderTypes /\ Carriers /\ ToolKnows /\ BoardRoom /\ ReadRoom /\ ToolRoom
      /\ Points!CapHolds /\ ToolCap /\ NoStation
  BY DEF LeaderIInv
<1>2. /\ rq' = [rq EXCEPT ![r] = Points!NoRq]
      /\ today' = today /\ scored' = scored /\ board' = board /\ paying' = paying /\ tool' = tool
      /\ doubled' = doubled
  BY DEF Points!LosePoint
<1>3. rq' \in [Requests -> LeaderRow] /\ Carriers'
  BY <1>1, <1>2, NoRqTyped, CarriersKept
<1>4. LeaderTypes'
  BY <1>1, <1>2, <1>3 DEF LeaderTypes
<1>5. \A k \in Points!Keys, q \in Players : doubled[k][q] <= doubled'[k][q]
  BY <1>1, <1>2 DEF LeaderTypes
<1>6. RoomKept
  BY <1>1, <1>2, <1>4, <1>5, QuietRoom
<1>7. BoardRoom' /\ ToolRoom'
  BY <1>1, <1>2, <1>6, BoardKept, CountKept
<1>8. ReadRoom'
  BY <1>1, <1>2, <1>6, NoRqTyped, ReadsKept
<1>9. ToolKnows' /\ Points!CapHolds' /\ ToolCap' /\ NoStation'
  BY <1>1, <1>2 DEF ToolKnows, Points!CapHolds, ToolCap, NoStation, Points!DailyCap
<1>10. QED
  BY <1>3, <1>4, <1>7, <1>8, <1>9 DEF LeaderIInv

LEMMA NextDayKeeps ==
    ASSUME LeaderConstants, LeaderIInv, Points!NextDay
    PROVE  LeaderIInv'
<1>1. /\ LeaderTypes /\ Carriers /\ ToolKnows /\ BoardRoom /\ ReadRoom /\ ToolRoom
      /\ Points!CapHolds /\ ToolCap /\ NoStation
  BY DEF LeaderIInv
<1>2. /\ today < MaxDay /\ today' = today + 1
      /\ scored' = scored /\ board' = board /\ paying' = paying /\ tool' = tool
      /\ doubled' = doubled /\ rq' = rq
  BY DEF Points!NextDay
<1>3. today' \in Points!Days
  BY <1>1, <1>2, LeaderSets DEF LeaderTypes
<1>4. LeaderTypes'
  BY <1>1, <1>2, <1>3 DEF LeaderTypes
<1>5. QED
  BY <1>1, <1>2, <1>4 DEF LeaderIInv, Carriers, Carried, ToolKnows, BoardRoom, ReadRoom, ToolRoom, HasRead, HasCounted,
     Room, Flying, Earned, Points!Total, Points!CapHolds, ToolCap, NoStation, Points!DailyCap

LEMMA LoseRedisKeeps ==
    ASSUME LeaderConstants, LeaderIInv, Points!LoseRedis
    PROVE  LeaderIInv'
<1>1. /\ LeaderTypes /\ Carriers /\ ToolKnows /\ BoardRoom /\ ReadRoom /\ ToolRoom
      /\ Points!CapHolds /\ ToolCap /\ NoStation
  BY DEF LeaderIInv
<1>2. /\ board' = [k \in Points!Keys |-> [q \in Players |-> 0]]
      /\ today' = today /\ scored' = scored /\ paying' = paying /\ tool' = tool
      /\ doubled' = doubled /\ rq' = rq
  BY DEF Points!LoseRedis
<1>3. \A k \in Points!Keys, q \in Players : board'[k][q] = 0
  BY <1>2
<1>4. LeaderTypes'
  BY <1>1, <1>2 DEF LeaderTypes
<1>5. \A k \in Points!Keys, q \in Players : doubled[k][q] <= doubled'[k][q]
  BY <1>1, <1>2 DEF LeaderTypes
<1>6. RoomKept
  BY <1>1, <1>2, <1>4, <1>5, QuietRoom
<1>7. ASSUME NEW k \in Points!Keys, NEW q \in Players PROVE Room(k, q, board[k][q])'
  <2>1. PICK v \in Nat : v = board[k][q]
    BY <1>1 DEF LeaderTypes
  <2>2. Room(k, q, v)
    BY <1>1, <2>1 DEF BoardRoom
  <2>3. Room(k, q, v)'
    BY <1>6, <2>2 DEF RoomKept
  <2> DEFINE c == Cardinality(Flying(k, q))'  e == Earned(k, q)'  d == doubled'[k][q]
  <2>4. c \in Nat /\ e \in Nat /\ d \in Nat
    BY <1>4, FlyingFiniteNext, EarnedTypedNext DEF LeaderTypes
  <2>5. v + c <= e + d
    BY <2>3 DEF Room
  <2>6. (0 + c <= e + d) => Room(k, q, board[k][q])'
    BY <1>3 DEF Room
  <2> HIDE DEF c, e, d
  <2>7. QED
    BY <2>4, <2>5, <2>6
<1>8. BoardRoom'
  BY <1>7 DEF BoardRoom
<1>9. ToolRoom'
  BY <1>1, <1>2, <1>6, CountKept
<1>10. ReadRoom' /\ Carriers'
  BY <1>1, <1>2 DEF Carriers, Carried, ReadRoom, HasRead, Room, Flying, Earned, Points!Total
<1>11. Points!CapHolds'
  BY <1>2, <1>3, LeaderSets DEF Points!CapHolds, Points!DailyCap, LeaderConstants
<1>12. ToolKnows' /\ ToolCap' /\ NoStation'
  BY <1>1, <1>2, <1>3 DEF ToolKnows, ToolCap, NoStation, Points!DailyCap
<1>13. QED
  BY <1>4, <1>8, <1>9, <1>10, <1>11, <1>12 DEF LeaderIInv

LEMMA RebuildKeeps ==
    ASSUME LeaderConstants, LeaderIInv, Points!RebuildPeriod
    PROVE  LeaderIInv'
<1>1. /\ LeaderTypes /\ Carriers /\ ToolKnows /\ BoardRoom /\ ReadRoom /\ ToolRoom
      /\ Points!CapHolds /\ ToolCap /\ NoStation
  BY DEF LeaderIInv
<1> DEFINE k0 == Points!RedisKey(tool.period, tool.on)  tot == tool.total
<1>2. /\ tool.pc = "counted" /\ board' = [board EXCEPT ![k0] = tot] /\ tool' = Points!NoTool
      /\ today' = today /\ scored' = scored /\ paying' = paying /\ doubled' = doubled /\ rq' = rq
  BY DEF Points!RebuildPeriod
<1>3. tool.on \in Points!Days /\ tool.period \in Points!AllPeriods /\ tot \in [Players -> Nat]
  BY <1>1, <1>2 DEF ToolKnows, Points!NoTool, LeaderTypes, LeaderTool
<1>4. k0 \in Points!Keys /\ (k0 \in Points!Days => tool.period = "daily")
  BY <1>3, KeyKnown, LeaderSets
<1>5. \A q \in Players : Room(k0, q, tot[q])
  BY <1>1, <1>2 DEF ToolRoom, HasCounted
<1>6. \A q \in Players : k0 \in Points!Days => tot[q] <= Points!DailyCap(q)
  BY <1>1, <1>2, <1>4 DEF ToolCap
<1>7. \A q \in Players \cap Stations : tot[q] = 0
  BY <1>1 DEF NoStation
<1>8. \A k \in Points!Keys : board'[k] = IF k = k0 THEN tot ELSE board[k]
  BY <1>1, <1>2, <1>4 DEF LeaderTypes
<1>9. LeaderTypes'
  <2>1. board' \in [Points!Keys -> [Players -> Nat]]
    BY <1>1, <1>2, <1>3 DEF LeaderTypes
  <2>2. QED
    BY <1>1, <1>2, <2>1, NoToolTyped DEF LeaderTypes
<1> HIDE DEF k0, tot
<1>10. ASSUME NEW k \in Points!Keys, NEW q \in Players PROVE Room(k, q, board[k][q])'
  <2>1. Room(k, q, board[k][q]) /\ (k = k0 => Room(k, q, tot[q]))
    BY <1>1, <1>5 DEF BoardRoom
  <2>2. Flying(k, q)' = Flying(k, q) /\ Earned(k, q)' = Earned(k, q) /\ doubled' = doubled
    BY <1>2 DEF Flying, Earned, Points!Total
  <2>3. PICK v : v = board'[k][q]
    OBVIOUS
  <2>4. Room(k, q, v)
    BY <1>8, <2>1, <2>3
  <2>5. Room(k, q, v)'
    BY <2>2, <2>4 DEF Room
  <2>6. QED
    BY <2>3, <2>5 DEF Room
<1>11. BoardRoom'
  BY <1>10 DEF BoardRoom
<1>12. ReadRoom' /\ Carriers'
  BY <1>1, <1>2 DEF Carriers, Carried, ReadRoom, HasRead, Room, Flying, Earned, Points!Total
<1>13. ToolKnows' /\ ToolRoom' /\ ToolCap'
  BY <1>2, NoToolTyped DEF ToolKnows, ToolRoom, HasCounted, ToolCap
<1>14. Points!CapHolds'
  <2>1. ASSUME NEW q \in Players, NEW d \in Points!Days PROVE board'[d][q] <= Points!DailyCap(q)
    BY <1>1, <1>6, <1>8, LeaderSets DEF Points!CapHolds
  <2>2. QED
    BY <1>2, <2>1 DEF Points!CapHolds, Points!DailyCap
<1>15. NoStation'
  BY <1>1, <1>2, <1>7, <1>8, NoToolTyped DEF NoStation
<1>16. QED
  BY <1>9, <1>11, <1>12, <1>13, <1>14, <1>15 DEF LeaderIInv

\* Where RecordPoint writes, and what.
LEMMA WrittenWhere ==
    ASSUME LeaderConstants, LeaderTypes, NEW r \in Requests, Points!RecordPoint(r),
           rq[r].on \in Points!Days, rq[r].who \in Players, NEW k \in Points!Keys, NEW q \in Players
    PROVE  \/ board'[k][q] = board[k][q]
           \/ /\ q = rq[r].who /\ k = 0 /\ board'[k][q] = rq[r].cur["alltime"] + 1
           \/ /\ q = rq[r].who /\ k = rq[r].on /\ board'[k][q] = rq[r].cur["daily"] + 1
              /\ rq[r].cur["daily"] < Points!DailyCap(q)
<1> DEFINE c == rq[r].cur  w == rq[r].who  on == rq[r].on
           p0 == CHOOSE p \in Points!AllPeriods : k = Points!RedisKey(p, on)
<1>1. CASE ~Points!UnderCap(c, w)
  BY <1>1 DEF Points!RecordPoint
<1>2. CASE Points!UnderCap(c, w)
  <2>1. board' = [kk \in Points!Keys |->
                     IF \E p \in Points!AllPeriods : kk = Points!RedisKey(p, on)
                     THEN [board[kk] EXCEPT ![w] = c[CHOOSE p \in Points!AllPeriods : kk = Points!RedisKey(p, on)] + 1]
                     ELSE board[kk]]
    BY <1>2 DEF Points!RecordPoint
  <2>2. board'[k] = IF \E p \in Points!AllPeriods : k = Points!RedisKey(p, on)
                    THEN [board[k] EXCEPT ![w] = c[p0] + 1] ELSE board[k]
    BY <2>1
  <2>3. CASE ~\E p \in Points!AllPeriods : k = Points!RedisKey(p, on)
    BY <2>2, <2>3
  <2>4. CASE \E p \in Points!AllPeriods : k = Points!RedisKey(p, on)
    <3>1. p0 \in Points!AllPeriods /\ k = Points!RedisKey(p0, on)
      BY <2>4
    <3>2. board'[k] = [board[k] EXCEPT ![w] = c[p0] + 1]
      BY <2>2, <2>4
    <3> HIDE DEF p0
    <3>3. \/ p0 = "alltime" /\ k = 0
          \/ p0 = "daily" /\ k = on
      BY <3>1, KeyKnown, LeaderSets
    <3>4. board[k] \in [Players -> Nat]
      BY DEF LeaderTypes
    <3>5. q # w => board'[k][q] = board[k][q]
      BY <3>2, <3>4
    <3>6. q = w => board'[k][q] = c[p0] + 1
      BY <3>2, <3>4
    <3>7. c["daily"] < Points!DailyCap(w)
      BY <1>2 DEF Points!UnderCap
    <3>8. QED
      BY <3>3, <3>5, <3>6, <3>7
  <2>5. QED
    BY <2>3, <2>4
<1>3. QED
  BY <1>1, <1>2

LEMMA RecordPointKeeps ==
    ASSUME LeaderConstants, LeaderIInv, NEW r \in Requests, Points!RecordPoint(r)
    PROVE  LeaderIInv'
<1>1. /\ LeaderTypes /\ Carriers /\ ToolKnows /\ BoardRoom /\ ReadRoom /\ ToolRoom
      /\ Points!CapHolds /\ ToolCap /\ NoStation
  BY DEF LeaderIInv
<1>2. /\ rq[r].pc = "read" /\ rq' = [rq EXCEPT ![r] = Points!NoRq]
      /\ today' = today /\ scored' = scored /\ paying' = paying /\ tool' = tool
      /\ doubled' = doubled
  BY DEF Points!RecordPoint
<1>3. rq[r].who \in Players \ Stations /\ rq[r].on \in Points!Days /\ rq[r] \in LeaderRow /\ HasRead(rq[r])
  BY <1>1, <1>2 DEF Carriers, Carried, Points!NoRq, LeaderTypes, ReadRoom
<1>4. rq[r].cur["daily"] \in Nat /\ rq[r].cur["alltime"] \in Nat
  BY <1>3, LeaderSets DEF LeaderRow
<1>5. rq' \in [Requests -> LeaderRow] /\ Carriers'
  BY <1>1, <1>2, NoRqTyped, CarriersKept
<1>6. \A k \in Points!Keys, q \in Players :
         \/ board'[k][q] = board[k][q]
         \/ /\ q = rq[r].who /\ k = 0 /\ board'[k][q] = rq[r].cur["alltime"] + 1
         \/ /\ q = rq[r].who /\ k = rq[r].on /\ board'[k][q] = rq[r].cur["daily"] + 1
            /\ rq[r].cur["daily"] < Points!DailyCap(q)
  BY <1>1, <1>3, WrittenWhere
<1>7. board' \in [Points!Keys -> [Players -> Nat]]
  <2>1. \A k \in Points!Keys, q \in Players : board'[k][q] \in Nat
    BY <1>1, <1>4, <1>6 DEF LeaderTypes
  <2>2. board' = board \/ \E F, w, e : board' = [k \in Points!Keys |-> IF k \in F THEN [board[k] EXCEPT ![w] = e[k]] ELSE board[k]]
    <3>1. CASE Points!UnderCap(rq[r].cur, rq[r].who)
      <4> DEFINE F == {k \in Points!Keys : \E p \in Points!AllPeriods : k = Points!RedisKey(p, rq[r].on)}
                 w == rq[r].who
                 e == [k \in Points!Keys |-> rq[r].cur[CHOOSE p \in Points!AllPeriods : k = Points!RedisKey(p, rq[r].on)] + 1]
      <4>1. board' = [k \in Points!Keys |-> IF k \in F THEN [board[k] EXCEPT ![w] = e[k]] ELSE board[k]]
        BY <3>1 DEF Points!RecordPoint
      <4> HIDE DEF F, w, e
      <4>2. QED
        BY <4>1
    <3>2. CASE ~Points!UnderCap(rq[r].cur, rq[r].who)
      BY <3>2 DEF Points!RecordPoint
    <3>3. QED
      BY <3>1, <3>2
  <2>3. \A k \in Points!Keys : board[k] \in [Players -> Nat]
    BY <1>1 DEF LeaderTypes
  <2>4. QED
    BY <1>1, <2>1, <2>2, <2>3 DEF LeaderTypes
<1>8. LeaderTypes'
  BY <1>1, <1>2, <1>5, <1>7 DEF LeaderTypes
<1>9. \A k \in Points!Keys, q \in Players : doubled[k][q] <= doubled'[k][q]
  BY <1>1, <1>2 DEF LeaderTypes
<1>10. RoomKept
  BY <1>1, <1>2, <1>8, <1>9, QuietRoom
<1>11. PICK w \in Players \ Stations : w = rq[r].who
  BY <1>3
<1>12. PICK on \in Points!Days : on = rq[r].on
  BY <1>3
<1>13. ASSUME NEW k \in Points!Keys, NEW v \in Nat, Room(k, w, v), Towards(rq[r], k, w)
       PROVE  Room(k, w, v + 1)'
  <2>1. Cardinality(Flying(k, w)') + 1 = Cardinality(Flying(k, w))
    <3> DEFINE n == Points!NoRq
    <3>1. ~Towards(n, k, w) /\ rq' = [rq EXCEPT ![r] = n] /\ Towards(rq[r], k, w)
      BY <1>2, <1>13, IdleTowards
    <3> HIDE DEF n
    <3>2. rq \in [Requests -> LeaderRow]
      BY <1>1 DEF LeaderTypes
    <3>3. QED
      BY <3>1, <3>2, FlyingAfter
  <2>2. /\ Earned(k, w)' = Earned(k, w) /\ Earned(k, w) \in Nat
        /\ doubled'[k][w] = doubled[k][w] /\ doubled[k][w] \in Nat
    BY <1>1, <1>2, EarnedTyped DEF Earned, Points!Total, LeaderTypes
  <2>3. Cardinality(Flying(k, w)) \in Nat /\ Cardinality(Flying(k, w)') \in Nat
    BY FlyingFinite, FlyingFiniteNext
  <2>4. v + Cardinality(Flying(k, w)) <= Earned(k, w) + doubled[k][w]
    BY <1>13 DEF Room
  <2> DEFINE a == Cardinality(Flying(k, w))  b == Cardinality(Flying(k, w)')  e == Earned(k, w)  d == doubled[k][w]
  <2>5. ((v + 1) + b <= e + d) => Room(k, w, v + 1)'
    BY <2>2 DEF Room
  <2>6. a \in Nat /\ b \in Nat /\ e \in Nat /\ d \in Nat /\ b + 1 = a /\ v + a <= e + d
    BY <2>1, <2>2, <2>3, <2>4
  <2> HIDE DEF a, b, e, d
  <2>7. (v + 1) + b <= e + d
    BY <2>6
  <2>8. QED
    BY <2>5, <2>7
<1>14. ASSUME NEW k \in Points!Keys, NEW q \in Players PROVE Room(k, q, board[k][q])'
  <2>1. CASE board'[k][q] = board[k][q]
    <3>1. PICK v \in Nat : v = board[k][q]
      BY <1>1 DEF LeaderTypes
    <3>2. Room(k, q, v)
      BY <1>1, <3>1 DEF BoardRoom
    <3>3. Room(k, q, v)'
      BY <1>10, <3>2 DEF RoomKept
    <3>4. board'[k][q] = v
      BY <2>1, <3>1
    <3>5. QED
      BY <3>3, <3>4 DEF Room
  <2>2. CASE q = rq[r].who /\ k = 0 /\ board'[k][q] = rq[r].cur["alltime"] + 1
    <3>1. PICK v \in Nat : v = rq[r].cur["alltime"]
      BY <1>4
    <3>2. Room(k, w, v) /\ Towards(rq[r], k, w)
      BY <1>2, <1>3, <1>11, <2>2, <3>1 DEF HasRead, Towards
    <3>3. Room(k, w, v + 1)'
      BY <1>13, <3>2
    <3>4. board'[k][q] = v + 1 /\ q = w
      BY <1>11, <2>2, <3>1
    <3>5. QED
      BY <3>3, <3>4 DEF Room
  <2>3. CASE q = rq[r].who /\ k = rq[r].on /\ board'[k][q] = rq[r].cur["daily"] + 1
    <3>1. PICK v \in Nat : v = rq[r].cur["daily"]
      BY <1>4
    <3>2. Room(k, w, v) /\ Towards(rq[r], k, w)
      BY <1>2, <1>3, <1>11, <2>3, <3>1 DEF HasRead, Towards
    <3>3. Room(k, w, v + 1)'
      BY <1>13, <3>2
    <3>4. board'[k][q] = v + 1 /\ q = w
      BY <1>11, <2>3, <3>1
    <3>5. QED
      BY <3>3, <3>4 DEF Room
  <2>4. QED
    BY <1>6, <2>1, <2>2, <2>3
<1>15. BoardRoom'
  BY <1>14 DEF BoardRoom
<1>16. ToolRoom'
  BY <1>1, <1>2, <1>10, CountKept
<1>17. ReadRoom'
  BY <1>1, <1>2, <1>10, NoRqTyped, ReadsKept
<1>18. Points!CapHolds'
  <2>1. ASSUME NEW q \in Players, NEW d \in Points!Days PROVE board'[d][q] <= Points!DailyCap(q)
    <3>1. Points!DailyCap(q) \in Nat
      BY DEF LeaderConstants, Points!DailyCap
    <3>2. d \in Points!Keys /\ d # 0
      BY LeaderSets
    <3>3. board[d][q] <= Points!DailyCap(q)
      BY <1>1 DEF Points!CapHolds
    <3>4. \/ board'[d][q] = board[d][q]
          \/ board'[d][q] = rq[r].cur["daily"] + 1 /\ rq[r].cur["daily"] < Points!DailyCap(q)
      BY <1>6, <3>2
    <3> DEFINE c == rq[r].cur["daily"]  m == Points!DailyCap(q)
    <3>5. c \in Nat /\ m \in Nat
      BY <1>4, <3>1
    <3>6. c < m => c + 1 <= m
      BY <3>5
    <3>7. QED
      BY <3>3, <3>4, <3>6
  <2>2. QED
    BY <1>2, <2>1 DEF Points!CapHolds, Points!DailyCap
<1>19. NoStation'
  <2>1. ASSUME NEW k \in Points!Keys, NEW q \in Players \cap Stations PROVE board'[k][q] = 0
    BY <1>1, <1>3, <1>6 DEF NoStation
  <2>2. QED
    BY <1>1, <1>2, <2>1 DEF NoStation
<1>20. ToolKnows' /\ ToolCap'
  BY <1>1, <1>2 DEF ToolKnows, ToolCap, Points!DailyCap
<1>21. QED
  BY <1>5, <1>8, <1>15, <1>16, <1>17, <1>18, <1>19, <1>20 DEF LeaderIInv

LEMMA OneHigher ==
    ASSUME NEW A, NEW B, NEW F \in [A -> [B -> Nat]], NEW a \in A, NEW b \in B, NEW G,
           G = [F EXCEPT ![a][b] = @ + 1]
    PROVE  /\ G \in [A -> [B -> Nat]]
           /\ \A x \in A, y \in B : G[x][y] = IF x = a /\ y = b THEN F[x][y] + 1 ELSE F[x][y]
<1>1. \A x \in A : F[x] \in [B -> Nat]
  OBVIOUS
<1> DEFINE h == [F[a] EXCEPT ![b] = F[a][b] + 1]
<1>2. G = [F EXCEPT ![a] = h]
  OBVIOUS
<1>3. F[a][b] + 1 \in Nat
  BY <1>1
<1>4. h \in [B -> Nat] /\ h[b] = F[a][b] + 1 /\ \A y \in B : y # b => h[y] = F[a][y]
  BY <1>1, <1>3
<1> HIDE DEF h
<1>5. G[a] = h /\ \A x \in A : x # a => G[x] = F[x]
  BY <1>2
<1>6. G \in [A -> [B -> Nat]]
  BY <1>1, <1>2, <1>4
<1>7. QED
  BY <1>4, <1>5, <1>6

LEMMA AnswerCorrectlyKeeps ==
    ASSUME LeaderConstants, LeaderIInv, NEW r \in Requests, NEW q \in Players, Points!AnswerCorrectly(r, q)
    PROVE  LeaderIInv'
<1>1. /\ LeaderTypes /\ Carriers /\ ToolKnows /\ BoardRoom /\ ReadRoom /\ ToolRoom
      /\ Points!CapHolds /\ ToolCap /\ NoStation
  BY DEF LeaderIInv
<1>2. PICK n : n = [Points!NoRq EXCEPT !.pc = "answered", !.who = q, !.on = today]
  OBVIOUS
<1>3. /\ rq[r] = Points!NoRq /\ scored' = [scored EXCEPT ![q][today] = @ + 1]
      /\ rq' = [rq EXCEPT ![r] = n]
      /\ today' = today /\ board' = board /\ paying' = paying /\ tool' = tool /\ doubled' = doubled
  BY <1>2 DEF Points!AnswerCorrectly
<1>4. today \in Points!Days /\ today \in 0..MaxDay
  BY <1>1, LeaderSets DEF LeaderTypes
<1>5. n \in LeaderRow /\ n.pc = "answered" /\ n.who = q /\ n.on = today
  BY <1>4, <1>2, NoRqTyped DEF LeaderRow
<1>6. Carried(n) /\ HasRead(n)'
  BY <1>4, <1>5 DEF Carried, HasRead
<1>7. rq' \in [Requests -> LeaderRow] /\ Carriers'
  BY <1>1, <1>3, <1>5, <1>6, CarriersKept
<1>8. /\ scored' \in [Players -> [Points!Days -> Nat]]
      /\ \A p \in Players, d \in Points!Days :
            scored'[p][d] = IF p = q /\ d = today THEN scored[p][d] + 1 ELSE scored[p][d]
  <2>1. scored \in [Players -> [Points!Days -> Nat]]
    BY <1>1 DEF LeaderTypes
  <2>2. QED
    BY <1>3, <1>4, <2>1, OneHigher
<1>9. LeaderTypes'
  BY <1>1, <1>3, <1>7, <1>8 DEF LeaderTypes
<1>10. \A p \in Players : p # q => scored'[p] = scored[p]
  BY <1>1, <1>3 DEF LeaderTypes
<1>11. Points!SumDays(scored'[q]) = Points!SumDays(scored[q]) + 1
  <2> DEFINE f == scored'[q]  g == scored[q]
  <2>1. f \in [Points!Days -> Nat] /\ g \in [Points!Days -> Nat] /\ MaxDay \in Nat
    BY <1>1, <1>8, LeaderSets DEF LeaderTypes
  <2>2. f[today] = g[today] + 1 /\ \A d \in Points!Days : d # today => f[d] = g[d]
    BY <1>4, <1>8
  <2>3. g[today] \in Nat
    BY <1>4, <2>1
  <2> HIDE DEF f, g
  <2> DEFINE sf == Points!SumDays(f)  sg == Points!SumDays(g)
  <2>4. sf \in Nat /\ sg \in Nat /\ sf + g[today] = sg + f[today]
    BY <1>4, <2>1, <2>2, SumDaysFacts
  <2>5. SUFFICES sf = sg + 1
    BY DEF f, g
  <2> HIDE DEF sf, sg
  <2> DEFINE a == g[today]
  <2>6. a \in Nat /\ sf + a = sg + (a + 1)
    BY <2>2, <2>3, <2>4
  <2> HIDE DEF a
  <2>7. QED
    BY <2>4, <2>6
<1>12. RoomKept
  <2> SUFFICES ASSUME NEW k \in Points!Keys, NEW p \in Players, NEW v \in Nat, Room(k, p, v)
               PROVE  Room(k, p, v)'
    BY DEF RoomKept
  <2>1. doubled[k][p] <= doubled'[k][p]
    BY <1>1, <1>3 DEF LeaderTypes
  <2>2. Earned(k, p) \in Nat
    BY <1>1, EarnedTyped
  <2>3. rq \in [Requests -> LeaderRow]
    BY <1>1 DEF LeaderTypes
  <2>4. CASE Towards(n, k, p)
    <3>1. p = q /\ (k = 0 \/ k = today)
      BY <1>5, <2>4 DEF Towards
    <3>2. Earned(k, p)' = Earned(k, p) + 1
      BY <1>4, <1>8, <1>11, <3>1, LeaderSets DEF Earned, Points!Total
    <3>3. Cardinality(Flying(k, p)') <= Cardinality(Flying(k, p)) + 1
      BY <1>3, <2>3, FlyingAfter
    <3>4. QED
      BY <1>1, <1>9, <2>1, <3>2, <3>3, RoomCase
  <2>5. CASE ~Towards(n, k, p)
    <3>1. ~(p = q /\ (k = 0 \/ k = today))
      BY <1>5, <2>5 DEF Towards
    <3>2. Earned(k, p)' = Earned(k, p)
      BY <1>4, <1>8, <1>10, <3>1, LeaderSets DEF Earned, Points!Total
    <3>3. Cardinality(Flying(k, p)') <= Cardinality(Flying(k, p))
      BY <1>3, <2>3, <2>5, FlyingAfter
    <3>4. Earned(k, p) <= Earned(k, p)'
      BY <2>2, <3>2
    <3>5. QED
      BY <1>1, <1>9, <2>1, <3>3, <3>4, RoomCase
  <2>6. QED
    BY <2>4, <2>5
<1>13. BoardRoom' /\ ToolRoom'
  BY <1>1, <1>3, <1>12, BoardKept, CountKept
<1>14. ReadRoom'
  BY <1>1, <1>3, <1>6, <1>12, ReadsKept
<1>15. ToolKnows' /\ Points!CapHolds' /\ ToolCap' /\ NoStation'
  BY <1>1, <1>3 DEF ToolKnows, Points!CapHolds, ToolCap, NoStation, Points!DailyCap
<1>16. QED
  BY <1>7, <1>9, <1>13, <1>14, <1>15 DEF LeaderIInv

LEMMA ReadPointsKeeps ==
    ASSUME LeaderConstants, LeaderIInv, NEW r \in Requests, Points!ReadPoints(r)
    PROVE  LeaderIInv'
<1>1. /\ LeaderTypes /\ Carriers /\ ToolKnows /\ BoardRoom /\ ReadRoom /\ ToolRoom
      /\ Points!CapHolds /\ ToolCap /\ NoStation
  BY DEF LeaderIInv
<1>2. /\ rq[r].pc = "answered" /\ rq[r] \in LeaderRow /\ rq[r].who \in Players /\ rq[r].on \in Points!Days
  BY <1>1 DEF Points!ReadPoints, Carriers, Carried, Points!NoRq, LeaderTypes
<1>3. PICK q \in Players : q = rq[r].who
  BY <1>2
<1>4. PICK seen : seen = [p \in Points!AllPeriods |-> board[Points!RedisKey(p, today)][q]]
  OBVIOUS
<1>5. PICK n : n = IF q \in Stations THEN Points!NoRq ELSE [pc |-> "read", who |-> q, on |-> today, cur |-> seen]
  OBVIOUS
<1>6. /\ rq' = [rq EXCEPT ![r] = n]
      /\ doubled' = IF rq[r].on = today THEN doubled ELSE [doubled EXCEPT ![today][q] = @ + 1]
      /\ today' = today /\ scored' = scored /\ board' = board /\ paying' = paying /\ tool' = tool
  BY <1>3, <1>4, <1>5 DEF Points!ReadPoints, Points!GetProfileKind, Points!currentPointsAllPeriods
<1>7. today \in Points!Days /\ today \in 0..MaxDay /\ today \in Points!Keys
  BY <1>1, LeaderSets DEF LeaderTypes
<1>8. seen \in [Points!AllPeriods -> Nat] /\ seen["daily"] = board[today][q] /\ seen["alltime"] = board[0][q]
  <2>1. \A p \in Points!AllPeriods : Points!RedisKey(p, today) \in Points!Keys
    BY <1>7, KeyKnown
  <2>2. \A p \in Points!AllPeriods : board[Points!RedisKey(p, today)][q] \in Nat
    BY <1>1, <2>1 DEF LeaderTypes
  <2>3. Points!RedisKey("daily", today) = today /\ Points!RedisKey("alltime", today) = 0
    BY <1>7, KeyKnown, LeaderSets
  <2>4. QED
    BY <1>4, <2>2, <2>3, LeaderSets
<1>9. \/ q \in Stations /\ n = Points!NoRq
      \/ /\ q \notin Stations /\ n \in LeaderRow /\ n.pc = "read" /\ n.who = q /\ n.on = today /\ n.cur = seen
  BY <1>7, <1>8, <1>5 DEF LeaderRow
<1>10. n \in LeaderRow /\ Carried(n)
  BY <1>7, <1>9, NoRqTyped DEF Carried
<1>11. rq' \in [Requests -> LeaderRow] /\ Carriers'
  BY <1>1, <1>6, <1>10, CarriersKept
<1>12. /\ doubled' \in [Points!Keys -> [Players -> Nat]]
       /\ \A k \in Points!Keys, p \in Players :
             doubled'[k][p] = IF rq[r].on # today /\ k = today /\ p = q THEN doubled[k][p] + 1 ELSE doubled[k][p]
  <2>1. doubled \in [Points!Keys -> [Players -> Nat]]
    BY <1>1 DEF LeaderTypes
  <2>2. CASE rq[r].on = today
    BY <1>6, <2>1, <2>2
  <2>3. CASE rq[r].on # today
    <3>1. doubled' = [doubled EXCEPT ![today][q] = @ + 1]
      BY <1>6, <2>3
    <3>2. /\ doubled' \in [Points!Keys -> [Players -> Nat]]
          /\ \A k \in Points!Keys, p \in Players :
                doubled'[k][p] = IF k = today /\ p = q THEN doubled[k][p] + 1 ELSE doubled[k][p]
      BY <1>7, <2>1, <3>1, OneHigher
    <3>3. QED
      BY <2>3, <3>2
  <2>4. QED
    BY <2>2, <2>3
<1>13. LeaderTypes'
  BY <1>1, <1>6, <1>11, <1>12 DEF LeaderTypes
<1>14. RoomKept
  <2> SUFFICES ASSUME NEW k \in Points!Keys, NEW p \in Players, NEW v \in Nat, Room(k, p, v)
               PROVE  Room(k, p, v)'
    BY DEF RoomKept
  <2>1. doubled[k][p] \in Nat /\ doubled[k][p] <= doubled'[k][p]
    BY <1>1, <1>12 DEF LeaderTypes
  <2>2. Earned(k, p) <= Earned(k, p)'
    <3>1. Earned(k, p) \in Nat /\ Earned(k, p)' = Earned(k, p)
      BY <1>1, <1>6, EarnedTyped DEF Earned, Points!Total
    <3>2. QED
      BY <3>1
  <2>3. rq \in [Requests -> LeaderRow]
    BY <1>1 DEF LeaderTypes
  <2>4. CASE ~Towards(n, k, p) \/ Towards(rq[r], k, p)
    <3>1. Cardinality(Flying(k, p)') <= Cardinality(Flying(k, p))
      BY <1>6, <2>3, <2>4, FlyingAfter
    <3>2. QED
      BY <1>1, <1>13, <2>1, <2>2, <3>1, RoomCase
  <2>5. CASE Towards(n, k, p) /\ ~Towards(rq[r], k, p)
    <3>1. n.pc = "read" /\ n.who = q /\ n.on = today
      BY <1>9, <2>5, IdleTowards
    <3>2. p = q /\ k = today /\ rq[r].on # today
      BY <1>2, <1>3, <2>5, <3>1 DEF Towards
    <3>3. doubled'[k][p] = doubled[k][p] + 1
      BY <1>12, <3>2
    <3>4. Cardinality(Flying(k, p)') <= Cardinality(Flying(k, p)) + 1
      BY <1>6, <2>3, FlyingAfter
    <3>5. QED
      BY <1>1, <1>13, <2>2, <3>3, <3>4, RoomCase
  <2>6. QED
    BY <2>4, <2>5
<1>15. BoardRoom' /\ ToolRoom'
  BY <1>1, <1>6, <1>14, BoardKept, CountKept
<1>16. HasRead(n)'
  <2>1. CASE n = Points!NoRq
    BY <2>1, NoRqTyped DEF HasRead
  <2>2. CASE n.pc = "read" /\ n.who = q /\ n.on = today /\ n.cur = seen
    <3>1. PICK d \in Points!Days : d = today
      BY <1>7
    <3>2. PICK vd \in Nat : vd = board[today][q]
      BY <1>1, <1>7 DEF LeaderTypes
    <3>3. PICK va \in Nat : va = board[0][q]
      <4>1. 0 \in Points!Keys
        BY LeaderSets
      <4>2. board[0][q] \in Nat
        BY <1>1, <4>1 DEF LeaderTypes
      <4>3. QED
        BY <4>2
    <3>4. Room(d, q, vd) /\ Room(0, q, va)
      BY <1>1, <1>7, <3>1, <3>2, <3>3, LeaderSets DEF BoardRoom
    <3>5. Room(d, q, vd)' /\ Room(0, q, va)'
      BY <1>7, <1>14, <3>1, <3>4, LeaderSets DEF RoomKept
    <3>6. n.on = d /\ n.who = q /\ n.cur["daily"] = vd /\ n.cur["alltime"] = va
      BY <1>8, <2>2, <3>1, <3>2, <3>3
    <3>7. QED
      BY <3>5, <3>6 DEF HasRead
  <2>3. QED
    BY <1>9, <2>1, <2>2
<1>17. ReadRoom'
  BY <1>1, <1>6, <1>14, <1>16, ReadsKept
<1>18. ToolKnows' /\ Points!CapHolds' /\ ToolCap' /\ NoStation'
  BY <1>1, <1>6 DEF ToolKnows, Points!CapHolds, ToolCap, NoStation, Points!DailyCap
<1>19. QED
  BY <1>11, <1>13, <1>15, <1>17, <1>18 DEF LeaderIInv

\* What a rebuild counts was earned, is under the cap and is nothing for a station.
LEMMA RecountBound ==
    ASSUME LeaderConstants, LeaderTypes, NEW p \in Points!AllPeriods, NEW at \in Points!Days, NEW q \in Players
    PROVE  /\ Points!Recount(p, at, q) \in Nat
           /\ Points!Recount(p, at, q) <= Earned(Points!RedisKey(p, at), q)
           /\ p = "daily" => Points!Recount(p, at, q) <= Points!DailyCap(q)
           /\ q \in Stations => Points!Recount(p, at, q) = 0
<1> DEFINE f == [d \in Points!Days |-> IF d \in Points!InPeriod(p, at) THEN Points!Capped(q, d) ELSE 0]
           g == scored[q]
           z == [d \in Points!Days |-> 0]
<1>1. Points!DailyCap(q) \in Nat
  BY DEF LeaderConstants, Points!DailyCap
<1>2. g \in [Points!Days -> Nat]
  BY DEF LeaderTypes
<1>3. ASSUME NEW d \in Points!Days
      PROVE  /\ Points!Capped(q, d) \in Nat /\ Points!Capped(q, d) <= g[d] /\ Points!Capped(q, d) <= Points!DailyCap(q)
             /\ q \in Stations => Points!Capped(q, d) = 0
  <2>1. g[d] \in Nat
    BY <1>2
  <2> DEFINE a == Points!CountCorrectAnswersByProfileByDayInRange(q, d)  m == Points!DailyCap(q)
  <2>2. a \in Nat /\ a <= g[d] /\ (q \in Stations => a = 0)
    BY <2>1 DEF Points!CountCorrectAnswersByProfileByDayInRange, Points!GetProfileKind
  <2>3. Points!Capped(q, d) = IF a < m THEN a ELSE m
    BY DEF Points!Capped, Points!Low
  <2>4. m \in Nat
    BY <1>1
  <2>5. SUFFICES /\ Points!Capped(q, d) \in Nat /\ Points!Capped(q, d) <= g[d] /\ Points!Capped(q, d) <= m
                 /\ q \in Stations => Points!Capped(q, d) = 0
    OBVIOUS
  <2> DEFINE c == Points!Capped(q, d)  b == g[d]
  <2>6. b \in Nat /\ a <= b /\ c = IF a < m THEN a ELSE m
    BY <2>1, <2>2, <2>3
  <2>7. (c \in Nat /\ c <= b /\ c <= m /\ (q \in Stations => c = 0)) =>
           /\ Points!Capped(q, d) \in Nat /\ Points!Capped(q, d) <= g[d] /\ Points!Capped(q, d) <= m
           /\ q \in Stations => Points!Capped(q, d) = 0
    OBVIOUS
  <2> HIDE DEF a, b, c, m
  <2>8. QED
    BY <2>2, <2>4, <2>6, <2>7
<1>4. \A d \in Points!Days : f[d] = Points!Capped(q, d) \/ f[d] = 0
  OBVIOUS
<1>5. f \in [Points!Days -> Nat] /\ z \in [Points!Days -> Nat] /\ MaxDay \in Nat
  BY <1>3, LeaderSets
<1>6. Points!Recount(p, at, q) = Points!SumDays(f)
  BY DEF Points!Recount
<1>7. \A d \in Points!Days : z[d] = 0
  OBVIOUS
<1>8. p = "daily" => \A d \in Points!Days : d # at => f[d] = z[d]
  <2>1. p = "daily" => Points!InPeriod(p, at) = at..at
    BY DEF Points!InPeriod, Points!PeriodStart, Points!PeriodEnd
  <2>2. \A d \in Points!Days : d # at => d \notin at..at
    BY LeaderSets
  <2>3. QED
    BY <2>1, <2>2
<1> HIDE DEF f, z
<1>9. Points!SumDays(f) \in Nat /\ Points!SumDays(z) = 0
  BY <1>5, <1>7, SumDaysFacts
<1>10. \A d \in Points!Days : f[d] \in Nat /\ f[d] <= g[d] /\ (q \in Stations => f[d] = 0)
  <2> SUFFICES ASSUME NEW d \in Points!Days PROVE f[d] \in Nat /\ f[d] <= g[d] /\ (q \in Stations => f[d] = 0)
    OBVIOUS
  <2>1. g[d] \in Nat
    BY <1>2
  <2>2. QED
    BY <1>3, <1>4, <2>1
<1>11. Points!SumDays(f) <= Points!SumDays(g)
  BY <1>2, <1>5, <1>10, SumDaysFacts
<1>12. q \in Stations => Points!SumDays(f) = 0
  BY <1>5, <1>10, SumDaysFacts
<1>13. ASSUME p = "daily" PROVE Points!SumDays(f) = f[at]
  <2>1. Points!SumDays(f) + z[at] = Points!SumDays(z) + f[at]
    BY <1>5, <1>8, <1>13, SumDaysFacts
  <2> DEFINE sf == Points!SumDays(f)  b == f[at]
  <2>2. sf \in Nat /\ b \in Nat /\ sf + 0 = 0 + b
    BY <1>7, <1>9, <1>10, <2>1
  <2> HIDE DEF sf, b
  <2>3. sf = b
    BY <2>2
  <2>4. QED
    BY <2>3 DEF sf, b
<1>14. f[at] <= g[at] /\ f[at] <= Points!DailyCap(q)
  BY <1>1, <1>3, <1>4, <1>10
<1>15. Earned(Points!RedisKey(p, at), q) = IF p = "daily" THEN g[at] ELSE Points!SumDays(g)
  BY KeyKnown, LeaderSets DEF Earned, Points!Total
<1> HIDE DEF g
<1>16. QED
  BY <1>6, <1>9, <1>11, <1>12, <1>13, <1>14, <1>15

LEMMA CountKeeps ==
    ASSUME LeaderConstants, LeaderIInv, NEW p \in Points!AllPeriods, Points!CountAnswers(p)
    PROVE  LeaderIInv'
<1>1. /\ LeaderTypes /\ Carriers /\ ToolKnows /\ BoardRoom /\ ReadRoom /\ ToolRoom
      /\ Points!CapHolds /\ ToolCap /\ NoStation
  BY DEF LeaderIInv
<1> DEFINE InFlight(q) == {r \in Requests : rq[r] # Points!NoRq /\ rq[r].who = q}
           Sum(q) == Points!Recount(p, today, q)
           key == Points!RedisKey(p, today)
<1>2. /\ tool' = [pc |-> "counted", period |-> p, on |-> today, total |-> [q \in Players |-> Sum(q)]]
      /\ doubled' = [k \in Points!Keys |-> [q \in Players |->
                       IF k = key THEN doubled[k][q] + Cardinality(InFlight(q)) ELSE doubled[k][q]]]
      /\ today' = today /\ scored' = scored /\ board' = board /\ paying' = paying /\ rq' = rq
  BY DEF Points!CountAnswers, Points!Cardinality, Cardinality
<1>3. today \in Points!Days /\ today \in 0..MaxDay /\ key \in Points!Keys
  BY <1>1, LeaderSets, KeyKnown DEF LeaderTypes
<1>4. \A q \in Players : /\ Sum(q) \in Nat /\ Sum(q) <= Earned(key, q)
                         /\ p = "daily" => Sum(q) <= Points!DailyCap(q)
                         /\ q \in Stations => Sum(q) = 0
  BY <1>1, <1>3, RecountBound
<1>5. \A q \in Players : /\ Cardinality(InFlight(q)) \in Nat
                         /\ Cardinality(Flying(key, q)) <= Cardinality(InFlight(q))
  <2> SUFFICES ASSUME NEW q \in Players
               PROVE  /\ Cardinality(InFlight(q)) \in Nat
                      /\ Cardinality(Flying(key, q)) <= Cardinality(InFlight(q))
    OBVIOUS
  <2> DEFINE A == Flying(key, q)  B == InFlight(q)
  <2>1. B \subseteq Requests
    OBVIOUS
  <2>2. A \subseteq B
    <3>1. ASSUME NEW r \in Requests, Towards(rq[r], key, q) PROVE rq[r] # Points!NoRq /\ rq[r].who = q
      BY <3>1, IdleTowards DEF Towards
    <3>2. QED
      BY <3>1 DEF Flying
  <2> HIDE DEF A, B
  <2>3. IsFiniteSet(B)
    BY <2>1, FS_Subset DEF LeaderConstants
  <2>4. Cardinality(B) \in Nat /\ Cardinality(A) <= Cardinality(B)
    BY <2>2, <2>3, FS_Subset, FS_CardinalityType
  <2>5. QED
    BY <2>4 DEF A, B
<1> HIDE DEF Sum, InFlight, key
<1>6. /\ tool' \in LeaderTool /\ tool'.pc = "counted" /\ tool'.period = p /\ tool'.on = today
      /\ \A q \in Players : tool'.total[q] = Sum(q)
  <2> DEFINE tot == [q \in Players |-> Sum(q)]
  <2>1. tot \in [Players -> Nat] /\ \A q \in Players : tot[q] = Sum(q)
    BY <1>4
  <2>2. tool' = [pc |-> "counted", period |-> p, on |-> today, total |-> tot]
    BY <1>2
  <2> HIDE DEF tot
  <2>3. QED
    BY <1>3, <2>1, <2>2 DEF LeaderTool
<1>7. \A k \in Points!Keys, q \in Players : doubled[k][q] \in Nat
  BY <1>1 DEF LeaderTypes
<1>8. \A k \in Points!Keys, q \in Players :
         doubled'[k][q] = IF k = key THEN doubled[k][q] + Cardinality(InFlight(q)) ELSE doubled[k][q]
  BY <1>2
<1>9. doubled' \in [Points!Keys -> [Players -> Nat]]
  BY <1>2, <1>5, <1>7
<1>10. LeaderTypes'
  BY <1>1, <1>2, <1>6, <1>9 DEF LeaderTypes
<1>11. \A k \in Points!Keys, q \in Players : doubled[k][q] <= doubled'[k][q]
  BY <1>5, <1>7, <1>8
<1>12. RoomKept
  BY <1>1, <1>2, <1>10, <1>11, QuietRoom
<1>13. BoardRoom'
  BY <1>1, <1>2, <1>12, BoardKept
<1>14. ReadRoom' /\ Carriers'
  <2>1. Carriers'
    BY <1>1, <1>2 DEF Carriers, Carried, Points!NoRq
  <2>2. ASSUME NEW o \in Requests PROVE HasRead(rq[o])'
    <3>1. PICK y \in LeaderRow : y = rq[o]
      BY <1>1 DEF LeaderTypes
    <3>2. Carried(y) /\ HasRead(y)
      BY <1>1, <3>1 DEF Carriers, ReadRoom
    <3>3. y.pc = "read" => Room(y.on, y.who, y.cur["daily"])' /\ Room(0, y.who, y.cur["alltime"])'
      BY <1>12, <3>2, ReadKept
    <3>4. HasRead(y)'
      BY <3>3 DEF HasRead
    <3>5. rq'[o] = y
      BY <1>2, <3>1
    <3>6. QED
      BY <3>4, <3>5, ReadSame
  <2>3. QED
    BY <2>1, <2>2 DEF ReadRoom
<1>15. ToolRoom'
  <2>1. PICK kk \in Points!Keys : kk = key
    BY <1>3
  <2>2. ASSUME NEW q \in Players, NEW v \in Nat, v = Sum(q) PROVE Room(kk, q, v)'
    <3>1. Flying(kk, q)' = Flying(kk, q) /\ Earned(kk, q)' = Earned(kk, q)
      BY <1>2 DEF Flying, Earned, Points!Total
    <3> DEFINE c == Cardinality(Flying(kk, q))  i == Cardinality(InFlight(q))  e == Earned(kk, q)
               d == doubled[kk][q]  d2 == doubled'[kk][q]
    <3>2. c \in Nat /\ i \in Nat /\ e \in Nat /\ d \in Nat /\ c <= i /\ d2 = d + i /\ v <= e
      BY <1>1, <1>4, <1>5, <1>7, <1>8, <2>1, <2>2, FlyingFinite, EarnedTyped
    <3>3. (v + c <= e + d2) => Room(kk, q, v)'
      BY <3>1 DEF Room
    <3> HIDE DEF c, i, e, d, d2
    <3>4. v + c <= e + d2
      BY <3>2
    <3>5. QED
      BY <3>3, <3>4
  <2>3. Points!RedisKey(tool'.period, tool'.on) = kk
    BY <1>6, <2>1 DEF key
  <2>4. ASSUME NEW q \in Players PROVE Room(Points!RedisKey(tool.period, tool.on), q, tool.total[q])'
    <3>1. PICK v \in Nat : v = Sum(q)
      BY <1>4
    <3>2. Room(kk, q, v)'
      BY <2>2, <3>1
    <3>3. tool'.total[q] = v
      BY <1>6, <3>1
    <3>4. QED
      BY <2>3, <3>2, <3>3 DEF Room, Flying, Earned
  <2>5. QED
    BY <2>4 DEF ToolRoom, HasCounted
<1>16. ToolKnows'
  BY <1>3, <1>6 DEF ToolKnows
<1>17. ToolCap'
  <2>1. \A q \in Players : Points!DailyCap(q)' = Points!DailyCap(q)
    BY <1>2 DEF Points!DailyCap
  <2>2. QED
    BY <1>4, <1>6, <2>1 DEF ToolCap
<1>18. Points!CapHolds' /\ NoStation'
  BY <1>1, <1>2, <1>4, <1>6 DEF Points!CapHolds, NoStation, Points!DailyCap
<1>19. QED
  BY <1>10, <1>13, <1>14, <1>15, <1>16, <1>17, <1>18 DEF LeaderIInv

LEMMA LeaderStarts ==
    ASSUME LeaderConstants, Points!LeaderInit
    PROVE  LeaderIInv
<1>1. /\ today = 1 /\ scored = [q \in Players |-> [d \in Points!Days |-> 0]]
      /\ board = [k \in Points!Keys |-> [q \in Players |-> 0]]
      /\ rq = [r \in Requests |-> Points!NoRq] /\ tool = Points!NoTool
      /\ doubled = [k \in Points!Keys |-> [q \in Players |-> 0]]
  BY DEF Points!LeaderInit
<1>2. today \in Points!Days
  BY <1>1, LeaderSets DEF LeaderConstants
<1>3. LeaderTypes
  BY <1>1, <1>2, NoRqTyped, NoToolTyped DEF LeaderTypes
<1>4. \A r \in Requests : rq[r] = Points!NoRq /\ rq[r].pc = "idle"
  BY <1>1, NoRqTyped
<1>5. BoardRoom
  <2> SUFFICES ASSUME NEW k \in Points!Keys, NEW q \in Players PROVE Room(k, q, board[k][q])
    BY DEF BoardRoom
  <2>1. Flying(k, q) = {}
    BY <1>4 DEF Flying, Towards
  <2>2. Cardinality(Flying(k, q)) = 0
    BY <2>1, FS_EmptySet
  <2>3. board[k][q] = 0 /\ doubled[k][q] = 0
    BY <1>1
  <2>4. Earned(k, q) \in Nat
    BY <1>3, EarnedTyped
  <2>5. QED
    BY <2>2, <2>3, <2>4 DEF Room
<1>6. Carriers /\ ReadRoom
  BY <1>4 DEF Carriers, Carried, ReadRoom, HasRead
<1>7. ToolKnows /\ ToolRoom /\ ToolCap
  BY <1>1, NoToolTyped DEF ToolKnows, ToolRoom, HasCounted, ToolCap
<1>8. \A k \in Points!Keys, q \in Players : board[k][q] = 0
  BY <1>1
<1>9. Points!CapHolds
  BY <1>8, LeaderSets DEF Points!CapHolds, Points!DailyCap, LeaderConstants
<1>10. NoStation
  BY <1>1, <1>8, NoToolTyped DEF NoStation
<1>11. QED
  BY <1>3, <1>5, <1>6, <1>7, <1>9, <1>10 DEF LeaderIInv

LEMMA LeaderSteps ==
    ASSUME LeaderConstants, LeaderIInv, [Points!LeaderNext]_Points!leaderVars
    PROVE  LeaderIInv'
<1>1. CASE UNCHANGED Points!leaderVars
  BY <1>1 DEF Points!leaderVars, LeaderIInv, LeaderTypes, Carriers, Carried, ToolKnows, BoardRoom, ReadRoom, ToolRoom,
     HasRead, HasCounted, Room, Flying, Earned, Points!Total, Points!CapHolds, ToolCap, NoStation, Points!DailyCap
<1>2. CASE Points!LeaderNext
  BY <1>2, AnswerCorrectlyKeeps, ReadPointsKeeps, RecordPointKeeps, LosePointKeeps, CountKeeps, RebuildKeeps, LoseRedisKeeps,
     NextDayKeeps DEF Points!LeaderNext
<1>3. QED
  BY <1>1, <1>2

LEMMA LeaderMeans ==
    ASSUME LeaderConstants, LeaderIInv
    PROVE  Points!LeaderInv
<1>1. LeaderTypes /\ BoardRoom /\ Points!CapHolds /\ NoStation
  BY DEF LeaderIInv
<1>2. ASSUME NEW k \in Points!Keys, NEW q \in Players PROVE board[k][q] <= Earned(k, q) + doubled[k][q]
  <2> DEFINE b == board[k][q]  c == Cardinality(Flying(k, q))  e == Earned(k, q)  d == doubled[k][q]
  <2>1. b \in Nat /\ c \in Nat /\ e \in Nat /\ d \in Nat
    BY <1>1, FlyingFinite, EarnedTyped DEF LeaderTypes
  <2>2. b + c <= e + d
    BY <1>1 DEF BoardRoom, Room
  <2> HIDE DEF b, c, e, d
  <2>3. b <= e + d
    BY <2>1, <2>2
  <2>4. QED
    BY <2>3 DEF b, e, d
<1>3. Points!PointsEarned
  BY <1>2, LeaderSets DEF Points!PointsEarned, Earned
<1>4. Points!StationsUnranked
  BY <1>1 DEF NoStation, Points!StationsUnranked, Points!GetLeaderboard, Points!Ranked
<1>5. QED
  BY <1>1, <1>3, <1>4 DEF Points!LeaderInv

(* Whatever races between the answers' commits, the reads and writes of    *)
(* RecordPoint (leaderboard/service.go), the rebuildleaderboard command, a *)
(* lost Redis and midnight: no key holds more points than the player's     *)
(* answers and the ones known to be counted twice, no day passes the       *)
(* player's cap, and no station is ranked.                                 *)
THEOREM LeaderThm ==
    ASSUME LeaderConstants
    PROVE  Points!LeaderSpec => []LeaderInv
<1>1. Points!LeaderInit => LeaderIInv
  BY LeaderStarts
<1>2. LeaderIInv /\ [Points!LeaderNext]_Points!leaderVars => LeaderIInv'
  BY LeaderSteps
<1>3. LeaderIInv => LeaderInv
  BY LeaderMeans DEF LeaderInv
<1>4. QED
  BY <1>1, <1>2, <1>3, PTL DEF Points!LeaderSpec
-----------------------------------------------------------------------------
(***************************************************************************)
(* Bilets (Tickets), for any number of bilets of any size, any threshold    *)
(* and any resets at once.                                                  *)
(*                                                                          *)
(* A reset raises the ceiling to what it read before: the chain it carries  *)
(* is the unbroken run of the bilets it saw completed, and those have been  *)
(* completed at some time whatever happened since (Reading).                *)
(***************************************************************************)
BiletConstants == Bilets \in Nat

\* Bilets start from 1, so the first one not completed ends the unbroken run.
Unbroken(D) == IF Chain!Numbers \subseteq D THEN Bilets ELSE Chain!Min(Chain!Numbers \ D)

OpenedBy(c) == \A v \in 2..c : (v - 1) \in everDone
ChainRow == [at : {"idle", "read"}, chain : 0..Bilets, done : SUBSET Chain!Numbers]
Reading(x) == x.at = "read" => x.chain = Unbroken(x.done) /\ x.done \subseteq everDone

BiletTypes ==
    /\ progress \in [Chain!Numbers -> {"none", "tried", "done"}] /\ ceiling \in 0..Bilets
    /\ bypass \in BOOLEAN /\ vip \in BOOLEAN /\ open \subseteq Chain!Numbers
    /\ reset \in [Resets -> ChainRow] /\ everDone \subseteq Chain!Numbers

BiletIInv ==
    /\ BiletTypes /\ Chain!Done \subseteq everDone /\ OpenedBy(ceiling)
    /\ \A r \in Resets : Reading(reset[r])

LEMMA UnbrokenFacts ==
    ASSUME BiletConstants, NEW D, D \subseteq Chain!Numbers
    PROVE  /\ Unbroken(D) \in 0..Bilets
           /\ \A v \in 2..Unbroken(D) : (v - 1) \in D
           /\ ~(Chain!Numbers \subseteq D) => Unbroken(D) \in Chain!Numbers \ D
<1>1. CASE Chain!Numbers \subseteq D
  <2>1. Unbroken(D) = Bilets
    BY <1>1 DEF Unbroken
  <2>2. QED
    BY <1>1, <2>1 DEF BiletConstants, Chain!Numbers
<1>2. CASE ~(Chain!Numbers \subseteq D)
  <2> DEFINE S == Chain!Numbers \ D
             m == Chain!Min(S)
  <2>1. S \subseteq Nat /\ S # {}
    BY <1>2 DEF Chain!Numbers
  <2>2. \E x \in S : \A y \in S : x <= y
    <3> HIDE DEF S
    <3>1. QED
      BY <2>1, NatLeast
  <2>3. m \in S /\ \A y \in S : m <= y
    <3> HIDE DEF S
    <3>1. QED
      BY <2>2, Zenon DEF Chain!Min
  <2>4. Unbroken(D) = m
    BY <1>2 DEF Unbroken
  <2> HIDE DEF m
  <2>5. ASSUME NEW v \in 2..m PROVE (v - 1) \in D
    <3>1. m \in 1..Bilets
      BY <2>3 DEF Chain!Numbers
    <3>2. (v - 1) \in Chain!Numbers /\ ~(m <= v - 1)
      BY <3>1 DEF Chain!Numbers, BiletConstants
    <3>3. QED
      BY <2>3, <3>2
  <2>6. m \in 0..Bilets
    BY <2>3 DEF Chain!Numbers, BiletConstants
  <2>7. QED
    BY <2>3, <2>4, <2>5, <2>6
<1>3. QED
  BY <1>1, <1>2

\* A bilet is finished; completed ones stay on record.
LEMMA FinishKeeps ==
    ASSUME BiletConstants, BiletIInv, NEW v \in Chain!Numbers, Chain!FinishSession(v)
    PROVE  BiletIInv'
<1>1. PICK completes \in BOOLEAN :
         /\ progress' = [progress EXCEPT ![v] = IF completes \/ @ = "done" THEN "done" ELSE "tried"]
         /\ everDone' = IF completes THEN everDone \cup {v} ELSE everDone
  BY DEF Chain!FinishSession, Chain!UpsertVariantProgress
<1>2. UNCHANGED <<ceiling, bypass, vip, reset>> /\ open' = open \ {v}
  BY DEF Chain!FinishSession
<1>3. everDone \subseteq everDone' /\ everDone' \subseteq Chain!Numbers
  BY <1>1 DEF BiletIInv, BiletTypes
<1>4. progress' \in [Chain!Numbers -> {"none", "tried", "done"}]
  BY <1>1 DEF BiletIInv, BiletTypes
<1>5. Chain!Done' \subseteq everDone'
  <2> SUFFICES ASSUME NEW x \in Chain!Numbers, progress'[x] = "done" PROVE x \in everDone'
    BY DEF Chain!Done, Chain!Numbers
  <2>1. CASE x = v
    BY <1>1, <1>3, <2>1 DEF BiletIInv, BiletTypes, Chain!Done
  <2>2. CASE x # v
    BY <1>1, <1>3, <2>2 DEF BiletIInv, BiletTypes, Chain!Done
  <2>3. QED
    BY <2>1, <2>2
<1>6. OpenedBy(ceiling)'
  BY <1>2, <1>3 DEF BiletIInv, OpenedBy
<1>7. \A r \in Resets : Reading(reset[r])'
  BY <1>2, <1>3 DEF BiletIInv, Reading, Unbroken
<1>8. QED
  BY <1>2, <1>3, <1>4, <1>5, <1>6, <1>7 DEF BiletIInv, BiletTypes, Chain!Numbers

\* A reset reads the chain, and commits or rolls back what it read.
LEMMA ResetKeeps ==
    ASSUME BiletConstants, BiletIInv, NEW r \in Resets,
           Chain!ResetRead(r) \/ Chain!ResetCommit(r) \/ Chain!ResetRollback(r)
    PROVE  BiletIInv'
<1>1. UNCHANGED <<bypass, vip, open, everDone>>
  BY DEF Chain!ResetRead, Chain!ResetCommit, Chain!ResetRollback
<1>2. Chain!Done \subseteq Chain!Numbers
  BY DEF Chain!Done
<1>3. CASE Chain!ResetRead(r)
  <2> DEFINE n == [at |-> "read", chain |-> Chain!Chain, done |-> Chain!Done]
  <2>1. Chain!Chain = Unbroken(Chain!Done)
    BY DEF Chain!Chain, Unbroken
  <2>2. n \in ChainRow /\ Reading(n)
    BY <1>2, <2>1, UnbrokenFacts DEF ChainRow, Reading, BiletIInv
  <2>3. reset' = [reset EXCEPT ![r] = n] /\ UNCHANGED <<progress, ceiling>>
    BY <1>3 DEF Chain!ResetRead
  <2> HIDE DEF n
  <2>4. reset' \in [Resets -> ChainRow] /\ \A q \in Resets : Reading(reset'[q])
    BY <2>2, <2>3 DEF BiletIInv, BiletTypes
  <2>5. QED
    BY <1>1, <2>3, <2>4 DEF BiletIInv, BiletTypes, Chain!Done, OpenedBy, Reading, Unbroken
<1>4. CASE Chain!ResetCommit(r) \/ Chain!ResetRollback(r)
  <2> DEFINE n == [at |-> "idle", chain |-> 0, done |-> {}]
  <2>1. n \in ChainRow /\ Reading(n)
    BY DEF ChainRow, Reading, BiletConstants
  <2>2. reset' = [reset EXCEPT ![r] = n]
    BY <1>4 DEF Chain!ResetCommit, Chain!ResetRollback
  <2> HIDE DEF n
  <2>3. reset' \in [Resets -> ChainRow] /\ \A q \in Resets : Reading(reset'[q])
    BY <2>1, <2>2 DEF BiletIInv, BiletTypes
  <2>4. CASE Chain!ResetRollback(r)
    <3>1. UNCHANGED <<progress, ceiling>>
      BY <2>4 DEF Chain!ResetRollback
    <3>2. QED
      BY <1>1, <2>3, <3>1 DEF BiletIInv, BiletTypes, Chain!Done, OpenedBy, Reading, Unbroken
  <2>5. CASE Chain!ResetCommit(r)
    <3>1. /\ ceiling' = Chain!Max({ceiling, reset[r].chain})
          /\ progress' = [v \in Chain!Numbers |-> "none"] /\ reset[r].at = "read"
      BY <2>5 DEF Chain!ResetCommit, Chain!RaiseVariantUnlockCeiling, Chain!DeleteVariantProgressForProfile
    <3>2. reset[r] \in ChainRow /\ reset[r].chain \in 0..Bilets /\ ceiling \in 0..Bilets
      BY DEF BiletIInv, BiletTypes, ChainRow
    <3>3. ceiling' \in {ceiling, reset[r].chain}
      <4>1. \E x \in {ceiling, reset[r].chain} : \A y \in {ceiling, reset[r].chain} : x >= y
        BY <3>2
      <4>2. QED
        BY <3>1, <4>1, Zenon DEF Chain!Max
    <3>4. OpenedBy(reset[r].chain)
      BY <3>1, UnbrokenFacts DEF BiletIInv, BiletTypes, ChainRow, Reading, OpenedBy
    <3>5. OpenedBy(ceiling')
      BY <3>3, <3>4 DEF BiletIInv
    <3>6. Chain!Done' = {} /\ progress' \in [Chain!Numbers -> {"none", "tried", "done"}]
      BY <3>1 DEF Chain!Done
    <3>7. QED
      BY <1>1, <2>3, <3>2, <3>3, <3>5, <3>6 DEF BiletIInv, BiletTypes, OpenedBy, Reading, Unbroken
  <2>6. QED
    BY <1>4, <2>4, <2>5
<1>5. QED
  BY <1>3, <1>4

LEMMA BiletKeeps ==
    ASSUME BiletConstants, BiletIInv, [Chain!Next]_Chain!vars
    PROVE  BiletIInv'
<1>1. ASSUME NEW v \in Chain!Numbers, Chain!StartSession(v) PROVE BiletIInv'
  BY <1>1 DEF Chain!StartSession, BiletIInv, BiletTypes, Chain!Done, OpenedBy, Reading, Unbroken, Chain!Numbers
<1>2. CASE Chain!ToggleVIP \/ Chain!SetLearnerBypassVariantProgress
  BY <1>2 DEF Chain!ToggleVIP, Chain!SetLearnerBypassVariantProgress, BiletIInv, BiletTypes, Chain!Done,
     OpenedBy, Reading, Unbroken, Chain!Numbers
<1>3. CASE UNCHANGED Chain!vars
  BY <1>3 DEF Chain!vars, BiletIInv, BiletTypes, Chain!Done, OpenedBy, Reading, Unbroken, Chain!Numbers
<1>4. QED
  BY <1>1, <1>2, <1>3, FinishKeeps, ResetKeeps DEF Chain!Next

\* The commit of a first reset replaces the completed bilets by a ceiling that
\* opens exactly what they opened.
LEMMA FirstReset ==
    ASSUME BiletConstants, BiletIInv, Chain!Next, NEW r \in Resets, Chain!Committed(r), ceiling = 0,
           reset[r].done = Chain!Done, Chain!Done = 1..Chain!Cardinality(Chain!Done)
    PROVE  Chain!OpenBilets' = Chain!OpenBilets
<1>1. Chain!ResetCommit(r)
  <2>1. reset[r].at = "read" /\ reset'[r].at = "idle" /\ progress' # progress
    BY DEF Chain!Committed
  <2>2. reset' # reset
    BY <2>1
  <2>3. PICK s \in Resets : Chain!ResetCommit(s)
    BY <2>1, <2>2 DEF Chain!Next, Chain!StartSession, Chain!FinishSession, Chain!ResetRead,
       Chain!ResetRollback, Chain!ToggleVIP, Chain!SetLearnerBypassVariantProgress
  <2>4. s = r
    BY <2>1, <2>3 DEF Chain!ResetCommit, BiletIInv, BiletTypes
  <2>5. QED
    BY <2>3, <2>4
<1> DEFINE c == reset[r].chain
<1>2. /\ ceiling' = Chain!Max({0, c}) /\ progress' = [v \in Chain!Numbers |-> "none"]
      /\ c \in 0..Bilets /\ c = Unbroken(Chain!Done)
  BY <1>1 DEF Chain!ResetCommit, Chain!RaiseVariantUnlockCeiling, Chain!DeleteVariantProgressForProfile,
     BiletIInv, BiletTypes, ChainRow, Reading
<1> HIDE DEF c
<1>3. ceiling' = c
  <2>1. \E x \in {0, c} : \A y \in {0, c} : x >= y
    BY <1>2
  <2>2. ceiling' \in {0, c} /\ \A y \in {0, c} : ceiling' >= y
    BY <1>2, <2>1, Zenon DEF Chain!Max
  <2>3. QED
    BY <1>2, <2>2
<1>4. Chain!Done' = {}
  BY <1>2 DEF Chain!Done
<1>5. PICK n \in Nat : Chain!Done = 1..n
  <2>1. Chain!Done \subseteq 1..Bilets
    BY DEF Chain!Done, Chain!Numbers
  <2>2. IsFiniteSet(1..Bilets)
    BY FS_Interval DEF BiletConstants
  <2>3. Cardinality(Chain!Done) \in Nat
    BY <2>1, <2>2, FS_Subset, FS_CardinalityType
  <2>4. Chain!Cardinality(Chain!Done) = Cardinality(Chain!Done)
    BY DEF Chain!Cardinality, Cardinality
  <2>5. QED
    BY <2>3, <2>4
<1>6. Chain!Done \subseteq Chain!Numbers
  BY DEF Chain!Done
<1>7. ASSUME NEW v \in Chain!Numbers PROVE Chain!GateOpen(v)' <=> Chain!GateOpen(v)
  <2>1. Chain!GateOpen(v) <=> v = 1 \/ (v - 1) \in 1..n
    BY <1>5, <1>7 DEF Chain!GateOpen, Chain!Numbers
  <2>2. Chain!GateOpen(v)' <=> v = 1 \/ v <= c
    BY <1>3, <1>4 DEF Chain!GateOpen
  <2>3. v \in 1..Bilets /\ Bilets \in Nat
    BY DEF Chain!Numbers, BiletConstants
  <2>4. \A x \in 2..c : (x - 1) \in 1..n
    BY <1>2, <1>5, <1>6, UnbrokenFacts
  <2>5. CASE Chain!Numbers \subseteq Chain!Done
    <3>1. c = Bilets
      BY <1>2, <2>5 DEF Unbroken
    <3>2. Bilets \in 1..n
      BY <1>5, <2>3, <2>5 DEF Chain!Numbers
    <3>3. QED
      BY <2>1, <2>2, <2>3, <3>1, <3>2
  <2>6. CASE ~(Chain!Numbers \subseteq Chain!Done)
    <3>1. c \in 1..Bilets /\ c \notin 1..n
      BY <1>2, <1>5, <1>6, <2>6, UnbrokenFacts DEF Chain!Numbers
    <3>2. QED
      BY <2>1, <2>2, <2>3, <2>4, <3>1
  <2>7. QED
    BY <2>5, <2>6
<1>8. QED
  BY <1>7 DEF Chain!OpenBilets, Chain!Numbers

\* The ceiling a reset leaves behind opens only bilets whose predecessor was
\* completed at some time, and a learner's first reset leaves the open bilets
\* as they were (ResetVariantProgress), whatever finishes and resets overlap.
THEOREM BiletsThm ==
    ASSUME BiletConstants
    PROVE  Chain!Spec => BiletsSafe
<1>1. Chain!Init => BiletIInv
  <2> SUFFICES ASSUME Chain!Init PROVE BiletIInv
    OBVIOUS
  <2> DEFINE n == [at |-> "idle", chain |-> 0, done |-> {}]
  <2>1. n \in ChainRow /\ Reading(n)
    BY DEF ChainRow, Reading, BiletConstants
  <2>2. reset = [r \in Resets |-> n]
    BY DEF Chain!Init
  <2> HIDE DEF n
  <2>3. reset \in [Resets -> ChainRow] /\ \A r \in Resets : Reading(reset[r])
    BY <2>1, <2>2
  <2>4. /\ progress = [v \in Chain!Numbers |-> "none"] /\ ceiling = 0 /\ bypass = FALSE /\ vip = FALSE
        /\ open = {} /\ everDone = {}
    BY DEF Chain!Init
  <2>5. BiletTypes
    <3>1. progress \in [Chain!Numbers -> {"none", "tried", "done"}] /\ ceiling \in 0..Bilets
      BY <2>4 DEF BiletConstants
    <3>2. bypass \in BOOLEAN /\ vip \in BOOLEAN /\ open \subseteq Chain!Numbers /\ everDone \subseteq Chain!Numbers
      BY <2>4, Zenon
    <3>3. QED
      BY <2>3, <3>1, <3>2 DEF BiletTypes
  <2>6. Chain!Done = {} /\ OpenedBy(ceiling)
    BY <2>4 DEF Chain!Done, OpenedBy
  <2>7. QED
    BY <2>3, <2>5, <2>6 DEF BiletIInv
<1>2. BiletIInv /\ [Chain!Next]_Chain!vars => BiletIInv'
  BY BiletKeeps
<1>3. BiletIInv => Chain!CeilingEarned
  BY DEF BiletIInv, BiletTypes, ChainRow, OpenedBy, Chain!CeilingEarned, Chain!TypeOK
<1>4. BiletIInv /\ [Chain!Next]_Chain!vars
         => [\A r \in Resets : Chain!Committed(r) /\ ceiling = 0 /\ reset[r].done = Chain!Done
                /\ Chain!Done = 1..Chain!Cardinality(Chain!Done)
                => Chain!OpenBilets' = Chain!OpenBilets]_Chain!vars
  BY FirstReset
<1>5. QED
  BY <1>1, <1>2, <1>3, <1>4, PTL DEF Chain!Spec, BiletsSafe, Chain!FirstResetKeepsOpen
=============================================================================
