----------------------------- MODULE GroupQuiz -----------------------------
(***************************************************************************)
(* The quiz the bot runs in one chat (bot/quiz.go, quizconfig.go,          *)
(* quizscore.go): /quiz, /next and /stop handled side by side, a timer     *)
(* that asks the next question by itself, and the votes that come back.    *)
(*                                                                         *)
(* A handler works on the session row it has read.  The table's unique     *)
(* index allows one active session per chat, so only the newest one is     *)
(* kept; statements about an older one match nothing.  last_activity_at is *)
(* an age: within the three-second throttle, quiet, or past the idle TTL.  *)
(***************************************************************************)
EXTENDS Integers, FiniteSets

CONSTANTS
    Handlers,     \* update handlers that run at the same time
    Total,        \* total_questions
    MaxTaps,      \* bound on commands
    MaxTrouble    \* bound on failed sends, restarts, the switch, idle chats

VARIABLES
    sess,       \* the newest telegram_quiz_session
    h,          \* the handlers: what they do, and the row they have read
    timer,      \* an advance is scheduled; a superseded timer finds a newer
                \* generation and returns, so only the current one is kept
    shown,      \* question numbers of the polls Telegram has confirmed; one whose
                \* answer was lost has no row, and votes on it are nobody's
    rows,       \* those with a telegram_quiz_poll row
    voted,      \* the poll one member has voted on, 0 for none
    answered,   \* answered_count of that member
    twice,      \* a poll was posted with the number of a confirmed one
    flag,       \* telegram_quiz
    taps, trouble

quizVars == <<sess, h, timer, shown, rows, voted, answered, twice, flag, taps, trouble>>

NoSession == [id |-> 0, active |-> FALSE, no |-> 0, asked |-> 0, age |-> "quiet"]
Free == [pc |-> "free", kind |-> "none", snap |-> 0, no |-> 0]

QuizInit ==
    /\ sess = NoSession
    /\ h = [x \in Handlers |-> Free]
    /\ timer = FALSE
    /\ shown = {} /\ rows = {}
    /\ voted = 0 /\ answered = 0
    /\ twice = FALSE
    /\ flag = TRUE
    /\ taps = 0 /\ trouble = 0

Trouble == trouble < MaxTrouble /\ trouble' = trouble + 1
Goto(x, pc) == h' = [h EXCEPT ![x].pc = pc]
Return(x) == h' = [h EXCEPT ![x] = Free]

\* The row a handler has read is still the newest one.
Its(x) == sess.id = h[x].snap

----------------------------------------------------------------------------
(* Statements                                                              *)

GetActiveQuizSessionByChat == sess.active

CreateQuizSession ==
    sess' = [id |-> sess.id + 1, active |-> TRUE, no |-> 0, asked |-> 0, age |-> "fresh"]
DeactivateQuizSession(x) ==
    IF Its(x) /\ sess.active THEN [sess EXCEPT !.active = FALSE, !.age = "fresh"] ELSE sess
AdvanceQuizSessionQuestion == [sess EXCEPT !.no = @ + 1, !.age = "fresh"]
\* Mutant: the number is given back whether or not another was reserved since.
RetreatAnyway(x) == IF Its(x) THEN [sess EXCEPT !.no = @ - 1] ELSE sess
RetreatQuizSessionQuestion(x) ==
    IF Its(x) /\ sess.no = h[x].no THEN [sess EXCEPT !.no = @ - 1] ELSE sess
SetQuizSessionQuestion(x) ==
    IF Its(x) /\ sess.active THEN [sess EXCEPT !.asked = @ + 1, !.age = "fresh"] ELSE sess

----------------------------------------------------------------------------
(* Commands                                                                *)

Tap(x, kind) ==
    /\ h[x].pc = "free"
    /\ taps < MaxTaps /\ taps' = taps + 1
    /\ flag \/ kind = "stop"
    /\ h' = [h EXCEPT ![x] = [Free EXCEPT !.pc = "read", !.kind = kind]]
    /\ UNCHANGED <<sess, timer, shown, rows, voted, answered, twice, flag, trouble>>

\* continueSession: the game is over, the throttle holds, or the next question.
continueSession(row) ==
    CASE row.no >= Total -> "finish"
      [] row.no < Total /\ row.asked > 0 /\ row.age = "fresh" -> "wait"
      [] OTHER -> "advance"

\* StartGame: a game that ran out of questions without ending is replaced; a
\* fresh one gets its mode and the introduction.
StartGame(row) == IF row.no /= 0 /\ row.no >= Total THEN "expire" ELSE continueSession(row)

\* What the command makes of the row it has read.
Decide(kind, row) ==
    CASE kind = "quiz" -> StartGame(row)
      [] kind = "stop" -> "finish"
      [] OTHER -> continueSession(row)

\* ensureActiveSession's read; for the timer ContinueScheduledGame's, which
\* creates nothing, and for /stop Stop's.
ensureActiveSession(x) ==
    /\ h[x].pc = "read"
    /\ CASE GetActiveQuizSessionByChat /\ (sess.age /= "idle" \/ h[x].kind \in {"timer", "stop"}) ->
              h' = [h EXCEPT ![x] = [@ EXCEPT !.snap = sess.id, !.pc = Decide(h[x].kind, sess)]]
         [] GetActiveQuizSessionByChat /\ sess.age = "idle" /\ h[x].kind \in {"quiz", "next"} ->
              h' = [h EXCEPT ![x] = [@ EXCEPT !.snap = sess.id, !.pc = "expire"]]
         [] ~GetActiveQuizSessionByChat /\ h[x].kind \in {"quiz", "next"} -> Goto(x, "create")
         [] OTHER -> Return(x)
    /\ UNCHANGED <<sess, timer, shown, rows, voted, answered, twice, flag, taps, trouble>>

Expire(x) ==
    /\ h[x].pc = "expire"
    /\ sess' = DeactivateQuizSession(x)
    /\ Goto(x, "create")
    /\ UNCHANGED <<timer, shown, rows, voted, answered, twice, flag, taps, trouble>>

\* The insert fails on the unique index when another handler was faster.
Create(x) ==
    /\ h[x].pc = "create"
    /\ IF sess.active
       THEN Return(x) /\ UNCHANGED <<sess, shown, rows, voted, answered>>
       ELSE /\ CreateQuizSession
            /\ h' = [h EXCEPT ![x] = [@ EXCEPT !.snap = sess.id + 1, !.pc = "advance"]]
            /\ shown' = {} /\ rows' = {} /\ voted' = 0 /\ answered' = 0
    /\ UNCHANGED <<timer, twice, flag, taps, trouble>>

\* After the throttle the session is read again; only that it is active is
\* asked, not whether its questions have run out.
Throttled(x) ==
    /\ h[x].pc = "wait"
    /\ IF GetActiveQuizSessionByChat
       THEN h' = [h EXCEPT ![x] = [@ EXCEPT !.snap = sess.id, !.pc = "advance"]]
       ELSE Return(x)
    /\ UNCHANGED <<sess, timer, shown, rows, voted, answered, twice, flag, taps, trouble>>

\* finishGame: the ranking is read, the session closed, the result posted.
finishGame(x) ==
    /\ h[x].pc = "finish"
    /\ sess' = DeactivateQuizSession(x)
    /\ Return(x)
    /\ UNCHANGED <<timer, shown, rows, voted, answered, twice, flag, taps, trouble>>

----------------------------------------------------------------------------
(* sendNextQuestion                                                        *)

\* The number is reserved; a session closed meanwhile ends the handler.
sendNextQuestion(x) ==
    /\ h[x].pc = "advance"
    /\ IF Its(x) /\ sess.active
       THEN /\ sess' = AdvanceQuizSessionQuestion
            /\ h' = [h EXCEPT ![x] = [@ EXCEPT !.pc = "send", !.no = sess.no + 1]]
       ELSE Return(x) /\ UNCHANGED sess
    /\ UNCHANGED <<timer, shown, rows, voted, answered, twice, flag, taps, trouble>>

SendPoll(x) ==
    /\ h[x].pc = "send"
    /\ IF Its(x)
       THEN shown' = shown \cup {h[x].no} /\ twice' = (twice \/ h[x].no \in shown)
       ELSE UNCHANGED <<shown, twice>>
    /\ Goto(x, "row")
    /\ UNCHANGED <<sess, timer, rows, voted, answered, flag, taps, trouble>>

\* A call fails: the introduction or the choice of a question, before a number
\* is reserved; the poll, whose number is handed back although it may have been
\* posted and only the answer lost; a question that does not fit a poll, which
\* spends its number; or a statement after that.
SendFails(x) ==
    /\ h[x].pc \in {"advance", "send", "retreat", "row", "schedule"}
    /\ Trouble
    /\ \/ Return(x) /\ UNCHANGED twice
       \/ /\ h[x].pc = "send" /\ Goto(x, "retreat")
          /\ \E posted \in BOOLEAN : twice' = (twice \/ (posted /\ Its(x) /\ h[x].no \in shown))
    /\ UNCHANGED <<sess, timer, shown, rows, voted, answered, flag, taps>>

Retreat(x) ==
    /\ h[x].pc = "retreat"
    /\ sess' = RetreatQuizSessionQuestion(x)
    /\ Return(x)
    /\ UNCHANGED <<timer, shown, rows, voted, answered, twice, flag, taps, trouble>>

CreateQuizPoll(x) ==
    /\ h[x].pc = "row"
    /\ rows' = IF Its(x) THEN rows \cup {h[x].no} ELSE rows
    /\ Goto(x, "schedule")
    /\ UNCHANGED <<sess, timer, shown, voted, answered, twice, flag, taps, trouble>>

\* SetQuizSessionQuestion, then scheduleAdvance: the new timer supersedes the
\* one still waiting.
scheduleAdvance(x) ==
    /\ h[x].pc = "schedule"
    /\ sess' = SetQuizSessionQuestion(x)
    /\ timer' = TRUE
    /\ Return(x)
    /\ UNCHANGED <<shown, rows, voted, answered, twice, flag, taps, trouble>>

----------------------------------------------------------------------------
(* Timers and votes                                                        *)

\* ContinueScheduledGame: with the switch off a timer says nothing.
ContinueScheduledGame(x) ==
    IF flag THEN h' = [h EXCEPT ![x] = [Free EXCEPT !.pc = "read", !.kind = "timer"]] ELSE UNCHANGED h

\* NewAdvanceScheduler: the current generation's timer elapses.
Fire(x) ==
    /\ h[x].pc = "free"
    /\ timer /\ timer' = FALSE
    /\ ContinueScheduledGame(x)
    /\ UNCHANGED <<sess, shown, rows, voted, answered, twice, flag, taps, trouble>>

UpsertQuizParticipant == answered' = answered + 1

\* HandlePollAnswer: a vote on a poll without its row is not our business.
HandlePollAnswer(n) ==
    /\ n \in shown /\ voted = 0
    /\ voted' = n
    /\ IF n \in rows THEN UpsertQuizParticipant ELSE UNCHANGED answered
    /\ UNCHANGED <<sess, h, timer, shown, rows, twice, flag, taps, trouble>>

\* The webhook's answer is lost and Telegram delivers the vote again.
Redelivered(n) ==
    /\ n = voted /\ n \in rows
    /\ Trouble
    /\ UpsertQuizParticipant
    /\ UNCHANGED <<sess, h, timer, shown, rows, voted, twice, flag, taps>>

\* Three seconds, or half an hour, pass.
TimePasses ==
    /\ \/ sess.age = "fresh" /\ sess' = [sess EXCEPT !.age = "quiet"] /\ UNCHANGED trouble
       \/ sess.age = "quiet" /\ sess.active /\ Trouble /\ sess' = [sess EXCEPT !.age = "idle"]
    /\ UNCHANGED <<h, timer, shown, rows, voted, answered, twice, flag, taps>>

\* A deployment: the timers and the handlers are gone.
Restart ==
    /\ Trouble
    /\ h' = [x \in Handlers |-> Free]
    /\ timer' = FALSE
    /\ UNCHANGED <<sess, shown, rows, voted, answered, twice, flag, taps>>

Switch ==
    /\ Trouble
    /\ flag' = ~flag
    /\ UNCHANGED <<sess, h, timer, shown, rows, voted, answered, twice, taps>>

----------------------------------------------------------------------------

Handle(x) ==
    \/ ensureActiveSession(x) \/ Expire(x) \/ Create(x) 
    \/ Throttled(x) \/ finishGame(x) \/ sendNextQuestion(x) \/ SendPoll(x) \/ Retreat(x)
    \/ CreateQuizPoll(x) \/ scheduleAdvance(x)

QuizNext ==
    \/ \E x \in Handlers :
          (\E k \in {"quiz", "next", "stop"} : Tap(x, k)) \/ Handle(x) \/ SendFails(x) \/ Fire(x)
    \/ \E n \in 1 .. Total + Cardinality(Handlers) : HandlePollAnswer(n) \/ Redelivered(n)
    \/ TimePasses
    \/ Restart \/ Switch

QuizSpec == QuizInit /\ [][QuizNext]_quizVars

\* A handler that has started finishes, and timers fire.
QuizFairness ==
    /\ \A x \in Handlers : WF_quizVars(Handle(x))
    /\ WF_quizVars(\E x \in Handlers : Fire(x))

QuizFairSpec == QuizSpec /\ QuizFairness

----------------------------------------------------------------------------

QuizTypeOK ==
    /\ sess.age \in {"fresh", "quiet", "idle"}
    /\ \A x \in Handlers : h[x].kind \in {"none", "quiz", "next", "stop", "timer"}
    /\ shown \subseteq 1 .. Total + Cardinality(Handlers)

\* However commands, timers and failed sends interleave: once Telegram has
\* confirmed the poll with a number, no other poll of the game is posted with
\* it (of two polls with one number the first one's answer was lost), a game
\* runs past its last question by at most one number for every other handler
\* at work, and a member's count of answers is never more than the votes cast,
\* unless an update was delivered again.
QuizInv ==
    /\ QuizTypeOK
    /\ ~twice
    /\ sess.no <= Total + Cardinality(Handlers) - 1
    /\ rows \subseteq shown
    /\ answered <= (IF voted = 0 THEN 0 ELSE 1) + trouble

\* The game comes to its end without anybody's help: a chat with an active game
\* has a handler at work or a timer set, until it ends, unless a send failed,
\* the process restarted or the switch was turned.
GameEnds == []<>(~sess.active \/ trouble > 0)
=============================================================================
