--------------------------- MODULE DailyReminder ---------------------------
(***************************************************************************)
(* One evening of the bot's daily reminder (bot/daily_reminder.go): every  *)
(* api process wakes each minute, tries for the pass's advisory lock,      *)
(* settles the question of the day and sends each claimed user two         *)
(* messages.  Users meanwhile opt out and in, block and unblock the bot    *)
(* (bot/audience.go).                                                      *)
(*                                                                         *)
(* The lock lives in one database session: it is lost with that connection *)
(* while the pass goes on with the others of the pool.                     *)
(***************************************************************************)
EXTENDS Integers, FiniteSets

CONSTANTS
    Procs,        \* the api processes
    Users,        \* bot users, a set of integers (the claim order)
    Breaker,      \* breakerUncertain
    Retries,      \* maxTransientRetries
    MaxTrouble,   \* bound on crashes, lost connections and failed sends
    MaxMoves      \* bound on what users and editors do

Questions == {1, 2}
Nobody == 0

VARIABLES
    users,     \* telegram_bot_user rows, and whether Telegram really blocks
    got,       \* copies of the first message that reached the user: told, and
               \* lost, those of which the answer broke off
    asked,     \* the question of the bundle the user got, 0 for none
    daily,     \* telegram_daily_question of today, 0 for none
    usable,    \* the questions that fit a poll
    open,      \* the clock is inside 19:00-21:00
    flag,      \* telegram_daily_reminder
    lock,      \* the process whose session holds the advisory lock
    pass,      \* the pass of each process, and its doneDay
    trouble, moves

reminderVars == <<users, got, asked, daily, usable, open, flag, lock, pass, trouble, moves>>

NoPass == [pc |-> "idle", to |-> Nobody, pick |-> 0, unc |-> 0, tries |-> 0, line |-> FALSE, done |-> FALSE]

ReminderInit ==
    /\ users = [x \in Users |-> [on |-> TRUE, blocked |-> FALSE, gone |-> FALSE, claimed |-> FALSE,
                                 pitched |-> FALSE, moved |-> FALSE]]
    /\ got = [x \in Users |-> [told |-> 0, lost |-> 0]]
    /\ asked = [x \in Users |-> 0]
    /\ daily = 0
    /\ usable = Questions
    /\ open = TRUE
    /\ flag = TRUE
    /\ lock = Nobody
    /\ pass = [r \in Procs |-> NoPass]
    /\ trouble = 0 /\ moves = 0

Trouble == trouble < MaxTrouble /\ trouble' = trouble + 1
Move == moves < MaxMoves /\ moves' = moves + 1

Goto(r, pc) == pass' = [pass EXCEPT ![r].pc = pc]
\* The pass ends, marked done or not; pg_advisory_unlock by the defer.
EndPass(r, done) ==
    /\ pass' = [pass EXCEPT ![r] = [NoPass EXCEPT !.done = done]]
    /\ lock' = IF lock = r THEN Nobody ELSE lock

----------------------------------------------------------------------------
(* The audience                                                            *)

Eligible(x) == users[x].on /\ ~users[x].blocked
Pending == {x \in Users : Eligible(x) /\ ~users[x].claimed}

ToggleTelegramReminders(x) == [users EXCEPT ![x] = [@ EXCEPT !.on = ~users[x].on, !.moved = TRUE]]
DisableTelegramReminders(x) == [users EXCEPT ![x] = [@ EXCEPT !.on = FALSE, !.moved = TRUE]]
MarkTelegramBotUserBlocked(x) == [users EXCEPT ![x].blocked = TRUE]
\* Any private update proves the chat open again.
UpsertTelegramBotUser(x) ==
    [users EXCEPT ![x] = [@ EXCEPT !.blocked = FALSE, !.gone = FALSE, !.moved = TRUE]]

UserDoes(rows) ==
    /\ Move
    /\ users' = rows
    /\ UNCHANGED <<got, asked, daily, usable, open, flag, lock, pass, trouble>>

handleEslatma(x) == ~users[x].gone /\ UserDoes(ToggleTelegramReminders(x))
handleReminderOff(x) == got[x].told + got[x].lost > 0 /\ ~users[x].gone /\ UserDoes(DisableTelegramReminders(x))

\* Telegram stops delivering at once; the update that says so follows.
Blocks(x) == ~users[x].gone /\ UserDoes([users EXCEPT ![x] = [@ EXCEPT !.gone = TRUE, !.moved = TRUE]])
trackPrivateUser(x) ==
    /\ users[x].gone
    /\ users' = UpsertTelegramBotUser(x)
    /\ UNCHANGED <<got, asked, daily, usable, open, flag, lock, pass, trouble, moves>>
trackPrivateMembership(x) ==
    /\ users[x].gone /\ ~users[x].blocked
    /\ users' = MarkTelegramBotUserBlocked(x)
    /\ UNCHANGED <<got, asked, daily, usable, open, flag, lock, pass, trouble, moves>>

\* An editor spoils a question, an operator turns the switch.
Unfit(q) ==
    /\ Move
    /\ q \in usable /\ usable' = usable \ {q}
    /\ UNCHANGED <<users, got, asked, daily, open, flag, lock, pass, trouble>>

Switch ==
    /\ Move
    /\ flag' = ~flag
    /\ UNCHANGED <<users, got, asked, daily, usable, open, lock, pass, trouble>>

\* 21:00.
inSendWindow ==
    /\ open /\ open' = FALSE
    /\ UNCHANGED <<users, got, asked, daily, usable, flag, lock, pass, trouble, moves>>

----------------------------------------------------------------------------
(* Tick and runPass up to the question                                     *)

Tick(r) ==
    /\ pass[r].pc = "idle"
    /\ open /\ ~pass[r].done /\ flag
    /\ lock = Nobody
    /\ lock' = r
    /\ Goto(r, "count")
    /\ UNCHANGED <<users, got, asked, daily, usable, open, flag, trouble, moves>>

\* CountTelegramReminderAudience and GetDailyQuestion.
dailyQuestion(r) ==
    /\ pass[r].pc = "count"
    /\ CASE Pending = {} -> EndPass(r, TRUE)
         [] Pending /= {} /\ daily \in usable ->
               pass' = [pass EXCEPT ![r] = [@ EXCEPT !.pc = "loop", !.pick = daily]] /\ UNCHANGED lock
         [] OTHER -> pass' = [pass EXCEPT ![r] = [@ EXCEPT !.pc = "record", !.pick = daily]] /\ UNCHANGED lock
    /\ UNCHANGED <<users, got, asked, daily, usable, open, flag, trouble, moves>>

\* previewQuestion: the first candidate that builds; a database error on one
\* skips it, so two replicas may prefer different ones.
previewQuestion == usable

InsertDailyQuestion(q) == IF daily = 0 THEN q ELSE daily
ReplaceDailyQuestion(old, q) == IF daily = old THEN q ELSE daily

recordDailyQuestion(r) ==
    /\ pass[r].pc = "record"
    /\ IF previewQuestion = {}
       THEN EndPass(r, TRUE) /\ UNCHANGED daily
       ELSE \E q \in previewQuestion :
               /\ daily' = IF pass[r].pick = 0 THEN InsertDailyQuestion(q)
                           ELSE ReplaceDailyQuestion(pass[r].pick, q)
               /\ pass' = [pass EXCEPT ![r] = [@ EXCEPT !.pc = "winner", !.pick = q]]
               /\ UNCHANGED lock
    /\ UNCHANGED <<users, got, asked, usable, open, flag, trouble, moves>>

\* Mutant: a replica sends what it picked, whoever recorded first.
OwnPick(r) == pass[r].pick
\* The row is read again: it may hold another replica's pick.
Winner(r) == daily

UseTheWinner(r) ==
    /\ pass[r].pc = "winner"
    /\ IF Winner(r) = pass[r].pick \/ Winner(r) \in usable
       THEN pass' = [pass EXCEPT ![r] = [@ EXCEPT !.pc = "loop", !.pick = Winner(r)]] /\ UNCHANGED lock
       ELSE EndPass(r, FALSE)
    /\ UNCHANGED <<users, got, asked, daily, usable, open, flag, trouble, moves>>

----------------------------------------------------------------------------
(* The loop                                                                *)

\* The window, or the switch at one of its rechecks, interrupts the pass.
Interrupted(r) ==
    /\ pass[r].pc = "loop"
    /\ ~open \/ ~flag
    /\ EndPass(r, FALSE)
    /\ UNCHANGED <<users, got, asked, daily, usable, open, flag, trouble, moves>>

ClaimTelegramReminderRecipient(x) == [users EXCEPT ![x].claimed = TRUE]

Claim(r) ==
    /\ pass[r].pc = "loop" /\ open /\ pass[r].unc < Breaker
    /\ IF Pending = {}
       THEN EndPass(r, TRUE) /\ UNCHANGED users
       ELSE \E x \in Pending :
               /\ \A y \in Pending : x <= y
               /\ users' = ClaimTelegramReminderRecipient(x)
               /\ pass' = [pass EXCEPT ![r] = [@ EXCEPT !.pc = "lookup", !.to = x]]
               /\ UNCHANGED lock
    /\ UNCHANGED <<got, asked, daily, usable, open, flag, trouble, moves>>

\* ListTelegramReminderAudience: nothing, when the user left since the claim.
ListTelegramReminderAudience(r) ==
    /\ pass[r].pc = "lookup"
    /\ pass' = [pass EXCEPT ![r] =
                  [@ EXCEPT !.pc = IF Eligible(pass[r].to) THEN "first" ELSE "loop", !.tries = 0]]
    /\ UNCHANGED <<users, got, asked, daily, usable, open, flag, lock, trouble, moves>>

\* pickPersonalLine: the sign-up pitch, when it is due.
pickPersonalLine(x) == ~users[x].pitched

Lands(r) ==
    /\ got' = [got EXCEPT ![pass[r].to].told = @ + 1]
    /\ asked' = [asked EXCEPT ![pass[r].to] = pass[r].pick]

LandsUnheard(r) ==
    /\ got' = [got EXCEPT ![pass[r].to].lost = @ + 1]
    /\ asked' = [asked EXCEPT ![pass[r].to] = pass[r].pick]

\* MarkTelegramSignupPitch: the line has landed with the photo, or with the
\* text that comes second.
MarkTelegramSignupPitch(r, landed) == users' = [users EXCEPT ![pass[r].to].pitched = @ \/ (pass[r].line /\ landed)]
HalfBundle(r) ==
    IF pass[r].pc = "second" THEN \E photo \in BOOLEAN : MarkTelegramSignupPitch(r, photo) ELSE UNCHANGED users

\* deliver, the first message.
deliver(r) ==
    /\ pass[r].pc = "first" /\ open /\ ~users[pass[r].to].gone
    /\ Lands(r)
    /\ pass' = [pass EXCEPT ![r] = [@ EXCEPT !.pc = "second", !.tries = 0,
                                                    !.line = pickPersonalLine(pass[r].to)]]
    /\ UNCHANGED <<users, daily, usable, open, flag, lock, trouble, moves>>

\* ... the second.
deliverSecond(r) ==
    /\ pass[r].pc = "second" /\ open /\ ~users[pass[r].to].gone
    /\ MarkTelegramSignupPitch(r, TRUE)
    /\ pass' = [pass EXCEPT ![r] = [@ EXCEPT !.pc = "loop", !.unc = 0]]
    /\ UNCHANGED <<got, asked, daily, usable, open, flag, lock, trouble, moves>>

\* unreachable: a 403 marks the user blocked.
unreachable(r) ==
    /\ pass[r].pc \in {"first", "second"} /\ open /\ users[pass[r].to].gone
    /\ HalfBundle(r)
    /\ Goto(r, "mark")
    /\ UNCHANGED <<got, asked, daily, usable, open, flag, lock, trouble, moves>>

Mark(r) ==
    /\ pass[r].pc = "mark"
    /\ users' = MarkTelegramBotUserBlocked(pass[r].to)
    /\ pass' = [pass EXCEPT ![r] = [@ EXCEPT !.pc = "loop", !.unc = 0]]
    /\ UNCHANGED <<got, asked, daily, usable, open, flag, lock, trouble, moves>>

\* timedOut: it may have landed and is never retried; a few in a row end the
\* pass.
timedOut(r) ==
    /\ pass[r].pc \in {"first", "second"} /\ open
    /\ Trouble
    /\ IF pass[r].pc = "first" /\ ~users[pass[r].to].gone THEN Lands(r) \/ UNCHANGED <<got, asked>>
       ELSE UNCHANGED <<got, asked>>
    /\ pass' = [pass EXCEPT ![r] = [@ EXCEPT !.pc = "loop", !.unc = pass[r].unc + 1]]
    /\ HalfBundle(r)
    /\ UNCHANGED <<daily, usable, open, flag, lock, moves>>

\* send: a 5xx, or a connection that breaks off, which may have been after
\* Telegram had posted the message.  The call is repeated all the same, up to
\* maxTransientRetries times.
answerLost(r) ==
    /\ pass[r].pc \in {"first", "second"} /\ open
    /\ Trouble
    /\ IF pass[r].pc = "first" /\ ~users[pass[r].to].gone THEN LandsUnheard(r) \/ UNCHANGED <<got, asked>>
       ELSE UNCHANGED <<got, asked>>
    /\ IF pass[r].tries < Retries
       THEN pass' = [pass EXCEPT ![r].tries = @ + 1] /\ UNCHANGED users
       ELSE /\ pass' = [pass EXCEPT ![r] = [@ EXCEPT !.pc = "loop", !.unc = 0]]
            /\ HalfBundle(r)
    /\ UNCHANGED <<daily, usable, open, flag, lock, moves>>

breakerUncertain(r) ==
    /\ pass[r].pc = "loop" /\ pass[r].unc >= Breaker
    /\ EndPass(r, FALSE)
    /\ UNCHANGED <<users, got, asked, daily, usable, open, flag, trouble, moves>>

\* pace refuses the slot after 21:00, or the lookup or the send fails for good.
sendFails(r) ==
    /\ pass[r].pc \in {"lookup", "first", "second"}
    /\ HalfBundle(r)
    /\ IF open \/ pass[r].pc = "lookup"
       THEN /\ Trouble /\ UNCHANGED lock
            /\ pass' = [pass EXCEPT ![r] = [@ EXCEPT !.pc = "loop", !.unc = 0]]
       ELSE EndPass(r, FALSE) /\ UNCHANGED trouble
    /\ UNCHANGED <<got, asked, daily, usable, open, flag, moves>>

\* Mutant: a pass the network ends counts as the evening's.
PausedIsDone == TRUE
\* An interrupted pass is not marked done, so the next minute resumes it.
PausedDone == FALSE

\* connectFailed: the last attempt did not leave this host (an earlier one of
\* the same send may have), so the claim is handed back and the pass pauses.
connectFailed(r) ==
    /\ pass[r].pc = "first" /\ open
    /\ Trouble
    /\ Goto(r, "release")
    /\ UNCHANGED <<users, got, asked, daily, usable, open, flag, lock, moves>>

ReleaseTelegramReminderClaim(r) ==
    /\ pass[r].pc = "release"
    /\ users' = [users EXCEPT ![pass[r].to].claimed = FALSE]
    /\ EndPass(r, PausedDone)
    /\ UNCHANGED <<got, asked, daily, usable, open, flag, trouble, moves>>

\* The process dies, or the connection that holds the lock does.
Crash(r) ==
    /\ pass[r] /= NoPass
    /\ Trouble
    /\ EndPass(r, FALSE)
    /\ UNCHANGED <<users, got, asked, daily, usable, open, flag, moves>>

LoseLock(r) ==
    /\ lock = r
    /\ Trouble
    /\ lock' = Nobody
    /\ UNCHANGED <<users, got, asked, daily, usable, open, flag, pass, moves>>

----------------------------------------------------------------------------

Pass(r) ==
    \/ Tick(r) \/ dailyQuestion(r) \/ recordDailyQuestion(r) \/ UseTheWinner(r)
    \/ Interrupted(r) \/ Claim(r) \/ ListTelegramReminderAudience(r)
    \/ deliver(r) \/ deliverSecond(r) \/ unreachable(r) \/ Mark(r)
    \/ breakerUncertain(r) \/ (~open /\ pass[r].pc /= "lookup" /\ sendFails(r)) \/ ReleaseTelegramReminderClaim(r)

ReminderNext ==
    \/ \E x \in Users : handleEslatma(x) \/ handleReminderOff(x) \/ Blocks(x)
                          \/ trackPrivateUser(x) \/ trackPrivateMembership(x)
    \/ \E q \in Questions : Unfit(q)
    \/ Switch \/ inSendWindow
    \/ \E r \in Procs :
          Pass(r) \/ timedOut(r) \/ answerLost(r) \/ sendFails(r) \/ connectFailed(r) \/ Crash(r) \/ LoseLock(r)

ReminderSpec == ReminderInit /\ [][ReminderNext]_reminderVars

\* The scheduler ticks every minute and a pass goes on with its steps.
ReminderFairness ==
    \A r \in Procs : WF_reminderVars(Pass(r))

ReminderFairSpec == ReminderSpec /\ ReminderFairness

----------------------------------------------------------------------------

ReminderTypeOK ==
    /\ \A x \in Users : got[x].told \in 0 .. 2 /\ got[x].lost \in Nat /\ asked[x] \in Questions \cup {0}
    /\ daily \in Questions \cup {0}
    /\ lock \in Procs \cup {Nobody}
    /\ \A r \in Procs : pass[r].pc \in {"idle", "count", "record", "winner", "loop", "lookup", "first",
                                     "second", "mark", "release"}

\* Whatever crashes, timeouts, handed-back claims and lost locks there are,
\* nobody gets the bundle twice in an evening, but for the copies of attempts
\* that send repeats because their answer broke off; the sign-up pitch is noted
\* only for who got the bundle; and all get the same question, unless the first
\* one has stopped fitting a poll.
ReminderInv ==
    /\ ReminderTypeOK
    /\ \A x \in Users : got[x].told <= 1 /\ (users[x].pitched => got[x].told = 1)
    /\ \A x, y \in Users :
          asked[x] /= 0 /\ asked[y] /= 0 /\ asked[x] /= asked[y] => ~({asked[x], asked[y]} \subseteq usable)
    /\ \A r \in Procs : lock = r => pass[r].pc /= "idle"

\* Nobody is forgotten: while the window and the switch stay open and some
\* question fits, everybody who has not opted out, in or blocked this evening
\* ends up claimed, however often passes were interrupted.
EveryoneClaimed ==
    <>[](open /\ flag /\ usable /= {} => \A x \in Users : Eligible(x) /\ ~users[x].moved => users[x].claimed)
=============================================================================
