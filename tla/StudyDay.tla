------------------------------ MODULE StudyDay ------------------------------
(***************************************************************************)
(* What one learner's answers leave behind: the FSRS memory of a question, *)
(* the mastery of its category, the daily streak, the free allowance and   *)
(* the draws made from them (learning/, progress/, the draw half of        *)
(* session/service.go).  The learner has several tabs; an answer and an    *)
(* arena result are transactions, a flash-card review and the demo         *)
(* migration are single statements.  Every row is read, recomputed and     *)
(* written back whole, with no lock between the read and the write.        *)
(***************************************************************************)
EXTENDS Integers, FiniteSets

CONSTANTS Tabs,            \* requests the learner may have in flight
          Questions,       \* the bank, numbered in id order
          Category,        \* Category[q]
          WithImage,       \* questions with a picture
          Valid,           \* questions whose validation_status is 'valid'
          DrawSizes,       \* session sizes asked for
          FreeLimit,       \* limit_config daily_practice_questions, free value
          ExamQuestionCount, PlacementQuestionCount,
          MockMinPct, MockThresholdPct,   \* limit_config of the Grand Mock
          MaxDay,          \* days the model runs for (bound)
          MaxStarts,       \* sessions started at most (bound)
          MaxGrades        \* answers sent for grading at most (bound)

ASSUME StudyConstants ==
    /\ IsFiniteSet(Tabs) /\ IsFiniteSet(Questions) /\ Questions \subseteq Nat
    /\ Valid \subseteq Questions /\ Valid # {} /\ DrawSizes \subseteq Nat
    /\ FreeLimit \in Nat \ {0} /\ MockMinPct \in Nat /\ MaxDay \in Nat \ {0}

VARIABLES day,       \* the UTC calendar day
          vip,       \* Billing.Status
          memory,    \* question_memory
          mastery,   \* category_mastery
          streak,    \* the streak row
          session,   \* each tab's open session: counted as practice, questions left
          req,       \* each tab's request in flight
          practised, \* practice answers per day
          right, wrong,  \* committed grades per question
          active,    \* committed activities per day
          starts, begun  \* sessions started, answers sent for grading

rows == <<memory, mastery, streak>>
history == <<practised, right, wrong, active>>
bounds == <<starts, begun>>
studyVars == <<day, vip, rows, session, req, history, bounds>>

Categories == {Category[q] : q \in Questions}
NoCard == [reps |-> 0, lapses |-> 0, due |-> 0]      \* no question_memory row
NoMastery == [seen |-> 0, correct |-> 0]
NoStreak == [cur |-> 0, best |-> 0, last |-> 0, today |-> 0]
NoReq == [kind |-> "none", pc |-> "idle", q |-> 0, todo |-> {}, pass |-> FALSE, on |-> 0,
          card |-> NoCard, mast |-> NoMastery, strk |-> NoStreak,
          cards |-> <<>>, masts |-> <<>>]

Lowest(S) == CHOOSE q \in S : \A p \in S : q <= p
-----------------------------------------------------------------------------
(* What the tables say.                                                     *)
Studied == {q \in Questions : memory[q].reps > 0}
CountStudiedQuestions == Cardinality(Studied)
CountStudiedQuestionsByCategory(c) == Cardinality({q \in Studied \cap Valid : Category[q] = c})
CountValidQuestions == Cardinality(Valid)
CountValidQuestionsByCategory(c) == Cardinality({q \in Valid : Category[q] = c})
Due == {q \in Studied \cap Valid : memory[q].due <= day}
MistakeBank == {q \in Valid : memory[q].lapses > 0}

Smaller(a, b) == IF a < b THEN a ELSE b
(* Rows by due_at; the order of equal ones is the table's.                  *)
Sooner(p, q) == memory[p].due < memory[q].due \/ (memory[p].due = memory[q].due /\ p < q)
FirstDue(S, n) == {q \in S : Cardinality({p \in S : Sooner(p, q)}) < n}
ListDueQuestions(n) == FirstDue(Due, n)
ListMistakeBankQuestionIDs(n) == FirstDue(MistakeBank \cap Due, n)

(* NextDue deals the due questions out one category at a time, the category *)
(* of the most overdue question first.                                      *)
Turn(S, q) == Cardinality({p \in S : Category[p] = Category[q] /\ Sooner(p, q)})
Leader(S, q) == CHOOSE p \in S : Category[p] = Category[q] /\ Turn(S, p) = 0
Dealt(S, p, q) ==
    \/ Turn(S, p) < Turn(S, q)
    \/ Turn(S, p) = Turn(S, q) /\ Sooner(Leader(S, p), Leader(S, q))
NextDue(n) ==
    LET listed == ListDueQuestions(3 * n)
    IN  {q \in listed : Cardinality({p \in listed : Dealt(listed, p, q)}) < n}

(* A random draw is the window of n ids from a random pivot on, wrapping.   *)
From(pivot, q) == IF q >= pivot THEN <<0, q>> ELSE <<1, q>>
Ahead(pivot, p, q) ==
    LET a == From(pivot, p)  b == From(pivot, q) IN a[1] < b[1] \/ (a[1] = b[1] /\ a[2] < b[2])
Window(S, n) ==
    {{q \in S : Cardinality({p \in S : Ahead(pivot, p, q)}) < n} : pivot \in Questions}
RandomQuestionIDs(n) == Window(Valid, n)
RandomQuestionIDsByCategory(c, n) == Window({q \in Valid : Category[q] = c}, n)
RandomQuestionIDsByImagePresence(has, n) == Window({q \in Valid : (q \in WithImage) = has}, n)

-----------------------------------------------------------------------------
(* Readiness and the Grand Mock's gate.                                     *)
bankHonestMastery(studied, total, correct, seen) ==
    IF total <= 0 \/ studied <= 0 \/ seen <= 0 THEN 0
    ELSE (100 * Smaller(studied, total) * Smaller(correct, seen)) \div (total * seen)
CategoryMastery(c) ==
    bankHonestMastery(CountStudiedQuestionsByCategory(c), CountValidQuestionsByCategory(c),
                      mastery[c].correct, mastery[c].seen)
(* Weighted by each category's size, so the readiness is at least pct when  *)
(* the weighted sum is.                                                     *)
ReadinessAtLeast(pct) ==
    LET weighted == {<<c, CategoryMastery(c) * CountValidQuestionsByCategory(c)>> : c \in Categories}
        sum[S \in SUBSET weighted] == IF S = {} THEN 0
                                      ELSE LET w == CHOOSE w \in S : TRUE IN w[2] + sum[S \ {w}]
    IN  sum[weighted] >= pct * CountValidQuestions
requiredStudiedQuestions(bank, pct) ==
    IF bank <= 0 \/ pct <= 0 THEN 0 ELSE (bank * pct + 99) \div 100
MockEligibility ==
    IF ~vip THEN "vip_required"
    ELSE IF CountStudiedQuestions < requiredStudiedQuestions(CountValidQuestions, MockMinPct)
    THEN "too_few_studied"
    ELSE IF ~ReadinessAtLeast(MockThresholdPct) THEN "mastery_too_low" ELSE "eligible"

-----------------------------------------------------------------------------
(* Starting a session.                                                      *)
Unlimited == -1
Limit == IF vip THEN Unlimited ELSE FreeLimit
CountPracticeAnswersToday == practised[day]
PracticeAllowance == IF Limit <= CountPracticeAnswersToday THEN 0 ELSE Limit - CountPracticeAnswersToday
(* Mutant: what was practised today is not taken off.                       *)
ClampToLimit(n) == IF Limit = Unlimited THEN n ELSE Smaller(n, Limit)
(* What is left of today's allowance; a session never asks for more, and a  *)
(* spent allowance refuses (0).                                             *)
clampToDailyAllowance(n) == IF Limit = Unlimited THEN n ELSE Smaller(n, PracticeAllowance)

(* The questions each mode may draw when n are asked for; {} is a refusal.  *)
PracticeDraws(n) ==
    LET k == clampToDailyAllowance(n)
    IN  IF k = 0 THEN {}
        ELSE UNION {RandomQuestionIDsByCategory(c, k) : c \in Categories}
             \cup UNION {RandomQuestionIDsByImagePresence(has, k) : has \in BOOLEAN}
WholeDraws(n) == {S \in RandomQuestionIDs(n) : Cardinality(S) = n}
DrawsOf(mode, n) ==
    CASE mode = "practice"   -> PracticeDraws(n)
      [] mode = "exam"       -> IF vip THEN WholeDraws(ExamQuestionCount) ELSE {}
      [] mode = "grand_mock" -> IF MockEligibility = "eligible" THEN WholeDraws(ExamQuestionCount) ELSE {}
      [] mode = "placement"  -> WholeDraws(PlacementQuestionCount)
      [] mode = "mistakes"   -> IF vip THEN {ListMistakeBankQuestionIDs(n)} ELSE {}
      [] mode = "review"     -> {NextDue(n)} \ {{}}
Modes == {"practice", "exam", "grand_mock", "placement", "mistakes", "review"}
StartSession(t, mode, n) ==
    /\ req[t] = NoReq /\ starts < MaxStarts /\ starts' = starts + 1
    /\ \E ids \in DrawsOf(mode, n) :
          session' = [session EXCEPT ![t] = [practice |-> mode = "practice", left |-> ids]]
    /\ UNCHANGED <<day, vip, rows, req, history, begun>>

startSession(t, mode, n) == mode \in Modes /\ StartSession(t, mode, n)   \* the route

-----------------------------------------------------------------------------
(* Requests that grade answers.                                             *)
IsTx(r) == r.kind \in {"answer", "settle"}
Begin(t, kind, pc, todo, pass) ==
    /\ req[t] = NoReq
    /\ begun' = begun + (IF todo = {} THEN 1 ELSE Cardinality(todo)) /\ begun' <= MaxGrades
    /\ req' = [req EXCEPT ![t] = [NoReq EXCEPT !.kind = kind, !.pc = pc, !.todo = todo,
                                               !.pass = pass, !.on = day]]
    /\ UNCHANGED <<day, vip, rows, session, history, starts>>
(* The session row is locked and the question checked; with SkipFSRS only   *)
(* the activity is recorded.                                                *)
SubmitAnswer(t, q, pass, skip) ==
    q \in session[t].left /\ Begin(t, "answer", IF skip THEN "streak" ELSE "card", {q}, pass)
review(t, q, pass) == Begin(t, "review", "card", {q}, pass)
(* Only the wrong demo answers are graded; correct ones are skipped.        *)
MigrateDemoProgress(t, wrongs) == wrongs # {} /\ Begin(t, "review", "card", wrongs, FALSE)
(* The arena's result, in the transaction that stores the match.            *)
SettleArena(t, wrongs) ==
    Begin(t, "settle", IF wrongs = {} THEN "streak" ELSE "card", wrongs, FALSE)

Locked(t, held(_)) == \E u \in Tabs \ {t} : IsTx(req[u]) /\ held(req[u])

GetQuestionMemory(r, q) == IF q \in DOMAIN r.cards THEN r.cards[q] ELSE memory[q]
GetCategoryMastery(r, c) == IF c \in DOMAIN r.masts THEN r.masts[c] ELSE mastery[c]
With(f, x, v) == [y \in DOMAIN f \cup {x} |-> IF y = x THEN v ELSE f[y]]

(* Stability and difficulty only stretch the interval: a day after a lapse, *)
(* longer after a pass.                                                     *)
Review(card, pass, now) ==
    [reps |-> card.reps + 1, lapses |-> IF pass THEN card.lapses ELSE card.lapses + 1,
     due |-> IF pass THEN now + 2 ELSE now + 1]
ReadCard(t) ==
    LET r == req[t]  q == Lowest(r.todo)
    IN  /\ r.pc = "card"
        /\ req' = [req EXCEPT ![t].pc = "cardw", ![t].q = q,
                              ![t].card = Review(GetQuestionMemory(r, q), r.pass, day)]
        /\ UNCHANGED <<day, vip, rows, session, history, bounds>>

Graded(t, q) ==
    LET n == [p \in Questions |-> IF p = q THEN 1 ELSE 0]
    IN  IF req[t].pass THEN right' = [p \in Questions |-> right[p] + n[p]] /\ UNCHANGED wrong
        ELSE wrong' = [p \in Questions |-> wrong[p] + n[p]] /\ UNCHANGED right
(* Waits for a transaction that wrote the row.                              *)
UpsertQuestionMemory(t) ==
    LET r == req[t]
    IN  /\ r.pc = "cardw" /\ ~Locked(t, LAMBDA o : r.q \in DOMAIN o.cards)
        /\ IF IsTx(r)
           THEN /\ req' = [req EXCEPT ![t].pc = "mastery", ![t].card = NoCard,
                                      ![t].cards = With(r.cards, r.q, r.card)]
                /\ UNCHANGED <<memory, right, wrong>>
           ELSE /\ memory' = [memory EXCEPT ![r.q] = r.card] /\ Graded(t, r.q)
                /\ req' = [req EXCEPT ![t].pc = "mastery", ![t].card = NoCard]
        /\ UNCHANGED <<day, vip, mastery, streak, session, practised, active, bounds>>

Rollup(m, pass) == [seen |-> m.seen + 1, correct |-> IF pass THEN m.correct + 1 ELSE m.correct]
ReadMastery(t) ==
    LET r == req[t]
    IN  /\ r.pc = "mastery"
        /\ req' = [req EXCEPT ![t].pc = "masteryw",
                              ![t].mast = Rollup(GetCategoryMastery(r, Category[r.q]), r.pass)]
        /\ UNCHANGED <<day, vip, rows, session, history, bounds>>
UpsertCategoryMastery(t) ==
    LET r == req[t]  c == Category[r.q]  rest == r.todo \ {r.q}
        next == [r EXCEPT !.todo = rest, !.q = 0, !.mast = NoMastery,
                          !.pc = IF rest # {} THEN "card" ELSE "streak",
                          !.masts = IF IsTx(r) THEN With(r.masts, c, r.mast) ELSE r.masts]
    IN  /\ r.pc = "masteryw" /\ ~Locked(t, LAMBDA o : c \in DOMAIN o.masts)
        /\ req' = [req EXCEPT ![t] = IF rest = {} /\ ~IsTx(r) THEN NoReq ELSE next]
        /\ mastery' = IF IsTx(r) THEN mastery ELSE [mastery EXCEPT ![c] = r.mast]
        /\ UNCHANGED <<day, vip, memory, streak, session, history, bounds>>
RecordReview(t) ==
    ReadCard(t) \/ UpsertQuestionMemory(t) \/ ReadMastery(t) \/ UpsertCategoryMastery(t)

(* Mutant: a gap in the days does not reset the streak.                     *)
BumpAcrossGaps(s, today) ==
    IF s.last = today THEN [s EXCEPT !.today = s.today + 1]
    ELSE [cur |-> s.cur + 1, best |-> IF s.cur + 1 > s.best THEN s.cur + 1 ELSE s.best,
          last |-> today, today |-> 1]
BumpStreak(s, today) ==
    IF s.last = today THEN [s EXCEPT !.today = s.today + 1]
    ELSE LET cur == IF s.last # 0 /\ s.last = today - 1 THEN s.cur + 1 ELSE 1
         IN  [cur |-> cur, best |-> IF cur > s.best THEN cur ELSE s.best, last |-> today, today |-> 1]
RecordActivity(t) ==
    /\ req[t].pc = "streak"
    /\ req' = [req EXCEPT ![t].pc = "streakw", ![t].strk = BumpStreak(streak, day)]
    /\ UNCHANGED <<day, vip, rows, session, history, bounds>>
(* The streak is the last row written (nobody holds it for long: what       *)
(* follows is the commit), and everything the transaction wrote becomes     *)
(* visible.                                                                 *)
UpsertStreak(r) == streak' = r.strk
Commit(t) ==
    LET r == req[t]  Done(q) == IF q \in DOMAIN r.cards THEN 1 ELSE 0
        answered == r.kind = "answer"
    IN  /\ r.pc = "streakw"
        /\ memory' = [q \in Questions |-> GetQuestionMemory(r, q)]
        /\ mastery' = [c \in Categories |-> GetCategoryMastery(r, c)]
        /\ UpsertStreak(r)
        /\ right' = [q \in Questions |-> IF r.pass THEN right[q] + Done(q) ELSE right[q]]
        /\ wrong' = [q \in Questions |-> IF r.pass THEN wrong[q] ELSE wrong[q] + Done(q)]
        /\ active' = [active EXCEPT ![r.strk.last] = @ + 1]
        /\ practised' = IF answered /\ session[t].practice
                        THEN [practised EXCEPT ![r.on] = @ + 1] ELSE practised
        /\ session' = IF answered
                      THEN [session EXCEPT ![t].left = @ \ (DOMAIN r.cards \cup r.todo)] ELSE session
        /\ req' = [req EXCEPT ![t] = NoReq]
        /\ UNCHANGED <<day, vip, bounds>>
(* A lost connection, or the victim of a deadlock between two transactions: *)
(* a transaction leaves nothing, a single statement what it had written.    *)
Abort(t) ==
    /\ req[t] # NoReq /\ req' = [req EXCEPT ![t] = NoReq]
    /\ UNCHANGED <<day, vip, rows, session, history, bounds>>

-----------------------------------------------------------------------------
(* The first day of a subscriber, or of a free learner who has passed the   *)
(* question of one tab: every tab has drawn a practice session of one.      *)
StudyInit ==
    LET q == Lowest(Valid)
        once(n) == IF n = 1 /\ ~vip THEN 1 ELSE 0
    IN  /\ day = 1 /\ vip \in BOOLEAN
        /\ memory = [p \in Questions |-> IF p = q /\ ~vip THEN Review(NoCard, TRUE, 1) ELSE NoCard]
        /\ mastery = [c \in Categories |->
                         IF c = Category[q] /\ ~vip THEN Rollup(NoMastery, TRUE) ELSE NoMastery]
        /\ streak = IF vip THEN NoStreak ELSE BumpStreak(NoStreak, 1)
        /\ \E u \in Tabs :
              session = [t \in Tabs |-> [practice |-> TRUE, left |-> IF t = u /\ ~vip THEN {} ELSE {q}]]
        /\ req = [t \in Tabs |-> NoReq]
        /\ practised = [d \in 1..MaxDay |-> once(d)] /\ active = [d \in 1..MaxDay |-> once(d)]
        /\ right = [p \in Questions |-> IF p = q /\ ~vip THEN 1 ELSE 0]
        /\ wrong = [p \in Questions |-> 0] /\ starts = 0 /\ begun = 0

Midnight ==
    /\ day < MaxDay /\ day' = day + 1
    /\ UNCHANGED <<vip, rows, session, req, history, bounds>>

StudyNext ==
    \/ \E t \in Tabs :
          \/ \E mode \in Modes, n \in DrawSizes : startSession(t, mode, n)
          \/ \E q \in Questions, pass, skip \in BOOLEAN : SubmitAnswer(t, q, pass, skip)
          \/ \E q \in Questions, pass \in BOOLEAN : review(t, q, pass)
          \/ \E wrongs \in SUBSET Questions : MigrateDemoProgress(t, wrongs) \/ SettleArena(t, wrongs)
          \/ RecordReview(t) \/ RecordActivity(t) \/ Commit(t) \/ Abort(t)
    \/ Midnight
StudySpec == StudyInit /\ [][StudyNext]_studyVars

-----------------------------------------------------------------------------
(* The sum of f over S.                                                     *)
TotalOf(f, S) == Cardinality(UNION {{q} \X (1..f[q]) : q \in S})
InCategory(c) == {q \in Questions : Category[q] = c}
RunEnding(d) == Cardinality({k \in 1..d : \A e \in (d - k + 1)..d : active[e] > 0})

(* Racing requests may lose each other's update but never invent one: a     *)
(* card has no more repetitions and lapses than grades were committed, and  *)
(* a question that was graded is never forgotten altogether.                *)
MemoryHonest ==
    \A q \in Questions :
        /\ memory[q].reps <= right[q] + wrong[q] /\ memory[q].lapses <= wrong[q]
        /\ memory[q].lapses <= memory[q].reps
        /\ (memory[q].reps > 0) = (right[q] + wrong[q] > 0)
(* Nor is the accuracy that readiness and the Grand Mock rest on.           *)
MasteryHonest ==
    \A c \in Categories :
        /\ mastery[c].correct <= mastery[c].seen
        /\ mastery[c].correct <= TotalOf(right, InCategory(c))
        /\ mastery[c].seen - mastery[c].correct <= TotalOf(wrong, InCategory(c))
(* The streak was earned: every day of it has a committed activity.         *)
StreakEarned ==
    streak # NoStreak =>
        /\ streak.cur <= RunEnding(streak.last) /\ streak.cur >= 1
        /\ streak.today <= active[streak.last] /\ streak.last <= day
        /\ streak.cur <= streak.best
        /\ \E d \in 1..day : streak.best <= RunEnding(d)
(* Nobody reaches the Grand Mock by replaying a few easy questions.         *)
MockEarned ==
    MockEligibility = "eligible" =>
        Cardinality({q \in Questions : right[q] + wrong[q] > 0})
            >= requiredStudiedQuestions(CountValidQuestions, MockMinPct)
(* A free learner who keeps several sessions open exceeds the day's         *)
(* allowance by what those sessions were drawn with, and no further.        *)
AllowanceKept ==
    ~vip => \A d \in 1..day : practised[d] <= Cardinality(Tabs) * FreeLimit
(* What learning/ and progress/ promise one learner.                        *)
StudyInv == MemoryHonest /\ MasteryHonest /\ StreakEarned /\ MockEarned /\ AllowanceKept
=============================================================================
