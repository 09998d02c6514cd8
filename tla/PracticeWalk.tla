----------------------------- MODULE PracticeWalk -----------------------------
(***************************************************************************)
(* Ordered practice of one topic by one profile, on a classroom PC the      *)
(* whole room's (backend/internal/session/ordered_practice.go): a session   *)
(* draws the questions from the stored cursor on, every answer moves the    *)
(* cursor to the end of the contiguous run it completes, the end of the     *)
(* topic wraps to the start, and a teacher can put it back to the start.    *)
(*                                                                         *)
(* A walk is one pass through the topic: the wrap and the teacher's reset   *)
(* end it.  Practice sessions stay open and can be answered at any time     *)
(* later, in a walk that is not theirs.                                     *)
(***************************************************************************)
EXTENDS Integers, FiniteSets, FiniteSetsExt

CONSTANTS
    Sessions,  \* ordered practice sessions
    Bank,      \* valid questions of the topic at the start
    MinBank,   \* bound: how far quarantined questions shrink the topic
    MaxWalks   \* bound on the number of walks

VARIABLES
    total,   \* CountValidQuestionsInCategory
    cursor,  \* practice_cursor.next_index (0 when there is no row)
    walk,    \* history: the number of the current walk
    sess     \* the sessions: stage of StartSession, ordered_from, questions
             \* drawn, answered positions (from 1), the walk it was drawn in

vars == <<total, cursor, walk, sess>>

NoSession == [at |-> "new", from |-> 0, len |-> 0, answered |-> {}, walk |-> 0]

TypeOK ==
    /\ total \in MinBank..Bank
    /\ cursor \in 0..Bank
    /\ walk \in 1..MaxWalks
    /\ sess \in [Sessions -> [at : {"new", "wrap", "draw", "open"}, from : 0..Bank,
                              len : 0..Bank, answered : SUBSET (1..Bank), walk : 0..MaxWalks]]

Init ==
    /\ total = Bank
    /\ cursor = 0
    /\ walk = 1
    /\ sess = [s \in Sessions |-> NoSession]

-----------------------------------------------------------------------------
(* orderedCategoryDraw: three statements that share no transaction.        *)

CountValidQuestionsInCategory == total
GetPracticeCursor == cursor

\* The count and the cursor; from >= total goes on to the wrap.
DrawRead(s) ==
    /\ sess[s].at = "new"
    /\ sess' = [sess EXCEPT ![s] =
                   [@ EXCEPT !.at = IF GetPracticeCursor >= CountValidQuestionsInCategory
                                       THEN "wrap" ELSE "draw",
                             !.from = IF GetPracticeCursor >= CountValidQuestionsInCategory
                                         THEN 0 ELSE GetPracticeCursor,
                             !.walk = walk]]
    /\ UNCHANGED <<total, cursor, walk>>

ResetPracticeCursor == cursor' = 0

\* The wrap is written down.
DrawWrap(s) ==
    /\ sess[s].at = "wrap"
    /\ walk < MaxWalks
    /\ ResetPracticeCursor
    /\ walk' = walk + 1
    /\ sess' = [sess EXCEPT ![s] = [@ EXCEPT !.at = "draw", !.walk = walk + 1]]
    /\ UNCHANGED total

\* How many questions there are from the offset on, at most count.
OrderedQuestionIDsByCategory(from, count) ==
    Min({count, Max({0, CountValidQuestionsInCategory - from})})

\* The questions (the daily allowance clamps the count) and CreateExamSession.
DrawCreate(s) ==
    /\ sess[s].at = "draw"
    /\ \E count \in 1..Bank :
          sess' = [sess EXCEPT ![s] =
                     [@ EXCEPT !.at = "open",
                               !.len = OrderedQuestionIDsByCategory(sess[s].from, count)]]
    /\ UNCHANGED <<total, cursor, walk>>

-----------------------------------------------------------------------------
\* Mutant: the furthest position touched.
PrefixFurthest(answered) == Max({0} \cup answered)

\* AdvancePracticeCursor's prefix: the contiguous run of answered positions.
Prefix(answered) == Max({0} \cup {n \in answered : 1..n \subseteq answered})

\* Its WHERE clause: ordered_from <= current.at.
WalkGuard(s) == sess[s].from <= cursor

\* SubmitAnswer: the answer and advanceOrderedCursor in one transaction, in
\* any order of positions; a duplicate is ErrAlreadyAnswered.
SubmitAnswer(s) ==
    /\ sess[s].at = "open"
    /\ \E n \in (1..sess[s].len) \ sess[s].answered :
          LET done == sess[s].answered \cup {n}
          IN  /\ sess' = [sess EXCEPT ![s].answered = done]
              /\ cursor' = IF WalkGuard(s) THEN Max({cursor, sess[s].from + Prefix(done)})
                           ELSE cursor
    /\ UNCHANGED <<total, walk>>

\* What the topic page shows: how far the class has come.
ListPracticeProgress == [at |-> cursor, total |-> total]

\* ResetPracticeProgress: "Boshidan boshlash".
ResetPracticeProgress ==
    /\ walk < MaxWalks
    /\ ListPracticeProgress.at > 0
    /\ ResetPracticeCursor
    /\ walk' = walk + 1
    /\ UNCHANGED <<total, sess>>

\* An admin quarantines the last question of the topic.
Quarantine ==
    /\ total > MinBank
    /\ total' = total - 1
    /\ UNCHANGED <<cursor, walk, sess>>

Next ==
    \/ \E s \in Sessions : DrawRead(s) \/ DrawWrap(s) \/ DrawCreate(s) \/ SubmitAnswer(s)
    \/ ResetPracticeProgress \/ Quarantine

Spec == Init /\ [][Next]_vars

-----------------------------------------------------------------------------
\* The topic's questions (from 0) that the session has answered.
Answered(s) == {sess[s].from + n - 1 : n \in sess[s].answered}

\* The cursor stays in the topic and only counts work that was done: every question before it has
\* been answered in some session, whatever is answered out of order, in an
\* old session, or while draws and resets run (AdvancePracticeCursor).
CursorCountsAnswers ==
    /\ TypeOK
    /\ \A i \in 0..(cursor - 1) : \E s \in Sessions : i \in Answered(s)

\* Work is not forgotten: the cursor has reached the end of the contiguous
\* run of every session drawn in the current walk, so the next draw goes on
\* where the class stopped (the wrap is written down, and the guard of
\* AdvancePracticeCursor lets every session of the current walk pass).
WalkAdvances ==
    \A s \in Sessions :
        sess[s].at = "open" /\ sess[s].walk = walk /\ sess[s].answered # {}
            => cursor >= sess[s].from + Prefix(sess[s].answered)

WalkInv == CursorCountsAnswers /\ WalkAdvances
=============================================================================
