------------------------------- MODULE MCStudy -------------------------------
(***************************************************************************)
(* The sessions a learner answers in: one timed or free session with its   *)
(* requests and the sweep, the chain of bilets with its reset, the walk of *)
(* the ordered practice, and the points on the leaderboard.  They write    *)
(* different rows, so a behaviour exercises one of them, chosen at the     *)
(* start, and the others rest in their initial states.                     *)
(***************************************************************************)
EXTENDS ExamSession

CONSTANTS
    Bilets, Size, Threshold, Bypass, Resets,                     \* Tickets
    Sessions, Bank, MinBank, MaxWalks,                           \* PracticeWalk
    Players, Stations, Requests, FreeCap, VipCap, TopN, MaxDay,
    MaxAnswers, MaxRebuilds                                      \* Leaderboard

VARIABLES
    part,                                                        \* the one that moves
    progress, ceiling, bypass, vip, open, reset, everDone,       \* Tickets
    total, cursor, walk, sess,                                   \* PracticeWalk
    today, scored, board, paying, rq, tool, rebuilds, doubled    \* Leaderboard

ticketVars == <<progress, ceiling, bypass, vip, open, reset, everDone>>
walkVars == <<total, cursor, walk, sess>>
leaderVars == <<today, scored, board, paying, rq, tool, rebuilds, doubled>>

(* An exam forgives no mistake and ends with the first one; the other timed *)
(* modes forgive one.                                                       *)
MCAllowed == [m \in ExamLike |-> IF m = "exam" THEN 0 ELSE 1]

(* Three bilets; the last one is shorter than the threshold.                *)
MCSize == <<2, 2, 1>>

Chain == INSTANCE Tickets
Ordered == INSTANCE PracticeWalk
Points == INSTANCE Leaderboard WITH answers <- scored

StudyInit ==
    /\ part \in {"session", "bilets", "practice", "points"}
    /\ Init /\ Chain!Init /\ Ordered!Init /\ Points!LeaderInit
    /\ part # "points" => paying = {}

SessionMoves ==
    part = "session" /\ Next /\ UNCHANGED <<part, ticketVars, walkVars, leaderVars>>
BiletMoves ==
    part = "bilets" /\ Chain!Next /\ UNCHANGED <<part, vars, walkVars, leaderVars>>
PracticeMoves ==
    part = "practice" /\ Ordered!Next /\ UNCHANGED <<part, vars, ticketVars, leaderVars>>
PointsMove ==
    part = "points" /\ Points!LeaderNext /\ UNCHANGED <<part, vars, ticketVars, walkVars>>

StudyNext == SessionMoves \/ BiletMoves \/ PracticeMoves \/ PointsMove

(* The fairness of ExamSession, while it moves.                             *)
StudyFairness ==
    /\ WF_vars(part = "session" /\ Tick)
    /\ WF_vars(part = "session" /\ Sweep)
    /\ WF_vars(part = "session" /\ \E w \in Actors : LockSession(w))
    /\ \A w \in Actors : WF_vars(part = "session" /\ Work(w))

StudySpec ==
    StudyInit /\ [][StudyNext]_<<part, vars, ticketVars, walkVars, leaderVars>> /\ StudyFairness

-----------------------------------------------------------------------------
(* Bilets: the ceiling hands out nothing that was not completed, and a      *)
(* first reset leaves the open bilets as they were (ResetVariantProgress).  *)
BiletsSafe == [](part = "bilets" => Chain!CeilingEarned) /\ Chain!FirstResetKeepsOpen

(* Ordered practice: the cursor counts answered questions only, and none of *)
(* the current walk's is forgotten (AdvancePracticeCursor).                 *)
WalkInv == Ordered!WalkInv

(* The leaderboard: racing writers lose points but invent none, no day      *)
(* passes the cap and no classroom PC is ranked (RecordPoint, Rebuild).     *)
LeaderInv == part = "points" => Points!LeaderInv
=============================================================================
