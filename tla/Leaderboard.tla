---------------------------- MODULE Leaderboard ----------------------------
(***************************************************************************)
(* The leaderboard's Redis sorted sets (leaderboard/service.go) beside the *)
(* answers they are counted from.  A point is recorded after the answer's  *)
(* transaction has committed, by reading the totals and writing them back  *)
(* one higher; the rebuildleaderboard command overwrites a period from the *)
(* database at any moment, and Redis may lose everything.                  *)
(***************************************************************************)
EXTENDS Naturals, FiniteSets

CONSTANTS Players,       \* profiles
          Stations,      \* ... of which classroom stations
          Requests,      \* answers being recorded at one time
          FreeCap, VipCap, \* limit_config daily_points_cap
          TopN,          \* places the leaderboard lists
          MaxDay, MaxAnswers, MaxRebuilds   \* bounds

VARIABLES today,
          answers,   \* answers[p][d]: correct session_answer rows
          board,     \* board[k][p]: the sorted set of key k; k = 0 is lb:alltime, k = d the day's
          paying,    \* players with an active subscription
          rq,        \* requests between the commit and the end of RecordPoint
          tool,      \* the rebuild command
          rebuilds,
          doubled    \* points of a key whose answer is counted elsewhere too: by a rebuild
                     \* while the request was in flight, or on the day before midnight

leaderVars == <<today, answers, board, paying, rq, tool, rebuilds, doubled>>

Days == 1..MaxDay
Keys == 0..MaxDay
AllPeriods == {"daily", "alltime"}
RedisKey(p, d) == IF p = "alltime" THEN 0 ELSE d
NoRq == [pc |-> "idle", who |-> 0, on |-> 0, cur |-> [p \in AllPeriods |-> 0]]
NoTool == [pc |-> "idle", period |-> "daily", on |-> 0, total |-> [q \in Players |-> 0]]
Low(a, b) == IF a < b THEN a ELSE b

LeaderInit ==
    /\ today = 1 /\ answers = [q \in Players |-> [d \in Days |-> 0]]
    /\ board = [k \in Keys |-> [q \in Players |-> 0]]
    /\ paying \in SUBSET Players
    /\ rq = [r \in Requests |-> NoRq] /\ tool = NoTool /\ rebuilds = 0
    /\ doubled = [k \in Keys |-> [q \in Players |-> 0]]

SumDays(f) == LET sum[d \in 0..MaxDay] == IF d = 0 THEN 0 ELSE sum[d - 1] + f[d] IN sum[MaxDay]
Total(q) == SumDays(answers[q])
AllAnswers == LET sum[S \in SUBSET Players] ==
                    IF S = {} THEN 0 ELSE LET q == CHOOSE q \in S : TRUE IN Total(q) + sum[S \ {q}]
              IN  sum[Players]

(* A correct answer's transaction commits; its point comes after.           *)
AnswerCorrectly(r, q) ==
    /\ rq[r] = NoRq /\ AllAnswers < MaxAnswers
    /\ answers' = [answers EXCEPT ![q][today] = @ + 1]
    /\ rq' = [rq EXCEPT ![r] = [NoRq EXCEPT !.pc = "answered", !.who = q, !.on = today]]
    /\ UNCHANGED <<today, board, paying, tool, rebuilds, doubled>>

(* A station scores nothing.  The error of a failed RecordPoint is dropped. *)
GetProfileKind(q) == IF q \in Stations THEN "station" ELSE "user"
currentPointsAllPeriods(q, d) == [p \in AllPeriods |-> board[RedisKey(p, d)][q]]
ReadPoints(r) ==
    LET q == rq[r].who
    IN  /\ rq[r].pc = "answered"
        /\ rq' = [rq EXCEPT ![r] =
                    IF GetProfileKind(q) = "station" THEN NoRq
                    ELSE [pc |-> "read", who |-> q, on |-> today, cur |-> currentPointsAllPeriods(q, today)]]
        /\ doubled' = IF rq[r].on = today THEN doubled ELSE [doubled EXCEPT ![today][q] = @ + 1]
        /\ UNCHANGED <<today, answers, board, paying, tool, rebuilds>>
DailyCap(q) == IF q \in paying THEN VipCap ELSE FreeCap
(* Mutant: the cap is compared before the point instead of at it.           *)
CapOffByOne(c, q) == c["daily"] <= DailyCap(q)
UnderCap(c, q) == c["daily"] < DailyCap(q)
RecordPoint(r) ==
    LET q == rq[r].who  c == rq[r].cur
    IN  /\ rq[r].pc = "read"
        /\ board' = IF UnderCap(c, q)
                    THEN [k \in Keys |->
                            IF \E p \in AllPeriods : k = RedisKey(p, rq[r].on)
                            THEN [board[k] EXCEPT ![q] = c[CHOOSE p \in AllPeriods : k = RedisKey(p, rq[r].on)] + 1]
                            ELSE board[k]]
                    ELSE board
        /\ rq' = [rq EXCEPT ![r] = NoRq]
        /\ UNCHANGED <<today, answers, paying, tool, rebuilds, doubled>>
LosePoint(r) ==
    /\ rq[r] # NoRq /\ rq' = [rq EXCEPT ![r] = NoRq]
    /\ UNCHANGED <<today, answers, board, paying, tool, rebuilds, doubled>>

-----------------------------------------------------------------------------
(* The days a period spans.                                                 *)
PeriodStart(p, at) == IF p = "alltime" THEN 1 ELSE at
PeriodEnd(p, at) == at
CountCorrectAnswersByProfileByDayInRange(q, d) == IF GetProfileKind(q) = "user" THEN answers[q][d] ELSE 0
(* The cap is applied day by day before the days are added up.              *)
Capped(q, d) == Low(CountCorrectAnswersByProfileByDayInRange(q, d), DailyCap(q))
InPeriod(p, at) == PeriodStart(p, at)..PeriodEnd(p, at)
Recount(p, at, q) == SumDays([d \in Days |-> IF d \in InPeriod(p, at) THEN Capped(q, d) ELSE 0])
CountAnswers(p) ==
    /\ tool = NoTool /\ rebuilds < MaxRebuilds /\ rebuilds' = rebuilds + 1
    /\ tool' = [pc |-> "counted", period |-> p, on |-> today,
                total |-> [q \in Players |-> Recount(p, today, q)]]
    /\ doubled' = [k \in Keys |-> [q \in Players |->
                     IF k = RedisKey(p, today)
                     THEN doubled[k][q] + Cardinality({r \in Requests : rq[r] # NoRq /\ rq[r].who = q})
                     ELSE doubled[k][q]]]
    /\ UNCHANGED <<today, answers, board, paying, rq>>
(* DEL and the ZADDs go in one pipeline.                                    *)
RebuildPeriod ==
    /\ tool.pc = "counted"
    /\ board' = [board EXCEPT ![RedisKey(tool.period, tool.on)] = tool.total]
    /\ tool' = NoTool
    /\ UNCHANGED <<today, answers, paying, rq, rebuilds, doubled>>

LoseRedis ==
    /\ board' = [k \in Keys |-> [q \in Players |-> 0]]
    /\ UNCHANGED <<today, answers, paying, rq, tool, rebuilds, doubled>>
NextDay ==
    /\ today < MaxDay /\ today' = today + 1
    /\ UNCHANGED <<answers, board, paying, rq, tool, rebuilds, doubled>>

LeaderNext ==
    \/ \E r \in Requests : \/ \E q \in Players : AnswerCorrectly(r, q)
                           \/ ReadPoints(r) \/ RecordPoint(r) \/ LosePoint(r)
    \/ \E p \in AllPeriods : CountAnswers(p)
    \/ RebuildPeriod \/ LoseRedis \/ NextDay
LeaderSpec == LeaderInit /\ [][LeaderNext]_leaderVars

-----------------------------------------------------------------------------
(* What the leaderboard lists: the first TopN by points.                    *)
Ranked(k) == {q \in Players : board[k][q] > 0}
YouRank(k, q) == 1 + Cardinality({o \in Ranked(k) : board[k][o] > board[k][q]})
GetLeaderboard(k) == {q \in Ranked(k) : YouRank(k, q) <= TopN}

(* Racing writers lose points; they never invent them.  An answer counts    *)
(* twice only when a rebuild falls between its commit and its own point,    *)
(* and for another day only when midnight does.                             *)
PointsEarned ==
    \A q \in Players :
        /\ \A d \in Days : board[d][q] <= answers[q][d] + doubled[d][q]
        /\ board[0][q] <= Total(q) + doubled[0][q]
(* No day's points pass the player's cap, rebuilt or recorded.              *)
CapHolds == \A q \in Players, d \in Days : board[d][q] <= DailyCap(q)
(* A classroom station is never ranked, whatever filled the board.          *)
StationsUnranked == \A k \in Keys : GetLeaderboard(k) \cap Stations = {}
(* What the leaderboard promises.                                           *)
LeaderInv == PointsEarned /\ CapHolds /\ StationsUnranked
=============================================================================
