---------------------------- MODULE ServiceProofs ----------------------------
(***************************************************************************)
(* What runs in the background: the evening reminder, the quiz of a chat,  *)
(* the sockets of the support chat, web push, the updates of a classroom   *)
(* PC and its reports, each for any number of users, handlers, sockets,    *)
(* deliveries, builds and reports.                                         *)
(***************************************************************************)
EXTENDS MCService, FiniteSetTheorems, SequenceTheorems, WellFoundedInduction, TLAPS

-----------------------------------------------------------------------------
(***************************************************************************)
(* The evening's reminder, for any processes and users, any breaker and    *)
(* any number of crashes, lost locks, timeouts and changes of mind.        *)
(*                                                                         *)
(* The advisory lock is no part of the argument: a pass goes on after its  *)
(* session has lost it.  What carries it is the claim.  A pass between its *)
(* claim and the first message is the only one that holds that user, and   *)
(* the user has no copy but those of attempts whose answer broke off       *)
(* (Claims); a claim is handed back only from there.  The question is      *)
(* settled by the row of the day: a pass sends the recorded question, or   *)
(* one that no longer fits a poll (Picks), because the row is only ever    *)
(* replaced when its question is unfit.                                    *)
(***************************************************************************)
\* 0 stands for no process, no question and no user.
EveningConstants == 0 \notin Procs

UserRow == [on : BOOLEAN, blocked : BOOLEAN, gone : BOOLEAN, claimed : BOOLEAN,
            pitched : BOOLEAN, moved : BOOLEAN]
PassPc == {"idle", "count", "record", "winner", "loop", "lookup", "first", "second", "mark",
           "release"}
PassRow == [pc : PassPc, to : Users \cup {0}, pick : {0, 1, 2}, unc : Nat, tries : Nat,
            line : BOOLEAN, done : BOOLEAN]
GotRow == [told : {0, 1}, lost : Nat]

Addressed == {"lookup", "first", "second", "mark", "release"}
Chosen == Addressed \cup {"loop"}
\* Claimed, and nothing sent yet.
Holding == {"lookup", "first", "release"}

EveningTypes ==
    /\ users \in [Users -> UserRow] /\ pass \in [Procs -> PassRow]
    /\ got \in [Users -> GotRow] /\ asked \in [Users -> {0, 1, 2}]
    /\ daily \in {0, 1, 2} /\ usable \subseteq {1, 2} /\ lock \in Procs \cup {0}
    /\ \A r \in Procs : pass[r].pc \in Addressed => pass[r].to \in Users

Holds(r, x) == pass[r].pc \in Holding /\ pass[r].to = x
Bundle(x) ==
    /\ \A r \in Procs : Holds(r, x) => users[x].claimed /\ got[x].told = 0
    /\ \A r, s \in Procs : Holds(r, x) /\ Holds(s, x) => r = s
    /\ \A r \in Procs : pass[r].pc = "second" /\ pass[r].to = x => got[x].told = 1
    /\ ~users[x].claimed => got[x].told = 0
    /\ users[x].pitched => got[x].told = 1
Claims == \A x \in Users : Bundle(x)

PickOK(n) ==
    /\ n.pc = "record" => n.pick \notin usable /\ (n.pick # 0 => daily # 0)
    /\ n.pc = "winner" => daily # 0 /\ n.pick # 0
    /\ n.pc \in Chosen => n.pick # 0 /\ (n.pick = daily \/ n.pick \notin usable)
Picks ==
    /\ \A r \in Procs : PickOK(pass[r])
    /\ \A x \in Users : asked[x] # 0 => asked[x] = daily \/ asked[x] \notin usable

LockOK == \A r \in Procs : lock = r => pass[r].pc # "idle"

EveningIInv == EveningTypes /\ Claims /\ Picks /\ LockOK

LEMMA EveningImplies ==
    ASSUME EveningIInv
    PROVE  ReminderInv
<1>1. EveningTypes /\ Claims /\ Picks /\ LockOK
  BY DEF EveningIInv
<1>2. ReminderTypeOK
  BY <1>1 DEF EveningTypes, GotRow, PassRow, PassPc, ReminderTypeOK, Questions, Nobody
<1>3. \A x \in Users : got[x].told <= 1 /\ (users[x].pitched => got[x].told = 1)
  <2>1. \A x \in Users : got[x].told \in {0, 1} /\ (users[x].pitched => got[x].told = 1)
    BY <1>1 DEF EveningTypes, GotRow, Claims, Bundle
  <2>2. \A x \in Users : got[x].told <= 1
    BY <2>1
  <2>3. QED
    BY <2>1, <2>2
<1>4. ASSUME NEW x \in Users, NEW y \in Users, asked[x] # 0, asked[y] # 0, asked[x] # asked[y],
             {asked[x], asked[y]} \subseteq usable
      PROVE  FALSE
  BY <1>1, <1>4 DEF Picks
<1>5. QED
  BY <1>1, <1>2, <1>3, <1>4 DEF LockOK, ReminderInv

-----------------------------------------------------------------------------
(* A pass moves to the row n.                                              *)

LEMMA PassMoves ==
    ASSUME EveningTypes, NEW r \in Procs, NEW n \in PassRow, n.pc \in Addressed => n.to \in Users,
           pass' = [pass EXCEPT ![r] = n]
    PROVE  /\ pass' \in [Procs -> PassRow] /\ pass'[r] = n
           /\ \A s \in Procs : s # r => pass'[s] = pass[s]
           /\ \A s \in Procs : pass'[s].pc \in Addressed => pass'[s].to \in Users
  BY DEF EveningTypes

LEMMA LockKept ==
    ASSUME EveningIInv, NEW r \in Procs, NEW n \in PassRow, n.pc \in Addressed => n.to \in Users,
           pass' = [pass EXCEPT ![r] = n], EveningConstants,
           \/ lock' = lock /\ (lock = r => n.pc # "idle")
           \/ lock' = r /\ n.pc # "idle"
           \/ lock' = IF lock = r THEN 0 ELSE lock
    PROVE  LockOK' /\ lock' \in Procs \cup {0}
<1>1. EveningTypes /\ LockOK /\ 0 \notin Procs /\ lock \in Procs \cup {0}
  BY DEF EveningIInv, EveningTypes, EveningConstants
<1>2. pass'[r] = n /\ \A s \in Procs : s # r => pass'[s] = pass[s]
  BY <1>1, PassMoves
<1>3. QED
  BY <1>1, <1>2 DEF LockOK

LEMMA PicksKept ==
    ASSUME EveningIInv, NEW r \in Procs, NEW n \in PassRow, n.pc \in Addressed => n.to \in Users,
           pass' = [pass EXCEPT ![r] = n],
           PickOK(n), UNCHANGED <<daily, usable>>,
           \A x \in Users : asked'[x] = asked[x] \/ (asked'[x] = n.pick /\ n.pc \in Chosen)
    PROVE  Picks'
<1>1. EveningTypes /\ Picks
  BY DEF EveningIInv
<1>2. pass'[r] = n /\ \A s \in Procs : s # r => pass'[s] = pass[s]
  BY <1>1, PassMoves
<1>3. \A s \in Procs : PickOK(pass[s])'
  BY <1>1, <1>2 DEF Picks, PickOK
<1>4. \A x \in Users : asked'[x] # 0 => asked'[x] = daily \/ asked'[x] \notin usable
  BY <1>1 DEF Picks, PickOK
<1>5. QED
  BY <1>3, <1>4 DEF Picks

LEMMA ClaimsKept ==
    ASSUME EveningIInv, NEW r \in Procs, NEW n \in PassRow, n.pc \in Addressed => n.to \in Users,
           pass' = [pass EXCEPT ![r] = n], \A x \in Users : got'[x].told = got[x].told,
           \A x \in Users : /\ users'[x].claimed = users[x].claimed
                            /\ users'[x].pitched => users[x].pitched \/ got[x].told = 1,
           n.pc \in Holding => pass[r].pc \in Holding /\ n.to = pass[r].to,
           n.pc # "second"
    PROVE  Claims'
<1>1. EveningTypes /\ Claims
  BY DEF EveningIInv
<1>2. pass'[r] = n /\ \A s \in Procs : s # r => pass'[s] = pass[s]
  BY <1>1, PassMoves
<1>3. SUFFICES ASSUME NEW x \in Users PROVE Bundle(x)'
  BY DEF Claims
<1>4. Bundle(x)
  BY <1>1 DEF Claims
<1>5. \A s \in Procs : Holds(s, x)' => Holds(s, x)
  BY <1>2 DEF Holds
<1>6. \A s \in Procs : pass'[s].pc = "second" /\ pass'[s].to = x => got[x].told = 1
  BY <1>2, <1>4 DEF Bundle
<1>7. got'[x].told = got[x].told
  OBVIOUS
<1>8. QED
  BY <1>4, <1>5, <1>6, <1>7 DEF Bundle

\* Everything but a claim, a message that lands, a claim handed back and a
\* recorded question.
LEMMA QuietPass ==
    ASSUME EveningConstants, EveningIInv,
           NEW r \in Procs, NEW n \in PassRow, n.pc \in Addressed => n.to \in Users,
           pass' = [pass EXCEPT ![r] = n], UNCHANGED <<got, asked, daily, usable>>,
           users' \in [Users -> UserRow],
           \A x \in Users : /\ users'[x].claimed = users[x].claimed
                            /\ users'[x].pitched => users[x].pitched \/ got[x].told = 1,
           n.pc \in Holding => pass[r].pc \in Holding /\ n.to = pass[r].to,
           n.pc # "second", PickOK(n),
           \/ lock' = lock /\ (lock = r => n.pc # "idle")
           \/ lock' = r /\ n.pc # "idle"
           \/ lock' = IF lock = r THEN 0 ELSE lock
    PROVE  EveningIInv'
<1>1. Claims'
  <2>1. \A x \in Users : got'[x].told = got[x].told
    OBVIOUS
  <2>2. QED
    BY <2>1, ClaimsKept
<1>2. Picks'
  BY PicksKept
<1>3. LockOK' /\ lock' \in Procs \cup {0}
  BY LockKept
<1>4. EveningTypes
  BY DEF EveningIInv
<1>5. /\ pass' \in [Procs -> PassRow]
      /\ \A s \in Procs : pass'[s].pc \in Addressed => pass'[s].to \in Users
  BY <1>4, PassMoves
<1>6. EveningTypes'
  BY <1>3, <1>4, <1>5 DEF EveningTypes
<1>7. QED
  BY <1>1, <1>2, <1>3, <1>6 DEF EveningIInv

LEMMA EndsPass ==
    ASSUME EveningConstants, EveningIInv, NEW r \in Procs, NEW d \in BOOLEAN,
           EndPass(r, d), UNCHANGED <<got, asked, daily, usable>>,
           users' \in [Users -> UserRow],
           \A x \in Users : /\ users'[x].claimed = users[x].claimed
                            /\ users'[x].pitched => users[x].pitched \/ got[x].told = 1
    PROVE  EveningIInv'
<1> DEFINE n == [NoPass EXCEPT !.done = d]
<1>1. n \in PassRow /\ n.pc = "idle"
  BY DEF NoPass, Nobody, PassRow, PassPc
<1>2. pass' = [pass EXCEPT ![r] = n] /\ lock' = IF lock = r THEN 0 ELSE lock
  BY DEF EndPass, Nobody
<1> HIDE DEF n
<1>3. PickOK(n)
  BY <1>1 DEF PickOK, Chosen, Addressed
<1>4. n.pc \notin Addressed /\ n.pc \notin Holding /\ n.pc # "second"
  BY <1>1 DEF Addressed, Holding
<1>5. QED
  BY <1>1, <1>2, <1>3, <1>4, QuietPass

LEMMA GoesOn ==
    ASSUME EveningConstants, EveningIInv,
           NEW r \in Procs, NEW n \in PassRow, n.pc \in Addressed => n.to \in Users,
           pass' = [pass EXCEPT ![r] = n], UNCHANGED <<users, got, asked, daily, usable, lock>>,
           n.pc \in Holding => pass[r].pc \in Holding /\ n.to = pass[r].to,
           n.pc # "second", n.pc # "idle", PickOK(n)
    PROVE  EveningIInv'
<1>1. users' \in [Users -> UserRow]
  BY DEF EveningIInv, EveningTypes
<1>2. \A x \in Users : /\ users'[x].claimed = users[x].claimed
                       /\ users'[x].pitched => users[x].pitched \/ got[x].told = 1
  OBVIOUS
<1>3. QED
  BY <1>1, <1>2, QuietPass

LEMMA PassEnds ==
    ASSUME EveningConstants, EveningIInv, NEW r \in Procs, NEW d \in BOOLEAN,
           EndPass(r, d), UNCHANGED <<users, got, asked, daily, usable>>
    PROVE  EveningIInv'
<1>1. users' \in [Users -> UserRow]
  BY DEF EveningIInv, EveningTypes
<1>2. \A x \in Users : /\ users'[x].claimed = users[x].claimed
                       /\ users'[x].pitched => users[x].pitched \/ got[x].told = 1
  OBVIOUS
<1>3. QED
  BY <1>1, <1>2, EndsPass

-----------------------------------------------------------------------------
(* Users, editors and the clock.                                           *)

LEMMA UsersChange ==
    ASSUME EveningIInv, users' \in [Users -> UserRow],
           \A x \in Users : /\ users'[x].claimed = users[x].claimed
                            /\ users'[x].pitched = users[x].pitched,
           UNCHANGED <<got, asked, daily, usable, lock, pass>>
    PROVE  EveningIInv'
<1>1. EveningTypes /\ Claims /\ Picks /\ LockOK
  BY DEF EveningIInv
<1>2. EveningTypes'
  BY <1>1 DEF EveningTypes
<1>3. Claims'
  BY <1>1 DEF Claims, Bundle, Holds
<1>4. Picks'
  BY <1>1 DEF Picks, PickOK
<1>5. LockOK'
  BY <1>1 DEF LockOK
<1>6. QED
  BY <1>2, <1>3, <1>4, <1>5 DEF EveningIInv

LEMMA EditUser ==
    ASSUME EveningIInv, NEW x \in Users, NEW n \in UserRow,
           n.claimed = users[x].claimed, n.pitched = users[x].pitched,
           users' = [users EXCEPT ![x] = n],
           UNCHANGED <<got, asked, daily, usable, lock, pass>>
    PROVE  EveningIInv'
<1>1. users \in [Users -> UserRow]
  BY DEF EveningIInv, EveningTypes
<1>2. users' \in [Users -> UserRow] /\ users'[x] = n
  BY <1>1
<1>3. \A y \in Users : y # x => users'[y] = users[y]
  BY <1>1
<1>4. \A y \in Users : users'[y].claimed = users[y].claimed /\ users'[y].pitched = users[y].pitched
  BY <1>2, <1>3
<1>5. QED
  BY <1>2, <1>4, UsersChange

LEMMA UserKeeps ==
    ASSUME EveningIInv, NEW x \in Users,
           \/ handleEslatma(x) \/ handleReminderOff(x) \/ Blocks(x)
           \/ trackPrivateUser(x) \/ trackPrivateMembership(x)
    PROVE  EveningIInv'
<1>1. users \in [Users -> UserRow] /\ users[x] \in UserRow
  BY DEF EveningIInv, EveningTypes
<1>2. UNCHANGED <<got, asked, daily, usable, lock, pass>>
  BY DEF handleEslatma, handleReminderOff, Blocks, UserDoes,
         trackPrivateUser, trackPrivateMembership
<1>3. CASE handleEslatma(x)
  <2> DEFINE n == [users[x] EXCEPT !.on = ~users[x].on, !.moved = TRUE]
  <2>1. users' = [users EXCEPT ![x] = n]
    BY <1>3 DEF handleEslatma, UserDoes, ToggleTelegramReminders
  <2>2. n \in UserRow /\ n.claimed = users[x].claimed /\ n.pitched = users[x].pitched
    BY <1>1 DEF UserRow
  <2>3. QED
    BY <1>2, <2>1, <2>2, EditUser
<1>4. CASE handleReminderOff(x)
  <2> DEFINE n == [users[x] EXCEPT !.on = FALSE, !.moved = TRUE]
  <2>1. users' = [users EXCEPT ![x] = n]
    BY <1>4 DEF handleReminderOff, UserDoes, DisableTelegramReminders
  <2>2. n \in UserRow /\ n.claimed = users[x].claimed /\ n.pitched = users[x].pitched
    BY <1>1 DEF UserRow
  <2>3. QED
    BY <1>2, <2>1, <2>2, EditUser
<1>5. CASE Blocks(x)
  <2> DEFINE n == [users[x] EXCEPT !.gone = TRUE, !.moved = TRUE]
  <2>1. users' = [users EXCEPT ![x] = n]
    BY <1>5 DEF Blocks, UserDoes
  <2>2. n \in UserRow /\ n.claimed = users[x].claimed /\ n.pitched = users[x].pitched
    BY <1>1 DEF UserRow
  <2>3. QED
    BY <1>2, <2>1, <2>2, EditUser
<1>6. CASE trackPrivateUser(x)
  <2> DEFINE n == [users[x] EXCEPT !.blocked = FALSE, !.gone = FALSE, !.moved = TRUE]
  <2>1. users' = [users EXCEPT ![x] = n]
    BY <1>6 DEF trackPrivateUser, UpsertTelegramBotUser
  <2>2. n \in UserRow /\ n.claimed = users[x].claimed /\ n.pitched = users[x].pitched
    BY <1>1 DEF UserRow
  <2>3. QED
    BY <1>2, <2>1, <2>2, EditUser
<1>7. CASE trackPrivateMembership(x)
  <2> DEFINE n == [users[x] EXCEPT !.blocked = TRUE]
  <2>1. users' = [users EXCEPT ![x] = n]
    BY <1>7 DEF trackPrivateMembership, MarkTelegramBotUserBlocked
  <2>2. n \in UserRow /\ n.claimed = users[x].claimed /\ n.pitched = users[x].pitched
    BY <1>1 DEF UserRow
  <2>3. QED
    BY <1>2, <2>1, <2>2, EditUser
<1>8. QED
  BY <1>3, <1>4, <1>5, <1>6, <1>7

LEMMA UnfitKeeps ==
    ASSUME EveningIInv, NEW q \in Questions, Unfit(q)
    PROVE  EveningIInv'
<1>1. EveningTypes /\ Claims /\ Picks /\ LockOK
  BY DEF EveningIInv
<1>2. usable' = usable \ {q} /\ UNCHANGED <<users, got, asked, daily, lock, pass>>
  BY DEF Unfit
<1>3. EveningTypes'
  BY <1>1, <1>2 DEF EveningTypes
<1>4. Claims' /\ LockOK'
  BY <1>1, <1>2 DEF Claims, Bundle, Holds, LockOK
<1>5. Picks'
  BY <1>1, <1>2 DEF Picks, PickOK
<1>6. QED
  BY <1>3, <1>4, <1>5 DEF EveningIInv

LEMMA LockLost ==
    ASSUME EveningConstants, EveningIInv, lock' \in {lock, 0},
           UNCHANGED <<users, got, asked, daily, usable, pass>>
    PROVE  EveningIInv'
<1>1. EveningTypes /\ Claims /\ Picks /\ LockOK
  BY DEF EveningIInv
<1>2. EveningTypes'
  BY <1>1 DEF EveningTypes
<1>3. Claims' /\ Picks'
  BY <1>1 DEF Claims, Bundle, Holds, Picks, PickOK
<1>4. LockOK'
  BY <1>1 DEF LockOK, EveningConstants
<1>5. QED
  BY <1>2, <1>3, <1>4 DEF EveningIInv

-----------------------------------------------------------------------------
(* The pass up to the question.                                            *)

LEMMA TickKeeps ==
    ASSUME EveningConstants, EveningIInv, NEW r \in Procs, Tick(r)
    PROVE  EveningIInv'
<1> DEFINE n == [pass[r] EXCEPT !.pc = "count"]
<1>1. /\ pass' = [pass EXCEPT ![r] = n] /\ lock' = r
      /\ UNCHANGED <<users, got, asked, daily, usable>>
  BY DEF Tick, Goto
<1>2. pass[r] \in PassRow /\ users \in [Users -> UserRow]
  BY DEF EveningIInv, EveningTypes
<1>3. n \in PassRow /\ n.pc = "count"
  BY <1>2 DEF PassRow, PassPc
<1> HIDE DEF n
<1>4. PickOK(n) /\ n.pc \notin Addressed /\ n.pc \notin Holding /\ n.pc # "second" /\ n.pc # "idle"
  BY <1>3 DEF PickOK, Chosen, Addressed, Holding
<1>5. /\ users' \in [Users -> UserRow]
      /\ \A x \in Users : /\ users'[x].claimed = users[x].claimed
                          /\ users'[x].pitched => users[x].pitched \/ got[x].told = 1
  BY <1>1, <1>2
<1>6. QED
  BY <1>1, <1>3, <1>4, <1>5, QuietPass

LEMMA SettleKeeps ==
    ASSUME EveningConstants, EveningIInv, NEW r \in Procs,
           NEW pc \in {"loop", "record", "winner"}, NEW q \in {0, 1, 2},
           pass' = [pass EXCEPT ![r] = [@ EXCEPT !.pc = pc, !.pick = q]],
           UNCHANGED <<users, got, asked, daily, usable, lock>>,
           \A n \in PassRow : n.pc = pc /\ n.pick = q => PickOK(n)
    PROVE  EveningIInv'
<1> DEFINE n == [pass[r] EXCEPT !.pc = pc, !.pick = q]
<1>1. pass' = [pass EXCEPT ![r] = n]
  OBVIOUS
<1>2. pass[r] \in PassRow
  BY DEF EveningIInv, EveningTypes
<1>3. n \in PassRow /\ n.pc = pc /\ n.pick = q
  BY <1>2 DEF PassRow, PassPc
<1> HIDE DEF n
<1>4. PickOK(n) /\ n.pc \notin Addressed /\ n.pc \notin Holding /\ n.pc # "second" /\ n.pc # "idle"
  BY <1>3 DEF Addressed, Holding
<1>5. QED
  BY <1>1, <1>3, <1>4, GoesOn

LEMMA DailyQuestionKeeps ==
    ASSUME EveningConstants, EveningIInv, NEW r \in Procs, dailyQuestion(r)
    PROVE  EveningIInv'
<1>1. /\ UNCHANGED <<users, got, asked, daily, usable>> /\ daily \in {0, 1, 2} /\ usable \subseteq {1, 2}
  BY DEF dailyQuestion, EveningIInv, EveningTypes
<1> DEFINE to(pc) == pass' = [pass EXCEPT ![r] = [@ EXCEPT !.pc = pc, !.pick = daily]]
<1>2. \/ EndPass(r, TRUE)
      \/ daily \in usable /\ to("loop") /\ UNCHANGED lock
      \/ daily \notin usable /\ to("record") /\ UNCHANGED lock
  BY Zenon DEF dailyQuestion
<1>3. CASE EndPass(r, TRUE)
  BY <1>1, <1>3, PassEnds
<1>4. CASE daily \in usable /\ to("loop") /\ UNCHANGED lock
  <2>1. \A n \in PassRow : n.pc = "loop" /\ n.pick = daily => PickOK(n)
    BY <1>1, <1>4 DEF PickOK
  <2>2. QED
    BY <1>1, <1>4, <2>1, SettleKeeps
<1>5. CASE daily \notin usable /\ to("record") /\ UNCHANGED lock
  <2>1. \A n \in PassRow : n.pc = "record" /\ n.pick = daily => PickOK(n)
    BY <1>1, <1>5 DEF PickOK, Chosen, Addressed
  <2>2. QED
    BY <1>1, <1>5, <2>1, SettleKeeps
<1>6. QED
  BY <1>2, <1>3, <1>4, <1>5

\* The row of the day is set once, and replaced only when it is unfit.
LEMMA RecordKeeps ==
    ASSUME EveningConstants, EveningIInv, NEW r \in Procs, recordDailyQuestion(r)
    PROVE  EveningIInv'
<1>1. /\ EveningTypes /\ Claims /\ Picks /\ LockOK /\ pass[r].pc = "record"
      /\ UNCHANGED <<users, got, asked, usable>>
  BY DEF EveningIInv, recordDailyQuestion
<1>2. CASE usable = {}
  <2>1. EndPass(r, TRUE) /\ UNCHANGED daily
    BY <1>2 DEF recordDailyQuestion, previewQuestion
  <2>2. QED
    BY <1>1, <2>1, PassEnds
<1>3. CASE usable # {}
  <2>1. PICK q \in usable :
          /\ daily' = IF pass[r].pick = 0 THEN InsertDailyQuestion(q)
                      ELSE ReplaceDailyQuestion(pass[r].pick, q)
          /\ pass' = [pass EXCEPT ![r] = [@ EXCEPT !.pc = "winner", !.pick = q]]
          /\ UNCHANGED lock
    BY <1>3 DEF recordDailyQuestion, previewQuestion
  <2>2. q \in {1, 2} /\ pass[r] \in PassRow /\ PickOK(pass[r])
    BY <1>1 DEF EveningTypes, Picks
  <2>3. daily' \in {1, 2} /\ (daily' = daily \/ daily \notin usable)
    BY <1>1, <2>1, <2>2 DEF EveningTypes, PickOK, InsertDailyQuestion, ReplaceDailyQuestion
  <2> DEFINE n == [pass[r] EXCEPT !.pc = "winner", !.pick = q]
  <2>4. pass' = [pass EXCEPT ![r] = n]
    BY <2>1
  <2>5. n \in PassRow /\ n.pc = "winner" /\ n.pick = q
    BY <2>2 DEF PassRow, PassPc
  <2> HIDE DEF n
  <2>6. n.pc \notin Addressed /\ n.pc \notin Holding /\ n.pc # "second" /\ n.pc # "idle"
    BY <2>5 DEF Addressed, Holding
  <2>7. Claims'
    <3>1. \A x \in Users : /\ users'[x].claimed = users[x].claimed
                           /\ users'[x].pitched => users[x].pitched \/ got[x].told = 1
                           /\ got'[x].told = got[x].told
      BY <1>1
    <3>2. QED
      BY <1>1, <2>4, <2>5, <2>6, <3>1, ClaimsKept
  <2>8. LockOK' /\ lock' \in Procs \cup {0}
    BY <2>1, <2>4, <2>5, <2>6, LockKept
  <2>9. /\ pass' \in [Procs -> PassRow] /\ pass'[r] = n /\ \A s \in Procs : s # r => pass'[s] = pass[s]
        /\ \A s \in Procs : pass'[s].pc \in Addressed => pass'[s].to \in Users
    BY <1>1, <2>4, <2>5, <2>6, PassMoves
  <2>10. EveningTypes'
    BY <1>1, <2>3, <2>8, <2>9 DEF EveningTypes
  <2>11. Picks'
    <3>1. PickOK(pass[r])'
      BY <2>2, <2>3, <2>5, <2>9 DEF PickOK, Chosen, Addressed
    <3>2. ASSUME NEW s \in Procs, s # r PROVE PickOK(pass[s])'
      <4>1. pass'[s] = pass[s] /\ usable' = usable /\ daily' # 0 /\ PickOK(pass[s])
        BY <1>1, <2>3, <2>9, <3>2 DEF Picks
      <4>2. QED
        BY <2>3, <4>1 DEF PickOK
    <3>3. \A s \in Procs : PickOK(pass[s])'
      BY <3>1, <3>2
    <3>4. \A x \in Users : asked'[x] # 0 => asked'[x] = daily' \/ asked'[x] \notin usable'
      BY <1>1, <2>3 DEF Picks
    <3>5. QED
      BY <3>3, <3>4 DEF Picks
  <2>12. QED
    BY <2>7, <2>8, <2>10, <2>11 DEF EveningIInv
<1>4. QED
  BY <1>2, <1>3

LEMMA WinnerKeeps ==
    ASSUME EveningConstants, EveningIInv, NEW r \in Procs, UseTheWinner(r)
    PROVE  EveningIInv'
<1>1. /\ UNCHANGED <<users, got, asked, daily, usable>> /\ daily \in {0, 1, 2}
      /\ pass[r].pc = "winner" /\ PickOK(pass[r])
  BY DEF UseTheWinner, EveningIInv, EveningTypes, Picks
<1>2. daily # 0
  BY <1>1 DEF PickOK
<1>3. \/ EndPass(r, FALSE)
      \/ pass' = [pass EXCEPT ![r] = [@ EXCEPT !.pc = "loop", !.pick = daily]] /\ UNCHANGED lock
  BY DEF UseTheWinner, Winner
<1>4. \A n \in PassRow : n.pc = "loop" /\ n.pick = daily => PickOK(n)
  BY <1>2 DEF PickOK
<1>5. QED
  BY <1>1, <1>3, <1>4, PassEnds, SettleKeeps

-----------------------------------------------------------------------------
(* The loop.                                                               *)

LEMMA ClaimKeeps ==
    ASSUME EveningConstants, EveningIInv, NEW r \in Procs, Claim(r)
    PROVE  EveningIInv'
<1>1. /\ EveningTypes /\ Claims /\ Picks /\ pass[r].pc = "loop"
      /\ UNCHANGED <<got, asked, daily, usable>>
  BY DEF EveningIInv, Claim
<1>2. CASE Pending = {}
  <2>1. EndPass(r, TRUE) /\ UNCHANGED users
    BY <1>2 DEF Claim
  <2>2. QED
    BY <1>1, <2>1, PassEnds
<1>3. CASE Pending # {}
  <2>1. PICK x \in Pending :
          /\ users' = ClaimTelegramReminderRecipient(x)
          /\ pass' = [pass EXCEPT ![r] = [@ EXCEPT !.pc = "lookup", !.to = x]]
          /\ UNCHANGED lock
    BY <1>3 DEF Claim
  <2>2. /\ x \in Users /\ ~users[x].claimed /\ users[x] \in UserRow /\ pass[r] \in PassRow
        /\ PickOK(pass[r])
    BY <1>1 DEF Pending, EveningTypes, Picks
  <2> DEFINE n == [pass[r] EXCEPT !.pc = "lookup", !.to = x]
             v == [users[x] EXCEPT !.claimed = TRUE]
  <2>3. n \in PassRow /\ n.pc = "lookup" /\ n.pick = pass[r].pick /\ n.to = x
    BY <2>2 DEF PassRow, PassPc
  <2>4. v \in UserRow /\ v.claimed = TRUE /\ v.pitched = users[x].pitched
    BY <2>2 DEF UserRow
  <2>5. pass' = [pass EXCEPT ![r] = n] /\ users' = [users EXCEPT ![x] = v]
    BY <2>1 DEF ClaimTelegramReminderRecipient
  <2> HIDE DEF n, v
  <2>6. PickOK(n)
    BY <1>1, <2>2, <2>3 DEF PickOK, Chosen, Addressed
  <2>7. LockOK' /\ lock' \in Procs \cup {0}
    BY <2>1, <2>2, <2>3, <2>5, LockKept
  <2>8. Picks'
    BY <1>1, <2>2, <2>3, <2>5, <2>6, PicksKept
  <2>9. /\ pass' \in [Procs -> PassRow] /\ pass'[r] = n /\ \A s \in Procs : s # r => pass'[s] = pass[s]
        /\ \A s \in Procs : pass'[s].pc \in Addressed => pass'[s].to \in Users
    BY <1>1, <2>2, <2>3, <2>5, PassMoves
  <2>10. /\ users' \in [Users -> UserRow] /\ users'[x] = v
         /\ \A y \in Users : y # x => users'[y] = users[y]
    BY <1>1, <2>2, <2>4, <2>5 DEF EveningTypes
  <2>11. EveningTypes'
    BY <1>1, <2>7, <2>9, <2>10 DEF EveningTypes
  <2>12. ASSUME NEW y \in Users PROVE Bundle(y)'
    <3>1. Bundle(y)
      BY <1>1 DEF Claims
    <3>2. CASE y = x
      <4>1. \A s \in Procs : ~Holds(s, x)
        BY <2>2, <3>1, <3>2 DEF Bundle
      <4>2. \A s \in Procs : Holds(s, x)' => s = r
        BY <2>9, <4>1 DEF Holds
      <4>3. got[x].told = 0 /\ users'[x].claimed /\ (users'[x].pitched => users[x].pitched)
        BY <2>2, <2>4, <2>10, <3>1, <3>2 DEF Bundle
      <4>4. \A s \in Procs : pass'[s].pc = "second" /\ pass'[s].to = x => got[x].told = 1
        BY <2>3, <2>9, <3>1, <3>2 DEF Bundle
      <4>5. QED
        BY <1>1, <3>1, <3>2, <4>2, <4>3, <4>4 DEF Bundle
    <3>3. CASE y # x
      <4>1. users'[y] = users[y]
        BY <2>10, <3>3
      <4>2. \A s \in Procs : Holds(s, y)' => Holds(s, y)
        BY <2>3, <2>9, <3>3 DEF Holds
      <4>3. \A s \in Procs : pass'[s].pc = "second" /\ pass'[s].to = y => got[y].told = 1
        BY <2>3, <2>9, <3>1 DEF Bundle
      <4>4. QED
        BY <1>1, <3>1, <4>1, <4>2, <4>3 DEF Bundle
    <3>4. QED
      BY <3>2, <3>3
  <2>13. QED
    BY <2>7, <2>8, <2>11, <2>12 DEF EveningIInv, Claims
<1>4. QED
  BY <1>2, <1>3

\* A step to another place with the same user and question.
LEMMA StaysWith ==
    ASSUME EveningIInv, NEW r \in Procs, NEW pc \in Chosen, pass[r].pc \in Chosen,
           pc \in Addressed => pass[r].pc \in Addressed,
           NEW n \in PassRow, n.pc = pc, n.to = pass[r].to, n.pick = pass[r].pick
    PROVE  PickOK(n) /\ (n.pc \in Addressed => n.to \in Users) /\ n.pc # "idle"
<1>1. EveningTypes /\ PickOK(pass[r])
  BY DEF EveningIInv, Picks
<1>2. PickOK(n)
  BY <1>1 DEF PickOK, Chosen, Addressed
<1>3. n.pc \in Addressed => n.to \in Users
  BY <1>1 DEF EveningTypes
<1>4. QED
  BY <1>2, <1>3 DEF Chosen, Addressed

LEMMA LookupKeeps ==
    ASSUME EveningConstants, EveningIInv, NEW r \in Procs, ListTelegramReminderAudience(r)
    PROVE  EveningIInv'
<1> DEFINE pc == IF Eligible(pass[r].to) THEN "first" ELSE "loop"
           n == [pass[r] EXCEPT !.pc = pc, !.tries = 0]
<1>1. /\ pass[r].pc = "lookup" /\ UNCHANGED <<users, got, asked, daily, usable, lock>>
      /\ pass' = [pass EXCEPT ![r] = n]
  BY DEF ListTelegramReminderAudience
<1>2. pass[r] \in PassRow /\ pc \in {"first", "loop"}
  BY DEF EveningIInv, EveningTypes
<1> HIDE DEF pc
<1>3. n \in PassRow /\ n.pc = pc /\ n.to = pass[r].to /\ n.pick = pass[r].pick
  BY <1>2 DEF PassRow, PassPc
<1> HIDE DEF n
<1>4. PickOK(n) /\ (n.pc \in Addressed => n.to \in Users) /\ n.pc # "idle"
  BY <1>1, <1>2, <1>3, StaysWith DEF Chosen, Addressed
<1>5. n.pc # "second" /\ (n.pc \in Holding => pass[r].pc \in Holding /\ n.to = pass[r].to)
  BY <1>1, <1>2, <1>3 DEF Holding
<1>6. QED
  BY <1>1, <1>3, <1>4, <1>5, GoesOn

\* The sign-up pitch is noted for a user whose bundle has arrived.
LEMMA HalfBundleNotes ==
    ASSUME EveningIInv, NEW r \in Procs, pass[r].pc \in Addressed, HalfBundle(r)
    PROVE  /\ users' \in [Users -> UserRow]
           /\ \A x \in Users : /\ users'[x].claimed = users[x].claimed
                               /\ users'[x].pitched => users[x].pitched \/ got[x].told = 1
<1>1. users \in [Users -> UserRow] /\ pass[r].to \in Users /\ Bundle(pass[r].to)
  BY DEF EveningIInv, EveningTypes, Claims
<1>2. CASE pass[r].pc # "second"
  BY <1>1, <1>2 DEF HalfBundle
<1>3. CASE pass[r].pc = "second"
  <2>1. PICK photo \in BOOLEAN : MarkTelegramSignupPitch(r, photo)
    BY <1>3 DEF HalfBundle
  <2> DEFINE x == pass[r].to
             b == users[x].pitched \/ (pass[r].line /\ photo)
             v == [users[x] EXCEPT !.pitched = b]
  <2>2. b \in BOOLEAN /\ users[x] \in UserRow /\ x \in Users
    BY <1>1
  <2>3. users' = [users EXCEPT ![x] = v]
    BY <2>1 DEF MarkTelegramSignupPitch
  <2> HIDE DEF b
  <2>4. v \in UserRow /\ v.claimed = users[x].claimed
    BY <2>2 DEF UserRow
  <2>5. got[x].told = 1
    BY <1>1, <1>3 DEF Bundle
  <2> HIDE DEF v, x
  <2>6. /\ users' \in [Users -> UserRow] /\ users'[x] = v
        /\ \A y \in Users : y # x => users'[y] = users[y]
    BY <1>1, <2>2, <2>3, <2>4
  <2>7. QED
    BY <2>4, <2>5, <2>6
<1>4. QED
  BY <1>2, <1>3

\* The first message has reached the user.
LEMMA LandsKeeps ==
    ASSUME EveningConstants, EveningIInv, NEW r \in Procs, pass[r].pc = "first", Lands(r),
           NEW n \in PassRow, n.pc \in {"second", "loop"}, n.to = pass[r].to, n.pick = pass[r].pick,
           pass' = [pass EXCEPT ![r] = n], UNCHANGED <<users, daily, usable, lock>>
    PROVE  EveningIInv'
<1>1. EveningTypes /\ Claims /\ Picks
  BY DEF EveningIInv
<1> DEFINE x == pass[r].to
<1>2. x \in Users /\ Bundle(x)
  BY <1>1 DEF EveningTypes, Claims, Addressed
<1>3. Holds(r, x) /\ got[x].told = 0 /\ users[x].claimed
  BY <1>2 DEF Bundle, Holds, Holding
<1>4. got' = [got EXCEPT ![x].told = 1] /\ asked' = [asked EXCEPT ![x] = n.pick]
  <2>1. got' = [got EXCEPT ![x].told = got[x].told + 1] /\ asked' = [asked EXCEPT ![x] = n.pick]
    BY DEF Lands
  <2>2. got[x].told + 1 = 1
    BY <1>3
  <2>3. QED
    BY <2>1, <2>2
<1> HIDE DEF x
<1>5. /\ got' \in [Users -> GotRow] /\ got'[x].told = 1 /\ \A y \in Users : y # x => got'[y] = got[y]
      /\ asked' \in [Users -> {0, 1, 2}]
      /\ \A y \in Users : asked'[y] = asked[y] \/ asked'[y] = n.pick
  BY <1>1, <1>2, <1>4 DEF EveningTypes, GotRow, PassRow
<1>6. PickOK(n) /\ (n.pc \in Addressed => n.to \in Users) /\ n.pc # "idle" /\ n.pc \in Chosen
  BY StaysWith DEF Chosen, Addressed
<1>7. LockOK' /\ lock' \in Procs \cup {0}
  BY <1>6, LockKept
<1>8. Picks'
  BY <1>5, <1>6, PicksKept
<1>9. /\ pass' \in [Procs -> PassRow] /\ pass'[r] = n /\ \A s \in Procs : s # r => pass'[s] = pass[s]
      /\ \A s \in Procs : pass'[s].pc \in Addressed => pass'[s].to \in Users
  BY <1>1, <1>6, PassMoves
<1>10. EveningTypes'
  BY <1>1, <1>5, <1>7, <1>9 DEF EveningTypes
<1>11. ASSUME NEW y \in Users PROVE Bundle(y)'
  <2>1. Bundle(y)
    BY <1>1 DEF Claims
  <2>2. \A s \in Procs : Holds(s, y)' => s # r /\ Holds(s, y)
    BY <1>9 DEF Holds, Holding
  <2>3. CASE y = x
    <3>1. \A s \in Procs : ~Holds(s, y)'
      BY <1>3, <2>1, <2>2, <2>3 DEF Bundle
    <3>2. QED
      BY <1>3, <1>5, <2>3, <3>1 DEF Bundle
  <2>4. CASE y # x
    <3>1. got'[y] = got[y]
      BY <1>5, <2>4
    <3>2. \A s \in Procs : pass'[s].pc = "second" /\ pass'[s].to = y => got[y].told = 1
      BY <1>9, <2>1, <2>4 DEF Bundle, x
    <3>3. QED
      BY <2>1, <2>2, <3>1, <3>2 DEF Bundle
  <2>5. QED
    BY <2>3, <2>4
<1>12. QED
  BY <1>7, <1>8, <1>10, <1>11 DEF EveningIInv, Claims

LEMMA FirstKeeps ==
    ASSUME EveningConstants, EveningIInv, NEW r \in Procs, deliver(r)
    PROVE  EveningIInv'
<1> DEFINE b == pickPersonalLine(pass[r].to)
           n == [pass[r] EXCEPT !.pc = "second", !.tries = 0, !.line = b]
<1>1. /\ pass[r].pc = "first" /\ Lands(r) /\ UNCHANGED <<users, daily, usable, lock>>
      /\ pass' = [pass EXCEPT ![r] = n]
  BY DEF deliver
<1>2. b \in BOOLEAN
  BY DEF pickPersonalLine
<1>3. pass[r] \in PassRow
  BY DEF EveningIInv, EveningTypes
<1> HIDE DEF b
<1>4. n \in PassRow /\ n.pc = "second" /\ n.to = pass[r].to /\ n.pick = pass[r].pick
  BY <1>2, <1>3 DEF PassRow, PassPc
<1> HIDE DEF n
<1>5. QED
  BY <1>1, <1>4, LandsKeeps

\* Back to the loop, or on to the mark, with the claim kept.
LEMMA Returns ==
    ASSUME EveningConstants, EveningIInv, NEW r \in Procs, pass[r].pc \in Addressed,
           NEW n \in PassRow, n.pc \in {"loop", "mark"}, n.to = pass[r].to, n.pick = pass[r].pick,
           pass' = [pass EXCEPT ![r] = n], UNCHANGED <<got, asked, daily, usable, lock>>,
           users' \in [Users -> UserRow],
           \A x \in Users : /\ users'[x].claimed = users[x].claimed
                            /\ users'[x].pitched => users[x].pitched \/ got[x].told = 1
    PROVE  EveningIInv'
<1>1. PickOK(n) /\ (n.pc \in Addressed => n.to \in Users) /\ n.pc # "idle"
  BY StaysWith DEF Chosen, Addressed
<1>2. n.pc # "second" /\ n.pc \notin Holding
  BY DEF Holding
<1>3. QED
  BY <1>1, <1>2, QuietPass

LEMMA LoopRow ==
    ASSUME EveningIInv, NEW r \in Procs, NEW k \in Nat
    PROVE  LET n == [pass[r] EXCEPT !.pc = "loop", !.unc = k]
           IN  n \in PassRow /\ n.pc = "loop" /\ n.to = pass[r].to /\ n.pick = pass[r].pick
<1>1. pass[r] \in PassRow
  BY DEF EveningIInv, EveningTypes
<1>2. QED
  BY <1>1 DEF PassRow, PassPc

LEMMA SecondKeeps ==
    ASSUME EveningConstants, EveningIInv, NEW r \in Procs, deliverSecond(r)
    PROVE  EveningIInv'
<1> DEFINE n == [pass[r] EXCEPT !.pc = "loop", !.unc = 0]
<1>1. /\ pass[r].pc = "second" /\ MarkTelegramSignupPitch(r, TRUE)
      /\ pass' = [pass EXCEPT ![r] = n] /\ UNCHANGED <<got, asked, daily, usable, lock>>
  BY DEF deliverSecond
<1>2. n \in PassRow /\ n.pc = "loop" /\ n.to = pass[r].to /\ n.pick = pass[r].pick
  BY LoopRow
<1> HIDE DEF n
<1>3. pass[r].pc \in Addressed /\ HalfBundle(r)
  BY <1>1 DEF Addressed, HalfBundle
<1>4. QED
  BY <1>1, <1>2, <1>3, HalfBundleNotes, Returns

LEMMA UnreachableKeeps ==
    ASSUME EveningConstants, EveningIInv, NEW r \in Procs, unreachable(r)
    PROVE  EveningIInv'
<1> DEFINE n == [pass[r] EXCEPT !.pc = "mark"]
<1>1. /\ pass[r].pc \in Addressed /\ HalfBundle(r)
      /\ pass' = [pass EXCEPT ![r] = n] /\ UNCHANGED <<got, asked, daily, usable, lock>>
  BY DEF unreachable, Goto, Addressed
<1>2. pass[r] \in PassRow
  BY DEF EveningIInv, EveningTypes
<1>3. n \in PassRow /\ n.pc = "mark" /\ n.to = pass[r].to /\ n.pick = pass[r].pick
  BY <1>2 DEF PassRow, PassPc
<1> HIDE DEF n
<1>4. QED
  BY <1>1, <1>3, HalfBundleNotes, Returns

LEMMA MarkKeeps ==
    ASSUME EveningConstants, EveningIInv, NEW r \in Procs, Mark(r)
    PROVE  EveningIInv'
<1> DEFINE n == [pass[r] EXCEPT !.pc = "loop", !.unc = 0]
           x == pass[r].to
           v == [users[x] EXCEPT !.blocked = TRUE]
<1>1. /\ pass[r].pc = "mark" /\ users' = [users EXCEPT ![x] = v]
      /\ pass' = [pass EXCEPT ![r] = n] /\ UNCHANGED <<got, asked, daily, usable, lock>>
  BY DEF Mark, MarkTelegramBotUserBlocked
<1>2. n \in PassRow /\ n.pc = "loop" /\ n.to = pass[r].to /\ n.pick = pass[r].pick
  BY LoopRow
<1>3. pass[r].pc \in Addressed /\ x \in Users /\ users \in [Users -> UserRow] /\ users[x] \in UserRow
  BY <1>1 DEF Addressed, EveningIInv, EveningTypes
<1>4. v \in UserRow /\ v.claimed = users[x].claimed /\ v.pitched = users[x].pitched
  BY <1>3 DEF UserRow
<1> HIDE DEF n, x, v
<1>5. /\ users' \in [Users -> UserRow] /\ users'[x] = v
      /\ \A y \in Users : y # x => users'[y] = users[y]
  BY <1>1, <1>3, <1>4
<1>6. \A y \in Users : /\ users'[y].claimed = users[y].claimed
                       /\ users'[y].pitched => users[y].pitched \/ got[y].told = 1
  BY <1>4, <1>5
<1>7. QED
  BY <1>1, <1>2, <1>3, <1>5, <1>6, Returns

LEMMA TimedOutKeeps ==
    ASSUME EveningConstants, EveningIInv, NEW r \in Procs, timedOut(r)
    PROVE  EveningIInv'
<1> DEFINE n == [pass[r] EXCEPT !.pc = "loop", !.unc = pass[r].unc + 1]
<1>1. /\ pass[r].pc \in {"first", "second"} /\ pass[r].pc \in Addressed /\ HalfBundle(r)
      /\ pass' = [pass EXCEPT ![r] = n] /\ UNCHANGED <<daily, usable, lock>>
      /\ (pass[r].pc = "first" /\ Lands(r)) \/ UNCHANGED <<got, asked>>
  BY DEF timedOut, Addressed
<1>2. n \in PassRow /\ n.pc = "loop" /\ n.to = pass[r].to /\ n.pick = pass[r].pick
  <2>1. pass[r].unc \in Nat
    BY DEF EveningIInv, EveningTypes, PassRow
  <2>2. pass[r].unc + 1 \in Nat
    BY <2>1
  <2>3. QED
    BY <2>2, LoopRow
<1> HIDE DEF n
<1>3. CASE pass[r].pc = "first" /\ Lands(r)
  <2>1. UNCHANGED users
    BY <1>1, <1>3 DEF HalfBundle
  <2>2. QED
    BY <1>1, <1>2, <1>3, <2>1, LandsKeeps
<1>4. CASE UNCHANGED <<got, asked>>
  BY <1>1, <1>2, <1>4, HalfBundleNotes, Returns
<1>5. QED
  BY <1>1, <1>3, <1>4

\* A copy whose answer broke off: the user is still held, or given up.
LEMMA UnheardKeeps ==
    ASSUME EveningConstants, EveningIInv, NEW r \in Procs, pass[r].pc = "first", LandsUnheard(r),
           NEW n \in PassRow, n.pc \in {"first", "loop"}, n.to = pass[r].to, n.pick = pass[r].pick,
           pass' = [pass EXCEPT ![r] = n], UNCHANGED <<users, daily, usable, lock>>
    PROVE  EveningIInv'
<1>1. EveningTypes /\ pass[r].to \in Users
  BY DEF EveningIInv, EveningTypes, Addressed
<1> DEFINE x == pass[r].to
           m == got[x].lost + 1
           g == [got[x] EXCEPT !.lost = m]
<1>2. got' = [got EXCEPT ![x] = g] /\ asked' = [asked EXCEPT ![x] = n.pick]
  BY DEF LandsUnheard
<1>3. got[x] \in GotRow /\ x \in Users /\ got \in [Users -> GotRow]
  BY <1>1 DEF EveningTypes
<1>4. m \in Nat
  BY <1>3 DEF GotRow
<1> HIDE DEF m
<1>5. g \in GotRow /\ g.told = got[x].told
  BY <1>3, <1>4 DEF GotRow
<1> HIDE DEF g, x
<1>6. got' \in [Users -> GotRow] /\ \A y \in Users : got'[y].told = got[y].told
  BY <1>2, <1>3, <1>5
<1>7. asked' \in [Users -> {0, 1, 2}] /\ \A y \in Users : asked'[y] = asked[y] \/ asked'[y] = n.pick
  BY <1>1, <1>2, <1>3 DEF EveningTypes, PassRow
<1>8. PickOK(n) /\ (n.pc \in Addressed => n.to \in Users) /\ n.pc # "idle" /\ n.pc \in Chosen
  BY StaysWith DEF Chosen, Addressed
<1>9. LockOK' /\ lock' \in Procs \cup {0}
  BY <1>8, LockKept
<1>10. Picks'
  BY <1>7, <1>8, PicksKept
<1>11. Claims'
  <2>1. n.pc # "second" /\ (n.pc \in Holding => pass[r].pc \in Holding /\ n.to = pass[r].to)
    BY DEF Holding
  <2>2. \A y \in Users : /\ users'[y].claimed = users[y].claimed
                         /\ users'[y].pitched => users[y].pitched \/ got[y].told = 1
    OBVIOUS
  <2>3. QED
    BY <1>6, <1>8, <2>1, <2>2, ClaimsKept
<1>12. /\ pass' \in [Procs -> PassRow]
       /\ \A s \in Procs : pass'[s].pc \in Addressed => pass'[s].to \in Users
  BY <1>1, <1>8, PassMoves
<1>13. EveningTypes'
  BY <1>1, <1>6, <1>7, <1>9, <1>12 DEF EveningTypes
<1>14. QED
  BY <1>9, <1>10, <1>11, <1>13 DEF EveningIInv

\* The next attempt: the same user, message and question.
LEMMA TriesAgain ==
    ASSUME EveningConstants, EveningIInv, NEW r \in Procs, pass[r].pc \in {"first", "second"},
           NEW n \in PassRow, n.pc = pass[r].pc, n.to = pass[r].to, n.pick = pass[r].pick,
           pass' = [pass EXCEPT ![r] = n],
           UNCHANGED <<users, got, asked, daily, usable, lock>>
    PROVE  EveningIInv'
<1>1. EveningTypes /\ Claims /\ PickOK(n) /\ (n.pc \in Addressed => n.to \in Users) /\ n.pc # "idle"
  BY StaysWith DEF EveningIInv, Chosen, Addressed
<1>2. LockOK' /\ lock' \in Procs \cup {0}
  BY <1>1, LockKept
<1>3. Picks'
  BY <1>1, PicksKept
<1>4. /\ pass' \in [Procs -> PassRow] /\ pass'[r] = n /\ \A s \in Procs : s # r => pass'[s] = pass[s]
      /\ \A s \in Procs : pass'[s].pc \in Addressed => pass'[s].to \in Users
  BY <1>1, PassMoves
<1>5. EveningTypes'
  BY <1>1, <1>2, <1>4 DEF EveningTypes
<1>6. ASSUME NEW y \in Users PROVE Bundle(y)'
  <2>1. Bundle(y)
    BY <1>1 DEF Claims
  <2>2. \A s \in Procs : pass'[s].pc = pass[s].pc /\ pass'[s].to = pass[s].to
    BY <1>4
  <2>3. QED
    BY <2>1, <2>2 DEF Bundle, Holds
<1>7. QED
  BY <1>2, <1>3, <1>5, <1>6 DEF EveningIInv, Claims

LEMMA AnswerLostKeeps ==
    ASSUME EveningConstants, EveningIInv, NEW r \in Procs, answerLost(r)
    PROVE  EveningIInv'
<1> DEFINE k == pass[r].tries + 1
           a == [pass[r] EXCEPT !.tries = k]
           n == [pass[r] EXCEPT !.pc = "loop", !.unc = 0]
<1>1. /\ pass[r].pc \in {"first", "second"} /\ UNCHANGED <<daily, usable, lock>>
      /\ (pass[r].pc = "first" /\ LandsUnheard(r)) \/ UNCHANGED <<got, asked>>
      /\ \/ pass' = [pass EXCEPT ![r] = a] /\ UNCHANGED users
         \/ pass' = [pass EXCEPT ![r] = n] /\ HalfBundle(r)
  BY DEF answerLost
<1>2. n \in PassRow /\ n.pc = "loop" /\ n.to = pass[r].to /\ n.pick = pass[r].pick
  BY LoopRow
<1>3. pass[r] \in PassRow
  BY DEF EveningIInv, EveningTypes
<1>4. k \in Nat
  BY <1>3 DEF PassRow
<1> HIDE DEF k
<1>5. a \in PassRow /\ a.pc = pass[r].pc /\ a.to = pass[r].to /\ a.pick = pass[r].pick
  BY <1>3, <1>4 DEF PassRow
<1> HIDE DEF a, n
<1>6. CASE pass' = [pass EXCEPT ![r] = a] /\ UNCHANGED users
  BY <1>1, <1>5, <1>6, UnheardKeeps, TriesAgain
<1>7. CASE pass' = [pass EXCEPT ![r] = n] /\ HalfBundle(r)
  <2>1. CASE pass[r].pc = "first" /\ LandsUnheard(r)
    <3>1. UNCHANGED users
      BY <1>7, <2>1 DEF HalfBundle
    <3>2. QED
      BY <1>1, <1>2, <1>7, <2>1, <3>1, UnheardKeeps
  <2>2. CASE UNCHANGED <<got, asked>>
    <3>1. pass[r].pc \in Addressed
      BY <1>1 DEF Addressed
    <3>2. QED
      BY <1>1, <1>2, <1>7, <2>2, <3>1, HalfBundleNotes, Returns
  <2>3. QED
    BY <1>1, <2>1, <2>2
<1>8. QED
  BY <1>1, <1>6, <1>7

LEMMA SendFailsKeeps ==
    ASSUME EveningConstants, EveningIInv, NEW r \in Procs, sendFails(r)
    PROVE  EveningIInv'
<1> DEFINE n == [pass[r] EXCEPT !.pc = "loop", !.unc = 0]
<1>1. /\ pass[r].pc \in Addressed /\ HalfBundle(r) /\ UNCHANGED <<got, asked, daily, usable>>
      /\ (pass' = [pass EXCEPT ![r] = n] /\ UNCHANGED lock) \/ EndPass(r, FALSE)
  BY DEF sendFails, Addressed
<1>2. n \in PassRow /\ n.pc = "loop" /\ n.to = pass[r].to /\ n.pick = pass[r].pick
  BY LoopRow
<1> HIDE DEF n
<1>3. CASE pass' = [pass EXCEPT ![r] = n] /\ UNCHANGED lock
  BY <1>1, <1>2, <1>3, HalfBundleNotes, Returns
<1>4. CASE EndPass(r, FALSE)
  BY <1>1, <1>4, HalfBundleNotes, EndsPass
<1>5. QED
  BY <1>1, <1>3, <1>4

LEMMA ConnectFailedKeeps ==
    ASSUME EveningConstants, EveningIInv, NEW r \in Procs, connectFailed(r)
    PROVE  EveningIInv'
<1> DEFINE n == [pass[r] EXCEPT !.pc = "release"]
<1>1. /\ pass[r].pc = "first" /\ UNCHANGED <<users, got, asked, daily, usable, lock>>
      /\ pass' = [pass EXCEPT ![r] = n]
  BY DEF connectFailed, Goto
<1>2. pass[r] \in PassRow
  BY DEF EveningIInv, EveningTypes
<1>3. n \in PassRow /\ n.pc = "release" /\ n.to = pass[r].to /\ n.pick = pass[r].pick
  BY <1>2 DEF PassRow, PassPc
<1> HIDE DEF n
<1>4. PickOK(n) /\ (n.pc \in Addressed => n.to \in Users) /\ n.pc # "idle"
  BY <1>1, <1>3, StaysWith DEF Chosen, Addressed
<1>5. n.pc # "second" /\ (n.pc \in Holding => pass[r].pc \in Holding /\ n.to = pass[r].to)
  BY <1>1, <1>3 DEF Holding
<1>6. QED
  BY <1>1, <1>3, <1>4, <1>5, GoesOn

\* A claim is handed back by its only holder, before anything was sent.
LEMMA ReleaseKeeps ==
    ASSUME EveningConstants, EveningIInv, NEW r \in Procs, ReleaseTelegramReminderClaim(r)
    PROVE  EveningIInv'
<1> DEFINE n == [NoPass EXCEPT !.done = FALSE]
           x == pass[r].to
           v == [users[x] EXCEPT !.claimed = FALSE]
<1>1. /\ EveningTypes /\ Claims /\ Picks /\ pass[r].pc = "release"
      /\ UNCHANGED <<got, asked, daily, usable>> /\ users' = [users EXCEPT ![x] = v]
      /\ pass' = [pass EXCEPT ![r] = n] /\ lock' = IF lock = r THEN 0 ELSE lock
  BY DEF EveningIInv, ReleaseTelegramReminderClaim, EndPass, PausedDone,
         Nobody
<1>2. n \in PassRow /\ n.pc = "idle"
  BY DEF NoPass, Nobody, PassRow, PassPc
<1>3. x \in Users /\ users[x] \in UserRow /\ Bundle(x)
  BY <1>1 DEF EveningTypes, Addressed, Claims
<1>4. v \in UserRow /\ v.claimed = FALSE /\ v.pitched = users[x].pitched
  BY <1>3 DEF UserRow
<1>5. Holds(r, x) /\ got[x].told = 0
  BY <1>1, <1>3 DEF Bundle, Holds, Holding
<1> HIDE DEF n, v, x
<1>6. PickOK(n) /\ n.pc \notin Addressed /\ n.pc \notin Holding
  BY <1>2 DEF PickOK, Chosen, Addressed, Holding
<1>7. LockOK' /\ lock' \in Procs \cup {0}
  BY <1>1, <1>2, <1>6, LockKept
<1>8. Picks'
  BY <1>1, <1>2, <1>6, PicksKept
<1>9. /\ pass' \in [Procs -> PassRow] /\ pass'[r] = n /\ \A s \in Procs : s # r => pass'[s] = pass[s]
      /\ \A s \in Procs : pass'[s].pc \in Addressed => pass'[s].to \in Users
  BY <1>1, <1>2, <1>6, PassMoves
<1>10. /\ users' \in [Users -> UserRow] /\ users'[x] = v
       /\ \A y \in Users : y # x => users'[y] = users[y]
  BY <1>1, <1>3, <1>4 DEF EveningTypes
<1>11. EveningTypes'
  BY <1>1, <1>7, <1>9, <1>10 DEF EveningTypes
<1>12. ASSUME NEW y \in Users PROVE Bundle(y)'
  <2>1. Bundle(y)
    BY <1>1 DEF Claims
  <2>2. \A s \in Procs : Holds(s, y)' => s # r /\ Holds(s, y)
    BY <1>6, <1>9 DEF Holds
  <2>3. \A s \in Procs : pass'[s].pc = "second" /\ pass'[s].to = y => got[y].told = 1
    BY <1>2, <1>9, <2>1 DEF Bundle
  <2>4. CASE y = x
    <3>1. \A s \in Procs : ~Holds(s, y)'
      BY <1>5, <2>1, <2>2, <2>4 DEF Bundle
    <3>2. users'[x].claimed = FALSE /\ (users'[x].pitched => users[x].pitched)
      BY <1>4, <1>10
    <3>3. QED
      BY <1>1, <1>5, <2>1, <2>3, <2>4, <3>1, <3>2 DEF Bundle
  <2>5. CASE y # x
    <3>1. users'[y] = users[y]
      BY <1>10, <2>5
    <3>2. QED
      BY <1>1, <2>1, <2>2, <2>3, <3>1 DEF Bundle
  <2>6. QED
    BY <2>4, <2>5
<1>13. QED
  BY <1>7, <1>8, <1>11, <1>12 DEF EveningIInv, Claims

-----------------------------------------------------------------------------

LEMMA EveningInitOK ==
    ASSUME EveningConstants, ReminderInit
    PROVE  EveningIInv
<1>1. /\ \A x \in Users : users[x].claimed = FALSE /\ users[x].pitched = FALSE /\ got[x].told = 0
      /\ asked = [x \in Users |-> 0] /\ got \in [Users -> GotRow]
      /\ daily = 0 /\ usable = {1, 2} /\ lock = 0
      /\ users \in [Users -> UserRow]
  BY DEF ReminderInit, Questions, Nobody, UserRow, GotRow
<1>2. pass \in [Procs -> PassRow] /\ \A r \in Procs : pass[r].pc = "idle"
  BY DEF ReminderInit, NoPass, Nobody, PassRow, PassPc
<1>3. EveningTypes
  BY <1>1, <1>2 DEF EveningTypes, Addressed
<1>4. Claims
  BY <1>1, <1>2 DEF Claims, Bundle, Holds, Holding
<1>5. Picks
  BY <1>1, <1>2 DEF Picks, PickOK, Chosen, Addressed
<1>6. LockOK
  BY <1>1 DEF LockOK, EveningConstants
<1>7. QED
  BY <1>3, <1>4, <1>5, <1>6 DEF EveningIInv

LEMMA EveningNextKeeps ==
    ASSUME EveningConstants, EveningIInv, ReminderNext
    PROVE  EveningIInv'
<1>1. ASSUME NEW x \in Users,
             \/ handleEslatma(x) \/ handleReminderOff(x) \/ Blocks(x)
             \/ trackPrivateUser(x) \/ trackPrivateMembership(x)
      PROVE  EveningIInv'
  BY <1>1, UserKeeps
<1>2. ASSUME NEW q \in Questions, Unfit(q) PROVE EveningIInv'
  BY <1>2, UnfitKeeps
<1>3. CASE Switch \/ inSendWindow
  BY <1>3, LockLost DEF Switch, inSendWindow
<1>4. ASSUME NEW r \in Procs, Pass(r) PROVE EveningIInv'
  <2>1. CASE Interrupted(r) \/ breakerUncertain(r)
    BY <2>1, PassEnds DEF Interrupted, breakerUncertain
  <2>2. CASE \/ Tick(r) \/ dailyQuestion(r) \/ recordDailyQuestion(r)
             \/ UseTheWinner(r)
    BY <2>2, TickKeeps, DailyQuestionKeeps, RecordKeeps, WinnerKeeps
  <2>3. CASE Claim(r) \/ ListTelegramReminderAudience(r) \/ deliver(r)
    BY <2>3, ClaimKeeps, LookupKeeps, FirstKeeps
  <2>4. CASE \/ deliverSecond(r) \/ unreachable(r) \/ Mark(r)
             \/ ReleaseTelegramReminderClaim(r) \/ sendFails(r)
    BY <2>4, SecondKeeps, UnreachableKeeps, MarkKeeps, ReleaseKeeps, SendFailsKeeps
  <2>5. QED
    BY <1>4, <2>1, <2>2, <2>3, <2>4 DEF Pass
<1>5. ASSUME NEW r \in Procs,
             timedOut(r) \/ answerLost(r) \/ sendFails(r) \/ connectFailed(r)
      PROVE  EveningIInv'
  BY <1>5, TimedOutKeeps, AnswerLostKeeps, SendFailsKeeps, ConnectFailedKeeps
<1>6. ASSUME NEW r \in Procs, Crash(r) PROVE EveningIInv'
  BY <1>6, PassEnds DEF Crash
<1>7. ASSUME NEW r \in Procs, LoseLock(r) PROVE EveningIInv'
  BY <1>7, LockLost DEF LoseLock, Nobody
<1>8. QED
  BY <1>1, <1>2, <1>3, <1>4, <1>5, <1>6, <1>7 DEF ReminderNext

\* Nobody gets the evening's bundle twice, but for copies of attempts repeated
\* because their answer broke off, and everybody gets the same question while it
\* fits a poll, whatever crashes, timeouts, handed-back claims and lost locks
\* there are (runPass, send).
THEOREM ReminderThm ==
    ASSUME EveningConstants
    PROVE  ReminderSpec => []ReminderInv
<1>1. ReminderInit => EveningIInv
  BY EveningInitOK
<1>2. EveningIInv /\ [ReminderNext]_(reminderVars) => EveningIInv'
  <2>1. ASSUME EveningIInv, UNCHANGED reminderVars PROVE EveningIInv'
    BY <2>1, LockLost DEF reminderVars
  <2>2. QED
    BY <2>1, EveningNextKeeps
<1>3. EveningIInv => ReminderInv
  BY EveningImplies
<1>4. QED
  BY <1>1, <1>2, <1>3, PTL DEF ReminderSpec

-----------------------------------------------------------------------------
(***************************************************************************)
(* The quiz of one chat, for any handlers, length of a game, commands and  *)
(* troubles.                                                               *)
(*                                                                         *)
(* A number that is reserved and not yet shown belongs to one handler: the *)
(* numbers in hand are distinct, not above the row's counter and not among *)
(* the polls (Numbers), so handing back the newest cannot free one that is *)
(* still to be shown.  The length rests on who may still reserve: once the *)
(* counter has reached the last question nobody decides to ask another, so *)
(* only the handlers that had decided before can (Bounded).                *)
(***************************************************************************)
QuizConstants == IsFiniteSet(Handlers) /\ Total \in Nat \ {0}

SessRow == [id : Nat, active : BOOLEAN, no : Nat, asked : Nat, age : {"fresh", "quiet", "idle"}]
HandPc == {"free", "read", "expire", "create", "wait", "advance", "finish", "send", "retreat",
           "row", "schedule"}
HandRow == [pc : HandPc, kind : {"none", "quiz", "next", "stop", "timer"}, snap : Nat, no : Nat]

QuizTypes ==
    /\ sess \in SessRow /\ hands \in [Handlers -> HandRow]
    /\ \A x \in Handlers : hands[x].snap <= sess.id

\* A handler that has reserved a number of the newest game and shown no poll.
InHand(x) == hands[x].pc \in {"send", "retreat"} /\ hands[x].snap = sess.id
Numbers ==
    /\ shown \subseteq 1..sess.no /\ poll \subseteq shown /\ twice = FALSE
    /\ \A x \in Handlers : InHand(x) => hands[x].no \in (1..sess.no) \ shown
    /\ \A x, y \in Handlers : InHand(x) /\ InHand(y) /\ hands[x].no = hands[y].no => x = y
    /\ \A x \in Handlers : hands[x].pc = "row" /\ hands[x].snap = sess.id => hands[x].no \in shown

\* Those who have decided to ask another question.
Asking == {"wait", "advance"}
Coming == {x \in Handlers : hands[x].pc \in Asking}
Bounded == sess.no < Total \/ sess.no + Cardinality(Coming) <= Total + Cardinality(Handlers) - 1

Votes ==
    /\ answered \in Nat /\ mishaps \in Nat
    /\ answered <= (IF voted = 0 THEN 0 ELSE 1) + mishaps

QuizIInv == QuizTypes /\ Numbers /\ Bounded /\ Votes

LEMMA ComingFinite ==
    ASSUME IsFiniteSet(Handlers)
    PROVE  /\ IsFiniteSet(Coming) /\ Cardinality(Coming) \in Nat /\ Cardinality(Handlers) \in Nat
           /\ Cardinality(Coming) <= Cardinality(Handlers)
<1>1. Coming \subseteq Handlers
  BY DEF Coming
<1>2. QED
  BY <1>1, FS_Subset, FS_CardinalityType

LEMMA QuizImplies ==
    ASSUME QuizConstants, QuizIInv
    PROVE  Quiz!QuizInv
<1>1. /\ sess \in SessRow /\ hands \in [Handlers -> HandRow] /\ Numbers /\ Bounded /\ Votes
      /\ Total \in Nat /\ sess.no \in Nat
  BY DEF QuizIInv, QuizTypes, QuizConstants, SessRow
<1>2. Cardinality(Handlers) \in Nat /\ Cardinality(Coming) \in Nat
  BY ComingFinite DEF QuizConstants
<1>3. Quiz!Cardinality(Handlers) = Cardinality(Handlers)
  BY DEF Quiz!Cardinality, Cardinality
<1> DEFINE c == Cardinality(Handlers)
           k == Cardinality(Coming)
<1>4. c \in Nat /\ k \in Nat /\ (sess.no < Total \/ sess.no + k <= Total + c - 1)
  BY <1>1, <1>2 DEF Bounded
<1> HIDE DEF c, k
<1>5. sess.no <= Total + c - 1
  BY <1>1, <1>4
<1>6. shown \subseteq 1..(Total + c)
  <2>1. 1..sess.no \subseteq 1..(Total + c)
    BY <1>1, <1>4, <1>5
  <2>2. QED
    BY <1>1, <2>1 DEF Numbers
<1>7. sess.age \in {"fresh", "quiet", "idle"}
  BY <1>1 DEF SessRow
<1>8. \A x \in Handlers : hands[x].kind \in {"none", "quiz", "next", "stop", "timer"}
  BY <1>1 DEF HandRow
<1>9. ~twice /\ poll \subseteq shown /\ answered <= (IF voted = 0 THEN 0 ELSE 1) + mishaps
  BY <1>1 DEF Numbers, Votes
<1>10. QED
  BY <1>3, <1>5, <1>6, <1>7, <1>8, <1>9 DEF Quiz!QuizInv, Quiz!QuizTypeOK, c

-----------------------------------------------------------------------------
(* A handler moves to the row n.                                           *)

LEMMA HandMoves ==
    ASSUME QuizTypes, NEW x \in Handlers, NEW n \in HandRow, hands' = [hands EXCEPT ![x] = n]
    PROVE  /\ hands' \in [Handlers -> HandRow] /\ hands'[x] = n
           /\ \A y \in Handlers : y # x => hands'[y] = hands[y]
  BY DEF QuizTypes

\* Who leaves is counted no more, and who asks had room to.
LEMMA ComingAfter ==
    ASSUME IsFiniteSet(Handlers), QuizTypes, NEW x \in Handlers, NEW n \in HandRow,
           hands' = [hands EXCEPT ![x] = n]
    PROVE  /\ Cardinality(Coming') \in Nat
           /\ n.pc \notin Asking \/ hands[x].pc \in Asking => Cardinality(Coming') <= Cardinality(Coming)
           /\ n.pc \notin Asking /\ hands[x].pc \in Asking =>
                 Cardinality(Coming') + 1 = Cardinality(Coming)
<1>1. hands'[x] = n /\ \A y \in Handlers : y # x => hands'[y] = hands[y]
  BY HandMoves
<1>2. IsFiniteSet(Coming) /\ Coming' \subseteq Handlers
  BY ComingFinite DEF Coming
<1>3. IsFiniteSet(Coming') /\ Cardinality(Coming') \in Nat
  BY <1>2, FS_Subset, FS_CardinalityType
<1>4. ASSUME n.pc \notin Asking \/ hands[x].pc \in Asking
      PROVE  Cardinality(Coming') <= Cardinality(Coming)
  <2>1. Coming' \subseteq Coming
    BY <1>1, <1>4 DEF Coming
  <2>2. QED
    BY <1>2, <2>1, FS_Subset
<1>5. ASSUME n.pc \notin Asking, hands[x].pc \in Asking
      PROVE  Cardinality(Coming') + 1 = Cardinality(Coming)
  <2>1. Coming' = Coming \ {x} /\ x \in Coming
    BY <1>1, <1>5 DEF Coming
  <2>2. Cardinality(Coming') = Cardinality(Coming) - 1
    BY <1>2, <2>1, FS_RemoveElement
  <2>3. Cardinality(Coming) \in Nat
    BY <1>2, FS_CardinalityType
  <2>4. QED
    BY <2>2, <2>3
<1>6. QED
  BY <1>3, <1>4, <1>5

LEMMA BoundedKept ==
    ASSUME QuizConstants, QuizIInv, NEW x \in Handlers, NEW n \in HandRow,
           hands' = [hands EXCEPT ![x] = n], sess' \in SessRow, sess'.no <= sess.no,
           n.pc \in Asking => hands[x].pc \in Asking \/ sess'.no < Total
    PROVE  Bounded'
<1>1. QuizTypes /\ Bounded /\ IsFiniteSet(Handlers) /\ sess.no \in Nat /\ sess'.no \in Nat /\ Total \in Nat
  BY DEF QuizIInv, QuizTypes, QuizConstants, SessRow
<1> DEFINE c == Cardinality(Handlers)
           k == Cardinality(Coming)
           m == Cardinality(Coming')
<1>2. c \in Nat /\ k \in Nat /\ m \in Nat /\ (sess.no < Total \/ sess.no + k <= Total + c - 1)
  BY <1>1, ComingFinite, ComingAfter DEF Bounded
<1>3. sess'.no < Total \/ m <= k
  BY <1>1, ComingAfter
<1>4. sess'.no < Total \/ sess'.no + m <= Total + c - 1
  <2> HIDE DEF c, k, m
  <2> DEFINE i == sess'.no
             j == sess.no
  <2>1. i \in Nat /\ j \in Nat /\ i <= j /\ (i < Total \/ m <= k) /\ (j < Total \/ j + k <= Total + c - 1)
    BY <1>1, <1>2, <1>3
  <2> HIDE DEF i, j
  <2>2. i < Total \/ i + m <= Total + c - 1
    BY <1>1, <1>2, <2>1
  <2>3. QED
    BY <2>2 DEF i
<1>5. QED
  BY <1>4 DEF Bounded

LEMMA Slack ==
    ASSUME NEW a \in Nat, NEW b \in Nat, NEW c \in Nat, NEW d \in Nat, a <= b + c, c <= d
    PROVE  a <= b + d
  OBVIOUS

LEMMA VotesKept ==
    ASSUME Votes, UNCHANGED <<voted, answered>>, mishaps' \in {mishaps, mishaps + 1}
    PROVE  Votes'
<1> DEFINE v == IF voted = 0 THEN 0 ELSE 1
<1>1. v \in Nat /\ answered \in Nat /\ mishaps \in Nat /\ answered <= v + mishaps
  BY DEF Votes
<1>2. UNCHANGED v
  OBVIOUS
<1> HIDE DEF v
<1>3. mishaps' \in Nat /\ mishaps <= mishaps'
  BY <1>1
<1>4. answered <= v + mishaps'
  BY <1>1, <1>3, Slack
<1>5. QED
  BY <1>1, <1>2, <1>3, <1>4 DEF Votes, v

\* Steps that reserve and show no number.
LEMMA HandKeeps ==
    ASSUME QuizConstants, QuizIInv, NEW x \in Handlers, NEW n \in HandRow,
           hands' = [hands EXCEPT ![x] = n],
           sess' \in SessRow, sess'.id = sess.id, sess'.no = sess.no,
           UNCHANGED <<shown, twice, voted, answered>>, mishaps' \in {mishaps, mishaps + 1},
           \/ UNCHANGED poll
           \/ poll' = poll \cup {hands[x].no} /\ hands[x].pc = "row" /\ hands[x].snap = sess.id,
           n.snap <= sess.id, n.pc # "row", n.pc # "send",
           n.pc = "retreat" => hands[x].pc = "send" /\ n.snap = hands[x].snap /\ n.no = hands[x].no,
           n.pc \in Asking => hands[x].pc \in Asking \/ sess.no < Total
    PROVE  QuizIInv'
<1>1. QuizTypes /\ Numbers /\ Bounded /\ Votes /\ sess.no \in Nat
  BY DEF QuizIInv, QuizTypes, SessRow
<1>2. /\ hands' \in [Handlers -> HandRow] /\ hands'[x] = n
      /\ \A y \in Handlers : y # x => hands'[y] = hands[y]
  BY <1>1, HandMoves
<1>3. QuizTypes'
  BY <1>1, <1>2 DEF QuizTypes
<1>4. Bounded'
  <2>1. sess'.no <= sess.no
    BY <1>1
  <2>2. n.pc \in Asking => hands[x].pc \in Asking \/ sess'.no < Total
    OBVIOUS
  <2>3. QED
    BY <2>1, <2>2, BoundedKept
<1>5. Votes'
  BY <1>1, VotesKept
<1>6. \A y \in Handlers : InHand(y)' => InHand(y) /\ hands'[y].no = hands[y].no
  BY <1>2 DEF InHand
<1>7. Numbers'
  <2>1. \A y \in Handlers : hands'[y].pc = "row" => hands[y] = hands'[y]
    BY <1>2
  <2> DEFINE N == 1..sess.no
  <2>2. 1..sess'.no = N
    OBVIOUS
  <2>3. /\ shown \subseteq N /\ poll \subseteq shown /\ twice = FALSE
        /\ \A y \in Handlers : InHand(y) => hands[y].no \in N \ shown
        /\ \A y, z \in Handlers : InHand(y) /\ InHand(z) /\ hands[y].no = hands[z].no => y = z
        /\ \A y \in Handlers : hands[y].pc = "row" /\ hands[y].snap = sess.id => hands[y].no \in shown
    BY <1>1 DEF Numbers
  <2> HIDE DEF N
  <2>4. \A y \in Handlers : InHand(y)' => hands'[y].no \in N \ shown
    BY <1>6, <2>3
  <2>5. \A y, z \in Handlers : InHand(y)' /\ InHand(z)' /\ hands'[y].no = hands'[z].no => y = z
    BY <1>6, <2>3
  <2>6. \A y \in Handlers : hands'[y].pc = "row" /\ hands'[y].snap = sess'.id => hands'[y].no \in shown
    BY <2>1, <2>3
  <2>7. poll' \subseteq shown
    BY <2>3
  <2>8. QED
    BY <2>2, <2>3, <2>4, <2>5, <2>6, <2>7 DEF Numbers
<1>8. QED
  BY <1>3, <1>4, <1>5, <1>7 DEF QuizIInv

LEMMA ReturnKeeps ==
    ASSUME QuizConstants, QuizIInv, NEW x \in Handlers, Quiz!Return(x),
           sess' \in SessRow, sess'.id = sess.id, sess'.no = sess.no,
           UNCHANGED <<shown, poll, twice, voted, answered>>, mishaps' \in {mishaps, mishaps + 1}
    PROVE  QuizIInv'
<1> DEFINE n == Quiz!Free
<1>1. hands' = [hands EXCEPT ![x] = n]
  BY DEF Quiz!Return
<1>2. n \in HandRow /\ n.pc = "free" /\ n.snap = 0
  BY DEF Quiz!Free, HandRow, HandPc
<1>3. n.snap <= sess.id
  BY <1>2 DEF QuizIInv, QuizTypes, SessRow
<1> HIDE DEF n
<1>4. n.pc \notin Asking
  BY <1>2 DEF Asking
<1>5. QED
  BY <1>1, <1>2, <1>3, <1>4, HandKeeps

-----------------------------------------------------------------------------
(* Statements on the session row.                                          *)

LEMMA ClosedRow ==
    ASSUME sess \in SessRow, NEW x \in Handlers
    PROVE  LET s == Quiz!DeactivateQuizSession(x)
           IN  s \in SessRow /\ s.id = sess.id /\ s.no = sess.no
<1> DEFINE s == [sess EXCEPT !.active = FALSE, !.age = "fresh"]
<1>1. s \in SessRow /\ s.id = sess.id /\ s.no = sess.no
  BY DEF SessRow
<1>2. Quiz!DeactivateQuizSession(x) \in {s, sess}
  BY DEF Quiz!DeactivateQuizSession
<1>3. QED
  BY <1>1, <1>2

LEMMA AskedRow ==
    ASSUME sess \in SessRow, NEW x \in Handlers
    PROVE  LET s == Quiz!SetQuizSessionQuestion(x)
           IN  s \in SessRow /\ s.id = sess.id /\ s.no = sess.no
<1> DEFINE k == sess.asked + 1
           s == [sess EXCEPT !.asked = k, !.age = "fresh"]
<1>1. k \in Nat
  BY DEF SessRow
<1>2. Quiz!SetQuizSessionQuestion(x) \in {s, sess}
  BY DEF Quiz!SetQuizSessionQuestion
<1> HIDE DEF k
<1>3. s \in SessRow /\ s.id = sess.id /\ s.no = sess.no
  BY <1>1 DEF SessRow
<1>4. QED
  BY <1>2, <1>3

\* Another question is decided on only while the row has one left.
LEMMA Decided ==
    ASSUME QuizConstants, sess \in SessRow, NEW kind
    PROVE  LET d == Quiz!Decide(kind, sess)
           IN  d \in {"expire", "finish", "wait", "advance"} /\ (d \in Asking => sess.no < Total)
<1>1. sess.no \in Nat /\ Total \in Nat
  BY DEF SessRow, QuizConstants
<1> DEFINE c == Quiz!continueSession(sess)
           g == Quiz!StartGame(sess)
<1>2. c \in {"finish", "wait", "advance"} /\ (c \in Asking => sess.no < Total)
  <2>1. CASE sess.no >= Total
    <3>1. c = "finish"
      BY <1>1, <2>1 DEF Quiz!continueSession
    <3>2. QED
      BY <3>1 DEF Asking
  <2>2. CASE sess.no < Total
    <3>1. c \in {"wait", "advance"}
      BY <1>1, <2>2 DEF Quiz!continueSession
    <3>2. QED
      BY <2>2, <3>1
  <2>3. QED
    BY <1>1, <2>1, <2>2
<1>3. g \in {"expire", c}
  BY DEF Quiz!StartGame
<1>4. Quiz!Decide(kind, sess) \in {"finish", c, g}
  BY Zenon DEF Quiz!Decide
<1> HIDE DEF c, g
<1>5. QED
  BY <1>2, <1>3, <1>4 DEF Asking

-----------------------------------------------------------------------------
(* Commands.                                                               *)

LEMMA GotoRow ==
    ASSUME QuizIInv, NEW x \in Handlers, NEW pc \in HandPc
    PROVE  LET n == [hands[x] EXCEPT !.pc = pc]
           IN  /\ n \in HandRow /\ n.pc = pc /\ n.snap = hands[x].snap /\ n.no = hands[x].no
               /\ n.snap <= sess.id
<1>1. hands[x] \in HandRow /\ hands[x].snap <= sess.id
  BY DEF QuizIInv, QuizTypes
<1>2. QED
  BY <1>1 DEF HandRow

\* A handler goes to a place where it neither asks nor has a number in hand.
LEMMA GoesTo ==
    ASSUME QuizConstants, QuizIInv, NEW x \in Handlers,
           NEW pc \in {"create", "schedule"}, Quiz!Goto(x, pc),
           sess' \in SessRow, sess'.id = sess.id, sess'.no = sess.no,
           UNCHANGED <<shown, poll, twice, voted, answered, mishaps>>
    PROVE  QuizIInv'
<1> DEFINE n == [hands[x] EXCEPT !.pc = pc]
<1>1. hands' = [hands EXCEPT ![x] = n]
  BY DEF Quiz!Goto
<1>2. n \in HandRow /\ n.pc = pc /\ n.snap <= sess.id
  <2>1. pc \in HandPc
    BY DEF HandPc
  <2>2. QED
    BY <2>1, GotoRow
<1> HIDE DEF n
<1>3. n.pc # "row" /\ n.pc # "send" /\ n.pc # "retreat" /\ n.pc \notin Asking
  BY <1>2 DEF Asking
<1>4. QED
  BY <1>1, <1>2, <1>3, HandKeeps

LEMMA BeginsKeeps ==
    ASSUME QuizConstants, QuizIInv, NEW x \in Handlers,
           NEW kind \in {"quiz", "next", "stop", "timer"},
           hands' = [hands EXCEPT ![x] = [Quiz!Free EXCEPT !.pc = "read", !.kind = kind]],
           UNCHANGED <<sess, shown, poll, twice, voted, answered, mishaps>>
    PROVE  QuizIInv'
<1> DEFINE n == [Quiz!Free EXCEPT !.pc = "read", !.kind = kind]
<1>1. n \in HandRow /\ n.pc = "read" /\ n.snap = 0
  BY DEF Quiz!Free, HandRow, HandPc
<1>2. hands' = [hands EXCEPT ![x] = n]
  OBVIOUS
<1> HIDE DEF n
<1>3. sess' \in SessRow /\ n.snap <= sess.id /\ n.pc \notin Asking
  BY <1>1 DEF QuizIInv, QuizTypes, SessRow, Asking
<1>4. QED
  BY <1>1, <1>2, <1>3, HandKeeps

LEMMA EnsureKeeps ==
    ASSUME QuizConstants, QuizIInv, NEW x \in Handlers, Quiz!ensureActiveSession(x)
    PROVE  QuizIInv'
<1>1. /\ UNCHANGED <<sess, shown, poll, twice, voted, answered, mishaps>>
      /\ sess \in SessRow /\ sess.id \in Nat
  BY DEF Quiz!ensureActiveSession, QuizIInv, QuizTypes, SessRow
<1> DEFINE d == Quiz!Decide(hands[x].kind, sess)
           to(pc) == hands' = [hands EXCEPT ![x] = [@ EXCEPT !.snap = sess.id, !.pc = pc]]
<1>2. to(d) \/ to("expire") \/ Quiz!Goto(x, "create") \/ Quiz!Return(x)
  BY Zenon DEF Quiz!ensureActiveSession
<1>3. d \in {"expire", "finish", "wait", "advance"} /\ (d \in Asking => sess.no < Total)
  BY <1>1, Decided
<1> HIDE DEF d
<1>4. ASSUME NEW pc \in {"expire", "finish", "wait", "advance"}, pc \in Asking => sess.no < Total, to(pc)
      PROVE  QuizIInv'
  <2> DEFINE n == [hands[x] EXCEPT !.snap = sess.id, !.pc = pc]
  <2>1. n \in HandRow /\ n.pc = pc /\ n.snap = sess.id
    <3>1. pc \in HandPc
      BY DEF HandPc
    <3>2. hands[x] \in HandRow
      BY DEF QuizIInv, QuizTypes
    <3>3. QED
      BY <1>1, <3>1, <3>2 DEF HandRow
  <2>2. hands' = [hands EXCEPT ![x] = n]
    BY <1>4
  <2> HIDE DEF n
  <2>3. n.snap <= sess.id /\ n.pc # "row" /\ n.pc # "send" /\ n.pc # "retreat"
    BY <1>1, <2>1
  <2>4. sess' \in SessRow /\ sess'.id = sess.id /\ sess'.no = sess.no /\ mishaps' \in {mishaps, mishaps + 1}
    BY <1>1
  <2>5. n.pc \in Asking => hands[x].pc \in Asking \/ sess.no < Total
    BY <1>4, <2>1
  <2>6. QED
    BY <1>1, <2>1, <2>2, <2>3, <2>4, <2>5, HandKeeps
<1>5. CASE to("expire")
  <2>1. "expire" \notin Asking
    BY DEF Asking
  <2>2. QED
    BY <1>4, <1>5, <2>1
<1>6. CASE to(d)
  BY <1>3, <1>4, <1>6
<1>7. CASE Quiz!Goto(x, "create")
  BY <1>1, <1>7, GoesTo
<1>8. CASE Quiz!Return(x)
  BY <1>1, <1>8, ReturnKeeps
<1>9. QED
  BY <1>2, <1>5, <1>6, <1>7, <1>8

LEMMA ClosingKeeps ==
    ASSUME QuizConstants, QuizIInv, NEW x \in Handlers, Quiz!Expire(x) \/ Quiz!finishGame(x)
    PROVE  QuizIInv'
<1>1. /\ sess' = Quiz!DeactivateQuizSession(x) /\ UNCHANGED <<shown, poll, twice, voted, answered, mishaps>>
      /\ Quiz!Goto(x, "create") \/ Quiz!Return(x)
  BY DEF Quiz!Expire, Quiz!finishGame
<1>2. sess' \in SessRow /\ sess'.id = sess.id /\ sess'.no = sess.no
  BY <1>1, ClosedRow DEF QuizIInv, QuizTypes
<1>3. QED
  BY <1>1, <1>2, GoesTo, ReturnKeeps

\* No handler knows the new game but the one that made it.
LEMMA NewGameKeeps ==
    ASSUME QuizConstants, QuizIInv, NEW x \in Handlers, Quiz!Create(x)
    PROVE  QuizIInv'
<1>1. QuizTypes /\ Numbers /\ Votes /\ sess \in SessRow /\ sess.id \in Nat /\ Total \in Nat \ {0}
  BY DEF QuizIInv, QuizTypes, SessRow, QuizConstants
<1>2. UNCHANGED <<twice, mishaps>>
  BY DEF Quiz!Create
<1>3. CASE sess.active
  <2>1. Quiz!Return(x) /\ UNCHANGED <<sess, shown, poll, voted, answered>>
    BY <1>3 DEF Quiz!Create
  <2>2. QED
    BY <1>1, <1>2, <2>1, ReturnKeeps
<1>4. CASE ~sess.active
  <2> DEFINE i == sess.id + 1
             n == [hands[x] EXCEPT !.snap = i, !.pc = "advance"]
  <2>1. /\ sess' = [id |-> i, active |-> TRUE, no |-> 0, asked |-> 0, age |-> "fresh"]
        /\ hands' = [hands EXCEPT ![x] = n]
        /\ shown' = {} /\ poll' = {} /\ voted' = 0 /\ answered' = 0
    BY <1>4 DEF Quiz!Create, Quiz!CreateQuizSession
  <2>2. i \in Nat /\ i > sess.id
    BY <1>1
  <2>3. n \in HandRow /\ n.pc = "advance" /\ n.snap = i
    <3>1. "advance" \in HandPc
      BY DEF HandPc
    <3>2. hands[x] \in HandRow
      BY <1>1 DEF QuizTypes
    <3> HIDE DEF i
    <3>3. QED
      BY <2>2, <3>1, <3>2 DEF HandRow
  <2>4. sess' \in SessRow /\ sess'.id = i /\ sess'.no = 0
    BY <2>1, <2>2 DEF SessRow
  <2> HIDE DEF n
  <2>5. /\ hands' \in [Handlers -> HandRow] /\ hands'[x] = n
        /\ \A y \in Handlers : y # x => hands'[y] = hands[y]
    BY <1>1, <2>1, <2>3, HandMoves
  <2>6. \A y \in Handlers : y # x => hands'[y].snap < i
    <3>1. \A y \in Handlers : hands[y].snap \in Nat /\ hands[y].snap <= sess.id
      BY <1>1 DEF QuizTypes, HandRow
    <3>2. QED
      BY <1>1, <2>5, <3>1
  <2>7. QuizTypes'
    <3>1. \A y \in Handlers : hands'[y].snap \in Nat
      BY <2>5 DEF HandRow
    <3> HIDE DEF i
    <3>2. \A y \in Handlers : hands'[y].snap <= i
      BY <2>2, <2>3, <2>5, <2>6, <3>1
    <3>3. QED
      BY <2>4, <2>5, <3>2 DEF QuizTypes
  <2>8. \A y \in Handlers : ~InHand(y)' /\ ~(hands'[y].pc = "row" /\ hands'[y].snap = sess'.id)
    <3>1. \A y \in Handlers : y # x => hands'[y].snap # sess'.id
      <4>1. \A y \in Handlers : hands'[y].snap \in Nat
        BY <2>5 DEF HandRow
      <4> HIDE DEF i
      <4>2. QED
        BY <2>2, <2>4, <2>6, <4>1
    <3>2. QED
      BY <2>3, <2>5, <3>1 DEF InHand
  <2>9. Numbers'
    BY <1>1, <1>2, <2>1, <2>8 DEF Numbers
  <2>10. Bounded'
    BY <1>1, <2>4 DEF Bounded
  <2>11. Votes'
    BY <1>1, <1>2, <2>1 DEF Votes
  <2>12. QED
    BY <2>7, <2>9, <2>10, <2>11 DEF QuizIInv
<1>5. QED
  BY <1>3, <1>4

LEMMA ThrottledKeeps ==
    ASSUME QuizConstants, QuizIInv, NEW x \in Handlers, Quiz!Throttled(x)
    PROVE  QuizIInv'
<1>1. /\ UNCHANGED <<sess, shown, poll, twice, voted, answered, mishaps>> /\ hands[x].pc \in Asking
      /\ sess \in SessRow /\ sess.id \in Nat
  BY DEF Quiz!Throttled, QuizIInv, QuizTypes, SessRow, Asking
<1> DEFINE n == [hands[x] EXCEPT !.snap = sess.id, !.pc = "advance"]
<1>2. hands' = [hands EXCEPT ![x] = n] \/ Quiz!Return(x)
  BY DEF Quiz!Throttled
<1>3. n \in HandRow /\ n.pc = "advance" /\ n.snap = sess.id
  <2>1. "advance" \in HandPc
    BY DEF HandPc
  <2>2. hands[x] \in HandRow
    BY DEF QuizIInv, QuizTypes
  <2>3. QED
    BY <1>1, <2>1, <2>2 DEF HandRow
<1> HIDE DEF n
<1>4. n.snap <= sess.id /\ n.pc # "row" /\ n.pc # "send" /\ n.pc # "retreat"
  BY <1>1, <1>3
<1>5. sess' \in SessRow /\ sess'.id = sess.id /\ sess'.no = sess.no /\ mishaps' \in {mishaps, mishaps + 1}
  BY <1>1
<1>6. CASE hands' = [hands EXCEPT ![x] = n]
  BY <1>1, <1>3, <1>4, <1>5, <1>6, HandKeeps
<1>7. CASE Quiz!Return(x)
  BY <1>1, <1>5, <1>7, ReturnKeeps
<1>8. QED
  BY <1>2, <1>6, <1>7

-----------------------------------------------------------------------------
(* sendNextQuestion.                                                       *)

LEMMA ReserveKeeps ==
    ASSUME QuizConstants, QuizIInv, NEW x \in Handlers, Quiz!sendNextQuestion(x)
    PROVE  QuizIInv'
<1>1. /\ QuizTypes /\ Numbers /\ Bounded /\ Votes /\ sess \in SessRow /\ hands[x] \in HandRow
      /\ sess.id \in Nat /\ sess.no \in Nat /\ IsFiniteSet(Handlers) /\ Total \in Nat
  BY DEF QuizIInv, QuizTypes, SessRow, QuizConstants
<1>2. hands[x].pc = "advance" /\ UNCHANGED <<shown, poll, twice, voted, answered, mishaps>>
  BY DEF Quiz!sendNextQuestion
<1>3. CASE ~(Quiz!Its(x) /\ sess.active)
  <2>1. Quiz!Return(x) /\ UNCHANGED sess
    BY <1>3 DEF Quiz!sendNextQuestion
  <2>2. QED
    BY <1>1, <1>2, <2>1, ReturnKeeps
<1>4. CASE Quiz!Its(x) /\ sess.active
  <2> DEFINE k == sess.no + 1
             n == [hands[x] EXCEPT !.pc = "send", !.no = k]
             s == [sess EXCEPT !.no = k, !.age = "fresh"]
  <2>1. hands' = [hands EXCEPT ![x] = n] /\ sess' = s
    BY <1>4 DEF Quiz!sendNextQuestion, Quiz!AdvanceQuizSessionQuestion
  <2>2. k \in Nat /\ k > sess.no
    BY <1>1
  <2>3. hands[x].snap = sess.id
    BY <1>4 DEF Quiz!Its
  <2> HIDE DEF k
  <2>4. n \in HandRow /\ n.pc = "send" /\ n.no = k /\ n.snap = sess.id
    BY <1>1, <2>2, <2>3 DEF HandRow, HandPc
  <2>5. s \in SessRow /\ s.id = sess.id /\ s.no = k
    BY <1>1, <2>2 DEF SessRow
  <2> HIDE DEF n, s
  <2>6. /\ hands' \in [Handlers -> HandRow] /\ hands'[x] = n
        /\ \A y \in Handlers : y # x => hands'[y] = hands[y]
    BY <1>1, <2>1, <2>4, HandMoves
  <2>7. QuizTypes'
    <3>1. \A y \in Handlers : hands'[y].snap <= sess.id
      BY <1>1, <2>4, <2>6 DEF QuizTypes
    <3>2. QED
      BY <2>1, <2>5, <2>6, <3>1 DEF QuizTypes
  <2>8. Numbers'
    <3> DEFINE N == 1..sess.no
    <3>1. 1..k = N \cup {k} /\ k \notin N
      BY <1>1, <2>2 DEF k
    <3>2. 1..sess'.no = 1..k
      BY <2>1, <2>5
    <3>3. /\ shown \subseteq N /\ poll \subseteq shown /\ twice = FALSE
          /\ \A y \in Handlers : InHand(y) => hands[y].no \in N \ shown
          /\ \A y, z \in Handlers : InHand(y) /\ InHand(z) /\ hands[y].no = hands[z].no => y = z
          /\ \A y \in Handlers : hands[y].pc = "row" /\ hands[y].snap = sess.id => hands[y].no \in shown
      BY <1>1 DEF Numbers
    <3> HIDE DEF N
    <3>4. \A y \in Handlers : y # x => (InHand(y)' => InHand(y) /\ hands'[y].no = hands[y].no)
      BY <2>1, <2>5, <2>6 DEF InHand
    <3>5. \A y \in Handlers : y # x /\ InHand(y)' => hands'[y].no \in N \ shown
      BY <3>3, <3>4
    <3>6. \A y \in Handlers : InHand(y)' => hands'[y].no \in (1..k) \ shown
      BY <2>4, <2>6, <3>1, <3>3, <3>5
    <3>7. ASSUME NEW y \in Handlers, NEW z \in Handlers, InHand(y)', InHand(z)',
                 hands'[y].no = hands'[z].no
          PROVE  y = z
      BY <2>4, <2>6, <3>1, <3>3, <3>4, <3>5, <3>7
    <3>8. \A y \in Handlers : hands'[y].pc = "row" /\ hands'[y].snap = sess'.id => hands'[y].no \in shown
      BY <2>1, <2>4, <2>5, <2>6, <3>3
    <3>9. shown \subseteq 1..k
      BY <3>1, <3>3
    <3>10. QED
      BY <1>2, <3>2, <3>3, <3>6, <3>7, <3>8, <3>9 DEF Numbers
  <2>9. Bounded'
    <3> DEFINE c == Cardinality(Handlers)
               i == Cardinality(Coming)
               j == Cardinality(Coming')
    <3>1. hands[x].pc \in Asking /\ n.pc \notin Asking
      BY <1>2, <2>4 DEF Asking
    <3>2. /\ c \in Nat /\ i \in Nat /\ j \in Nat /\ j + 1 = i /\ i <= c
          /\ sess.no < Total \/ sess.no + i <= Total + c - 1
      BY <1>1, <2>1, <2>4, <3>1, ComingFinite, ComingAfter DEF Bounded
    <3>3. sess'.no = k
      BY <2>1, <2>5
    <3> HIDE DEF c, i, j
    <3>4. k < Total \/ k + j <= Total + c - 1
      BY <1>1, <3>2 DEF k
    <3>5. QED
      BY <3>3, <3>4 DEF Bounded, c, j
  <2>10. Votes'
    BY <1>1, <1>2, VotesKept
  <2>11. QED
    BY <2>7, <2>8, <2>9, <2>10 DEF QuizIInv
<1>5. QED
  BY <1>3, <1>4

\* A poll of the newest game carries a number nobody else has.
LEMMA SendPollKeeps ==
    ASSUME QuizConstants, QuizIInv, NEW x \in Handlers, Quiz!SendPoll(x)
    PROVE  QuizIInv'
<1>1. QuizTypes /\ Numbers /\ Bounded /\ Votes /\ sess \in SessRow /\ sess.no \in Nat
  BY DEF QuizIInv, QuizTypes, SessRow
<1> DEFINE n == [hands[x] EXCEPT !.pc = "row"]
<1>2. /\ hands[x].pc = "send" /\ hands' = [hands EXCEPT ![x] = n]
      /\ UNCHANGED <<sess, poll, voted, answered, mishaps>>
  BY DEF Quiz!SendPoll, Quiz!Goto
<1>3. n \in HandRow /\ n.pc = "row" /\ n.snap = hands[x].snap /\ n.no = hands[x].no /\ n.snap <= sess.id
  <2>1. "row" \in HandPc
    BY DEF HandPc
  <2>2. QED
    BY <2>1, GotoRow
<1> HIDE DEF n
<1>4. /\ hands' \in [Handlers -> HandRow] /\ hands'[x] = n
      /\ \A y \in Handlers : y # x => hands'[y] = hands[y]
  BY <1>1, <1>2, <1>3, HandMoves
<1>5. QuizTypes'
  BY <1>1, <1>2, <1>3, <1>4 DEF QuizTypes
<1>6. Bounded'
  <2>1. n.pc \notin Asking /\ sess' \in SessRow /\ sess'.no <= sess.no
    BY <1>1, <1>2, <1>3 DEF Asking
  <2>2. QED
    BY <1>2, <1>3, <2>1, BoundedKept
<1>7. Votes'
  BY <1>1, <1>2, VotesKept
<1>8. Numbers'
  <2> DEFINE N == 1..sess.no
             g == hands[x].no
  <2>1. /\ shown \subseteq N /\ poll \subseteq shown /\ twice = FALSE
        /\ \A y \in Handlers : InHand(y) => hands[y].no \in N \ shown
        /\ \A y, z \in Handlers : InHand(y) /\ InHand(z) /\ hands[y].no = hands[z].no => y = z
        /\ \A y \in Handlers : hands[y].pc = "row" /\ hands[y].snap = sess.id => hands[y].no \in shown
    BY <1>1 DEF Numbers
  <2>2. \/ /\ hands[x].snap = sess.id /\ shown' = shown \cup {g}
           /\ twice' = (twice \/ g \in shown)
        \/ hands[x].snap # sess.id /\ UNCHANGED <<shown, twice>>
    BY DEF Quiz!SendPoll, Quiz!Its
  <2>3. hands[x].snap = sess.id => InHand(x) /\ g \in N \ shown
    BY <1>2, <2>1 DEF InHand
  <2>4. twice' = FALSE /\ shown' \subseteq N /\ shown \subseteq shown' /\ shown' \subseteq shown \cup {g}
    BY <2>1, <2>2, <2>3
  <2>5. \A y \in Handlers : InHand(y)' => y # x /\ InHand(y) /\ hands'[y].no = hands[y].no
    BY <1>2, <1>3, <1>4 DEF InHand
  <2>6. ASSUME NEW y \in Handlers, InHand(y)' PROVE hands'[y].no \in N \ shown'
    <3>1. y # x /\ InHand(y) /\ hands'[y].no = hands[y].no /\ hands[y].no \in N \ shown
      BY <2>1, <2>5, <2>6
    <3>2. CASE hands[x].snap = sess.id
      <4>1. InHand(x) /\ hands[y].no # g
        BY <2>1, <2>3, <3>1, <3>2
      <4>2. QED
        BY <2>4, <3>1, <4>1
    <3>3. CASE hands[x].snap # sess.id
      BY <2>2, <3>1, <3>3
    <3>4. QED
      BY <3>2, <3>3
  <2>7. \A y, z \in Handlers : InHand(y)' /\ InHand(z)' /\ hands'[y].no = hands'[z].no => y = z
    BY <2>1, <2>5
  <2>8. ASSUME NEW y \in Handlers, hands'[y].pc = "row", hands'[y].snap = sess'.id
        PROVE  hands'[y].no \in shown'
    <3>1. CASE y = x
      BY <1>2, <1>3, <1>4, <2>2, <2>8, <3>1
    <3>2. CASE y # x
      BY <1>2, <1>4, <2>1, <2>4, <2>8, <3>2
    <3>3. QED
      BY <3>1, <3>2
  <2>9. 1..sess'.no = N
    BY <1>2
  <2> HIDE DEF N
  <2>10. poll' \subseteq shown'
    BY <1>2, <2>1, <2>4
  <2>11. QED
    BY <2>4, <2>6, <2>7, <2>8, <2>9, <2>10 DEF Numbers
<1>9. QED
  BY <1>5, <1>6, <1>7, <1>8 DEF QuizIInv

LEMMA QuizSendFailsKeeps ==
    ASSUME QuizConstants, QuizIInv, NEW x \in Handlers, Quiz!SendFails(x)
    PROVE  QuizIInv'
<1>1. /\ UNCHANGED <<sess, shown, poll, twice, voted, answered>> /\ mishaps' \in {mishaps, mishaps + 1}
      /\ (hands[x].pc = "send" /\ Quiz!Goto(x, "retreat")) \/ Quiz!Return(x)
  <2>1. /\ UNCHANGED <<sess, shown, poll, voted, answered>> /\ mishaps' \in {mishaps, mishaps + 1}
        /\ \/ Quiz!Return(x) /\ UNCHANGED twice
           \/ /\ hands[x].pc = "send" /\ Quiz!Goto(x, "retreat")
              /\ \E posted \in BOOLEAN :
                    twice' = (twice \/ (posted /\ Quiz!Its(x) /\ hands[x].no \in shown))
    BY DEF Quiz!SendFails, Quiz!Trouble
  <2>2. twice = FALSE /\ (hands[x].pc = "send" /\ Quiz!Its(x) => hands[x].no \notin shown)
    BY DEF QuizIInv, Numbers, InHand, Quiz!Its
  <2>3. QED
    BY <2>1, <2>2
<1>2. sess' \in SessRow /\ sess'.id = sess.id /\ sess'.no = sess.no
  BY <1>1 DEF QuizIInv, QuizTypes
<1>3. CASE Quiz!Return(x)
  BY <1>1, <1>2, <1>3, ReturnKeeps
<1>4. CASE hands[x].pc = "send" /\ Quiz!Goto(x, "retreat")
  <2> DEFINE n == [hands[x] EXCEPT !.pc = "retreat"]
  <2>1. hands' = [hands EXCEPT ![x] = n]
    BY <1>4 DEF Quiz!Goto
  <2>2. n \in HandRow /\ n.pc = "retreat" /\ n.snap = hands[x].snap /\ n.no = hands[x].no /\ n.snap <= sess.id
    <3>1. "retreat" \in HandPc
      BY DEF HandPc
    <3>2. QED
      BY <3>1, GotoRow
  <2> HIDE DEF n
  <2>3. n.pc \notin Asking
    BY <2>2 DEF Asking
  <2>4. QED
    BY <1>1, <1>2, <1>4, <2>1, <2>2, <2>3, HandKeeps
<1>5. QED
  BY <1>1, <1>3, <1>4

\* Only the newest number is handed back, and nobody has shown it.
LEMMA RetreatKeeps ==
    ASSUME QuizConstants, QuizIInv, NEW x \in Handlers, Quiz!Retreat(x)
    PROVE  QuizIInv'
<1>1. QuizTypes /\ Numbers /\ Bounded /\ Votes /\ sess \in SessRow /\ sess.no \in Nat
  BY DEF QuizIInv, QuizTypes, SessRow
<1>2. /\ hands[x].pc = "retreat" /\ sess' = Quiz!RetreatQuizSessionQuestion(x) /\ Quiz!Return(x)
      /\ UNCHANGED <<shown, poll, twice, voted, answered, mishaps>>
  BY DEF Quiz!Retreat
<1>3. CASE ~(Quiz!Its(x) /\ sess.no = hands[x].no)
  <2>1. UNCHANGED sess
    BY <1>2, <1>3 DEF Quiz!RetreatQuizSessionQuestion
  <2>2. QED
    BY <1>1, <1>2, <2>1, ReturnKeeps
<1>4. CASE Quiz!Its(x) /\ sess.no = hands[x].no
  <2> DEFINE k == sess.no - 1
             s == [sess EXCEPT !.no = k]
             n == Quiz!Free
             N == 1..sess.no
  <2>1. sess' = s /\ hands' = [hands EXCEPT ![x] = n]
    BY <1>2, <1>4 DEF Quiz!RetreatQuizSessionQuestion, Quiz!Return
  <2>2. n \in HandRow /\ n.pc = "free" /\ n.snap = 0
    BY DEF Quiz!Free, HandRow, HandPc
  <2>3. InHand(x) /\ hands[x].no = sess.no
    BY <1>2, <1>4 DEF InHand, Quiz!Its
  <2>4. /\ shown \subseteq N /\ poll \subseteq shown /\ twice = FALSE
        /\ \A y \in Handlers : InHand(y) => hands[y].no \in N \ shown
        /\ \A y, z \in Handlers : InHand(y) /\ InHand(z) /\ hands[y].no = hands[z].no => y = z
        /\ \A y \in Handlers : hands[y].pc = "row" /\ hands[y].snap = sess.id => hands[y].no \in shown
    BY <1>1 DEF Numbers
  <2>5. sess.no \in N /\ sess.no \notin shown
    BY <2>3, <2>4
  <2>6. k \in Nat /\ k < sess.no /\ 1..k = N \ {sess.no}
    BY <1>1, <2>5
  <2> HIDE DEF k
  <2>7. s \in SessRow /\ s.id = sess.id /\ s.no = k
    BY <1>1, <2>6 DEF SessRow
  <2> HIDE DEF n, s, N
  <2>8. /\ hands' \in [Handlers -> HandRow] /\ hands'[x] = n
        /\ \A y \in Handlers : y # x => hands'[y] = hands[y]
    BY <1>1, <2>1, <2>2, HandMoves
  <2>9. QuizTypes'
    <3>1. sess.id \in Nat
      BY <1>1 DEF SessRow
    <3>2. \A y \in Handlers : hands'[y].snap <= sess.id
      BY <1>1, <2>2, <2>8, <3>1 DEF QuizTypes
    <3>3. QED
      BY <2>1, <2>7, <2>8, <3>2 DEF QuizTypes
  <2>10. Bounded'
    <3>1. n.pc \notin Asking /\ sess' \in SessRow /\ sess'.no <= sess.no
      BY <1>1, <2>1, <2>2, <2>6, <2>7 DEF Asking
    <3>2. QED
      BY <2>1, <2>2, <3>1, BoundedKept
  <2>11. Votes'
    BY <1>1, <1>2, VotesKept
  <2>12. Numbers'
    <3>1. \A y \in Handlers : InHand(y)' => y # x /\ InHand(y) /\ hands'[y].no = hands[y].no
      BY <2>1, <2>2, <2>7, <2>8 DEF InHand
    <3>2. 1..sess'.no = N \ {sess.no}
      BY <2>1, <2>6, <2>7
    <3>3. ASSUME NEW y \in Handlers, InHand(y)' PROVE hands'[y].no \in (N \ {sess.no}) \ shown
      <4>1. y # x /\ InHand(y) /\ hands'[y].no = hands[y].no /\ hands[y].no \in N \ shown
        BY <2>4, <3>1, <3>3
      <4>2. hands[y].no # sess.no
        BY <2>3, <2>4, <4>1
      <4>3. QED
        BY <4>1, <4>2
    <3>4. \A y, z \in Handlers : InHand(y)' /\ InHand(z)' /\ hands'[y].no = hands'[z].no => y = z
      BY <2>4, <3>1
    <3>5. \A y \in Handlers : hands'[y].pc = "row" /\ hands'[y].snap = sess'.id => hands'[y].no \in shown
      BY <2>1, <2>2, <2>4, <2>7, <2>8
    <3>6. shown \subseteq N \ {sess.no}
      BY <2>4, <2>5
    <3>7. QED
      BY <1>2, <2>4, <3>2, <3>3, <3>4, <3>5, <3>6 DEF Numbers
  <2>13. QED
    BY <2>9, <2>10, <2>11, <2>12 DEF QuizIInv
<1>5. QED
  BY <1>3, <1>4

LEMMA PollRowKeeps ==
    ASSUME QuizConstants, QuizIInv, NEW x \in Handlers, Quiz!CreateQuizPoll(x)
    PROVE  QuizIInv'
<1> DEFINE n == [hands[x] EXCEPT !.pc = "schedule"]
<1>1. /\ hands[x].pc = "row" /\ hands' = [hands EXCEPT ![x] = n]
      /\ UNCHANGED <<sess, shown, twice, voted, answered, mishaps>>
      /\ \/ UNCHANGED poll
         \/ poll' = poll \cup {hands[x].no} /\ hands[x].snap = sess.id
  BY DEF Quiz!CreateQuizPoll, Quiz!Goto, Quiz!Its
<1>2. n \in HandRow /\ n.pc = "schedule" /\ n.snap <= sess.id
  <2>1. "schedule" \in HandPc
    BY DEF HandPc
  <2>2. QED
    BY <2>1, GotoRow
<1> HIDE DEF n
<1>3. n.pc \notin Asking /\ sess' \in SessRow
  BY <1>1, <1>2 DEF Asking, QuizIInv, QuizTypes
<1>4. QED
  BY <1>1, <1>2, <1>3, HandKeeps

LEMMA ScheduleKeeps ==
    ASSUME QuizConstants, QuizIInv, NEW x \in Handlers, Quiz!scheduleAdvance(x)
    PROVE  QuizIInv'
<1>1. /\ sess' = Quiz!SetQuizSessionQuestion(x) /\ Quiz!Return(x)
      /\ UNCHANGED <<shown, poll, twice, voted, answered, mishaps>>
  BY DEF Quiz!scheduleAdvance
<1>2. sess' \in SessRow /\ sess'.id = sess.id /\ sess'.no = sess.no
  BY <1>1, AskedRow DEF QuizIInv, QuizTypes
<1>3. QED
  BY <1>1, <1>2, ReturnKeeps

-----------------------------------------------------------------------------
(* Votes, the clock and restarts.                                          *)

LEMMA RestKeeps ==
    ASSUME QuizIInv, UNCHANGED <<hands, shown, poll, twice>>,
           sess' \in SessRow, sess'.id = sess.id, sess'.no = sess.no, Votes'
    PROVE  QuizIInv'
<1>1. QuizTypes /\ Numbers /\ Bounded
  BY DEF QuizIInv
<1>2. QuizTypes'
  BY <1>1 DEF QuizTypes
<1>3. Numbers'
  <2> DEFINE N == 1..sess.no
  <2>1. 1..sess'.no = N
    OBVIOUS
  <2>2. /\ shown \subseteq N /\ poll \subseteq shown /\ twice = FALSE
        /\ \A y \in Handlers : InHand(y) => hands[y].no \in N \ shown
        /\ \A y, z \in Handlers : InHand(y) /\ InHand(z) /\ hands[y].no = hands[z].no => y = z
        /\ \A y \in Handlers : hands[y].pc = "row" /\ hands[y].snap = sess.id => hands[y].no \in shown
    BY <1>1 DEF Numbers
  <2> HIDE DEF N
  <2>3. \A y \in Handlers : InHand(y)' = InHand(y)
    BY DEF InHand
  <2>4. QED
    BY <2>1, <2>2, <2>3 DEF Numbers
<1>4. Coming' = Coming
  BY DEF Coming
<1>5. Bounded'
  BY <1>1, <1>4 DEF Bounded
<1>6. QED
  BY <1>2, <1>3, <1>5 DEF QuizIInv

LEMMA VoteKeeps ==
    ASSUME QuizIInv, NEW n \in Nat \ {0}, Quiz!HandlePollAnswer(n) \/ Quiz!Redelivered(n)
    PROVE  QuizIInv'
<1>1. Votes /\ UNCHANGED <<sess, hands, shown, poll, twice>> /\ sess' \in SessRow
  BY DEF Quiz!HandlePollAnswer, Quiz!Redelivered, QuizIInv, QuizTypes
<1>2. CASE Quiz!HandlePollAnswer(n)
  <2>1. voted = 0 /\ voted' # 0 /\ answered' \in {answered, answered + 1} /\ UNCHANGED mishaps
    BY <1>2 DEF Quiz!HandlePollAnswer, Quiz!UpsertQuizParticipant
  <2>2. answered \in Nat /\ mishaps \in Nat /\ answered <= mishaps
    BY <1>1, <2>1 DEF Votes
  <2>3. answered' \in Nat /\ answered' <= 1 + mishaps
    BY <2>1, <2>2
  <2>4. Votes'
    BY <2>1, <2>2, <2>3 DEF Votes
  <2>5. QED
    BY <1>1, <2>4, RestKeeps
<1>3. CASE Quiz!Redelivered(n)
  <2>1. UNCHANGED voted /\ answered' = answered + 1 /\ mishaps' = mishaps + 1 /\ voted # 0
    BY <1>3 DEF Quiz!Redelivered, Quiz!UpsertQuizParticipant, Quiz!Trouble
  <2>2. answered \in Nat /\ mishaps \in Nat /\ answered <= 1 + mishaps
    BY <1>1, <2>1 DEF Votes
  <2>3. answered' \in Nat /\ mishaps' \in Nat /\ answered' <= 1 + mishaps'
    BY <2>1, <2>2
  <2>4. Votes'
    BY <2>1, <2>3 DEF Votes
  <2>5. QED
    BY <1>1, <2>4, RestKeeps
<1>4. QED
  BY <1>2, <1>3

LEMMA TimeKeeps ==
    ASSUME QuizIInv, Quiz!TimePasses
    PROVE  QuizIInv'
<1>1. /\ UNCHANGED <<hands, shown, poll, twice, voted, answered>> /\ mishaps' \in {mishaps, mishaps + 1}
      /\ \/ sess' = [sess EXCEPT !.age = "quiet"]
         \/ sess' = [sess EXCEPT !.age = "idle"]
  BY DEF Quiz!TimePasses, Quiz!Trouble
<1>2. sess \in SessRow /\ Votes
  BY DEF QuizIInv, QuizTypes
<1>3. sess' \in SessRow /\ sess'.id = sess.id /\ sess'.no = sess.no
  <2>1. ASSUME NEW a \in {"quiet", "idle"}
        PROVE  LET s == [sess EXCEPT !.age = a] IN s \in SessRow /\ s.id = sess.id /\ s.no = sess.no
    BY <1>2 DEF SessRow
  <2>2. QED
    BY <1>1, <2>1
<1>4. Votes'
  BY <1>1, <1>2, VotesKept
<1>5. QED
  BY <1>1, <1>3, <1>4, RestKeeps

LEMMA RestartKeeps ==
    ASSUME QuizConstants, QuizIInv, Quiz!Restart
    PROVE  QuizIInv'
<1>1. /\ hands' = [x \in Handlers |-> Quiz!Free] /\ mishaps' \in {mishaps, mishaps + 1}
      /\ UNCHANGED <<sess, shown, poll, twice, voted, answered>>
  BY DEF Quiz!Restart, Quiz!Trouble
<1>2. /\ QuizTypes /\ Numbers /\ Bounded /\ Votes /\ sess \in SessRow /\ sess.no \in Nat /\ sess.id \in Nat
      /\ Total \in Nat
  BY DEF QuizIInv, QuizTypes, SessRow, QuizConstants
<1>3. Quiz!Free \in HandRow /\ Quiz!Free.pc = "free" /\ Quiz!Free.snap = 0
  BY DEF Quiz!Free, HandRow, HandPc
<1>4. QuizTypes'
  BY <1>1, <1>2, <1>3 DEF QuizTypes
<1>5. Numbers'
  <2>1. \A x \in Handlers : hands'[x].pc = "free"
    BY <1>1, <1>3
  <2>2. \A x \in Handlers : ~InHand(x)'
    BY <2>1 DEF InHand
  <2>3. UNCHANGED (1..sess.no)
    BY <1>1
  <2>4. QED
    BY <1>1, <1>2, <2>1, <2>2, <2>3 DEF Numbers
<1>6. Bounded'
  <2>1. Coming' = {}
    BY <1>1, <1>3 DEF Coming, Asking
  <2>2. Cardinality(Coming') = 0
    BY <2>1, FS_EmptySet
  <2> DEFINE c == Cardinality(Handlers)
             k == Cardinality(Coming)
  <2>3. c \in Nat /\ k \in Nat /\ (sess.no < Total \/ sess.no + k <= Total + c - 1)
    BY <1>2, ComingFinite DEF Bounded, QuizConstants
  <2> HIDE DEF c, k
  <2>4. sess.no < Total \/ sess.no + 0 <= Total + c - 1
    BY <1>2, <2>3
  <2>5. QED
    BY <1>1, <2>2, <2>4 DEF Bounded, c
<1>7. Votes'
  BY <1>1, <1>2, VotesKept
<1>8. QED
  BY <1>4, <1>5, <1>6, <1>7 DEF QuizIInv

LEMMA FireKeeps ==
    ASSUME QuizConstants, QuizIInv, NEW x \in Handlers, Quiz!Fire(x)
    PROVE  QuizIInv'
<1>1. /\ UNCHANGED <<sess, shown, poll, twice, voted, answered, mishaps>> /\ Quiz!ContinueScheduledGame(x)
      /\ Votes /\ sess \in SessRow
  BY DEF Quiz!Fire, QuizIInv, QuizTypes
<1>2. CASE UNCHANGED hands
  <2>1. Votes'
    BY <1>1, VotesKept
  <2>2. QED
    BY <1>1, <1>2, <2>1, RestKeeps
<1>3. CASE hands' = [hands EXCEPT ![x] = [Quiz!Free EXCEPT !.pc = "read", !.kind = "timer"]]
  BY <1>1, <1>3, BeginsKeeps
<1>4. QED
  BY <1>1, <1>2, <1>3 DEF Quiz!ContinueScheduledGame

LEMMA QuizStays ==
    ASSUME QuizIInv, UNCHANGED <<sess, hands, shown, poll, twice, voted, answered>>,
           mishaps' \in {mishaps, mishaps + 1}
    PROVE  QuizIInv'
<1>1. sess' \in SessRow /\ Votes
  BY DEF QuizIInv, QuizTypes
<1>2. Votes'
  BY <1>1, VotesKept
<1>3. QED
  BY <1>1, <1>2, RestKeeps

-----------------------------------------------------------------------------

LEMMA QuizInitOK ==
    ASSUME QuizConstants, Quiz!QuizInit
    PROVE  QuizIInv
<1>1. /\ sess = Quiz!NoSession /\ hands = [x \in Handlers |-> Quiz!Free]
      /\ shown = {} /\ poll = {} /\ voted = 0 /\ answered = 0 /\ twice = FALSE /\ mishaps = 0
  BY DEF Quiz!QuizInit
<1>2. sess \in SessRow /\ sess.id = 0 /\ sess.no = 0
  BY <1>1 DEF Quiz!NoSession, SessRow
<1>3. hands \in [Handlers -> HandRow] /\ \A x \in Handlers : hands[x].pc = "free" /\ hands[x].snap = 0
  BY <1>1 DEF Quiz!Free, HandRow, HandPc
<1>4. QuizTypes
  BY <1>2, <1>3 DEF QuizTypes
<1>5. Numbers
  BY <1>1, <1>3 DEF Numbers, InHand
<1>6. Bounded
  BY <1>2 DEF Bounded, QuizConstants
<1>7. Votes
  BY <1>1 DEF Votes
<1>8. QED
  BY <1>4, <1>5, <1>6, <1>7 DEF QuizIInv

LEMMA QuizNextKeeps ==
    ASSUME QuizConstants, QuizIInv, Quiz!QuizNext
    PROVE  QuizIInv'
<1>1. ASSUME NEW x \in Handlers, NEW k \in {"quiz", "next", "stop"}, Quiz!Tap(x, k) PROVE QuizIInv'
  BY <1>1, BeginsKeeps DEF Quiz!Tap
<1>2. ASSUME NEW x \in Handlers, Quiz!Handle(x) PROVE QuizIInv'
  BY <1>2, EnsureKeeps, ClosingKeeps, NewGameKeeps, ThrottledKeeps, ReserveKeeps, SendPollKeeps,
     RetreatKeeps, PollRowKeeps, ScheduleKeeps DEF Quiz!Handle
<1>3. ASSUME NEW x \in Handlers, Quiz!SendFails(x) \/ Quiz!Fire(x) PROVE QuizIInv'
  BY <1>3, QuizSendFailsKeeps, FireKeeps
<1>4. ASSUME NEW n \in 1..Total + Cardinality(Handlers), Quiz!HandlePollAnswer(n) \/ Quiz!Redelivered(n)
      PROVE  QuizIInv'
  <2>1. Total + Cardinality(Handlers) \in Nat
    BY ComingFinite DEF QuizConstants
  <2>2. n \in Nat \ {0}
    BY <2>1
  <2>3. QED
    BY <1>4, <2>2, VoteKeeps
<1>5. CASE Quiz!TimePasses \/ Quiz!Restart
  BY <1>5, TimeKeeps, RestartKeeps
<1>6. CASE Quiz!Switch
  BY <1>6, QuizStays DEF Quiz!Switch, Quiz!Trouble
<1>7. Quiz!Cardinality(Handlers) = Cardinality(Handlers)
  BY DEF Quiz!Cardinality, Cardinality
<1>8. QED
  BY <1>1, <1>2, <1>3, <1>4, <1>5, <1>6, <1>7 DEF Quiz!QuizNext

\* Once a poll is confirmed its number is not posted again, the game runs past
\* its last question by at most one poll for every other handler at work, and
\* no vote is invented, however commands, timers, failed sends, lost answers and
\* restarts interleave (sendNextQuestion, HandlePollAnswer).
THEOREM QuizThm ==
    ASSUME QuizConstants
    PROVE  Quiz!QuizSpec => []QuizInv
<1>1. Quiz!QuizInit => QuizIInv
  BY QuizInitOK
<1>2. QuizIInv /\ [Quiz!QuizNext]_(Quiz!quizVars) => QuizIInv'
  <2>1. ASSUME QuizIInv, UNCHANGED Quiz!quizVars PROVE QuizIInv'
    BY <2>1, QuizStays DEF Quiz!quizVars
  <2>2. QED
    BY <2>1, QuizNextKeeps
<1>3. QuizIInv => QuizInv
  BY QuizImplies DEF QuizInv
<1>4. QED
  BY <1>1, <1>2, <1>3, PTL DEF Quiz!QuizSpec

-----------------------------------------------------------------------------
(***************************************************************************)
(* The support sockets (SupportHub), for any number of sockets, messages    *)
(* and tickets and any queue length.                                        *)
(*                                                                         *)
(* Where a socket stands decides whether the hub may know it (Known): the   *)
(* hub's tables hold nobody who has left.  A learner's open socket that is  *)
(* no longer the registered one is named by the handler that replaced it    *)
(* and has not closed it yet (Replaced), from its registration on.          *)
(***************************************************************************)
HubConstants ==
    /\ QueueCap \in Nat /\ Learners \cap Staff = {}
    /\ Hub!Nobody \notin Learners \cup Staff

ConnRow == [st : {"none", "accepted", "registered", "live", "leaving", "gone"}, q : 0..QueueCap,
            closed : BOOLEAN, slow : BOOLEAN, old : Learners \cup {Hub!Nobody}]
HubRow == [byUser : Learners \cup {Hub!Nobody}, admins : SUBSET Staff, room : SUBSET Hub!Conns]

Known(c, r, t) ==
    /\ r.old # Hub!Nobody => r.st = "registered"
    /\ t.byUser = c => r.st \in {"registered", "live", "leaving"}
    /\ c \in t.room \cup t.admins => r.st \in {"live", "leaving"}
IsOpen(r) == r.st \in {"registered", "live"} /\ ~r.closed
Replaced(f, t) ==
    \A c \in Learners : IsOpen(f[c]) => t.byUser = c \/ \E d \in Learners : f[d].old = c
SocketsOK ==
    /\ socket \in [Hub!Conns -> ConnRow] /\ hub \in HubRow
    /\ \A c \in Hub!Conns : Known(c, socket[c], hub)
    /\ Replaced(socket, hub)

\* A message not broadcast yet was queued to nobody.
PushesOK ==
    /\ pushed \in [Hub!Conns -> [1..MaxMsgs -> Nat]]
    /\ \A c \in Hub!Conns, m \in 1..MaxMsgs : pushed[c][m] <= 1 /\ (m \notin sent => pushed[c][m] = 0)

\* A ticket in Redis has opened nothing, and no other is the same.
TicketsOK ==
    /\ mints \in Seq(Nat) /\ \A i \in 1..Len(mints) : mints[i] <= 1
    /\ \A t \in tickets : t[2] \in 1..Len(mints) /\ mints[t[2]] = 0
    /\ \A t, u \in tickets : t[2] = u[2] => t = u

HubIInv == SocketsOK /\ PushesOK /\ TicketsOK /\ broken = FALSE

-----------------------------------------------------------------------------
(* Sockets.                                                                *)

LEMMA Enqueued ==
    ASSUME HubConstants, NEW c, NEW s \in ConnRow
    PROVE  /\ Hub!Enqueue(c, s) \in ConnRow
           /\ Hub!Enqueue(c, s).st = s.st /\ Hub!Enqueue(c, s).old = s.old
           /\ Hub!Enqueue(c, s).closed = s.closed
           /\ s.closed => Hub!Enqueue(c, s) = s
<1>1. s.q \in 0..QueueCap /\ QueueCap \in Nat
  BY DEF ConnRow, HubConstants
<1>2. s.q < QueueCap => s.q + 1 \in 0..QueueCap
  BY <1>1
<1>3. QED
  BY <1>2 DEF Hub!Enqueue, ConnRow

\* One socket moves on.
LEMMA SocketStep ==
    ASSUME SocketsOK, NEW c \in Hub!Conns, NEW r \in ConnRow, socket' = [socket EXCEPT ![c] = r],
           hub' \in HubRow, Known(c, r, hub'),
           \A d \in Hub!Conns \ {c} : d \in hub'.room \cup hub'.admins => d \in hub.room \cup hub.admins,
           hub'.byUser \in {c, hub.byUser, Hub!Nobody},
           socket[c].old # Hub!Nobody => r.old = socket[c].old,
           hub'.byUser # hub.byUser => hub.byUser \in {c, Hub!Nobody} \/ (c \in Learners /\ r.old = hub.byUser),
           c \in Learners /\ IsOpen(r) => hub'.byUser = c \/ (IsOpen(socket[c]) /\ hub'.byUser = hub.byUser),
           HubConstants
    PROVE  SocketsOK'
<1>1. /\ socket' \in [Hub!Conns -> ConnRow] /\ socket'[c] = r
      /\ \A d \in Hub!Conns \ {c} : socket'[d] = socket[d]
      /\ Learners \subseteq Hub!Conns
  BY DEF SocketsOK, Hub!Conns
<1>2. ASSUME NEW d \in Hub!Conns PROVE Known(d, socket'[d], hub')
  <2>1. CASE d = c
    BY <1>1, <2>1
  <2>2. CASE d # c
    <3>1. Known(d, socket[d], hub) /\ socket'[d] = socket[d]
      BY <1>1, <2>2 DEF SocketsOK
    <3>2. hub'.byUser = d => hub.byUser = d
      BY <2>2 DEF HubConstants, Hub!Conns
    <3>3. QED
      BY <2>2, <3>1, <3>2 DEF Known
  <2>3. QED
    BY <2>1, <2>2
<1>3. Replaced(socket', hub')
  <2> SUFFICES ASSUME NEW d \in Learners, IsOpen(socket'[d])
               PROVE  hub'.byUser = d \/ \E e \in Learners : socket'[e].old = d
    BY DEF Replaced
  <2>1. d # Hub!Nobody /\ d \in Hub!Conns
    BY DEF HubConstants, Hub!Conns
  <2>2. CASE d = c /\ hub'.byUser = c
    BY <2>2
  <2>3. CASE ~(d = c /\ hub'.byUser = c)
    <3>1. IsOpen(socket[d]) /\ (d = c => hub'.byUser = hub.byUser)
      BY <1>1, <2>1, <2>3
    <3>2. hub.byUser = d \/ \E e \in Learners : socket[e].old = d
      BY <3>1 DEF SocketsOK, Replaced
    <3>3. CASE hub.byUser = d
      <4>1. CASE hub'.byUser = hub.byUser
        BY <3>3, <4>1
      <4>2. CASE hub'.byUser # hub.byUser
        <5>1. c \in Learners /\ r.old = d
          BY <2>1, <3>1, <3>3, <4>2
        <5>2. QED
          BY <1>1, <5>1
      <4>3. QED
        BY <4>1, <4>2
    <3>4. CASE \E e \in Learners : socket[e].old = d
      <4>1. PICK e \in Learners : socket[e].old = d
        BY <3>4
      <4>2. socket'[e].old = d
        BY <1>1, <2>1, <4>1
      <4>3. QED
        BY <4>2
    <3>5. QED
      BY <3>2, <3>3, <3>4
  <2>4. QED
    BY <2>2, <2>3
<1>4. QED
  BY <1>1, <1>2, <1>3 DEF SocketsOK

LEMMA RegisterKeeps ==
    ASSUME HubConstants, SocketsOK, NEW c \in Hub!Conns,
           Hub!RegisterUser(c) \/ Hub!JoinRoom(c) \/ Hub!RegisterAdmin(c)
    PROVE  SocketsOK'
<1>1. /\ socket[c] \in ConnRow /\ Known(c, socket[c], hub) /\ hub \in HubRow
      /\ hub.byUser \in Learners \cup {Hub!Nobody} /\ c # Hub!Nobody
  BY DEF SocketsOK, HubRow, HubConstants, Hub!Conns
<1>2. CASE Hub!RegisterUser(c)
  <2> DEFINE r == [socket[c] EXCEPT !.st = "registered", !.old = hub.byUser]
  <2>1. /\ socket[c].st = "accepted" /\ c \in Learners /\ socket' = [socket EXCEPT ![c] = r]
        /\ hub' = [hub EXCEPT !.byUser = c]
    BY <1>2 DEF Hub!RegisterUser, Hub!Is
  <2>2. /\ r \in ConnRow /\ r.st = "registered" /\ r.old = hub.byUser
    BY <1>1 DEF ConnRow
  <2> HIDE DEF r
  <2>3. hub' \in HubRow /\ hub'.byUser = c /\ hub'.room = hub.room /\ hub'.admins = hub.admins
    BY <1>1, <2>1 DEF HubRow
  <2>4. socket[c].old = Hub!Nobody /\ c \notin hub.room \cup hub.admins
    BY <1>1, <2>1 DEF Known
  <2>5. Known(c, r, hub')
    BY <2>2, <2>3, <2>4 DEF Known
  <2>6. QED
    BY <2>1, <2>2, <2>3, <2>4, <2>5, SocketStep
<1>3. CASE Hub!JoinRoom(c)
  <2> DEFINE s == Hub!Enqueue(c, socket[c])
             r == [s EXCEPT !.st = "live"]
  <2>1. /\ socket[c].st = "registered" /\ socket[c].old = Hub!Nobody /\ socket' = [socket EXCEPT ![c] = r]
        /\ hub' = [hub EXCEPT !.room = hub.room \cup {c}]
    BY <1>3 DEF Hub!JoinRoom, Hub!SubscribeConversation, Hub!Is
  <2>2. /\ s \in ConnRow /\ s.old = socket[c].old /\ s.closed = socket[c].closed
    BY <1>1, Enqueued
  <2> HIDE DEF s
  <2>3. /\ r \in ConnRow /\ r.st = "live" /\ r.old = socket[c].old /\ r.closed = socket[c].closed
    BY <2>2 DEF ConnRow
  <2> HIDE DEF r
  <2>4. hub' \in HubRow /\ hub'.byUser = hub.byUser /\ hub'.room = hub.room \cup {c} /\ hub'.admins = hub.admins
    BY <1>1, <2>1 DEF HubRow
  <2>5. Known(c, r, hub')
    BY <2>1, <2>3 DEF Known
  <2>6. IsOpen(r) => IsOpen(socket[c])
    BY <2>1, <2>3 DEF IsOpen
  <2>7. QED
    BY <2>1, <2>3, <2>4, <2>5, <2>6, SocketStep
<1>4. CASE Hub!RegisterAdmin(c)
  <2> DEFINE s == Hub!Enqueue(c, socket[c])
             r == [s EXCEPT !.st = "live"]
  <2>1. /\ socket[c].st = "accepted" /\ c \in Staff /\ socket' = [socket EXCEPT ![c] = r]
        /\ hub' = [hub EXCEPT !.admins = hub.admins \cup {c}]
    BY <1>4 DEF Hub!RegisterAdmin, Hub!Is
  <2>2. /\ s \in ConnRow /\ s.old = socket[c].old /\ s.closed = socket[c].closed
    BY <1>1, Enqueued
  <2> HIDE DEF s
  <2>3. /\ r \in ConnRow /\ r.st = "live" /\ r.old = socket[c].old /\ r.closed = socket[c].closed
    BY <2>2 DEF ConnRow
  <2> HIDE DEF r
  <2>4. hub' \in HubRow /\ hub'.byUser = hub.byUser /\ hub'.room = hub.room /\ hub'.admins = hub.admins \cup {c}
    BY <1>1, <2>1 DEF HubRow
  <2>5. socket[c].old = Hub!Nobody
    BY <1>1, <2>1 DEF Known
  <2>6. Known(c, r, hub')
    BY <2>3, <2>5 DEF Known
  <2>7. c \notin Learners
    BY <2>1 DEF HubConstants
  <2>8. QED
    BY <2>1, <2>3, <2>4, <2>5, <2>6, <2>7, SocketStep
<1>5. QED
  BY <1>2, <1>3, <1>4

\* A socket that opens, is written to, breaks or leaves.
LEMMA SocketKeeps ==
    ASSUME HubConstants, SocketsOK, NEW c \in Hub!Conns,
           Hub!writePump(c) \/ Hub!Close(c) \/ Hub!PeerLeaves(c) \/ Hub!ReadFails(c)
             \/ (Hub!Is(c, "none") /\ Hub!Enter(c, "accepted") /\ UNCHANGED hub)
    PROVE  SocketsOK'
<1>1. /\ socket[c] \in ConnRow /\ Known(c, socket[c], hub) /\ hub \in HubRow
      /\ socket[c].q \in 0..QueueCap /\ QueueCap \in Nat
  BY DEF SocketsOK, ConnRow, HubConstants
<1>2. ASSUME NEW r \in ConnRow, socket' = [socket EXCEPT ![c] = r], UNCHANGED hub, r.old = socket[c].old,
             IsOpen(r) => IsOpen(socket[c]), Known(c, r, hub)
      PROVE  SocketsOK'
  BY <1>1, <1>2, SocketStep
<1>3. CASE Hub!writePump(c)
  <2> DEFINE r == [socket[c] EXCEPT !.q = @ - 1]
  <2>1. socket' = [socket EXCEPT ![c] = r] /\ UNCHANGED hub /\ socket[c].q > 0
    BY <1>3 DEF Hub!writePump
  <2>2. socket[c].q - 1 \in 0..QueueCap
    BY <1>1, <2>1
  <2>3. r \in ConnRow /\ r.st = socket[c].st /\ r.old = socket[c].old /\ r.closed = socket[c].closed
    BY <1>1, <2>2 DEF ConnRow
  <2> HIDE DEF r
  <2>4. Known(c, r, hub) /\ (IsOpen(r) => IsOpen(socket[c]))
    BY <1>1, <2>3 DEF Known, IsOpen
  <2>5. QED
    BY <1>2, <2>1, <2>3, <2>4
<1>4. CASE Hub!Close(c)
  <2> DEFINE r == [socket[c] EXCEPT !.closed = TRUE, !.q = 0, !.slow = FALSE]
  <2>1. socket' = [socket EXCEPT ![c] = r] /\ UNCHANGED hub
    BY <1>4 DEF Hub!Close
  <2>2. 0 \in 0..QueueCap
    BY <1>1
  <2>3. r \in ConnRow /\ r.st = socket[c].st /\ r.old = socket[c].old /\ r.closed
    BY <1>1, <2>2 DEF ConnRow
  <2> HIDE DEF r
  <2>4. Known(c, r, hub) /\ ~IsOpen(r)
    BY <1>1, <2>3 DEF Known, IsOpen
  <2>5. QED
    BY <1>2, <2>1, <2>3, <2>4
<1>5. ASSUME NEW x \in {"accepted", "leaving"}, socket' = [socket EXCEPT ![c].st = x], UNCHANGED hub,
             x = "accepted" => socket[c].st = "none", x = "leaving" => socket[c].st = "live"
      PROVE  SocketsOK'
  <2> DEFINE r == [socket[c] EXCEPT !.st = x]
  <2>1. socket' = [socket EXCEPT ![c] = r]
    BY <1>5
  <2>2. r \in ConnRow /\ r.st = x /\ r.old = socket[c].old
    BY <1>1 DEF ConnRow
  <2> HIDE DEF r
  <2>3. Known(c, r, hub) /\ ~IsOpen(r)
    BY <1>1, <1>5, <2>2 DEF Known, IsOpen
  <2>4. QED
    BY <1>2, <1>5, <2>1, <2>2, <2>3
<1>6. QED
  BY <1>3, <1>4, <1>5 DEF Hub!PeerLeaves, Hub!ReadFails, Hub!Enter, Hub!Is

LEMMA LeaveKeeps ==
    ASSUME HubConstants, SocketsOK, NEW c \in Hub!Conns,
           Hub!Unregister(c) \/ Hub!readPump(c)
    PROVE  SocketsOK'
<1>1. /\ socket[c] \in ConnRow /\ Known(c, socket[c], hub) /\ hub \in HubRow /\ socket \in [Hub!Conns -> ConnRow]
  BY DEF SocketsOK
<1>2. CASE Hub!Unregister(c)
  <2> DEFINE r == [Hub!Dead EXCEPT !.st = "gone", !.closed = TRUE]
  <2>1. socket[c].st = "leaving" /\ hub' = Hub!Unregistered(c) /\ socket' = [socket EXCEPT ![c] = r]
    BY <1>2 DEF Hub!Unregister, Hub!Is
  <2>2. Hub!Dead \in ConnRow /\ Hub!Dead.old = Hub!Nobody
    BY DEF Hub!Dead, ConnRow, HubConstants
  <2>3. r \in ConnRow /\ r.st = "gone" /\ r.old = Hub!Nobody
    BY <2>2 DEF ConnRow
  <2> HIDE DEF r
  <2>4. /\ hub' \in HubRow /\ hub'.byUser = (IF hub.byUser = c THEN Hub!Nobody ELSE hub.byUser)
        /\ hub'.admins = hub.admins \ {c} /\ hub'.room = hub.room \ {c}
    BY <1>1, <2>1 DEF HubRow, Hub!Unregistered
  <2>5. hub'.byUser # c /\ c # Hub!Nobody
    BY <2>4 DEF HubConstants, Hub!Conns
  <2>6. Known(c, r, hub')
    BY <2>3, <2>4, <2>5 DEF Known
  <2>7. socket[c].old = Hub!Nobody /\ ~IsOpen(r)
    BY <1>1, <2>1, <2>3 DEF Known, IsOpen
  <2>8. QED
    BY <2>1, <2>3, <2>4, <2>6, <2>7, SocketStep
<1>3. CASE Hub!readPump(c)
  <2>1. socket[c].st = "live" /\ hub' = [hub EXCEPT !.room = hub.room \cup {c}] /\ UNCHANGED socket
    BY <1>3 DEF Hub!readPump, Hub!SubscribeConversation, Hub!Is
  <2>2. hub' \in HubRow /\ hub'.byUser = hub.byUser /\ hub'.room = hub.room \cup {c} /\ hub'.admins = hub.admins
    BY <1>1, <2>1 DEF HubRow
  <2>3. socket' = [socket EXCEPT ![c] = socket[c]]
    BY <1>1, <2>1
  <2>4. Known(c, socket[c], hub')
    BY <1>1, <2>1, <2>2 DEF Known
  <2>5. QED
    BY <1>1, <2>2, <2>3, <2>4, SocketStep
<1>4. QED
  BY <1>2, <1>3

\* The handler of the new socket closes the one it replaced.
LEMMA CloseKeeps ==
    ASSUME HubConstants, SocketsOK, NEW c \in Hub!Conns, Hub!CloseReplaced(c)
    PROVE  SocketsOK'
<1> DEFINE o == socket[c].old
           f == [socket EXCEPT ![o] = [socket[o] EXCEPT !.closed = TRUE, !.q = 0]]
<1>1. /\ socket[c].st = "registered" /\ o # Hub!Nobody /\ UNCHANGED hub
      /\ socket' = [f EXCEPT ![c] = [f[c] EXCEPT !.old = Hub!Nobody]]
  BY DEF Hub!CloseReplaced, Hub!Is
<1>2. socket \in [Hub!Conns -> ConnRow] /\ socket[c] \in ConnRow /\ hub \in HubRow
  BY DEF SocketsOK
<1>3. o \in Learners /\ o \in Hub!Conns /\ Learners \subseteq Hub!Conns
  BY <1>1, <1>2 DEF ConnRow, Hub!Conns
<1>4. 0 \in 0..QueueCap
  BY DEF HubConstants
<1>5. /\ f \in [Hub!Conns -> ConnRow] /\ f[o].closed
      /\ \A d \in Hub!Conns : f[d].st = socket[d].st /\ f[d].old = socket[d].old
      /\ \A d \in Hub!Conns \ {o} : f[d] = socket[d]
  <2> DEFINE r == [socket[o] EXCEPT !.closed = TRUE, !.q = 0]
  <2>1. socket[o] \in ConnRow
    BY <1>2, <1>3
  <2>2. r \in ConnRow /\ r.closed /\ r.st = socket[o].st /\ r.old = socket[o].old
    BY <1>4, <2>1 DEF ConnRow
  <2>3. f = [socket EXCEPT ![o] = r]
    OBVIOUS
  <2> HIDE DEF r, f
  <2>4. QED
    BY <1>2, <1>3, <2>2, <2>3
<1> HIDE DEF f
<1>6. /\ socket' \in [Hub!Conns -> ConnRow]
      /\ socket'[c].old = Hub!Nobody /\ socket'[o].closed
      /\ \A d \in Hub!Conns : socket'[d].st = socket[d].st /\ (d # c => socket'[d].old = socket[d].old)
      /\ \A d \in Hub!Conns \ {o} : socket'[d].closed = socket[d].closed
  <2> DEFINE r == [f[c] EXCEPT !.old = Hub!Nobody]
  <2>1. f[c] \in ConnRow
    BY <1>5
  <2>2. r \in ConnRow /\ r.closed = f[c].closed /\ r.st = f[c].st /\ r.old = Hub!Nobody
    BY <2>1 DEF ConnRow
  <2>3. socket' = [f EXCEPT ![c] = r]
    BY <1>1
  <2> HIDE DEF r
  <2>4. socket' \in [Hub!Conns -> ConnRow] /\ socket'[c] = r /\ \A d \in Hub!Conns \ {c} : socket'[d] = f[d]
    BY <1>5, <2>2, <2>3
  <2>5. QED
    BY <1>3, <1>5, <2>2, <2>4
<1>7. ASSUME NEW d \in Hub!Conns PROVE Known(d, socket'[d], hub')
  BY <1>1, <1>6 DEF Known, SocketsOK
<1>8. Replaced(socket', hub')
  <2> SUFFICES ASSUME NEW d \in Learners, IsOpen(socket'[d])
               PROVE  hub'.byUser = d \/ \E e \in Learners : socket'[e].old = d
    BY DEF Replaced
  <2>1. d # o /\ IsOpen(socket[d]) /\ d \in Hub!Conns
    BY <1>3, <1>6 DEF IsOpen
  <2>2. hub.byUser = d \/ \E e \in Learners : socket[e].old = d
    BY <2>1 DEF SocketsOK, Replaced
  <2>3. CASE \E e \in Learners : socket[e].old = d
    <3>1. PICK e \in Learners : socket[e].old = d
      BY <2>3
    <3>2. e # c /\ socket'[e].old = d
      BY <1>3, <1>6, <2>1, <3>1
    <3>3. QED
      BY <3>2
  <2>4. QED
    BY <1>1, <2>2, <2>3
<1>9. QED
  BY <1>1, <1>2, <1>6, <1>7, <1>8 DEF SocketsOK

-----------------------------------------------------------------------------
(* Messages and tickets.                                                   *)

LEMMA Overwritten ==
    ASSUME NEW S, NEW f \in [S -> Nat], NEW n \in S, NEW a \in Nat,
           NEW g, g = [f EXCEPT ![n] = a]
    PROVE  g \in [S -> Nat] /\ g[n] = a /\ \A m \in S \ {n} : g[m] = f[m]
  OBVIOUS

LEMMA BroadcastKeeps ==
    ASSUME HubConstants, HubIInv, NEW n \in 1..MaxMsgs, Hub!broadcastMessage(n)
    PROVE  HubIInv'
<1>1. SocketsOK /\ PushesOK /\ TicketsOK /\ broken = FALSE /\ socket \in [Hub!Conns -> ConnRow]
  BY DEF HubIInv, SocketsOK
<1> DEFINE heard(c) == Hub!Audience[c] > 0
           took(c) == heard(c) /\ Hub!Enqueue(c, socket[c]).q > socket[c].q
<1>2. /\ n \notin sent /\ sent' = sent \cup {n} /\ UNCHANGED <<tickets, mints, hub>>
      /\ socket' = [c \in Hub!Conns |-> IF heard(c) THEN Hub!Enqueue(c, socket[c]) ELSE socket[c]]
      /\ broken' = (broken \/ \E c \in Hub!Conns : socket[c].closed /\ took(c))
      /\ pushed' = [c \in Hub!Conns |-> IF took(c) THEN [pushed[c] EXCEPT ![n] = @ + Hub!Audience[c]]
                                         ELSE pushed[c]]
  BY DEF Hub!broadcastMessage, Hub!BroadcastConversation
<1>3. \A c \in Hub!Conns :
        /\ socket'[c] \in ConnRow /\ socket'[c].st = socket[c].st /\ socket'[c].old = socket[c].old
        /\ socket'[c].closed = socket[c].closed
  BY <1>1, <1>2, Enqueued
<1>4. SocketsOK'
  <2>1. socket' \in [Hub!Conns -> ConnRow]
    BY <1>2, <1>3
  <2>2. Learners \subseteq Hub!Conns
    BY DEF Hub!Conns
  <2>3. \A c \in Hub!Conns : Known(c, socket'[c], hub)
    BY <1>1, <1>3 DEF SocketsOK, Known
  <2>4. Replaced(socket', hub)
    BY <1>1, <1>3, <2>2 DEF SocketsOK, Replaced, IsOpen
  <2>5. QED
    BY <1>1, <1>2, <2>1, <2>3, <2>4 DEF SocketsOK
<1>5. broken' = FALSE
  <2>1. ASSUME NEW c \in Hub!Conns, socket[c].closed PROVE ~took(c)
    <3>1. Hub!Enqueue(c, socket[c]) = socket[c] /\ socket[c].q \in Nat
      BY <1>1, <2>1, Enqueued DEF ConnRow, HubConstants
    <3>2. QED
      BY <3>1
  <2> HIDE DEF took
  <2>2. QED
    BY <1>1, <1>2, <2>1
<1>6. PushesOK'
  <2>1. ASSUME NEW c \in Hub!Conns
        PROVE  /\ pushed'[c] \in [1..MaxMsgs -> Nat]
               /\ \A m \in 1..MaxMsgs : pushed'[c][m] <= 1 /\ (m \notin sent' => pushed'[c][m] = 0)
    <3>1. /\ pushed[c] \in [1..MaxMsgs -> Nat] /\ pushed[c][n] = 0
          /\ \A m \in 1..MaxMsgs : pushed[c][m] <= 1 /\ (m \notin sent => pushed[c][m] = 0)
      BY <1>1, <1>2 DEF PushesOK
    <3>2. Hub!Audience[c] \in {0, 1}
      BY DEF Hub!Audience
    <3>3. pushed'[c] = IF took(c) THEN [pushed[c] EXCEPT ![n] = @ + Hub!Audience[c]] ELSE pushed[c]
      BY <1>2
    <3> HIDE DEF took
    <3>4. CASE took(c)
      <4>1. pushed'[c] = [pushed[c] EXCEPT ![n] = Hub!Audience[c]]
        <5>1. pushed'[c] = [pushed[c] EXCEPT ![n] = pushed[c][n] + Hub!Audience[c]]
          BY <3>3, <3>4
        <5>2. pushed[c][n] + Hub!Audience[c] = Hub!Audience[c]
          BY <3>1, <3>2
        <5>3. QED
          BY <5>1, <5>2
      <4>2. /\ pushed'[c] \in [1..MaxMsgs -> Nat] /\ pushed'[c][n] = Hub!Audience[c]
            /\ \A m \in (1..MaxMsgs) \ {n} : pushed'[c][m] = pushed[c][m]
        <5>1. Hub!Audience[c] \in Nat
          BY <3>2
        <5> DEFINE S == 1..MaxMsgs
                   f == pushed[c]
                   g == pushed'[c]
                   a == Hub!Audience[c]
        <5>2. f \in [S -> Nat] /\ n \in S /\ a \in Nat /\ g = [f EXCEPT ![n] = a]
          BY <3>1, <4>1, <5>1
        <5> HIDE DEF S, f, g, a
        <5>3. g \in [S -> Nat] /\ g[n] = a /\ \A m \in S \ {n} : g[m] = f[m]
          BY <5>2, Overwritten
        <5>4. QED
          BY <5>3 DEF S, f, g, a
      <4>3. QED
        BY <1>2, <3>1, <3>2, <4>2
    <3>5. CASE ~took(c)
      BY <1>2, <3>1, <3>3, <3>5
    <3>6. QED
      BY <3>4, <3>5
  <2>2. pushed' = [c \in Hub!Conns |-> pushed'[c]]
    BY <1>2
  <2>3. QED
    BY <2>1, <2>2 DEF PushesOK
<1>7. QED
  BY <1>1, <1>2, <1>4, <1>5, <1>6 DEF HubIInv, TicketsOK

LEMMA MintKeeps ==
    ASSUME TicketsOK, NEW kind, Hub!MintTicket(kind)
    PROVE  TicketsOK'
<1> DEFINE n == Len(mints)
<1>1. mints' = Append(mints, 0) /\ tickets' = tickets \cup {<<kind, Len(mints')>>}
  BY DEF Hub!MintTicket
<1>2. mints \in Seq(Nat) /\ n \in Nat
  BY DEF TicketsOK
<1>3. /\ mints' \in Seq(Nat) /\ Len(mints') = n + 1 /\ mints'[n + 1] = 0
      /\ \A i \in 1..n : mints'[i] = mints[i]
  BY <1>1, <1>2
<1>4. /\ \A t \in tickets : t[2] \in 1..n /\ mints[t[2]] = 0
      /\ \A i \in 1..n : mints[i] <= 1
      /\ \A t, u \in tickets : t[2] = u[2] => t = u
  BY DEF TicketsOK
<1> HIDE DEF n
<1>5. \A i \in 1..(n + 1) : i \in 1..n \/ i = n + 1
  BY <1>2
<1>6. 1..n \subseteq 1..(n + 1) /\ n + 1 \in 1..(n + 1) /\ n + 1 \notin 1..n
  BY <1>2
<1>7. \A t \in tickets' : t \in tickets \/ (t = <<kind, n + 1>> /\ t[2] = n + 1)
  BY <1>1, <1>3
<1>8. \A t \in tickets' : t[2] \in 1..(n + 1) /\ mints'[t[2]] = 0
  BY <1>3, <1>4, <1>6, <1>7
<1>9. \A t, u \in tickets' : t[2] = u[2] => t = u
  BY <1>4, <1>6, <1>7
<1>10. \A i \in 1..(n + 1) : mints'[i] <= 1
  BY <1>3, <1>4, <1>5
<1>11. QED
  BY <1>3, <1>8, <1>9, <1>10 DEF TicketsOK

LEMMA RedeemKeeps ==
    ASSUME TicketsOK, NEW t \in tickets, Hub!RedeemTicket(t), mints' = [mints EXCEPT ![t[2]] = @ + 1]
    PROVE  TicketsOK'
<1>1. /\ mints \in Seq(Nat) /\ t[2] \in 1..Len(mints) /\ mints[t[2]] = 0 /\ tickets' = tickets \ {t}
      /\ mints' = [mints EXCEPT ![t[2]] = 1]
  <2>1. mints \in Seq(Nat) /\ t[2] \in 1..Len(mints) /\ mints[t[2]] = 0 /\ tickets' = tickets \ {t}
    BY DEF TicketsOK, Hub!RedeemTicket
  <2>2. mints[t[2]] + 1 = 1 /\ mints' = [mints EXCEPT ![t[2]] = mints[t[2]] + 1]
    BY <2>1
  <2>3. QED
    BY <2>1, <2>2
<1>2. /\ mints' \in Seq(Nat) /\ Len(mints') = Len(mints) /\ mints'[t[2]] = 1
      /\ \A i \in 1..Len(mints) : i # t[2] => mints'[i] = mints[i]
  BY <1>1, ExceptSeq
<1>3. \A u \in tickets' : u \in tickets /\ u[2] # t[2]
  BY <1>1 DEF TicketsOK
<1>4. \A u \in tickets' : u[2] \in 1..Len(mints) /\ mints'[u[2]] = 0
  BY <1>2, <1>3 DEF TicketsOK
<1>5. \A i \in 1..Len(mints) : mints'[i] <= 1
  BY <1>2 DEF TicketsOK
<1>6. \A u, v \in tickets' : u[2] = v[2] => u = v
  BY <1>3 DEF TicketsOK
<1>7. QED
  BY <1>2, <1>4, <1>5, <1>6 DEF TicketsOK

-----------------------------------------------------------------------------
\* A message reaches a socket once, a ticket opens one socket, the hub keeps
\* nobody who has left, a learner's open sockets are the registered one and
\* those being replaced, and nothing is sent on a closed queue
\* (supportchat/hub.go, ws.go), for any number of sockets and messages.
THEOREM HubThm ==
    ASSUME HubConstants
    PROVE  Hub!HubSpec => []HubInv
<1>1. Hub!HubInit => HubIInv
  <2> SUFFICES ASSUME Hub!HubInit PROVE HubIInv
    OBVIOUS
  <2>1. /\ sent = {} /\ tickets = {} /\ mints = <<>> /\ broken = FALSE
        /\ hub = [byUser |-> Hub!Nobody, admins |-> {}, room |-> {}]
        /\ socket = [c \in Hub!Conns |-> Hub!Dead]
        /\ pushed = [c \in Hub!Conns |-> [m \in 1..MaxMsgs |-> 0]]
    BY DEF Hub!HubInit
  <2>2. Hub!Dead \in ConnRow /\ Hub!Dead.old = Hub!Nobody /\ ~IsOpen(Hub!Dead)
    BY DEF Hub!Dead, ConnRow, HubConstants, IsOpen
  <2>3. hub \in HubRow /\ hub.byUser = Hub!Nobody /\ hub.admins = {} /\ hub.room = {}
    BY <2>1 DEF HubRow
  <2>4. \A c \in Hub!Conns : c # hub.byUser /\ socket[c] = Hub!Dead
    BY <2>1, <2>3 DEF HubConstants, Hub!Conns
  <2>5. SocketsOK
    <3>1. \A c \in Hub!Conns : Known(c, socket[c], hub)
      BY <2>2, <2>3, <2>4 DEF Known
    <3>2. Replaced(socket, hub)
      BY <2>2, <2>4 DEF Replaced, Hub!Conns
    <3>3. QED
      BY <2>1, <2>2, <2>3, <3>1, <3>2 DEF SocketsOK
  <2>6. PushesOK
    BY <2>1 DEF PushesOK
  <2>7. TicketsOK
    BY <2>1 DEF TicketsOK
  <2>8. QED
    BY <2>1, <2>5, <2>6, <2>7 DEF HubIInv
<1>2. HubIInv /\ [Hub!HubNext]_Hub!hubVars => HubIInv'
  <2> SUFFICES ASSUME HubIInv, [Hub!HubNext]_Hub!hubVars PROVE HubIInv'
    OBVIOUS
  <2>1. SocketsOK /\ PushesOK /\ TicketsOK /\ broken = FALSE
    BY DEF HubIInv
  <2>2. ASSUME SocketsOK', UNCHANGED <<sent, tickets, mints, pushed, broken>> PROVE HubIInv'
    BY <2>1, <2>2 DEF HubIInv, PushesOK, TicketsOK
  <2>3. ASSUME NEW n \in 1..MaxMsgs, Hub!broadcastMessage(n) PROVE HubIInv'
    BY <2>3, BroadcastKeeps
  <2>4. ASSUME NEW kind \in {"user", "admin"}, Hub!MintTicket(kind) PROVE HubIInv'
    <3>1. TicketsOK' /\ UNCHANGED <<sent, hub, socket, pushed, broken>>
      BY <2>1, <2>4, MintKeeps DEF Hub!MintTicket
    <3>2. QED
      BY <2>1, <3>1 DEF HubIInv, PushesOK, SocketsOK
  <2>5. ASSUME NEW c \in Hub!Conns, Hub!serveWS(c) PROVE HubIInv'
    <3>1. PICK t \in tickets : Hub!RedeemTicket(t) /\ mints' = [mints EXCEPT ![t[2]] = @ + 1]
      BY <2>5 DEF Hub!serveWS
    <3>2. TicketsOK'
      BY <2>1, <3>1, RedeemKeeps
    <3>3. Hub!Is(c, "none") /\ Hub!Enter(c, "accepted") /\ UNCHANGED <<sent, hub, pushed, broken>>
      BY <2>5 DEF Hub!serveWS
    <3>4. SocketsOK'
      BY <2>1, <3>3, SocketKeeps
    <3>5. QED
      BY <2>1, <3>2, <3>3, <3>4 DEF HubIInv, PushesOK
  <2>6. ASSUME NEW c \in Hub!Conns, Hub!Handler(c) \/ Hub!readPump(c) \/ Hub!Close(c) \/ Hub!PeerLeaves(c)
        PROVE  HubIInv'
    <3>1. SocketsOK'
      BY <2>1, <2>6, RegisterKeeps, SocketKeeps, LeaveKeeps, CloseKeeps DEF Hub!Handler
    <3>2. UNCHANGED <<sent, tickets, mints, pushed, broken>>
      BY <2>6 DEF Hub!Handler, Hub!RegisterUser, Hub!CloseReplaced, Hub!JoinRoom, Hub!RegisterAdmin,
                  Hub!writePump, Hub!ReadFails, Hub!Unregister, Hub!readPump, Hub!Close, Hub!PeerLeaves
    <3>3. QED
      BY <2>2, <3>1, <3>2
  <2>7. CASE UNCHANGED Hub!hubVars
    <3>1. UNCHANGED <<sent, tickets, mints, hub, socket, pushed, broken>>
      BY <2>7 DEF Hub!hubVars
    <3>2. QED
      BY <2>1, <2>2, <3>1 DEF SocketsOK
  <2>8. QED
    BY <2>3, <2>4, <2>5, <2>6, <2>7 DEF Hub!HubNext
<1>3. HubIInv => HubInv
  <2> SUFFICES ASSUME HubIInv PROVE Hub!HubInv
    BY DEF HubInv
  <2>1. SocketsOK /\ PushesOK /\ TicketsOK /\ broken = FALSE
    BY DEF HubIInv
  <2>2. Hub!HubTypeOK
    <3>1. \A c \in Hub!Conns : socket[c].q \in 0..QueueCap
      BY <2>1 DEF SocketsOK, ConnRow
    <3>2. \A c \in Hub!Conns : socket[c].q <= QueueCap
      BY <3>1 DEF HubConstants
    <3>3. QED
      BY <2>1, <3>2 DEF SocketsOK, HubRow, Hub!HubTypeOK
  <2>3. Hub!PushedOnce
    BY <2>1 DEF PushesOK, Hub!PushedOnce
  <2>4. Hub!TicketOnce
    <3>1. DOMAIN mints = 1..Len(mints)
      BY <2>1 DEF TicketsOK
    <3>2. QED
      BY <2>1, <3>1 DEF TicketsOK, Hub!TicketOnce
  <2>5. Hub!HubClean
    BY <2>1 DEF SocketsOK, Known, Hub!HubClean, Hub!Is
  <2>6. Hub!OneLearnerSocket
    BY <2>1 DEF SocketsOK, Replaced, IsOpen, Hub!OneLearnerSocket, Hub!Is
  <2>7. QED
    BY <2>1, <2>2, <2>3, <2>4, <2>5, <2>6 DEF Hub!HubInv
<1>4. QED
  BY <1>1, <1>2, <1>3, PTL DEF Hub!HubSpec

-----------------------------------------------------------------------------
(***************************************************************************)
(* Web push (WebPush), for any profiles, browsers, workers and deliveries   *)
(* running side by side.                                                    *)
(*                                                                         *)
(* A row is inserted in a later step than the check of the cooldown, so the *)
(* invariant counts, with the rows of a profile, the deliveries that have   *)
(* it on their list and have not inserted yet (Reached).  A launch raises   *)
(* that count by one, and so it raises the number of runs; with a cooldown  *)
(* the count is at most the deliveries at work, unless the check could not  *)
(* be made.  A row that is inserted takes the profile off the list.         *)
(***************************************************************************)
PushConstants == IsFiniteSet(Jobs)

Cooled == {"fsrs_due", "push_test"}
WorkerRow == [p : Profiles, subs : SUBSET Endpoints]
JobRow == [kind : Push!Kinds \cup {"none"}, todo : SUBSET Profiles, at : SUBSET WorkerRow]

PushTypes ==
    /\ owner \in [Endpoints -> Profiles \cup {0}]
    /\ recent \in [Push!Kinds -> [Profiles -> Nat]]
    /\ job \in [Jobs -> JobRow] /\ begun \in Nat /\ blind \in Nat
    /\ \A j \in Jobs : job[j].kind = "none" => job[j].todo = {}

\* The deliveries that are still to insert a row of the kind for the profile.
ToInsert(f, k, p) == {j \in Jobs : f[j].kind = k /\ p \in f[j].todo}
Reached(k, p) == recent[k][p] + Cardinality(ToInsert(job, k, p))

Runs == \A k \in Push!Kinds, p \in Profiles : Reached(k, p) <= begun
Digests == \A p \in Profiles : Reached("fsrs_due", p) <= Cardinality(Jobs)
Tests == \A p \in Profiles : Reached("push_test", p) <= Cardinality(Jobs) + blind

PushIInv == PushTypes /\ Runs /\ Digests /\ Tests

-----------------------------------------------------------------------------
(* Counting.                                                               *)

LEMMA InsertCount ==
    ASSUME PushConstants, NEW f, NEW k, NEW p
    PROVE  /\ IsFiniteSet(ToInsert(f, k, p)) /\ Cardinality(ToInsert(f, k, p)) \in Nat
           /\ Cardinality(ToInsert(f, k, p)) <= Cardinality(Jobs) /\ Cardinality(Jobs) \in Nat
<1>1. ToInsert(f, k, p) \subseteq Jobs
  BY DEF ToInsert
<1>2. IsFiniteSet(Jobs)
  BY DEF PushConstants
<1>3. IsFiniteSet(ToInsert(f, k, p)) /\ Cardinality(ToInsert(f, k, p)) <= Cardinality(Jobs)
  BY <1>1, <1>2, FS_Subset
<1>4. QED
  BY <1>2, <1>3, FS_CardinalityType

LEMMA ReachedType ==
    ASSUME PushConstants, PushTypes, NEW k \in Push!Kinds, NEW p \in Profiles
    PROVE  Reached(k, p) \in Nat /\ recent[k][p] \in Nat /\ recent[k][p] <= Reached(k, p)
<1>1. recent[k][p] \in Nat
  BY DEF PushTypes
<1>2. Cardinality(ToInsert(job, k, p)) \in Nat
  BY InsertCount
<1>3. QED
  BY <1>1, <1>2 DEF Reached

-----------------------------------------------------------------------------
(* The steps.                                                              *)

\* A step that reaches nobody new.
LEMMA NobodyNew ==
    ASSUME PushConstants, PushIInv, PushTypes', UNCHANGED <<begun, blind>>,
           \A k \in Push!Kinds, p \in Profiles : Reached(k, p)' <= Reached(k, p)
    PROVE  PushIInv'
<1>1. PushTypes /\ Runs /\ Digests /\ Tests /\ begun \in Nat /\ blind \in Nat
  BY DEF PushIInv, PushTypes
<1>2. ASSUME NEW k \in Push!Kinds, NEW p \in Profiles, NEW b \in Nat, Reached(k, p) <= b
      PROVE  Reached(k, p)' <= b
  <2>1. Reached(k, p) \in Nat
    BY <1>1, ReachedType
  <2>2. Reached(k, p)' \in Nat
    <3>1. recent'[k][p] \in Nat
      BY DEF PushTypes
    <3>2. Cardinality(ToInsert(job', k, p)) \in Nat
      BY InsertCount
    <3>3. QED
      BY <3>1, <3>2 DEF Reached
  <2>3. Reached(k, p)' <= Reached(k, p)
    OBVIOUS
  <2>4. QED
    BY <1>2, <2>1, <2>2, <2>3
<1>3. Cardinality(Jobs) \in Nat /\ Cardinality(Jobs) + blind \in Nat
  <2>1. Cardinality(Jobs) \in Nat
    BY FS_CardinalityType DEF PushConstants
  <2>2. QED
    BY <1>1, <2>1
<1>4. "fsrs_due" \in Push!Kinds /\ "push_test" \in Push!Kinds
  BY DEF Push!Kinds
<1>5. Runs'
  BY <1>1, <1>2 DEF Runs
<1>6. Digests'
  BY <1>1, <1>2, <1>3, <1>4 DEF Digests
<1>7. Tests'
  BY <1>1, <1>2, <1>3, <1>4 DEF Tests
<1>8. QED
  BY <1>5, <1>6, <1>7 DEF PushIInv

\* Somebody subscribes or drops a browser, a browser is gone, or a day passes.
LEMMA MoveStep ==
    ASSUME PushConstants, PushIInv, UNCHANGED <<job, begun, blind>>,
           owner' \in [Endpoints -> Profiles \cup {0}],
           UNCHANGED recent \/ (recent' = [k \in Push!Kinds |-> [p \in Profiles |-> 0]])
    PROVE  PushIInv'
<1>1. PushTypes
  BY DEF PushIInv
<1>2. PushTypes'
  BY <1>1 DEF PushTypes, JobRow
<1>3. ASSUME NEW k \in Push!Kinds, NEW p \in Profiles
      PROVE  Reached(k, p)' <= Reached(k, p)
  <2>1. recent[k][p] \in Nat /\ recent'[k][p] \in {0, recent[k][p]}
    BY <1>1 DEF PushTypes
  <2>2. Cardinality(ToInsert(job, k, p)) \in Nat
    BY InsertCount
  <2>3. Reached(k, p)' = recent'[k][p] + Cardinality(ToInsert(job, k, p))
    BY DEF Reached
  <2>4. QED
    BY <2>1, <2>2, <2>3 DEF Reached
<1>4. QED
  BY <1>2, <1>3, NobodyNew

\* A delivery goes on with the same list and inserts nothing.
LEMMA JobStep ==
    ASSUME PushConstants, PushIInv, NEW j \in Jobs, NEW r \in JobRow,
           job' = [job EXCEPT ![j] = r], r.todo = job[j].todo,
           r.kind = job[j].kind \/ r.todo = {},
           UNCHANGED <<recent, begun, blind>>, owner' \in [Endpoints -> Profiles \cup {0}]
    PROVE  PushIInv'
<1>1. PushTypes
  BY DEF PushIInv
<1>2. /\ job' \in [Jobs -> JobRow] /\ job'[j] = r /\ \A i \in Jobs \ {j} : job'[i] = job[i]
  BY <1>1 DEF PushTypes
<1>3. \A i \in Jobs : job'[i].kind = "none" => job'[i].todo = {}
  BY <1>1, <1>2 DEF PushTypes
<1>4. PushTypes'
  BY <1>1, <1>2, <1>3 DEF PushTypes, JobRow
<1>5. ASSUME NEW k \in Push!Kinds, NEW p \in Profiles
      PROVE  Reached(k, p)' <= Reached(k, p)
  <2>1. ToInsert(job', k, p) = ToInsert(job, k, p)
    BY <1>2 DEF ToInsert
  <2>2. Reached(k, p)' = Reached(k, p)
    BY <2>1 DEF Reached
  <2>3. Reached(k, p) \in Nat
    BY <1>1, ReachedType
  <2>4. QED
    BY <2>2, <2>3
<1>6. QED
  BY <1>4, <1>5, NobodyNew

\* A delivery starts: one more run for each profile on its list.
LEMMA LaunchReaches ==
    ASSUME PushConstants, PushTypes, NEW j \in Jobs, NEW k \in Push!Kinds, NEW S \in SUBSET Profiles,
           Push!Launch(j, k, S)
    PROVE  /\ \A i \in Jobs : job'[i].kind = "none" => job'[i].todo = {}
           /\ job' \in [Jobs -> JobRow] /\ UNCHANGED <<owner, recent>> /\ begun' = begun + 1
           /\ \A x \in Push!Kinds, p \in Profiles :
                /\ Reached(x, p)' \in {Reached(x, p), Reached(x, p) + 1}
                /\ x # k \/ p \notin S => Reached(x, p)' = Reached(x, p)
<1> DEFINE r == [kind |-> k, todo |-> S, at |-> {}]
<1>1. /\ job[j] = Push!NoJob /\ job' = [job EXCEPT ![j] = r]
      /\ UNCHANGED <<owner, recent>> /\ begun' = begun + 1
  BY DEF Push!Launch, Push!rowsP
<1>2. r \in JobRow /\ r.kind = k /\ r.todo = S /\ k # "none"
  BY DEF JobRow, Push!Kinds
<1>3. job[j].todo = {} /\ job[j].kind = "none"
  BY <1>1 DEF Push!NoJob
<1> HIDE DEF r
<1>4. /\ job' \in [Jobs -> JobRow] /\ job'[j] = r /\ \A i \in Jobs \ {j} : job'[i] = job[i]
  BY <1>1, <1>2 DEF PushTypes
<1>5. \A i \in Jobs : job'[i].kind = "none" => job'[i].todo = {}
  BY <1>2, <1>4 DEF PushTypes
<1>6. ASSUME NEW x \in Push!Kinds, NEW p \in Profiles
      PROVE  /\ Reached(x, p)' \in {Reached(x, p), Reached(x, p) + 1}
             /\ x # k \/ p \notin S => Reached(x, p)' = Reached(x, p)
  <2> DEFINE c == Cardinality(ToInsert(job, x, p))
             d == Cardinality(ToInsert(job', x, p))
  <2>1. Reached(x, p) = recent[x][p] + c /\ Reached(x, p)' = recent[x][p] + d
    BY <1>1 DEF Reached
  <2>2. CASE x # k \/ p \notin S
    <3>1. ToInsert(job', x, p) = ToInsert(job, x, p)
      BY <1>2, <1>3, <1>4, <2>2 DEF ToInsert
    <3>2. QED
      BY <2>1, <3>1
  <2>3. CASE x = k /\ p \in S
    <3>1. ToInsert(job', x, p) = ToInsert(job, x, p) \cup {j} /\ j \notin ToInsert(job, x, p)
      BY <1>2, <1>3, <1>4, <2>3 DEF ToInsert
    <3>2. d = c + 1 /\ c \in Nat
      BY <3>1, InsertCount, FS_AddElement
    <3>3. recent[x][p] \in Nat
      BY DEF PushTypes
    <3> HIDE DEF c, d
    <3>4. recent[x][p] + d = recent[x][p] + c + 1
      BY <3>2, <3>3
    <3>5. QED
      BY <2>1, <2>3, <3>4
  <2>4. QED
    BY <2>2, <2>3
<1>7. QED
  BY <1>1, <1>4, <1>5, <1>6

LEMMA LaunchKeeps ==
    ASSUME PushConstants, PushIInv, NEW j \in Jobs, NEW k \in Push!Kinds, NEW S \in SUBSET Profiles,
           Push!Launch(j, k, S),
           \/ k \notin Cooled /\ UNCHANGED blind
           \/ k \in Cooled /\ UNCHANGED blind /\ \A p \in S : recent[k][p] = 0
           \/ k = "push_test" /\ blind' = blind + 1
    PROVE  PushIInv'
<1>1. PushTypes /\ Runs /\ Digests /\ Tests /\ begun \in Nat /\ blind \in Nat
  BY DEF PushIInv, PushTypes
<1>2. /\ \A i \in Jobs : job'[i].kind = "none" => job'[i].todo = {}
      /\ job' \in [Jobs -> JobRow] /\ UNCHANGED <<owner, recent>> /\ begun' = begun + 1
  BY <1>1, LaunchReaches
<1>3. \A x \in Push!Kinds, p \in Profiles :
         /\ Reached(x, p)' \in {Reached(x, p), Reached(x, p) + 1}
         /\ x # k \/ p \notin S => Reached(x, p)' = Reached(x, p)
  BY <1>1, LaunchReaches
<1>4. blind' \in Nat /\ blind <= blind' /\ begun' \in Nat
  BY <1>1, <1>2
<1>5. PushTypes'
  BY <1>1, <1>2, <1>4 DEF PushTypes
<1>6. Cardinality(Jobs) \in Nat
  BY FS_CardinalityType DEF PushConstants
<1>7. Runs'
  <2> SUFFICES ASSUME NEW x \in Push!Kinds, NEW p \in Profiles PROVE Reached(x, p)' <= begun'
    BY DEF Runs
  <2>1. Reached(x, p) \in Nat
    BY <1>1, ReachedType
  <2>2. Reached(x, p) <= begun
    BY <1>1 DEF Runs
  <2>3. Reached(x, p)' \in {Reached(x, p), Reached(x, p) + 1}
    BY <1>3
  <2>4. QED
    BY <1>1, <1>2, <2>1, <2>2, <2>3
\* Nobody has been told inside the cooldown: at most the deliveries at work.
<1>8. ASSUME NEW x \in Cooled, NEW p \in Profiles, Reached(x, p)' # Reached(x, p), UNCHANGED blind
      PROVE  Reached(x, p)' <= Cardinality(Jobs)
  <2>1. x = k /\ p \in S /\ x \in Push!Kinds
    BY <1>3, <1>8 DEF Cooled, Push!Kinds
  <2>2. recent'[x][p] = 0
    BY <1>1, <1>2, <1>8, <2>1
  <2>3. Cardinality(ToInsert(job', x, p)) <= Cardinality(Jobs) /\ Cardinality(ToInsert(job', x, p)) \in Nat
    BY InsertCount
  <2>4. Reached(x, p)' = recent'[x][p] + Cardinality(ToInsert(job', x, p))
    BY DEF Reached
  <2>5. QED
    BY <2>2, <2>3, <2>4
<1>9. Digests'
  <2> SUFFICES ASSUME NEW p \in Profiles PROVE Reached("fsrs_due", p)' <= Cardinality(Jobs)
    BY DEF Digests
  <2>1. Reached("fsrs_due", p) <= Cardinality(Jobs)
    BY <1>1 DEF Digests
  <2>2. CASE Reached("fsrs_due", p)' = Reached("fsrs_due", p)
    BY <2>1, <2>2
  <2>3. CASE Reached("fsrs_due", p)' # Reached("fsrs_due", p)
    <3>1. k = "fsrs_due"
      BY <1>3, <2>3 DEF Push!Kinds
    <3>2. UNCHANGED blind
      BY <3>1
    <3>3. QED
      BY <1>8, <2>3, <3>2 DEF Cooled
  <2>4. QED
    BY <2>2, <2>3
<1>10. Tests'
  <2> SUFFICES ASSUME NEW p \in Profiles PROVE Reached("push_test", p)' <= Cardinality(Jobs) + blind'
    BY DEF Tests
  <2> DEFINE n == Reached("push_test", p)
             m == Reached("push_test", p)'
  <2>1. n <= Cardinality(Jobs) + blind
    BY <1>1 DEF Tests
  <2>2. "push_test" \in Push!Kinds /\ "push_test" \in Cooled
    BY DEF Push!Kinds, Cooled
  <2>3. n \in Nat
    BY <1>1, <2>2, ReachedType
  <2>4. m \in {n, n + 1}
    BY <1>3, <2>2
  <2>5. m # n /\ UNCHANGED blind => m <= Cardinality(Jobs)
    BY <1>8, <2>2
  <2>6. UNCHANGED blind \/ blind' = blind + 1
    OBVIOUS
  <2> HIDE DEF n, m
  <2>7. m <= Cardinality(Jobs) + blind'
    BY <1>1, <1>4, <1>6, <2>1, <2>3, <2>4, <2>5, <2>6
  <2>8. QED
    BY <2>7 DEF m
<1>11. QED
  BY <1>5, <1>7, <1>9, <1>10 DEF PushIInv

\* The row is inserted, and the profile leaves the list.
LEMMA NotifyKeeps ==
    ASSUME PushConstants, PushIInv, NEW j \in Jobs, Push!Notify(j)
    PROVE  PushIInv'
<1>1. PushTypes /\ job[j] \in JobRow
  BY DEF PushIInv, PushTypes
<1>2. PICK x \in Push!NextIn(j) :
         /\ Push!InsertNotification(j, x)
         /\ job' = [job EXCEPT ![j].todo = @ \ {x}, ![j].at = @ \cup {[p |-> x, subs |-> {}]}]
         /\ UNCHANGED <<owner, gone, due, blind, begun, changes>>
  BY DEF Push!Notify
<1>3. x \in job[j].todo
  BY DEF Push!NextIn
<1> DEFINE S == job[j].todo
           kd == job[j].kind
           a == job[j].at \cup {[p |-> x, subs |-> {}]}
           r == [job[j] EXCEPT !.todo = S \ {x}, !.at = a]
<1>4. x \in Profiles /\ kd \in Push!Kinds
  BY <1>1, <1>3 DEF JobRow, PushTypes
<1>5. job' = [job EXCEPT ![j] = r]
  BY <1>1, <1>2 DEF PushTypes
<1>6. r \in JobRow /\ r.kind = kd /\ r.todo = S \ {x}
  <2>1. a \in SUBSET WorkerRow
    BY <1>1, <1>4 DEF JobRow, WorkerRow
  <2> HIDE DEF a
  <2>2. QED
    BY <1>1, <2>1 DEF JobRow
<1> HIDE DEF r
<1>7. /\ job' \in [Jobs -> JobRow] /\ job'[j] = r /\ \A i \in Jobs \ {j} : job'[i] = job[i]
  BY <1>1, <1>5, <1>6 DEF PushTypes
<1>8. /\ recent' \in [Push!Kinds -> [Profiles -> Nat]]
      /\ recent'[kd][x] = recent[kd][x] + 1
      /\ \A k \in Push!Kinds, p \in Profiles : k # kd \/ p # x => recent'[k][p] = recent[k][p]
  <2>1. recent' = [recent EXCEPT ![kd][x] = @ + 1]
    BY <1>2 DEF Push!InsertNotification
  <2>2. QED
    BY <1>1, <1>4, <2>1 DEF PushTypes
<1>9. PushTypes'
  <2>1. \A i \in Jobs : job'[i].kind = "none" => job'[i].todo = {}
    BY <1>1, <1>4, <1>6, <1>7 DEF PushTypes, Push!Kinds
  <2>2. QED
    BY <1>1, <1>2, <1>7, <1>8, <2>1 DEF PushTypes
<1>10. ASSUME NEW k \in Push!Kinds, NEW p \in Profiles
       PROVE  Reached(k, p)' <= Reached(k, p)
  <2> DEFINE c == Cardinality(ToInsert(job, k, p))
             d == Cardinality(ToInsert(job', k, p))
  <2>1. Reached(k, p) = recent[k][p] + c /\ Reached(k, p)' = recent'[k][p] + d
    BY DEF Reached
  <2>2. recent[k][p] \in Nat /\ c \in Nat
    BY <1>1, InsertCount DEF PushTypes
  <2>3. CASE k = kd /\ p = x
    <3>1. ToInsert(job', k, p) = ToInsert(job, k, p) \ {j} /\ j \in ToInsert(job, k, p)
      BY <1>3, <1>6, <1>7, <2>3 DEF ToInsert
    <3>2. d = c - 1
      BY <3>1, InsertCount, FS_RemoveElement
    <3>3. recent'[k][p] = recent[k][p] + 1
      BY <1>8, <2>3
    <3> HIDE DEF c, d
    <3>4. recent'[k][p] + d <= recent[k][p] + c
      BY <2>2, <3>2, <3>3
    <3>5. QED
      BY <2>1, <3>4
  <2>4. CASE ~(k = kd /\ p = x)
    <3>1. ToInsert(job', k, p) = ToInsert(job, k, p)
      BY <1>6, <1>7, <2>4 DEF ToInsert
    <3>2. recent'[k][p] = recent[k][p]
      BY <1>8, <2>4
    <3> HIDE DEF c, d
    <3>3. d = c
      BY <3>1 DEF c, d
    <3>4. QED
      BY <2>1, <2>2, <3>2, <3>3
  <2>5. QED
    BY <2>3, <2>4
<1>11. QED
  BY <1>2, <1>9, <1>10, NobodyNew

\* A worker goes through a profile's browsers; the run ends.
LEMMA DeliverKeeps ==
    ASSUME PushConstants, PushIInv, NEW j \in Jobs,
           \/ Push!Ends(j)
           \/ \E w \in job[j].at : Push!deliverRaw(j, w) \/ \E e \in Endpoints : Push!Send(j, w, e)
    PROVE  PushIInv'
<1>1. PushTypes /\ job[j] \in JobRow
  BY DEF PushIInv, PushTypes
<1>2. CASE Push!Ends(j)
  <2>1. /\ job' = [job EXCEPT ![j] = Push!NoJob] /\ job[j].todo = {}
        /\ UNCHANGED <<recent, begun, blind, owner>>
    BY <1>2 DEF Push!Ends, Push!rowsP
  <2>2. Push!NoJob \in JobRow /\ Push!NoJob.todo = {}
    BY DEF Push!NoJob, JobRow
  <2>3. QED
    BY <1>1, <2>1, <2>2, JobStep DEF PushTypes
<1>3. ASSUME NEW w \in job[j].at, NEW s \in SUBSET Endpoints, Push!GoesOnWith(j, w, s),
             UNCHANGED <<recent, begun, blind>>, owner' \in [Endpoints -> Profiles \cup {0}]
      PROVE  PushIInv'
  <2> DEFINE a == (job[j].at \ {w}) \cup (IF s = {} THEN {} ELSE {[w EXCEPT !.subs = s]})
             r == [kind |-> job[j].kind, todo |-> job[j].todo, at |-> a]
  <2>1. w \in WorkerRow /\ [w EXCEPT !.subs = s] \in WorkerRow
    BY <1>1 DEF JobRow, WorkerRow
  <2>2. a \in SUBSET WorkerRow
    BY <1>1, <2>1 DEF JobRow
  <2>3. job' = [job EXCEPT ![j].at = a]
    BY <1>3 DEF Push!GoesOnWith
  <2> HIDE DEF a
  <2>4. job' = [job EXCEPT ![j] = r]
    <3>1. r = [job[j] EXCEPT !.at = a]
      BY <1>1 DEF JobRow
    <3>2. job' = [job EXCEPT ![j] = [job[j] EXCEPT !.at = a]]
      BY <1>1, <2>3 DEF PushTypes
    <3> HIDE DEF r
    <3>3. QED
      BY <3>1, <3>2
  <2>5. r \in JobRow /\ r.kind = job[j].kind /\ r.todo = job[j].todo
    BY <1>1, <2>2 DEF JobRow
  <2> HIDE DEF r
  <2>6. QED
    BY <1>3, <2>4, <2>5, JobStep
<1>4. ASSUME NEW w \in job[j].at, Push!deliverRaw(j, w) PROVE PushIInv'
  <2> DEFINE s == Push!ListPushSubscriptions(w.p)
  <2>1. Push!GoesOnWith(j, w, s) /\ UNCHANGED <<recent, begun, blind, owner>>
    BY <1>4 DEF Push!deliverRaw, Push!rowsP
  <2>2. s \in SUBSET Endpoints
    BY DEF Push!ListPushSubscriptions
  <2> HIDE DEF s
  <2>3. owner' \in [Endpoints -> Profiles \cup {0}]
    BY <1>1, <2>1 DEF PushTypes
  <2>4. QED
    BY <1>3, <2>1, <2>2, <2>3
<1>5. ASSUME NEW w \in job[j].at, NEW e \in Endpoints, Push!Send(j, w, e) PROVE PushIInv'
  <2>1. w \in WorkerRow
    BY <1>1 DEF JobRow
  <2>2. w.subs \ {e} \in SUBSET Endpoints
    BY <2>1 DEF WorkerRow
  <2>3. Push!GoesOnWith(j, w, w.subs \ {e}) /\ UNCHANGED <<recent, begun, blind>>
    BY <1>5 DEF Push!Send
  <2>4. owner' \in [Endpoints -> Profiles \cup {0}]
    BY <1>1, <1>5 DEF PushTypes, Push!Send, Push!DeletePushSubscriptionByEndpoint
  <2>5. QED
    BY <1>3, <2>2, <2>3, <2>4
<1>6. QED
  BY <1>2, <1>4, <1>5

-----------------------------------------------------------------------------
\* A run tells a profile once, however many workers it has, and a cooldown is
\* overrun by at most one push per delivery at work or per check that could not
\* be made (Notify, ListFSRSDueCandidates, SendTest, BroadcastSupport), for any
\* number of profiles, browsers, workers and deliveries.
THEOREM PushThm ==
    ASSUME PushConstants
    PROVE  Push!PushSpec => []PushInv
<1>1. Push!PushInit => PushIInv
  <2> SUFFICES ASSUME Push!PushInit PROVE PushIInv
    OBVIOUS
  <2>1. job = [j \in Jobs |-> Push!NoJob] /\ begun = 0 /\ blind = 0
    BY DEF Push!PushInit
  <2>2. Push!NoJob \in JobRow /\ Push!NoJob.todo = {}
    BY DEF Push!NoJob, JobRow
  <2>3. PushTypes
    <3>1. owner \in [Endpoints -> Profiles \cup {0}]
      BY DEF Push!PushInit
    <3>2. recent \in [Push!Kinds -> [Profiles -> Nat]]
      BY DEF Push!PushInit
    <3>3. job \in [Jobs -> JobRow] /\ \A j \in Jobs : job[j].kind = "none" => job[j].todo = {}
      BY <2>1, <2>2
    <3>4. QED
      BY <2>1, <3>1, <3>2, <3>3 DEF PushTypes
  <2>4. \A k \in Push!Kinds, p \in Profiles : Reached(k, p) = 0
    <3> SUFFICES ASSUME NEW k \in Push!Kinds, NEW p \in Profiles PROVE Reached(k, p) = 0
      OBVIOUS
    <3>1. recent[k][p] = 0
      BY DEF Push!PushInit
    <3>2. ToInsert(job, k, p) = {}
      BY <2>1, <2>2 DEF ToInsert
    <3>3. Cardinality(ToInsert(job, k, p)) = 0
      BY <3>2, FS_EmptySet
    <3>4. QED
      BY <3>1, <3>3 DEF Reached
  <2>5. Cardinality(Jobs) \in Nat
    BY FS_CardinalityType DEF PushConstants
  <2>6. Runs /\ Digests /\ Tests
    BY <2>1, <2>4, <2>5 DEF Runs, Digests, Tests, Push!Kinds
  <2>7. QED
    BY <2>3, <2>6 DEF PushIInv
<1>2. PushIInv /\ [Push!PushNext]_Push!pushVars => PushIInv'
  <2> SUFFICES ASSUME PushIInv, [Push!PushNext]_Push!pushVars PROVE PushIInv'
    OBVIOUS
  <2>1. PushTypes
    BY DEF PushIInv
  <2>2. ASSUME NEW p \in Profiles, NEW e \in Endpoints, Push!Subscribe(p, e) \/ Push!Unsubscribe(p, e)
        PROVE  PushIInv'
    <3>1. UNCHANGED <<recent, job, begun, blind>> /\ owner' \in [Endpoints -> Profiles \cup {0}]
      BY <2>1, <2>2 DEF PushTypes, Push!Subscribe, Push!Unsubscribe, Push!UpsertPushSubscription,
                        Push!DeletePushSubscription
    <3>2. QED
      BY <3>1, MoveStep
  <2>3. CASE Push!NextDayP \/ (\E e \in Endpoints : Push!Expire(e)) \/ UNCHANGED Push!pushVars
    <3>1. /\ UNCHANGED <<owner, job, begun, blind>>
          /\ UNCHANGED recent \/ recent' = [k \in Push!Kinds |-> [p \in Profiles |-> 0]]
      BY <2>3 DEF Push!NextDayP, Push!Expire, Push!pushVars, Push!rowsP
    <3>2. owner' \in [Endpoints -> Profiles \cup {0}]
      BY <2>1, <3>1 DEF PushTypes
    <3>3. QED
      BY <3>1, <3>2, MoveStep
  <2>4. ASSUME NEW j \in Jobs, Push!RunFSRSDueDigest(j) PROVE PushIInv'
    <3>1. /\ Push!ListFSRSDueCandidates \in SUBSET Profiles
          /\ \A p \in Push!ListFSRSDueCandidates : recent["fsrs_due"][p] = 0
      BY DEF Push!ListFSRSDueCandidates, Push!ListBroadcastRecipients
    <3>2. Push!Launch(j, "fsrs_due", Push!ListFSRSDueCandidates) /\ UNCHANGED blind
      BY <2>4 DEF Push!RunFSRSDueDigest
    <3>3. "fsrs_due" \in Push!Kinds /\ "fsrs_due" \in Cooled
      BY DEF Push!Kinds, Cooled
    <3>4. QED
      BY <3>1, <3>2, <3>3, LaunchKeeps
  <2>5. ASSUME NEW j \in Jobs, Push!BroadcastSupport(j) PROVE PushIInv'
    <3>1. Push!ListBroadcastRecipients \in SUBSET Profiles
      BY DEF Push!ListBroadcastRecipients
    <3>2. Push!Launch(j, "broadcast", Push!ListBroadcastRecipients) /\ UNCHANGED blind
      BY <2>5 DEF Push!BroadcastSupport
    <3>3. "broadcast" \in Push!Kinds /\ "broadcast" \notin Cooled
      BY DEF Push!Kinds, Cooled
    <3>4. QED
      BY <3>1, <3>2, <3>3, LaunchKeeps
  <2>6. ASSUME NEW j \in Jobs, NEW p \in Profiles, Push!SendTest(j, p) PROVE PushIInv'
    <3>1. {p} \in SUBSET Profiles /\ Push!Launch(j, "push_test", {p})
      BY <2>6 DEF Push!SendTest
    <3>2. \/ UNCHANGED blind /\ \A q \in {p} : recent["push_test"][q] = 0
          \/ blind' = blind + 1
      BY <2>6 DEF Push!SendTest
    <3>3. "push_test" \in Push!Kinds /\ "push_test" \in Cooled
      BY DEF Push!Kinds, Cooled
    <3>4. QED
      BY <3>1, <3>2, <3>3, LaunchKeeps
  <2>7. QED
    BY <2>2, <2>3, <2>4, <2>5, <2>6, NotifyKeeps, DeliverKeeps
       DEF Push!PushNext, Push!testPush
<1>3. PushIInv => PushInv
  <2> SUFFICES ASSUME PushIInv PROVE Push!ToldOncePerRun
    BY DEF PushInv, Push!PushInv
  <2>1. Push!Cardinality(Jobs) = Cardinality(Jobs) /\ Cardinality(Jobs) \in Nat
    BY FS_CardinalityType DEF Push!Cardinality, Cardinality, PushConstants
  <2>2. PushTypes /\ Runs /\ Digests /\ Tests
    BY DEF PushIInv
  <2>3. "fsrs_due" \in Push!Kinds /\ "push_test" \in Push!Kinds
    BY DEF Push!Kinds
  <2>4. ASSUME NEW k \in Push!Kinds, NEW p \in Profiles, NEW b \in Nat, Reached(k, p) <= b
        PROVE  recent[k][p] <= b
    <3>1. Reached(k, p) \in Nat /\ recent[k][p] \in Nat /\ recent[k][p] <= Reached(k, p)
      BY <2>2, ReachedType
    <3>2. QED
      BY <2>4, <3>1
  <2>5. begun \in Nat /\ Cardinality(Jobs) + blind \in Nat
    BY <2>1, <2>2 DEF PushTypes
  <2>6. \A k \in Push!Kinds, p \in Profiles : recent[k][p] <= begun
    BY <2>2, <2>4, <2>5 DEF Runs
  <2>7. \A p \in Profiles : recent["fsrs_due"][p] <= Cardinality(Jobs)
    BY <2>1, <2>2, <2>3, <2>4 DEF Digests
  <2>8. \A p \in Profiles : recent["push_test"][p] <= Cardinality(Jobs) + blind
    BY <2>2, <2>3, <2>4, <2>5 DEF Tests
  <2>9. QED
    BY <2>1, <2>6, <2>7, <2>8 DEF Push!ToldOncePerRun
<1>4. QED
  BY <1>1, <1>2, <1>3, PTL DEF Push!PushSpec
-----------------------------------------------------------------------------
(***************************************************************************)
(* The updates of a classroom PC (StationUpdate), for any number of builds, *)
(* installer runs, failed renames and power cuts.                           *)
(*                                                                          *)
(* Every file operation may be the last one before the power goes, so what  *)
(* is on the disk must be safe after each.  The updater deletes target.prev *)
(* only while the build in use is in place, or set aside by an installer    *)
(* that copies itself there (Kept).  A rename keeps the running image only  *)
(* if the process runs from what the file holds (Image), and a new build is *)
(* moved into place only when the process runs from another file (Placed).  *)
(* The installer is at work in the first half hour only, when no hand-over  *)
(* has begun (Installing).                                                  *)
(***************************************************************************)
UpdateConstants == MaxVersion \in Nat \ {0}

Build == Update!Versions \cup {Update!Missing}
Files == {"none", "target", "prev", "old", "download"}
ProcessRow == [v : Build, file : Files]
UpdaterRow == [pc : {"idle", "stage", "replace", "aside", "place", "placed", "restart"}, m : Build]

UpdateTypes ==
    /\ release \in Update!Versions /\ target \in Build /\ prev \in Build /\ old \in Build
    /\ staged \in Build /\ run \in ProcessRow /\ up \in UpdaterRow
    /\ ins \in {"idle", "sweep", "move", "fill", "copy"}

Available == Update!OnDisk \/ dl

\* Before the updater deletes the copy before last, and while an installer
\* copies, the build in use is in place or set aside.
Kept ==
    /\ up.pc = "replace" => target # Update!Missing \/ ins = "fill"
    /\ ins = "fill" => old # Update!Missing

\* The process runs from a file that holds its version, and runs from one if it runs.
Image ==
    /\ run.v = 0 <=> run.file = "none"
    /\ run.file = "target" => target = run.v
    /\ run.file = "prev" => prev = run.v
    /\ run.file = "old" => old = run.v

Placed ==
    /\ up.pc \notin {"idle", "restart"} => up.m \in Update!Versions
    /\ up.pc = "place" => run.file # "target"

Installing == ins # "idle" => busy /\ dl /\ run.file = "download" /\ up.pc # "restart"

UpdateIInv == UpdateTypes /\ Available /\ Kept /\ Image /\ Placed /\ Installing

LEMMA FollowFacts ==
    ASSUME run \in ProcessRow, NEW from \in Files, NEW to \in Files
    PROVE  /\ Update!Follow(from, to) \in ProcessRow
           /\ Update!Follow(from, to).v = run.v
           /\ Update!Follow(from, to).file = IF run.file = from THEN to ELSE run.file
  BY DEF Update!Follow, ProcessRow

LEMMA BuildFacts ==
    ASSUME UpdateConstants
    PROVE  /\ 0 \in Build /\ Update!Missing = 0 /\ 0 \notin Update!Versions
           /\ Update!Versions \subseteq Build /\ 1 \in Update!Versions
           /\ Update!Off \in ProcessRow /\ Update!Off.v = 0 /\ Update!Off.file = "none"
           /\ Update!IdleUpdater \in UpdaterRow /\ Update!IdleUpdater.pc = "idle"
  BY DEF UpdateConstants, Build, Update!Versions, Update!Missing, Update!Off, Update!IdleUpdater,
         ProcessRow, UpdaterRow, Files

\* The server publishes, the kiosk is used or idle.
LEMMA AroundUpdate ==
    ASSUME UpdateConstants, UpdateIInv, Update!describeAgent \/ Update!trackIdle
    PROVE  UpdateIInv'
<1>1. release' \in Update!Versions
  BY DEF UpdateIInv, UpdateTypes, Update!describeAgent, Update!trackIdle, Update!Versions, UpdateConstants
<1>2. UNCHANGED <<target, prev, old, staged, run, up, ins, dl>>
  BY DEF Update!describeAgent, Update!trackIdle
<1>3. ins # "idle" => busy' = busy
  BY DEF Update!describeAgent, Update!trackIdle
<1>4. QED
  BY <1>1, <1>2, <1>3 DEF UpdateIInv, UpdateTypes, Available, Update!OnDisk, Kept, Image, Placed, Installing

\* The PC goes on and off.
LEMMA PowerKeeps ==
    ASSUME UpdateConstants, UpdateIInv,
           Update!Boot \/ Update!SwitchOff \/ Update!PowerCut
           \/ \E v \in Update!Versions : Update!runInstaller(v)
    PROVE  UpdateIInv'
<1>1. UNCHANGED <<release, target, prev, old>> /\ (dl => dl')
  BY DEF Update!Boot, Update!SwitchOff, Update!PowerCut, Update!runInstaller
<1>2. CASE Update!SwitchOff \/ Update!PowerCut
  <2>1. /\ run' = Update!Off /\ staged' = staged /\ up'.pc = "idle" /\ up' \in UpdaterRow /\ ins' = "idle"
    BY <1>2, BuildFacts DEF Update!SwitchOff, Update!PowerCut, UpdateIInv, UpdateTypes
  <2>2. QED
    BY <1>1, <2>1, BuildFacts DEF UpdateIInv, UpdateTypes, Available, Update!OnDisk, Kept, Image, Placed, Installing
<1>3. CASE Update!Boot
  <2>1. /\ run' \in ProcessRow /\ run'.v = target /\ run'.file = "target" /\ staged' \in Build
        /\ target # 0 /\ up' = Update!IdleUpdater /\ ins' = "idle"
    BY <1>3, BuildFacts DEF Update!Boot, UpdateIInv, UpdateTypes, ProcessRow, Files, Update!clearStaleMarker
  <2>2. QED
    BY <1>1, <2>1, BuildFacts DEF UpdateIInv, UpdateTypes, Available, Update!OnDisk, Kept, Image, Placed, Installing
<1>4. ASSUME NEW v \in Update!Versions, Update!runInstaller(v) PROVE UpdateIInv'
  <2>1. /\ run' \in ProcessRow /\ run'.v = v /\ run'.file = "download" /\ staged' \in Build
        /\ up' = Update!IdleUpdater /\ ins' = "sweep" /\ busy' /\ dl' /\ v # 0
    BY <1>4, BuildFacts DEF Update!runInstaller, UpdateIInv, UpdateTypes, ProcessRow, Files,
       Update!clearStaleMarker
  <2>2. QED
    BY <1>1, <2>1, BuildFacts DEF UpdateIInv, UpdateTypes, Available, Update!OnDisk, Kept, Image, Placed, Installing
<1>5. QED
  BY <1>2, <1>3, <1>4

\* selfinstall works on the disk while the process runs from the Downloads folder.
LEMMA InstallKeeps ==
    ASSUME UpdateConstants, UpdateIInv, Update!Installer \/ Update!copyFails
    PROVE  UpdateIInv'
<1>1. /\ UNCHANGED <<release, prev, staged, busy, up, dl>>
      /\ ins # "idle" /\ busy /\ dl /\ run.file = "download"
      /\ ins' \in {"idle", "sweep", "move", "fill", "copy"}
  BY DEF Update!Installer, Update!Ensure, Update!replaceExecutable, Update!copyExecutable,
         Update!copyFails, UpdateIInv, Installing
<1>2. run' = run
  BY <1>1 DEF Update!Installer, Update!Ensure, Update!replaceExecutable, Update!copyExecutable,
         Update!copyFails, Update!Follow
<1>3. target' \in Build /\ old' \in Build
  BY BuildFacts DEF Update!Installer, Update!Ensure, Update!replaceExecutable, Update!copyExecutable,
         Update!copyFails, UpdateIInv, UpdateTypes, ProcessRow, Update!Removed
<1>4. Kept'
  <2>1. target \in Build /\ run.v # 0
    BY <1>1 DEF UpdateIInv, UpdateTypes, Image
  <2>2. CASE Update!Ensure
    BY <1>1, <2>2, BuildFacts DEF Update!Ensure, UpdateIInv, Kept
  <2>3. CASE Update!replaceExecutable
    BY <1>1, <2>3, BuildFacts DEF Update!replaceExecutable, UpdateIInv, Kept
  <2>4. CASE Update!copyExecutable
    BY <1>1, <2>1, <2>4, BuildFacts DEF Update!copyExecutable, Kept
  <2>5. CASE Update!copyFails
    BY <1>1, <2>5, BuildFacts DEF Update!copyFails, UpdateIInv, Kept
  <2>6. QED
    BY <2>2, <2>3, <2>4, <2>5 DEF Update!Installer
<1>5. QED
  BY <1>1, <1>2, <1>3, <1>4 DEF UpdateIInv, UpdateTypes, Available, Image, Placed, Installing

\* The process is replaced by the installed copy.
LEMMA HandOverKeeps ==
    ASSUME UpdateConstants, UpdateIInv, Update!restart
    PROVE  UpdateIInv'
<1>1. /\ UNCHANGED <<release, target, prev, old, ins, dl>> /\ up.pc = "restart"
      /\ up' = Update!IdleUpdater
  BY DEF Update!restart
<1>2. ins = "idle"
  BY <1>1 DEF UpdateIInv, Installing
<1>3. /\ staged' \in Build /\ run' \in ProcessRow
      /\ \/ target # 0 /\ run'.file = "target" /\ run'.v = target
         \/ target = 0 /\ run'.file = "none" /\ run'.v = 0
  <2>1. target \in Build /\ staged \in Build
    BY DEF UpdateIInv, UpdateTypes
  <2>2. CASE target = 0
    BY <2>1, <2>2, BuildFacts DEF Update!restart
  <2>3. CASE target # 0
    <3>1. run' = [v |-> target, file |-> "target"] /\ staged' = Update!clearStaleMarker(target)
      BY <2>3, BuildFacts DEF Update!restart
    <3>2. staged' \in Build
      BY <2>1, <3>1, BuildFacts DEF Update!clearStaleMarker
    <3>3. QED
      BY <2>1, <2>3, <3>1, <3>2 DEF ProcessRow, Files
  <2>4. QED
    BY <2>2, <2>3
<1>4. QED
  BY <1>1, <1>2, <1>3, BuildFacts
     DEF UpdateIInv, UpdateTypes, Available, Update!OnDisk, Kept, Image, Placed, Installing

\* The updater looks for a build and loads it.
LEMMA CheckKeeps ==
    ASSUME UpdateConstants, UpdateIInv, Update!checkOnce \/ Update!stage \/ Update!writeStaged
    PROVE  UpdateIInv'
<1>1. UNCHANGED <<release, target, prev, old, run, busy, ins, dl>>
  BY DEF Update!checkOnce, Update!stage, Update!writeStaged
<1>2. ASSUME Update!maybeRestart, up.m \in Build
      PROVE  up' \in UpdaterRow /\ (up'.pc = "idle" \/ (up'.pc = "restart" /\ ~busy))
  <2>1. up \in UpdaterRow
    BY DEF UpdateIInv, UpdateTypes
  <2>2. CASE busy
    <3>1. up' = Update!IdleUpdater
      BY <1>2, <2>2 DEF Update!maybeRestart
    <3>2. QED
      BY <3>1, BuildFacts
  <2>3. CASE ~busy
    <3>1. up' = [up EXCEPT !.pc = "restart"]
      BY <1>2, <2>3 DEF Update!maybeRestart
    <3>2. QED
      BY <2>1, <2>3, <3>1 DEF UpdaterRow
  <2>4. QED
    BY <2>2, <2>3
<1>3. CASE Update!writeStaged
  <2>1. up.m \in Update!Versions /\ staged' = up.m /\ Update!maybeRestart
    BY <1>3 DEF Update!writeStaged, UpdateIInv, Placed
  <2>2. QED
    BY <1>1, <1>2, <2>1, BuildFacts
       DEF UpdateIInv, UpdateTypes, Available, Update!OnDisk, Kept, Image, Placed, Installing
<1>4. CASE Update!stage
  <2>1. staged' = staged /\ up.pc = "stage"
    BY <1>4 DEF Update!stage
  <2>2. \/ up' = Update!IdleUpdater
        \/ target # 0 /\ up' \in UpdaterRow /\ up'.pc = "replace" /\ up'.m = up.m
    BY <1>4, BuildFacts DEF Update!stage, Update!RawTrailer, UpdateIInv, UpdateTypes, UpdaterRow
  <2>3. QED
    BY <1>1, <2>1, <2>2, BuildFacts
       DEF UpdateIInv, UpdateTypes, Available, Update!OnDisk, Kept, Image, Placed, Installing
<1>5. CASE Update!checkOnce
  <2>1. up.pc = "idle" /\ staged' = staged
    BY <1>5 DEF Update!checkOnce
  <2>2. CASE release # run.v /\ Update!readStaged
    <3>1. Update!maybeRestart /\ up.m \in Build
      BY <1>5, <2>2 DEF Update!checkOnce, UpdateIInv, UpdateTypes, UpdaterRow
    <3>2. up' \in UpdaterRow /\ (up'.pc = "idle" \/ (up'.pc = "restart" /\ ~busy))
      BY <1>2, <3>1
    <3>3. QED
      BY <1>1, <2>1, <3>2
         DEF UpdateIInv, UpdateTypes, Available, Update!OnDisk, Kept, Image, Placed, Installing
  <2>3. CASE ~(release # run.v /\ Update!readStaged)
    <3>1. up' = up \/ up' = [pc |-> "stage", m |-> release]
      BY <1>5, <2>3 DEF Update!checkOnce
    <3>2. /\ up' \in UpdaterRow /\ up'.pc \in {"idle", "stage"}
          /\ up'.pc = "stage" => up'.m \in Update!Versions
      BY <2>1, <3>1, BuildFacts DEF UpdateIInv, UpdateTypes, UpdaterRow
    <3>3. QED
      BY <1>1, <2>1, <3>2
         DEF UpdateIInv, UpdateTypes, Available, Update!OnDisk, Kept, Image, Placed, Installing
  <2>4. QED
    BY <2>2, <2>3
<1>6. QED
  BY <1>3, <1>4, <1>5

\* The updater's three file operations.
LEMMA ReplaceKeeps ==
    ASSUME UpdateConstants, UpdateIInv, Update!replace
    PROVE  UpdateIInv'
<1>1. /\ UNCHANGED <<release, target, old, staged, run, busy, ins, dl>> /\ up.pc = "replace"
      /\ prev' = IF run.file = "prev" THEN prev ELSE 0
      /\ up' \in UpdaterRow /\ up'.pc = "aside" /\ up'.m = up.m
  BY BuildFacts DEF Update!replace, Update!Removed, UpdateIInv, UpdateTypes, UpdaterRow
<1>2. target # 0 \/ old # 0
  BY <1>1, BuildFacts DEF UpdateIInv, Kept
<1>3. QED
  BY <1>1, <1>2, BuildFacts DEF UpdateIInv, UpdateTypes, Available, Update!OnDisk, Kept, Image, Placed, Installing

LEMMA AsideKeeps ==
    ASSUME UpdateConstants, UpdateIInv, Update!moveAside
    PROVE  UpdateIInv'
<1>1. UNCHANGED <<release, old, staged, busy, ins, dl>> /\ up.pc = "aside" /\ run \in ProcessRow
  BY DEF Update!moveAside, UpdateIInv, UpdateTypes
<1>2. CASE target # 0 /\ run.file # "prev"
  <2>1. /\ prev' = target /\ target' = 0 /\ run' = Update!Follow("target", "prev")
        /\ up' \in UpdaterRow /\ up'.pc = "place" /\ up'.m = up.m
    BY <1>2, BuildFacts DEF Update!moveAside, Update!setAside, UpdateIInv, UpdateTypes, UpdaterRow
  <2>2. /\ run' \in ProcessRow /\ run'.v = run.v
        /\ run'.file = IF run.file = "target" THEN "prev" ELSE run.file
    BY <1>1, <2>1, FollowFacts DEF Files
  <2>3. QED
    BY <1>1, <1>2, <2>1, <2>2, BuildFacts
       DEF UpdateIInv, UpdateTypes, Available, Update!OnDisk, Kept, Image, Placed, Installing
<1>3. CASE ~(target # 0 /\ run.file # "prev")
  <2>1. /\ UNCHANGED <<target, prev, run>> /\ up' \in UpdaterRow
        /\ \/ up'.pc = "idle"
           \/ target = 0 /\ up'.pc = "place" /\ up'.m = up.m
    BY <1>3, BuildFacts DEF Update!moveAside, UpdateIInv, UpdateTypes, UpdaterRow
  <2>2. QED
    BY <1>1, <2>1, BuildFacts DEF UpdateIInv, UpdateTypes, Available, Update!OnDisk, Kept, Image, Placed, Installing
<1>4. QED
  BY <1>2, <1>3

LEMMA PlaceKeeps ==
    ASSUME UpdateConstants, UpdateIInv, Update!moveIntoPlace \/ Update!moveFails
    PROVE  UpdateIInv'
<1>1. UNCHANGED <<release, old, staged, busy, ins, dl>> /\ up.pc = "place" /\ run \in ProcessRow
  BY DEF Update!moveIntoPlace, Update!moveFails, UpdateIInv, UpdateTypes
<1>2. CASE Update!moveIntoPlace
  <2>1. /\ target' = up.m /\ up.m \in Update!Versions /\ UNCHANGED <<prev, run>> /\ run.file # "target"
        /\ up' \in UpdaterRow /\ up'.pc = "placed" /\ up'.m = up.m
    BY <1>1, <1>2 DEF Update!moveIntoPlace, UpdateIInv, Placed, UpdateTypes, UpdaterRow
  <2>2. QED
    BY <1>1, <2>1, BuildFacts DEF UpdateIInv, UpdateTypes, Available, Update!OnDisk, Kept, Image, Placed, Installing
<1>3. CASE Update!moveFails
  <2>1. up' = Update!IdleUpdater
    BY <1>3 DEF Update!moveFails
  <2>2. CASE target = 0 /\ prev # 0
    <3>1. target' = prev /\ prev' = 0 /\ run' = Update!Follow("prev", "target")
      BY <1>3, <2>2, BuildFacts DEF Update!moveFails
    <3>2. /\ run' \in ProcessRow /\ run'.v = run.v
          /\ run'.file = IF run.file = "prev" THEN "target" ELSE run.file
      BY <1>1, <3>1, FollowFacts DEF Files
    <3>3. run.file # "target"
      BY <2>2 DEF UpdateIInv, Image
    <3>4. QED
      BY <1>1, <2>1, <2>2, <3>1, <3>2, <3>3, BuildFacts
         DEF UpdateIInv, UpdateTypes, Available, Update!OnDisk, Kept, Image, Placed, Installing
  <2>3. CASE ~(target = 0 /\ prev # 0)
    <3>1. UNCHANGED <<target, prev, run>>
      BY <1>3, <2>3, BuildFacts DEF Update!moveFails
    <3>2. QED
      BY <1>1, <2>1, <3>1, BuildFacts DEF UpdateIInv, UpdateTypes, Available, Update!OnDisk, Kept, Image, Placed, Installing
  <2>4. QED
    BY <2>2, <2>3
<1>4. QED
  BY <1>2, <1>3

\* Only the sweep of an installer that finds nothing installed deletes the last
\* build.
LEMMA CopyStep ==
    ASSUME UpdateConstants, UpdateIInv, Update!UpdateNext, Update!OnDisk, ~Update!OnDisk'
    PROVE  ins = "sweep" /\ target = Update!Missing
<1>1. target' = 0 /\ prev' = 0 /\ old' = 0 /\ (target # 0 \/ prev # 0 \/ old # 0)
  BY BuildFacts DEF Update!OnDisk
<1>2. ~UNCHANGED <<target, prev, old>>
  BY <1>1
<1>3. CASE Update!Ensure
  BY <1>1, <1>3, BuildFacts DEF Update!Ensure
<1>4. CASE Update!replaceExecutable
  BY <1>1, <1>2, <1>4, BuildFacts DEF Update!replaceExecutable
<1>5. CASE Update!copyExecutable
  <2>1. target' = run.v /\ run.file = "download"
    BY <1>5 DEF Update!copyExecutable, UpdateIInv, Installing
  <2>2. QED
    BY <1>1, <2>1 DEF UpdateIInv, Image
<1>6. CASE Update!copyFails
  <2>1. ins = "fill" /\ target' = old
    BY <1>2, <1>6 DEF Update!copyFails
  <2>2. QED
    BY <1>1, <2>1, BuildFacts DEF UpdateIInv, Kept
<1>7. CASE Update!replace
  BY <1>1, <1>7, BuildFacts DEF Update!replace, UpdateIInv, Kept
<1>8. CASE Update!moveAside
  BY <1>1, <1>2, <1>8, BuildFacts DEF Update!moveAside, Update!setAside
<1>9. CASE Update!moveIntoPlace
  <2>1. target' = up.m /\ up.m \in Update!Versions
    BY <1>9 DEF Update!moveIntoPlace, UpdateIInv, Placed
  <2>2. QED
    BY <1>1, <2>1, BuildFacts
<1>10. CASE Update!moveFails
  BY <1>1, <1>2, <1>10, BuildFacts DEF Update!moveFails
<1>11. CASE \/ Update!describeAgent \/ Update!Boot \/ Update!SwitchOff \/ Update!PowerCut
            \/ Update!trackIdle \/ \E v \in Update!Versions : Update!runInstaller(v)
  BY <1>2, <1>11 DEF Update!describeAgent, Update!Boot, Update!SwitchOff, Update!PowerCut,
     Update!trackIdle, Update!runInstaller
<1>12. CASE Update!checkOnce \/ Update!stage \/ Update!writeStaged \/ Update!restart
  BY <1>2, <1>12 DEF Update!checkOnce, Update!stage, Update!writeStaged, Update!restart
<1>13. QED
  BY <1>3, <1>4, <1>5, <1>6, <1>7, <1>8, <1>9, <1>10, <1>11, <1>12
     DEF Update!UpdateNext, Update!Installer, Update!Updater

\* Whatever renames, failed copies and power cuts there are, in the updater and
\* in selfinstall at once: a build the school was given stays on the disk or in
\* the Downloads folder, the process runs from a file that holds its version,
\* and only the sweep of an installer that finds nothing installed takes the
\* last build off the disk (updater.replace, selfinstall).
THEOREM UpdateThm ==
    ASSUME UpdateConstants
    PROVE  Update!UpdateSpec => UpdateSafe
<1>1. Update!UpdateInit => UpdateIInv
  <2> SUFFICES ASSUME Update!UpdateInit PROVE UpdateIInv
    OBVIOUS
  <2>1. /\ release = 1 /\ target = 1 /\ prev = 0 /\ old = 0 /\ staged = 0 /\ run = Update!Off
        /\ up = Update!IdleUpdater /\ ins = "idle"
    BY BuildFacts DEF Update!UpdateInit
  <2>2. QED
    BY <2>1, BuildFacts DEF UpdateIInv, UpdateTypes, Available, Update!OnDisk, Kept, Image, Placed, Installing
<1>2. UpdateIInv /\ [Update!UpdateNext]_Update!updateVars => UpdateIInv'
  <2> SUFFICES ASSUME UpdateIInv, [Update!UpdateNext]_Update!updateVars PROVE UpdateIInv'
    OBVIOUS
  <2>1. CASE Update!UpdateNext
    BY <2>1, AroundUpdate, PowerKeeps, InstallKeeps, CheckKeeps, HandOverKeeps, ReplaceKeeps,
       AsideKeeps, PlaceKeeps
       DEF Update!UpdateNext, Update!Updater
  <2>2. CASE UNCHANGED Update!updateVars
    BY <2>2 DEF Update!updateVars, UpdateIInv, UpdateTypes, Available, Update!OnDisk, Kept, Image, Placed, Installing
  <2>3. QED
    BY <2>1, <2>2
<1>3. UpdateIInv => Update!UpdateInv
  BY DEF UpdateIInv, UpdateTypes, Available, Image, Update!UpdateInv, Update!UpdateTypeOK, Build, Files,
         Update!Missing, ProcessRow, UpdaterRow
<1>4. UpdateIInv /\ [Update!UpdateNext]_Update!updateVars
         => [Update!OnDisk /\ ~Update!OnDisk'
                => ins = "sweep" /\ target = Update!Missing]_Update!updateVars
  BY CopyStep
<1>5. QED
  BY <1>1, <1>2, <1>3, <1>4, PTL DEF Update!UpdateSpec, UpdateSafe, Update!LastCopyKept

-----------------------------------------------------------------------------
(***************************************************************************)
(* The reports of a PC, for any limit of the history, any number of        *)
(* outages, restarts and lost answers, and two requests that overlap.      *)
(*                                                                         *)
(* A sweep keeps the newest rows it sees, and the rows that were committed *)
(* since it began, which it may not see, stay as well.  A row that one     *)
(* open transaction may miss was written by the other, and whoever commits *)
(* is no longer behind anything: the two can never miss rows at the same   *)
(* time, and where two rows are missed there is still room for one         *)
(* (Limited).  While no answer was lost, one request is under way at a     *)
(* time; its row is the newest, and it is the one the summary is rewritten *)
(* for (Undisturbed).                                                      *)
(***************************************************************************)
DiagConstants == History \in Nat \ {0}

ReportRow == [slot : {0, 1, 2}, what : Diag!States, unseen : SUBSET {1, 2}]
RequestRow == [pc : {"free", "sent", "open", "done"}, route : {"station", "failure"},
               what : Diag!States]
ReporterRow == [settled : BOOLEAN, first : BOOLEAN, last : Diag!States, gap : BOOLEAN,
                due : BOOLEAN, waits : {0, 1, 2}]
StatusRow == [what : Diag!States, enrolled : BOOLEAN]

AgentTypes ==
    /\ server \in {"up", "down", "refuses"} /\ saved \in {"none", "mine", "other"}
    /\ st \in StatusRow /\ conn \in {"start", "enroll", "warm", "gone"}
    /\ rep \in ReporterRow /\ outages \in Nat
TableTypes ==
    /\ req \in [{1, 2} -> RequestRow]
    /\ rows \in [{"station", "failure"} -> Seq(ReportRow)]
    /\ summary \in Diag!States \cup {"none"}

\* What a committed row is, and what an open transaction may miss.
Filed(q) == {i \in DOMAIN q : q[i].slot = 0}
Missed(q, s) == {i \in DOMAIN q : s \in q[i].unseen}

Limited(q) ==
    /\ \A i \in DOMAIN q : q[i].slot # 0 => q[i].unseen = {}
    /\ Cardinality(Filed(q)) <= History + 1
    /\ Missed(q, 1) = {} \/ Missed(q, 2) = {}
    /\ \A s \in {1, 2} : Cardinality(Missed(q, s)) > 1 => Cardinality(Filed(q)) <= History

\* The open rows of route r are those of its open requests, one for each.
Works(x, s, r) == x[s].pc = "open" /\ x[s].route = r
Owned(r, q, x) ==
    /\ \A i \in DOMAIN q : q[i].slot # 0 => Works(x, q[i].slot, r)
    /\ \A i, j \in DOMAIN q : q[i].slot # 0 /\ q[j].slot = q[i].slot => j = i
    /\ \A s \in {1, 2} : Works(x, s, r) => \E i \in DOMAIN q : q[i].slot = s

\* Only an enrolled PC says that all is well with it.
Fine == {"ready", "other_school"}
SaysFine(x, c) == (c = "warm" => x.enrolled) /\ (x.what \in Fine => x.enrolled)

\* The last committed row of q says v.
Newest(q, v) == \A i \in Filed(q) : (\A j \in Filed(q) : j <= i) => q[i].what = v

\* One request x[s] at a time.
OneCall(x, s) == \A z \in {1, 2} : x[z].pc # "free" <=> s = z
Alone(x, f) ==
    \A s \in {1, 2} : x[s].pc = "open" =>
        f[x[s].route] # <<>> /\ f[x[s].route][Len(f[x[s].route])].slot = s
Told(x, v) ==
    \A s \in {1, 2} :
        /\ x[s].pc = "done" /\ x[s].route = "station" => v = x[s].what
        /\ x[s].pc # "free" /\ x[s].what \in Fine => x[s].route = "station"
Brief(q) == (\A i \in DOMAIN q : q[i].unseen = {}) /\ Cardinality(Filed(q)) <= History
Agrees(n, v) == ~n.first /\ n.waits = 0 /\ n.last \in Fine => v = n.last

Undisturbed ==
    outages = 0 =>
        /\ OneCall(req, rep.waits) /\ Alone(req, rows) /\ Told(req, summary)
        /\ \A r \in {"station", "failure"} : Brief(rows[r])
        /\ Newest(rows["station"], summary) /\ Agrees(rep, summary)

Histories == \A r \in {"station", "failure"} : Limited(rows[r]) /\ Owned(r, rows[r], req)

DiagIInv == AgentTypes /\ TableTypes /\ SaysFine(st, conn) /\ Histories /\ Undisturbed

-----------------------------------------------------------------------------
(* The rows of a history that a set of indices picks.                      *)

LEMMA SameCount == \A S : Diag!Cardinality(S) = Cardinality(S)
  BY DEF Diag!Cardinality, Cardinality

\* How many of I are no greater than i.
Rank(I, i) == Cardinality({j \in I : j <= i})

LEMMA Ranked ==
    ASSUME NEW n \in Nat, NEW I \in SUBSET (1..n)
    PROVE  /\ IsFiniteSet(I) /\ Cardinality(I) \in Nat
           /\ \A i \in I : Rank(I, i) \in 1..Cardinality(I)
           /\ \A i, j \in I : i < j => Rank(I, i) < Rank(I, j)
           /\ \A k \in 1..Cardinality(I) : \E i \in I : Rank(I, i) = k
<1>1. IsFiniteSet(I) /\ Cardinality(I) \in Nat
  <2>1. IsFiniteSet(1..n)
    BY FS_Interval
  <2>2. QED
    BY <2>1, FS_Subset, FS_CardinalityType
<1>2. \A i \in I : IsFiniteSet({j \in I : j <= i}) /\ Rank(I, i) \in Nat
  BY <1>1, FS_Subset, FS_CardinalityType DEF Rank
<1>3. ASSUME NEW i \in I PROVE Rank(I, i) \in 1..Cardinality(I)
  <2>1. Rank(I, i) <= Cardinality(I)
    BY <1>1, FS_Subset DEF Rank
  <2>2. i \in {j \in I : j <= i}
    OBVIOUS
  <2>3. Rank(I, i) # 0
    BY <1>2, <2>2, FS_EmptySet DEF Rank
  <2>4. Rank(I, i) \in Nat
    BY <1>2
  <2> QED
    BY <1>1, <2>1, <2>3, <2>4
<1>4. ASSUME NEW i \in I, NEW j \in I, i < j PROVE Rank(I, i) < Rank(I, j)
  <2> DEFINE A == {k \in I : k <= i}  B == {k \in I : k <= j}
  <2>0. I \subseteq Nat /\ i \in Nat /\ j \in Nat
    OBVIOUS
  <2>9. \A k \in I : k <= i => k <= j
    BY <1>4, <2>0
  <2>8. j <= j /\ ~(j <= i)
    BY <1>4, <2>0
  <2>1. A \subseteq B /\ j \in B /\ j \notin A
    BY <2>8, <2>9
  <2>2. IsFiniteSet(B) /\ A \in SUBSET B /\ A # B
    BY <1>2, <2>1
  <2>3. Cardinality(A) <= Cardinality(B) /\ Cardinality(A) # Cardinality(B)
    <3> HIDE DEF A, B
    <3> QED BY <2>2, FS_Subset
  <2> QED
    BY <1>2, <2>3 DEF Rank
<1>5. \A k \in 1..Cardinality(I) : \E i \in I : Rank(I, i) = k
  <2> DEFINE f == [i \in I |-> Rank(I, i)]  T == 1..Cardinality(I)
  <2>1. f \in Injection(I, T)
    <3>1. f \in [I -> T]
      BY <1>3
    <3>2. ASSUME NEW i \in I, NEW j \in I, f[i] = f[j] PROVE i = j
      <4>1. i < j \/ j < i \/ i = j
        OBVIOUS
      <4>2. Rank(I, i) = Rank(I, j) /\ Rank(I, i) \in Nat
        BY <1>2, <3>2
      <4> QED
        BY <1>2, <1>4, <4>1, <4>2
    <3> HIDE DEF f, T
    <3> QED
      BY <3>1, <3>2 DEF Injection, IsInjective
  <2>2. IsFiniteSet(T) /\ Cardinality(T) = Cardinality(I)
    BY <1>1, FS_Interval
  <2>3. f \in Surjection(I, T)
    <3> HIDE DEF f, T
    <3> QED
      BY <2>1, <2>2, FS_Injection
  <2>4. \A k \in T : \E i \in I : f[i] = k
    <3> HIDE DEF f, T
    <3> QED
      BY <2>3 DEF Surjection
  <2> QED
    BY <2>4
<1> QED
  BY <1>1, <1>3, <1>4, <1>5

\* The k-th of I.
LEMMA NthFacts ==
    ASSUME NEW n \in Nat, NEW I \in SUBSET (1..n)
    PROVE  /\ \A k \in 1..Cardinality(I) : Diag!Nth(I, k) \in I /\ Rank(I, Diag!Nth(I, k)) = k
           /\ \A i \in I : \E k \in 1..Cardinality(I) : Diag!Nth(I, k) = i
           /\ \A i \in I : i <= Diag!Nth(I, Cardinality(I))
<1>1. ASSUME NEW k \in 1..Cardinality(I)
      PROVE  Diag!Nth(I, k) \in I /\ Rank(I, Diag!Nth(I, k)) = k
  <2>1. \E i \in I : Rank(I, i) = k
    BY Ranked
  <2>2. Diag!Nth(I, k) = CHOOSE i \in I : Rank(I, i) = k
    BY SameCount DEF Diag!Nth, Rank
  <2> QED
    BY <2>1, <2>2
<1>2. \A i, j \in I : Rank(I, i) = Rank(I, j) => i = j
  <2> SUFFICES ASSUME NEW i \in I, NEW j \in I, Rank(I, i) = Rank(I, j) PROVE i = j
    OBVIOUS
  <2>1. i < j \/ j < i \/ i = j
    OBVIOUS
  <2>2. Rank(I, i) \in 1..Cardinality(I) /\ Cardinality(I) \in Nat
    BY Ranked
  <2>3. (i < j => Rank(I, i) < Rank(I, j)) /\ (j < i => Rank(I, j) < Rank(I, i))
    BY Ranked
  <2> QED
    BY <2>1, <2>2, <2>3
<1>3. ASSUME NEW i \in I PROVE \E k \in 1..Cardinality(I) : Diag!Nth(I, k) = i
  <2>1. Rank(I, i) \in 1..Cardinality(I)
    BY Ranked
  <2> QED
    BY <1>1, <1>2, <2>1
<1>4. ASSUME NEW i \in I PROVE i <= Diag!Nth(I, Cardinality(I))
  <2> DEFINE c == Cardinality(I)  m == Diag!Nth(I, c)
  <2>1. Rank(I, i) \in 1..c /\ c \in Nat
    BY Ranked
  <2>2. c \in 1..c
    BY <2>1
  <2>3. m \in I /\ Rank(I, m) = c
    BY <1>1, <2>2
  <2>4. m < i => Rank(I, m) < Rank(I, i)
    BY <2>3, Ranked
  <2>0. I \subseteq Nat
    OBVIOUS
  <2>5. m \in Nat /\ i \in Nat
    BY <2>0, <2>3
  <2> HIDE DEF c, m
  <2>6. ~(m < i)
    BY <2>1, <2>3, <2>4
  <2>7. i <= m
    BY <2>5, <2>6
  <2> QED
    BY <2>7 DEF c, m
<1> QED
  BY <1>1, <1>3, <1>4

\* A set of natural numbers that is not empty has a least element.
LEMMA LeastIn ==
    ASSUME NEW T, T \subseteq Nat, T # {}
    PROVE  \E x \in T : \A y \in T : x <= y
<1> DEFINE R == {ss \in Nat \X Nat : ss[1] < ss[2]}
<1>1. IsWellFoundedOn(R, Nat)
  BY NatLessThanWellFounded DEF OpToRel
<1>2. \A x, y \in Nat : y < x => <<y, x>> \in R
  OBVIOUS
<1> HIDE DEF R
<1>3. PICK x \in T : \A y \in T : ~(<<y, x>> \in R)
  BY <1>1, WFMin
<1>4. ASSUME NEW y \in T PROVE x <= y
  <2>1. x \in Nat /\ y \in Nat
    OBVIOUS
  <2>2. ~(y < x)
    BY <1>2, <1>3, <2>1
  <2> QED
    BY <2>1, <2>2
<1>5. QED
  BY <1>4

LEMMA Picked ==
    ASSUME NEW S, NEW q \in Seq(S), NEW I \in SUBSET (DOMAIN q)
    PROVE  /\ IsFiniteSet(I) /\ Cardinality(I) \in Nat
           /\ Diag!At(q, I) \in Seq(S) /\ Len(Diag!At(q, I)) = Cardinality(I)
           /\ DOMAIN Diag!At(q, I) = 1..Cardinality(I)
           /\ \A k \in 1..Cardinality(I) : Diag!Nth(I, k) \in I /\ Diag!At(q, I)[k] = q[Diag!Nth(I, k)]
<1>1. Len(q) \in Nat /\ DOMAIN q = 1..Len(q) /\ I \in SUBSET (1..Len(q))
  OBVIOUS
<1>2. IsFiniteSet(I) /\ Cardinality(I) \in Nat
  BY <1>1, Ranked
<1>3. \A k \in 1..Cardinality(I) : Diag!Nth(I, k) \in I
  BY <1>1, NthFacts
<1>4. Diag!At(q, I) = [k \in 1..Cardinality(I) |-> q[Diag!Nth(I, k)]]
  BY SameCount DEF Diag!At
<1>5. \A i \in I : q[i] \in S
  BY <1>1
<1>6. Diag!At(q, I) \in [1..Cardinality(I) -> S]
  BY <1>3, <1>4, <1>5
<1>7. Diag!At(q, I) \in Seq(S) /\ Len(Diag!At(q, I)) = Cardinality(I)
  BY <1>2, <1>6
<1> QED
  BY <1>2, <1>3, <1>4, <1>7

LEMMA PickedCount ==
    ASSUME NEW n \in Nat, NEW I \in SUBSET (1..n),
           NEW P \in SUBSET (1..Cardinality(I)), NEW Q \in SUBSET I,
           \A k \in 1..Cardinality(I) : k \in P <=> Diag!Nth(I, k) \in Q
    PROVE  Cardinality(P) = Cardinality(Q)
<1> DEFINE f == [k \in P |-> Diag!Nth(I, k)]
<1>1. f \in [P -> Q]
  OBVIOUS
<1>2. \A x, y \in P : f[x] = f[y] => x = y
  BY NthFacts
<1>3. \A i \in Q : \E k \in P : f[k] = i
  <2> SUFFICES ASSUME NEW i \in Q PROVE \E k \in P : f[k] = i
    OBVIOUS
  <2>1. PICK k \in 1..Cardinality(I) : Diag!Nth(I, k) = i
    BY NthFacts
  <2> QED
    BY <2>1
<1>4. IsFiniteSet(P)
  <2>1. IsFiniteSet(1..Cardinality(I))
    BY Ranked, FS_Interval
  <2> QED
    BY <2>1, FS_Subset
<1> HIDE DEF f
<1>5. f \in Bijection(P, Q)
  BY <1>1, <1>2, <1>3 DEF Bijection, Injection, Surjection, IsInjective
<1> QED
  BY <1>4, <1>5, FS_Bijection DEF ExistsBijection

\* What the kept rows count.
LEMMA KeptCount ==
    ASSUME NEW q \in Seq(ReportRow), NEW I \in SUBSET (DOMAIN q)
    PROVE  /\ Cardinality(Filed(Diag!At(q, I))) = Cardinality(Filed(q) \cap I)
           /\ \A s : Cardinality(Missed(Diag!At(q, I), s)) = Cardinality(Missed(q, s) \cap I)
<1> DEFINE p == Diag!At(q, I)  c == Cardinality(I)
<1>1. /\ Len(q) \in Nat /\ DOMAIN q = 1..Len(q) /\ I \in SUBSET (1..Len(q))
      /\ DOMAIN p = 1..c
      /\ \A k \in 1..c : Diag!Nth(I, k) \in I /\ p[k] = q[Diag!Nth(I, k)]
  BY Picked
<1>2. Cardinality(Filed(p)) = Cardinality(Filed(q) \cap I)
  <2>1. Filed(p) \in SUBSET (1..c) /\ Filed(q) \cap I \in SUBSET I
    BY <1>1 DEF Filed
  <2>2. \A k \in 1..c : k \in Filed(p) <=> Diag!Nth(I, k) \in Filed(q) \cap I
    BY <1>1 DEF Filed
  <2> HIDE DEF p
  <2> QED
    BY <1>1, <2>1, <2>2, PickedCount
<1>3. ASSUME NEW s PROVE Cardinality(Missed(p, s)) = Cardinality(Missed(q, s) \cap I)
  <2>1. Missed(p, s) \in SUBSET (1..c) /\ Missed(q, s) \cap I \in SUBSET I
    BY <1>1 DEF Missed
  <2>2. \A k \in 1..c : k \in Missed(p, s) <=> Diag!Nth(I, k) \in Missed(q, s) \cap I
    BY <1>1 DEF Missed
  <2> HIDE DEF p
  <2> QED
    BY <1>1, <2>1, <2>2, PickedCount
<1> QED
  BY <1>2, <1>3

\* A sweep keeps no more rows than it may, the newest among them.
LEMMA SweptFacts ==
    ASSUME DiagConstants, NEW n \in Nat, NEW V \in SUBSET (1..n)
    PROVE  /\ Diag!Newest(V) \subseteq V
           /\ Cardinality(Diag!Newest(V)) \in Nat /\ Cardinality(Diag!Newest(V)) <= History
           /\ \A m \in V : (\A j \in V : j <= m) => m \in Diag!Newest(V)
<1> DEFINE N == Diag!Newest(V)
<1>1. N = {i \in V : Cardinality({j \in V : j > i}) < History}
  BY SameCount DEF Diag!Newest
<1>2. History \in Nat \ {0}
  BY DEF DiagConstants
<1>3. IsFiniteSet(V) /\ V \subseteq Nat /\ N \subseteq V
  BY <1>1, Ranked
<1>4. IsFiniteSet(N) /\ Cardinality(N) \in Nat
  BY <1>3, FS_Subset, FS_CardinalityType
<1>5. Cardinality(N) <= History
  <2>1. CASE N = {}
    BY <1>2, <2>1, FS_EmptySet
  <2>2. CASE N # {}
    <3>1. PICK m \in N : \A y \in N : m <= y
      <4> HIDE DEF N
      <4> QED
        BY <1>3, <2>2, LeastIn
    <3> DEFINE A == {j \in V : j > m}
    <3>2. IsFiniteSet(A) /\ Cardinality(A) \in Nat /\ Cardinality(A) < History
      BY <1>1, <1>3, FS_Subset, FS_CardinalityType
    <3>3. m \in Nat /\ \A y \in N : y \in Nat /\ y \in V
      BY <1>3
    <3>4. N \subseteq A \cup {m}
      <4> SUFFICES ASSUME NEW y \in N, y # m PROVE y > m /\ y \in V
        OBVIOUS
      <4> HIDE DEF N
      <4> QED
        BY <3>1, <3>3
    <3> HIDE DEF N, A
    <3>5. IsFiniteSet(A \cup {m}) /\ Cardinality(A \cup {m}) <= Cardinality(A) + 1
      <4>1. IsFiniteSet(A) /\ Cardinality(A) \in Nat
        BY <3>2
      <4>2. /\ IsFiniteSet(A \cup {m})
            /\ Cardinality(A \cup {m}) = IF m \in A THEN Cardinality(A) ELSE Cardinality(A) + 1
        BY <4>1, FS_AddElement
      <4> QED
        BY <4>1, <4>2
    <3>6. Cardinality(N) <= Cardinality(A \cup {m}) /\ Cardinality(A \cup {m}) \in Nat
      BY <3>4, <3>5, FS_Subset, FS_CardinalityType
    <3> QED
      BY <1>2, <1>4, <3>2, <3>5, <3>6
  <2> QED
    BY <2>1, <2>2
<1>6. ASSUME NEW m \in V, \A j \in V : j <= m PROVE m \in N
  <2>0. m \in Nat /\ \A j \in V : j \in Nat /\ j <= m
    BY <1>3, <1>6
  <2>1. {j \in V : j > m} = {}
    <3>1. \A j \in V : ~(j > m)
      BY <2>0
    <3> QED
      BY <3>1
  <2>2. Cardinality({j \in V : j > m}) = 0
    BY <2>1, FS_EmptySet
  <2> QED
    BY <1>1, <1>2, <2>2
<1> QED
  BY <1>3, <1>4, <1>5, <1>6

LEMMA PickedOrder ==
    ASSUME NEW S, NEW q \in Seq(S), NEW I \in SUBSET (DOMAIN q)
    PROVE  /\ \A k, j \in DOMAIN Diag!At(q, I) : Diag!Nth(I, k) = Diag!Nth(I, j) => k = j
           /\ \A i \in I : \E k \in DOMAIN Diag!At(q, I) : Diag!Nth(I, k) = i
<1>1. Len(q) \in Nat /\ I \in SUBSET (1..Len(q)) /\ DOMAIN Diag!At(q, I) = 1..Cardinality(I)
  BY Picked
<1>2. \A k \in 1..Cardinality(I) : Rank(I, Diag!Nth(I, k)) = k
  BY <1>1, NthFacts
<1>3. \A k, j \in 1..Cardinality(I) : Diag!Nth(I, k) = Diag!Nth(I, j) => k = j
  <2> SUFFICES ASSUME NEW k \in 1..Cardinality(I), NEW j \in 1..Cardinality(I),
                      Diag!Nth(I, k) = Diag!Nth(I, j)
               PROVE  k = j
    OBVIOUS
  <2>1. Rank(I, Diag!Nth(I, k)) = k /\ Rank(I, Diag!Nth(I, j)) = j
    BY <1>2
  <2> QED
    BY <2>1
<1>4. \A i \in I : \E k \in 1..Cardinality(I) : Diag!Nth(I, k) = i
  BY <1>1, NthFacts
<1> QED
  BY <1>1, <1>3, <1>4

-----------------------------------------------------------------------------
(* The insert and the sweep of one transaction.                            *)

Opened(q) == {i \in DOMAIN q : q[i].slot # 0}
\* The row of slot s is committed with the report w; Z may miss it.
Marked(q, s, w, Z) ==
    [i \in DOMAIN q |-> IF q[i].slot = s THEN [slot |-> 0, what |-> w, unseen |-> Z]
                        ELSE [q[i] EXCEPT !.unseen = @ \ {s}]]
Stays(q, u) == Opened(q) \cup u \cup Diag!Newest(DOMAIN q \ (Opened(q) \cup u))

LEMMA RecordedIs ==
    ASSUME TableTypes, NEW s \in {1, 2}, NEW u
    PROVE  LET q == rows[req[s].route]
               p == Marked(q, s, req[s].what, {z \in {1, 2} \ {s} : req[z].pc = "open"})
           IN  /\ Diag!Recorded(s, u) = Diag!At(p, Stays(p, u))
               /\ Diag!Unseen(s) = Missed(q, s)
  BY Zenon DEF Diag!Recorded, Diag!Unseen, Diag!Slots, Marked, Stays, Opened, Missed

\* The marked rows: the transaction's own, number o, is committed.
LEMMA MarkedFacts ==
    ASSUME NEW q \in Seq(ReportRow), NEW s \in {1, 2}, NEW w \in Diag!States, NEW Z \in SUBSET ({1, 2} \ {s}),
           NEW o \in DOMAIN q, q[o].slot = s, \A j \in DOMAIN q : q[j].slot = s => j = o,
           NEW p, p = Marked(q, s, w, Z)
    PROVE  /\ p \in Seq(ReportRow) /\ DOMAIN p = DOMAIN q /\ Len(p) = Len(q)
           /\ p[o] = [slot |-> 0, what |-> w, unseen |-> Z]
           /\ \A i \in DOMAIN q : i # o =>
                 p[i] \in ReportRow /\ p[i].slot = q[i].slot /\ p[i].what = q[i].what
                 /\ p[i].unseen = q[i].unseen \ {s}
           /\ Filed(p) = Filed(q) \cup {o} /\ o \notin Filed(q)
           /\ Opened(p) = DOMAIN p \ Filed(p) /\ Missed(p, s) = {}
           /\ \A t \in {1, 2} : Missed(p, t) \subseteq Missed(q, t) \cup {o}
<1>1. Len(q) \in Nat /\ DOMAIN q = 1..Len(q) /\ \A i \in DOMAIN q : q[i] \in ReportRow
  OBVIOUS
<1>2. DOMAIN p = DOMAIN q
  BY DEF Marked
<1>3. p[o] = [slot |-> 0, what |-> w, unseen |-> Z] /\ p[o] \in ReportRow
  BY DEF Marked, ReportRow
<1>4. ASSUME NEW i \in DOMAIN q, i # o
      PROVE  p[i] \in ReportRow /\ p[i].slot = q[i].slot /\ p[i].what = q[i].what
             /\ p[i].unseen = q[i].unseen \ {s}
  <2>1. p[i] = [q[i] EXCEPT !.unseen = @ \ {s}]
    BY <1>4 DEF Marked
  <2>2. q[i] \in ReportRow
    BY <1>1
  <2> QED
    BY <2>1, <2>2 DEF ReportRow
<1>5. p \in Seq(ReportRow) /\ Len(p) = Len(q)
  <2>1. \A i \in 1..Len(q) : p[i] \in ReportRow
    BY <1>1, <1>3, <1>4
  <2>2. p = [i \in 1..Len(q) |-> p[i]]
    BY <1>1 DEF Marked
  <2>3. p \in [1..Len(q) -> ReportRow]
    BY <2>1, <2>2
  <2> QED
    BY <1>1, <2>3
<1>6. Filed(p) = Filed(q) \cup {o} /\ o \notin Filed(q)
  <2>1. \A i \in DOMAIN q : p[i].slot = 0 <=> q[i].slot = 0 \/ i = o
    BY <1>3, <1>4
  <2> QED
    BY <1>2, <2>1 DEF Filed
<1>7. Opened(p) = DOMAIN p \ Filed(p)
  BY DEF Opened, Filed
<1>8. \A i \in DOMAIN q : s \notin p[i].unseen /\ \A t : t \in p[i].unseen => i = o \/ t \in q[i].unseen
  BY <1>3, <1>4
<1>9. Missed(p, s) = {} /\ \A t \in {1, 2} : Missed(p, t) \subseteq Missed(q, t) \cup {o}
  BY <1>2, <1>8 DEF Missed
<1> QED
  BY <1>2, <1>3, <1>4, <1>5, <1>6, <1>7, <1>9

\* The counts of a set of committed rows that stays.
LEMMA Fits ==
    ASSUME NEW n \in Nat, NEW F \in SUBSET (1..n), NEW o \in F,
           NEW u \in SUBSET (F \ {o}), NEW N \in SUBSET (F \ u),
           DiagConstants, Cardinality(N) <= History,
           Cardinality(F \ {o}) <= History + 1,
           Cardinality(u) > 1 => Cardinality(F \ {o}) <= History
    PROVE  Cardinality(u \cup N) <= History + 1 /\ (u = {} => Cardinality(u \cup N) <= History)
<1> DEFINE f == Cardinality(F \ {o})  c == Cardinality(u)  d == Cardinality(N)  e == Cardinality(u \cup N)
<1>1. IsFiniteSet(F) /\ IsFiniteSet(F \ {o}) /\ IsFiniteSet(u) /\ IsFiniteSet(N) /\ IsFiniteSet(u \cup N)
  <2>1. IsFiniteSet(F)
    BY Ranked
  <2>2. F \ {o} \in SUBSET F /\ u \in SUBSET F /\ N \in SUBSET F /\ u \cup N \in SUBSET F
    OBVIOUS
  <2> QED
    BY <2>1, <2>2, FS_Subset
<1>2. f \in Nat /\ c \in Nat /\ d \in Nat /\ e \in Nat /\ Cardinality(F) \in Nat
  BY <1>1, FS_CardinalityType
<1>3. Cardinality(F) = f + 1
  <2>1. Cardinality(F \ {o}) = Cardinality(F) - 1
    BY <1>1, FS_RemoveElement
  <2> QED
    BY <1>2, <2>1
<1>4. e <= Cardinality(F)
  BY <1>1, FS_Subset
<1>5. e <= c + d
  <2>1. u \cap N = {} /\ Cardinality({}) = 0
    BY FS_EmptySet
  <2>2. e = c + d - Cardinality(u \cap N)
    BY <1>1, FS_Union
  <2>3. Cardinality(u \cap N) = 0
    BY <2>1
  <2> HIDE DEF c, d, e
  <2> QED
    BY <1>2, <2>2, <2>3
<1>6. u = {} => c = 0
  BY FS_EmptySet
<1>7. History \in Nat
  BY DEF DiagConstants
<1>8. d <= History /\ f <= History + 1 /\ (c > 1 => f <= History)
  OBVIOUS
<1>9. e <= History + 1 /\ (u = {} => e <= History)
  <2> HIDE DEF c, d, e, f
  <2> QED
    BY <1>2, <1>3, <1>4, <1>5, <1>6, <1>7, <1>8
<1> QED
  BY <1>9

LEMMA Swept ==
    ASSUME DiagConstants, NEW q \in Seq(ReportRow), Limited(q), NEW s \in {1, 2}, NEW w \in Diag!States,
           NEW Z \in SUBSET ({1, 2} \ {s}), NEW o \in DOMAIN q, q[o].slot = s,
           \A j \in DOMAIN q : q[j].slot = s => j = o,
           NEW u \in {{}, Missed(q, s)},
           NEW p, p = Marked(q, s, w, Z), NEW R, R = Diag!At(p, Stays(p, u))
    PROVE  R \in Seq(ReportRow) /\ Limited(R)
<1>1. /\ p \in Seq(ReportRow) /\ DOMAIN p = DOMAIN q /\ Len(p) = Len(q)
      /\ p[o] = [slot |-> 0, what |-> w, unseen |-> Z]
      /\ \A i \in DOMAIN q : i # o => p[i].slot = q[i].slot /\ p[i].unseen = q[i].unseen \ {s}
      /\ Filed(p) = Filed(q) \cup {o} /\ o \notin Filed(q)
      /\ Opened(p) = DOMAIN p \ Filed(p) /\ Missed(p, s) = {}
      /\ \A t \in {1, 2} : Missed(p, t) \subseteq Missed(q, t) \cup {o}
  BY MarkedFacts
<1>2. /\ \A i \in DOMAIN q : q[i].slot # 0 => q[i].unseen = {}
      /\ Cardinality(Filed(q)) <= History + 1
      /\ Missed(q, 1) = {} \/ Missed(q, 2) = {}
      /\ \A t \in {1, 2} : Cardinality(Missed(q, t)) > 1 => Cardinality(Filed(q)) <= History
  BY DEF Limited
<1>3. Len(q) \in Nat /\ DOMAIN q = 1..Len(q)
  OBVIOUS
<1>4. u \subseteq Filed(q) /\ o \notin u
  BY <1>1, <1>2 DEF Missed, Filed
<1> DEFINE F == Filed(p)  N == Diag!Newest(F \ u)  I == Stays(p, u)
<1>5. F \in SUBSET (1..Len(q)) /\ o \in F /\ u \in SUBSET (F \ {o}) /\ F \ {o} = Filed(q)
  BY <1>1, <1>3, <1>4 DEF Filed
<1>6. N \subseteq F \ u /\ Cardinality(N) <= History
  <2>1. F \ u \in SUBSET (1..Len(q))
    BY <1>5
  <2> QED
    BY <1>3, <2>1, SweptFacts
<1>7. I = Opened(p) \cup u \cup N /\ I \in SUBSET (DOMAIN p) /\ F \cap I = u \cup N
  <2>1. DOMAIN p \ (Opened(p) \cup u) = F \ u
    BY <1>1, <1>5
  <2>2. I = Opened(p) \cup u \cup N
    BY <2>1 DEF Stays
  <2> HIDE DEF I, N
  <2> QED
    BY <1>1, <1>3, <1>5, <1>6, <2>2
<1>8. /\ R \in Seq(ReportRow) /\ DOMAIN R = 1..Cardinality(I)
      /\ \A k \in DOMAIN R : Diag!Nth(I, k) \in I /\ R[k] = p[Diag!Nth(I, k)]
      /\ Cardinality(Filed(R)) = Cardinality(F \cap I)
      /\ \A t : Cardinality(Missed(R, t)) = Cardinality(Missed(p, t) \cap I)
  <2>1. R = Diag!At(p, I)
    OBVIOUS
  <2>2. p \in Seq(ReportRow) /\ I \in SUBSET (DOMAIN p)
    BY <1>1, <1>7
  <2> HIDE DEF I
  <2>3. /\ R \in Seq(ReportRow) /\ DOMAIN R = 1..Cardinality(I)
        /\ \A k \in 1..Cardinality(I) : Diag!Nth(I, k) \in I /\ R[k] = p[Diag!Nth(I, k)]
    BY <2>1, <2>2, Picked
  <2>4. /\ Cardinality(Filed(R)) = Cardinality(Filed(p) \cap I)
        /\ \A t : Cardinality(Missed(R, t)) = Cardinality(Missed(p, t) \cap I)
    BY <2>1, <2>2, KeptCount
  <2> QED
    BY <2>3, <2>4
<1>9. Cardinality(Filed(R)) <= History + 1 /\ (u = {} => Cardinality(Filed(R)) <= History)
  <2>1. Cardinality(u) > 1 => Cardinality(F \ {o}) <= History
    BY <1>2, <1>5, FS_EmptySet
  <2>2. N \in SUBSET (F \ u) /\ Cardinality(N) <= History
    BY <1>6
  <2>3. Cardinality(F \ {o}) <= History + 1
    BY <1>2, <1>5
  <2>4. Cardinality(Filed(R)) = Cardinality(u \cup N)
    BY <1>7, <1>8
  <2>5. Len(q) \in Nat /\ F \in SUBSET (1..Len(q)) /\ o \in F /\ u \in SUBSET (F \ {o})
    BY <1>3, <1>5
  <2> HIDE DEF F, N, I
  <2>6. Cardinality(u \cup N) <= History + 1 /\ (u = {} => Cardinality(u \cup N) <= History)
    BY <2>1, <2>2, <2>3, <2>5, Fits
  <2> QED
    BY <2>4, <2>6
<1>13. \A k \in DOMAIN R : \E i \in DOMAIN q : R[k] = p[i]
  <2>1. I \subseteq DOMAIN q
    BY <1>1, <1>7
  <2>2. \A k \in DOMAIN R : Diag!Nth(I, k) \in I /\ R[k] = p[Diag!Nth(I, k)]
    BY <1>8
  <2> HIDE DEF I
  <2> QED
    BY <2>1, <2>2
<1>10. \A k \in DOMAIN R : R[k].slot # 0 => R[k].unseen = {}
  <2> SUFFICES ASSUME NEW k \in DOMAIN R, R[k].slot # 0 PROVE R[k].unseen = {}
    OBVIOUS
  <2>1. PICK i \in DOMAIN q : R[k] = p[i]
    BY <1>13
  <2>2. i # o
    BY <1>1, <2>1
  <2>3. p[i].slot = q[i].slot /\ p[i].unseen = q[i].unseen \ {s}
    BY <1>1, <2>2
  <2>4. q[i].slot # 0
    BY <2>1, <2>3
  <2>5. q[i].unseen = {}
    BY <1>2, <2>4
  <2> QED
    BY <2>1, <2>3, <2>5
<1>11. Missed(R, s) = {}
  <2>1. \A k \in DOMAIN R : s \notin R[k].unseen
    <3>1. \A i \in DOMAIN p : s \notin p[i].unseen
      BY <1>1 DEF Missed
    <3> QED
      BY <1>1, <1>13, <3>1
  <2> QED
    BY <2>1 DEF Missed
<1>12. ASSUME NEW t \in {1, 2}, Cardinality(Missed(R, t)) > 1 PROVE Cardinality(Filed(R)) <= History
  <2>1. CASE u = {}
    BY <1>9, <2>1
  <2>2. CASE u # {}
    <3>1. Missed(q, s) # {}
      BY <2>2
    <3>2. t # s
      <4>1. Cardinality(Missed(R, s)) = 0
        BY <1>11, FS_EmptySet
      <4> QED
        BY <1>12, <4>1
    <3>3. Missed(q, t) = {}
      BY <1>2, <3>1, <3>2
    <3>4. Missed(p, t) \cap I \in SUBSET {o}
      BY <1>1, <3>3
    <3>5. Cardinality(Missed(p, t) \cap I) <= 1
      <4> HIDE DEF I
      <4>1. IsFiniteSet({o}) /\ Cardinality({o}) = 1
        BY FS_Singleton
      <4> QED
        BY <3>4, <4>1, FS_Subset
    <3>6. Cardinality(Missed(R, t)) <= 1
      BY <1>8, <3>5
    <3>7. Cardinality(Missed(R, t)) \in Nat
      <4>1. IsFiniteSet(Missed(R, t))
        <5>0. R \in Seq(ReportRow)
          BY <1>8
        <5>2. Len(R) \in Nat /\ DOMAIN R = 1..Len(R)
          BY <5>0
        <5>1. Missed(R, t) \in SUBSET (1..Len(R)) /\ Len(R) \in Nat
          BY <5>2 DEF Missed
        <5> QED
          BY <5>1, Ranked
      <4> QED
        BY <4>1, FS_CardinalityType
    <3> QED
      BY <1>12, <3>6, <3>7
  <2> QED
    BY <2>1, <2>2
<1> QED
  <2>1. Missed(R, 1) = {} \/ Missed(R, 2) = {}
    BY <1>11
  <2>2. \A t \in {1, 2} : Cardinality(Missed(R, t)) > 1 => Cardinality(Filed(R)) <= History
    BY <1>12
  <2> QED
    BY <1>8, <1>9, <1>10, <2>1, <2>2 DEF Limited

\* A committed row is no longer the request's; the open rows of others stay.
LEMMA OwnedSwept ==
    ASSUME NEW q \in Seq(ReportRow), NEW s \in {1, 2}, NEW w \in Diag!States,
           NEW Z \in SUBSET ({1, 2} \ {s}), NEW u \in SUBSET (DOMAIN q),
           NEW x, NEW y, NEW r, Owned(r, q, x), Works(x, s, r),
           ~Works(y, s, r), \A t \in {1, 2} \ {s} : Works(y, t, r) <=> Works(x, t, r),
           NEW p, p = Marked(q, s, w, Z), NEW R, R = Diag!At(p, Stays(p, u))
    PROVE  Owned(r, R, y)
<1>1. /\ \A i \in DOMAIN q : q[i].slot # 0 => Works(x, q[i].slot, r)
      /\ \A i, j \in DOMAIN q : q[i].slot # 0 /\ q[j].slot = q[i].slot => j = i
      /\ \A t \in {1, 2} : Works(x, t, r) => \E i \in DOMAIN q : q[i].slot = t
  BY DEF Owned
<1>2. PICK o \in DOMAIN q : q[o].slot = s
  BY <1>1
<1>3. \A j \in DOMAIN q : q[j].slot = s => j = o
  BY <1>1, <1>2
<1>4. /\ p \in Seq(ReportRow) /\ DOMAIN p = DOMAIN q
      /\ p[o] = [slot |-> 0, what |-> w, unseen |-> Z]
      /\ \A i \in DOMAIN q : i # o => p[i].slot = q[i].slot
  BY <1>2, <1>3, MarkedFacts
<1>5. \A i \in DOMAIN q : p[i].slot = IF i = o THEN 0 ELSE q[i].slot
  BY <1>4
<1>6. \A i \in DOMAIN q : q[i].slot \in {0, 1, 2}
  <2>1. \A i \in DOMAIN q : q[i] \in ReportRow
    OBVIOUS
  <2> QED
    BY <2>1 DEF ReportRow
<1> DEFINE I == Stays(p, u)
<1>7. I \in SUBSET (DOMAIN p) /\ \A i \in DOMAIN p : p[i].slot # 0 => i \in I
  <2>1. DOMAIN p = 1..Len(p) /\ Len(p) \in Nat
    BY <1>4
  <2>2. Diag!Newest(DOMAIN p \ (Opened(p) \cup u)) \subseteq DOMAIN p
    BY DEF Diag!Newest
  <2> QED
    BY <1>4, <2>2 DEF Stays, Opened
<1>8. R = Diag!At(p, I)
  OBVIOUS
<1> HIDE DEF I
<1>9. /\ DOMAIN R = 1..Cardinality(I)
      /\ \A k \in 1..Cardinality(I) : Diag!Nth(I, k) \in I /\ R[k] = p[Diag!Nth(I, k)]
  BY <1>4, <1>7, <1>8, Picked
<1>10. \A k, j \in DOMAIN R : Diag!Nth(I, k) = Diag!Nth(I, j) => k = j
  BY <1>4, <1>7, <1>8, PickedOrder
<1>11. \A i \in I : \E k \in DOMAIN R : Diag!Nth(I, k) = i
  BY <1>4, <1>7, <1>8, PickedOrder
<1>12. ASSUME NEW k \in DOMAIN R, R[k].slot # 0
       PROVE  Diag!Nth(I, k) \in DOMAIN q /\ Diag!Nth(I, k) # o /\ R[k].slot = q[Diag!Nth(I, k)].slot
  <2>1. Diag!Nth(I, k) \in DOMAIN q /\ R[k] = p[Diag!Nth(I, k)]
    BY <1>4, <1>7, <1>9
  <2> QED
    BY <1>5, <1>12, <2>1
<1>13. ASSUME NEW k \in DOMAIN R, R[k].slot # 0 PROVE Works(y, R[k].slot, r)
  <2> DEFINE i == Diag!Nth(I, k)
  <2>1. i \in DOMAIN q /\ i # o /\ R[k].slot = q[i].slot
    BY <1>12, <1>13
  <2>2. q[i].slot # s /\ q[i].slot \in {1, 2}
    BY <1>3, <1>6, <1>13, <2>1
  <2> HIDE DEF i
  <2> QED
    BY <1>1, <2>1, <2>2
<1>14. ASSUME NEW k \in DOMAIN R, NEW j \in DOMAIN R, R[k].slot # 0, R[j].slot = R[k].slot PROVE j = k
  <2>1. Diag!Nth(I, k) = Diag!Nth(I, j)
    BY <1>1, <1>12, <1>14
  <2> QED
    BY <1>10, <2>1
<1>15. ASSUME NEW t \in {1, 2}, Works(y, t, r) PROVE \E k \in DOMAIN R : R[k].slot = t
  <2>1. t # s /\ Works(x, t, r)
    BY <1>15
  <2>2. PICK i \in DOMAIN q : q[i].slot = t
    BY <1>1, <2>1
  <2>3. i # o /\ p[i].slot = t /\ i \in I
    BY <1>2, <1>4, <1>5, <1>7, <2>1, <2>2
  <2>4. PICK k \in DOMAIN R : Diag!Nth(I, k) = i
    BY <1>11, <2>3
  <2> QED
    BY <1>9, <2>3, <2>4
<1> QED
  BY <1>13, <1>14, <1>15 DEF Owned

LEMMA MarkedAlone ==
    ASSUME NEW q \in Seq(ReportRow), NEW s \in {1, 2}, NEW w \in Diag!States,
           q # <<>>, q[Len(q)].slot = s, \A j \in DOMAIN q : q[j].slot # 0 => j = Len(q),
           \A j \in DOMAIN q : q[j].unseen = {}, NEW p, p = Marked(q, s, w, {})
    PROVE  /\ p \in Seq(ReportRow) /\ DOMAIN p = DOMAIN q /\ p[Len(q)].what = w
           /\ \A i \in DOMAIN p : p[i].slot = 0 /\ p[i].unseen = {}
<1>1. Len(q) \in Nat /\ DOMAIN q = 1..Len(q) /\ Len(q) \in DOMAIN q
  OBVIOUS
<1>2. p = [i \in 1..Len(q) |-> p[i]]
  BY <1>1 DEF Marked
<1>3. p[Len(q)] = [slot |-> 0, what |-> w, unseen |-> {}]
  BY <1>1 DEF Marked
<1>4. ASSUME NEW i \in 1..Len(q)
      PROVE  p[i] \in ReportRow /\ p[i].slot = 0 /\ p[i].unseen = {}
  <2>1. CASE i = Len(q)
    BY <1>3, <2>1 DEF ReportRow
  <2>2. CASE i # Len(q)
    <3>3. i \in DOMAIN q
      BY <1>1
    <3>4. q[i] \in ReportRow
      BY <3>3
    <3>5. q[i].slot = 0
      BY <2>2, <3>3
    <3>6. q[i].unseen = {}
      BY <3>3
    <3>1. q[i] \in ReportRow /\ q[i].slot = 0 /\ q[i].unseen = {} /\ i \in DOMAIN q
      BY <3>3, <3>4, <3>5, <3>6
    <3>7. q[i].slot # s
      BY <3>5
    <3>8. p = [k \in DOMAIN q |-> IF q[k].slot = s THEN [slot |-> 0, what |-> w, unseen |-> {}]
                                  ELSE [q[k] EXCEPT !.unseen = @ \ {s}]]
      BY DEF Marked
    <3>2. p[i] = [q[i] EXCEPT !.unseen = @ \ {s}]
      BY <3>3, <3>7, <3>8, Zenon
    <3> QED
      BY <3>1, <3>2 DEF ReportRow
  <2> QED
    BY <2>1, <2>2
<1>5. p \in [1..Len(q) -> ReportRow]
  BY <1>2, <1>4
<1> QED
  BY <1>1, <1>2, <1>3, <1>4, <1>5

\* With one request at a time the row that is committed is the newest, and stays
\* the newest.
LEMMA SweptAlone ==
    ASSUME DiagConstants, NEW q \in Seq(ReportRow), NEW s \in {1, 2}, NEW w \in Diag!States,
           q # <<>>, q[Len(q)].slot = s, \A j \in DOMAIN q : q[j].slot # 0 => j = Len(q),
           \A j \in DOMAIN q : q[j].unseen = {},
           NEW p, p = Marked(q, s, w, {}), NEW R, R = Diag!At(p, Stays(p, {}))
    PROVE  Brief(R) /\ Newest(R, w)
<1> DEFINE o == Len(q)
<1>1. o \in Nat /\ DOMAIN q = 1..o /\ o \in DOMAIN q /\ {} \in SUBSET ({1, 2} \ {s})
  OBVIOUS
<1>3. p \in Seq(ReportRow) /\ DOMAIN p = DOMAIN q /\ p[o].what = w
  BY MarkedAlone
<1>4. \A i \in DOMAIN p : p[i].slot = 0 /\ p[i].unseen = {}
  BY MarkedAlone
<1> DEFINE I == Diag!Newest(DOMAIN p)
<1>5. Stays(p, {}) = I
  <2>1. Opened(p) = {}
    BY <1>4 DEF Opened
  <2> QED
    BY <2>1 DEF Stays
<1>6. DOMAIN p \in SUBSET (1..o) /\ o \in DOMAIN p /\ \A j \in DOMAIN p : j <= o
  BY <1>1, <1>3
<1>7. I \in SUBSET (DOMAIN p) /\ Cardinality(I) \in Nat /\ Cardinality(I) <= History /\ o \in I
  BY <1>1, <1>6, SweptFacts
<1>8. R = Diag!At(p, I)
  BY <1>5
<1> HIDE DEF I, o
<1>9. /\ DOMAIN R = 1..Cardinality(I)
      /\ \A k \in 1..Cardinality(I) : Diag!Nth(I, k) \in I /\ R[k] = p[Diag!Nth(I, k)]
  BY <1>3, <1>7, <1>8, Picked
<1>10. \A k \in DOMAIN R : R[k].slot = 0 /\ R[k].unseen = {}
  BY <1>4, <1>7, <1>9
<1>11. Filed(R) = 1..Cardinality(I)
  BY <1>9, <1>10 DEF Filed
<1>12. Brief(R)
  <2>1. Cardinality(Filed(R)) = Cardinality(I)
    BY <1>7, <1>11, FS_Interval
  <2> QED
    BY <1>7, <1>10, <2>1 DEF Brief
<1>13. Newest(R, w)
  <2> SUFFICES ASSUME NEW i \in Filed(R), \A j \in Filed(R) : j <= i PROVE R[i].what = w
    BY DEF Newest
  <2> DEFINE c == Cardinality(I)  m == Diag!Nth(I, c)
  <2>1. c # 0
    <3>1. IsFiniteSet(I)
      BY <1>1, <1>6, <1>7, Ranked
    <3> QED
      BY <1>7, <3>1, FS_EmptySet
  <2>2. c \in 1..c
    BY <1>7, <2>1
  <2>3. i = c
    <3>1. i \in 1..c /\ c <= i /\ c \in Nat
      BY <1>7, <1>11, <2>2
    <3> HIDE DEF c
    <3> QED
      BY <3>1
  <2>4. I \in SUBSET (1..o) /\ o \in Nat
    BY <1>1, <1>6, <1>7
  <2>5. o <= m /\ m \in I
    BY <1>7, <2>2, <2>4, NthFacts
  <2>6. m = o
    <3>1. m \in 1..o
      BY <2>4, <2>5
    <3> HIDE DEF m
    <3> QED
      BY <2>4, <2>5, <3>1
  <2> QED
    BY <1>3, <1>9, <2>2, <2>3, <2>6
<1> QED
  BY <1>12, <1>13

-----------------------------------------------------------------------------
(* The agent and the reporter.                                             *)

LEMMA Disturbs ==
    ASSUME AgentTypes, Diag!Trouble
    PROVE  outages' \in Nat /\ outages' # 0
  BY DEF AgentTypes, Diag!Trouble

\* Steps that the server has no part in.
LEMMA AgentKeeps ==
    ASSUME DiagIInv, UNCHANGED <<req, rows, summary>>, AgentTypes', SaysFine(st', conn'),
           outages' = 0 => /\ outages = 0 /\ rep'.waits = rep.waits
                           /\ rep'.first = rep.first /\ rep'.last = rep.last
    PROVE  DiagIInv'
<1>1. TableTypes' /\ Histories'
  BY DEF DiagIInv, TableTypes, Histories
<1>2. Undisturbed'
  BY DEF DiagIInv, Undisturbed, Agrees
<1> QED
  BY <1>1, <1>2 DEF DiagIInv

LEMMA StoreFacts ==
    ASSUME st \in StatusRow
    PROVE  /\ \A w \in Diag!States : [st EXCEPT !.what = w] \in StatusRow
           /\ \A w \in Diag!States : [st EXCEPT !.what = w].what = w
           /\ \A w \in Diag!States : [st EXCEPT !.what = w].enrolled = st.enrolled
           /\ st.what \in Diag!States /\ st.enrolled \in BOOLEAN
           /\ {"starting", "enrolling", "net", "refused", "seats", "other_school", "local", "ready"} = Diag!States
           /\ Diag!TokenProblem \in {"net", "refused"}
  BY DEF StatusRow, Diag!TokenProblem, Diag!States

LEMMA ConnectKeeps ==
    ASSUME DiagIInv, Diag!connect \/ Diag!connectFails
    PROVE  DiagIInv'
<1>1. AgentTypes /\ SaysFine(st, conn) /\ st \in StatusRow
  BY DEF DiagIInv, AgentTypes
<1>2. CASE Diag!connectFails
  <2>1. /\ st' = [st EXCEPT !.what = "local"] /\ conn' = "gone" /\ conn = "start"
        /\ UNCHANGED <<server, saved, rep, req, rows, summary>> /\ Diag!Trouble
    BY <1>2 DEF Diag!connectFails, Diag!SetProblem
  <2>2. st' \in StatusRow /\ st'.what = "local"
    BY <1>1, <2>1, StoreFacts
  <2>3. AgentTypes' /\ outages' # 0
    BY <1>1, <2>1, <2>2, Disturbs DEF AgentTypes
  <2>4. SaysFine(st', conn')
    BY <2>1, <2>2 DEF SaysFine, Fine
  <2> QED
    BY <2>1, <2>3, <2>4, AgentKeeps
<1>3. CASE Diag!connect
  <2>1. UNCHANGED <<server, saved, rep, req, rows, summary, outages>> /\ conn = "start"
    BY <1>3 DEF Diag!connect
  <2>2. \/ conn' = "enroll" /\ st' = [what |-> "enrolling", enrolled |-> FALSE]
        \/ conn' = "warm" /\ \E w \in Diag!States : st' = [what |-> w, enrolled |-> TRUE]
    BY <1>1, <1>3, StoreFacts DEF Diag!connect, Diag!SetIdentity
  <2>3. st' \in StatusRow /\ conn' \in {"enroll", "warm"}
    <3>1. [what |-> "enrolling", enrolled |-> FALSE] \in StatusRow
      BY DEF StatusRow, Diag!States
    <3>2. \A w \in Diag!States : [what |-> w, enrolled |-> TRUE] \in StatusRow
      BY DEF StatusRow
    <3> QED
      BY <2>2, <3>1, <3>2
  <2>4. SaysFine(st', conn')
    BY <2>2 DEF SaysFine, Fine
  <2>5. AgentTypes'
    BY <1>1, <2>1, <2>3 DEF AgentTypes
  <2> QED
    BY <2>1, <2>4, <2>5, AgentKeeps
<1> QED
  BY <1>2, <1>3

LEMMA EnrollKeeps ==
    ASSUME DiagIInv, Diag!enrollWithRetry \/ Diag!keepTokenWarm
    PROVE  DiagIInv'
<1>1. AgentTypes /\ SaysFine(st, conn) /\ st \in StatusRow
  BY DEF DiagIInv, AgentTypes
<1>2. UNCHANGED <<server, rep, req, rows, summary, outages>>
  BY DEF Diag!enrollWithRetry, Diag!keepTokenWarm
<1>3. CASE Diag!keepTokenWarm
  <2>1. UNCHANGED <<saved, conn>> /\ conn = "warm"
    BY <1>3 DEF Diag!keepTokenWarm
  <2>2. \E w \in Diag!States : st' = [st EXCEPT !.what = w]
    BY <1>1, <1>3, StoreFacts DEF Diag!keepTokenWarm, Diag!SetReady, Diag!SetProblem
  <2>3. st' \in StatusRow /\ st'.enrolled = st.enrolled
    BY <1>1, <2>2, StoreFacts
  <2>4. SaysFine(st', conn')
    BY <1>1, <2>1, <2>3 DEF SaysFine
  <2>5. AgentTypes'
    BY <1>1, <1>2, <2>1, <2>3 DEF AgentTypes
  <2> QED
    BY <1>2, <2>4, <2>5, AgentKeeps
<1>4. CASE Diag!enrollWithRetry
  <2>1. \/ saved' = "mine" /\ st' = [st EXCEPT !.enrolled = TRUE] /\ conn' = "warm"
        \/ st' = [st EXCEPT !.what = "seats"] /\ conn' = "gone" /\ saved' = saved
        \/ st' = [st EXCEPT !.what = "net"] /\ conn' \in {"enroll", "gone"} /\ saved' = saved
    BY <1>1, <1>4 DEF Diag!enrollWithRetry, Diag!SetProblem, AgentTypes
  <2>2. st' \in StatusRow
    <3>1. [st EXCEPT !.enrolled = TRUE] \in StatusRow
      BY <1>1 DEF StatusRow
    <3>2. [st EXCEPT !.what = "seats"] \in StatusRow /\ [st EXCEPT !.what = "net"] \in StatusRow
      BY <1>1 DEF StatusRow, Diag!States
    <3> QED
      BY <2>1, <3>1, <3>2
  <2>3. \/ conn' = "warm" /\ st'.enrolled = TRUE
        \/ conn' # "warm" /\ st'.what \in {"seats", "net"}
    <3>1. [st EXCEPT !.enrolled = TRUE].enrolled = TRUE
      BY <1>1 DEF StatusRow
    <3> QED
      BY <1>1, <2>1, <3>1, StoreFacts
  <2>4. SaysFine(st', conn')
    BY <2>3 DEF SaysFine, Fine
  <2>5. AgentTypes'
    BY <1>1, <1>2, <2>1, <2>2 DEF AgentTypes
  <2> QED
    BY <1>2, <2>4, <2>5, AgentKeeps
<1> QED
  BY <1>3, <1>4

LEMMA OutsideKeeps ==
    ASSUME DiagIInv, (\E x \in {"up", "down", "refuses"} : Diag!ServerBecomes(x)) \/ Diag!Restart
    PROVE  DiagIInv'
<1>1. AgentTypes /\ SaysFine(st, conn)
  BY DEF DiagIInv
<1>2. Diag!Trouble /\ UNCHANGED <<saved, req, rows, summary>>
  BY DEF Diag!ServerBecomes, Diag!Restart
<1>3. /\ server' \in {"up", "down", "refuses"}
      /\ \/ UNCHANGED <<st, conn, rep>>
         \/ st' = [what |-> "starting", enrolled |-> FALSE] /\ conn' = "start" /\ rep' = Diag!FreshReporter
  BY <1>1 DEF Diag!ServerBecomes, Diag!Restart, AgentTypes
<1>4. Diag!FreshReporter \in ReporterRow /\ [what |-> "starting", enrolled |-> FALSE] \in StatusRow
  BY DEF Diag!FreshReporter, ReporterRow, StatusRow, Diag!States
<1>5. outages' \in Nat /\ outages' # 0
  BY <1>1, <1>2, Disturbs
<1>6. AgentTypes'
  BY <1>1, <1>2, <1>3, <1>4, <1>5 DEF AgentTypes
<1>7. SaysFine(st', conn')
  BY <1>1, <1>3 DEF SaysFine, Fine
<1> QED
  BY <1>2, <1>5, <1>6, <1>7, AgentKeeps

LEMMA TimersKeep ==
    ASSUME DiagIInv, Diag!Settle \/ Diag!TimePasses \/ Diag!GivesUp
    PROVE  DiagIInv'
<1>1. AgentTypes /\ SaysFine(st, conn) /\ rep \in ReporterRow
  BY DEF DiagIInv, AgentTypes
<1>2. UNCHANGED <<server, saved, st, conn, req, rows, summary>>
  BY DEF Diag!Settle, Diag!TimePasses, Diag!GivesUp
<1>3. /\ rep' \in ReporterRow
      /\ \/ /\ rep'.waits = rep.waits /\ rep'.first = rep.first /\ rep'.last = rep.last
            /\ outages' = outages
         \/ Diag!Trouble
  BY <1>1 DEF Diag!Settle, Diag!TimePasses, Diag!GivesUp, ReporterRow
<1>4. outages' \in Nat /\ (outages' = 0 => outages = 0 /\ rep'.waits = rep.waits
                                             /\ rep'.first = rep.first /\ rep'.last = rep.last)
  BY <1>1, <1>3, Disturbs DEF AgentTypes
<1>5. AgentTypes'
  BY <1>1, <1>2, <1>3, <1>4 DEF AgentTypes
<1>6. SaysFine(st', conn')
  BY <1>1, <1>2
<1> QED
  BY <1>2, <1>4, <1>5, <1>6, AgentKeeps

-----------------------------------------------------------------------------
(* The requests.                                                           *)

\* A request whose row is not open moves on.
LEMMA OwnedByOthers ==
    ASSUME NEW r, NEW q \in Seq(ReportRow), NEW x, NEW y, Owned(r, q, x),
           \A t \in {1, 2} : Works(y, t, r) <=> Works(x, t, r)
    PROVE  Owned(r, q, y)
<1>1. \A i \in DOMAIN q : q[i].slot # 0 => q[i].slot \in {1, 2}
  <2>1. \A i \in DOMAIN q : q[i] \in ReportRow
    OBVIOUS
  <2> QED
    BY <2>1 DEF ReportRow
<1> QED
  BY <1>1 DEF Owned

LEMMA RequestMoves ==
    ASSUME DiagIInv, NEW s \in {1, 2}, NEW n \in RequestRow, req' = [req EXCEPT ![s] = n],
           req[s].pc # "open", n.pc # "open", UNCHANGED rows
    PROVE  /\ req' \in [{1, 2} -> RequestRow] /\ req'[s] = n
           /\ \A z \in {1, 2} \ {s} : req'[z] = req[z]
           /\ Histories' /\ (Alone(req, rows) => Alone(req', rows'))
<1>1. /\ req \in [{1, 2} -> RequestRow] /\ rows \in [{"station", "failure"} -> Seq(ReportRow)]
      /\ Histories
  BY DEF DiagIInv, TableTypes
<1>2. /\ req' \in [{1, 2} -> RequestRow] /\ req'[s] = n
      /\ \A z \in {1, 2} \ {s} : req'[z] = req[z]
  BY <1>1
<1>3. \A t \in {1, 2}, r \in {"station", "failure"} : Works(req', t, r) <=> Works(req, t, r)
  BY <1>2 DEF Works
<1>4. \A r \in {"station", "failure"} : Owned(r, rows[r], req')
  <2>1. \A r \in {"station", "failure"} : rows[r] \in Seq(ReportRow) /\ Owned(r, rows[r], req)
    BY <1>1 DEF Histories
  <2> QED
    BY <1>3, <2>1, OwnedByOthers
<1>5. Histories'
  BY <1>1, <1>4 DEF Histories
<1>6. Alone(req, rows) => Alone(req', rows')
  BY <1>2 DEF Alone
<1> QED
  BY <1>2, <1>5, <1>6

\* Requests that end.
LEMMA EndsKeep ==
    ASSUME DiagIInv, NEW s \in {1, 2}, Diag!Refused(s) \/ Diag!Forgotten(s)
    PROVE  DiagIInv'
<1>1. /\ AgentTypes /\ TableTypes /\ SaysFine(st, conn) /\ Undisturbed /\ req[s] \in RequestRow
      /\ rep \in ReporterRow
  BY DEF DiagIInv, TableTypes, AgentTypes
<1>2. /\ UNCHANGED <<server, saved, st, conn, rows, summary>>
      /\ req' = [req EXCEPT ![s] = Diag!NoReq] /\ req[s].pc \in {"sent", "done"}
  BY DEF Diag!Refused, Diag!Forgotten
<1>3. Diag!NoReq \in RequestRow /\ Diag!NoReq.pc = "free"
  BY DEF Diag!NoReq, RequestRow, Diag!States
<1>4. req' \in [{1, 2} -> RequestRow] /\ Histories'
  <2>1. req[s].pc # "open" /\ Diag!NoReq.pc # "open" /\ UNCHANGED rows
    BY <1>2, <1>3
  <2> QED
    BY <1>2, <1>3, <2>1, RequestMoves
<1>5. rep' \in ReporterRow
  <2>1. [rep EXCEPT !.waits = 0] \in ReporterRow /\ [rep EXCEPT !.waits = rep.waits] \in ReporterRow
    BY <1>1 DEF ReporterRow
  <2> QED
    BY <1>1, <2>1 DEF Diag!Refused, Diag!Forgotten
<1>6. outages' \in Nat /\ outages' # 0
  <2>1. CASE Diag!Refused(s)
    BY <1>1, <2>1, Disturbs DEF Diag!Refused
  <2>2. CASE Diag!Forgotten(s)
    <3>1. outages' = outages /\ rep.waits # s /\ req[s].pc = "done"
      BY <2>2 DEF Diag!Forgotten
    <3>2. outages # 0
      BY <1>1, <3>1 DEF Undisturbed, OneCall
    <3> QED
      BY <1>1, <3>1, <3>2 DEF AgentTypes
  <2> QED
    BY <2>1, <2>2
<1>7. AgentTypes' /\ TableTypes' /\ SaysFine(st', conn')
  BY <1>1, <1>2, <1>4, <1>5, <1>6 DEF AgentTypes, TableTypes
<1> QED
  BY <1>4, <1>6, <1>7 DEF DiagIInv, Undisturbed

\* The reporter sends.
LEMMA SendKeeps ==
    ASSUME DiagIInv, NEW s \in {1, 2}, Diag!runReporter(s)
    PROVE  DiagIInv'
<1>1. /\ AgentTypes /\ TableTypes /\ SaysFine(st, conn) /\ Undisturbed
      /\ rep \in ReporterRow /\ st \in StatusRow
  BY DEF DiagIInv, TableTypes, AgentTypes
<1> DEFINE n == [pc |-> "sent", what |-> st.what, route |-> IF st.enrolled THEN "station" ELSE "failure"]
<1>2. /\ UNCHANGED <<server, saved, st, conn, rows, summary, outages>>
      /\ req' = [req EXCEPT ![s] = n] /\ rep' = [rep EXCEPT !.waits = s]
      /\ req[s].pc = "free" /\ rep.waits = 0
  BY DEF Diag!runReporter
<1>3. n \in RequestRow /\ n.pc = "sent" /\ n.what = st.what
      /\ (n.what \in Fine => n.route = "station")
  BY <1>1 DEF StatusRow, RequestRow, SaysFine
<1> HIDE DEF n
<1>4. /\ req' \in [{1, 2} -> RequestRow] /\ Histories' /\ req'[s] = n
      /\ \A z \in {1, 2} \ {s} : req'[z] = req[z]
      /\ (Alone(req, rows) => Alone(req', rows'))
  <2>1. req[s].pc # "open" /\ n.pc # "open" /\ UNCHANGED rows
    BY <1>2, <1>3
  <2> QED
    BY <1>2, <1>3, <2>1, RequestMoves
<1>5. rep' \in ReporterRow /\ rep'.waits = s
  BY <1>1, <1>2 DEF ReporterRow
<1>6. AgentTypes' /\ TableTypes' /\ SaysFine(st', conn')
  BY <1>1, <1>2, <1>4, <1>5 DEF AgentTypes, TableTypes
<1>7. ASSUME outages' = 0
      PROVE  OneCall(req', rep'.waits) /\ Told(req', summary') /\ Agrees(rep', summary')
  <2>1. OneCall(req, rep.waits) /\ Told(req, summary)
    BY <1>1, <1>2, <1>7 DEF Undisturbed
  <2>2. OneCall(req', rep'.waits)
    BY <1>2, <1>3, <1>4, <1>5, <2>1 DEF OneCall
  <2>3. Told(req', summary')
    BY <1>2, <1>3, <1>4, <2>1 DEF Told
  <2>4. Agrees(rep', summary')
    BY <1>5 DEF Agrees
  <2> QED
    BY <2>2, <2>3, <2>4
<1>8. Undisturbed'
  BY <1>1, <1>2, <1>4, <1>7 DEF Undisturbed
<1> QED
  BY <1>4, <1>6, <1>8 DEF DiagIInv

\* The reporter hears of what was done.
LEMMA AnswerKeeps ==
    ASSUME DiagIInv, Diag!postDiag
    PROVE  DiagIInv'
<1>1. /\ AgentTypes /\ TableTypes /\ SaysFine(st, conn) /\ Undisturbed /\ rep \in ReporterRow
      /\ req \in [{1, 2} -> RequestRow]
  BY DEF DiagIInv, TableTypes, AgentTypes
<1> DEFINE s == rep.waits
<1>2. /\ UNCHANGED <<server, saved, st, conn, rows, summary, outages>>
      /\ req' = [req EXCEPT ![s] = Diag!NoReq] /\ req[s].pc = "done" /\ s # 0
      /\ rep' = [rep EXCEPT !.first = FALSE, !.last = req[s].what, !.gap = FALSE, !.due = FALSE,
                            !.waits = 0]
  BY DEF Diag!postDiag
<1>3. Diag!NoReq \in RequestRow /\ Diag!NoReq.pc = "free"
  BY DEF Diag!NoReq, RequestRow, Diag!States
<1>4. s \in {1, 2}
  BY <1>1, <1>2 DEF ReporterRow
<1>5. req[s] \in RequestRow /\ req[s].what \in Diag!States
  BY <1>1, <1>4 DEF RequestRow
<1>6. rep' \in ReporterRow /\ rep'.waits = 0 /\ rep'.last = req[s].what
  BY <1>1, <1>2, <1>5 DEF ReporterRow
<1> HIDE DEF s
<1>7. /\ req' \in [{1, 2} -> RequestRow] /\ Histories' /\ req'[s] = Diag!NoReq
      /\ \A z \in {1, 2} \ {s} : req'[z] = req[z]
      /\ (Alone(req, rows) => Alone(req', rows'))
  <2>1. req[s].pc # "open" /\ Diag!NoReq.pc # "open" /\ UNCHANGED rows
    BY <1>2, <1>3
  <2> QED
    BY <1>2, <1>3, <1>4, <2>1, RequestMoves
<1>8. AgentTypes' /\ TableTypes' /\ SaysFine(st', conn')
  BY <1>1, <1>2, <1>6, <1>7 DEF AgentTypes, TableTypes
<1>9. ASSUME outages' = 0
      PROVE  OneCall(req', rep'.waits) /\ Told(req', summary') /\ Agrees(rep', summary')
  <2>1. OneCall(req, s) /\ Told(req, summary)
    BY <1>1, <1>2, <1>9 DEF Undisturbed, s
  <2>2. \A z \in {1, 2} : req'[z].pc = "free"
    BY <1>3, <1>7, <2>1 DEF OneCall
  <2>3. OneCall(req', rep'.waits) /\ Told(req', summary')
    BY <1>6, <2>2 DEF OneCall, Told
  <2>4. req[s].what \in Fine => summary = req[s].what
    BY <1>2, <1>4, <2>1 DEF Told
  <2>5. Agrees(rep', summary')
    BY <1>2, <1>6, <2>4 DEF Agrees
  <2> QED
    BY <2>3, <2>5
<1>10. Undisturbed'
  BY <1>1, <1>2, <1>7, <1>9 DEF Undisturbed
<1> QED
  BY <1>7, <1>8, <1>10 DEF DiagIInv

-----------------------------------------------------------------------------
(* The routes.                                                             *)

\* An open row at the end changes nothing that is committed.
LEMMA AppendedFacts ==
    ASSUME NEW q \in Seq(ReportRow), NEW w \in ReportRow, w.slot # 0, w.unseen = {},
           NEW p, p = Append(q, w)
    PROVE  /\ p \in Seq(ReportRow) /\ Len(p) = Len(q) + 1 /\ DOMAIN p = DOMAIN q \cup {Len(q) + 1}
           /\ p[Len(q) + 1] = w /\ \A i \in DOMAIN q : p[i] = q[i] /\ i # Len(q) + 1
           /\ Limited(q) => Limited(p)
           /\ Brief(q) => Brief(p)
           /\ \A v : Newest(q, v) => Newest(p, v)
<1>1. /\ p \in Seq(ReportRow) /\ Len(p) = Len(q) + 1 /\ Len(q) \in Nat
      /\ DOMAIN q = 1..Len(q) /\ DOMAIN p = 1..(Len(q) + 1)
  OBVIOUS
<1>2. DOMAIN p = DOMAIN q \cup {Len(q) + 1}
  BY <1>1
<1>3. p[Len(q) + 1] = w /\ \A i \in DOMAIN q : p[i] = q[i] /\ i # Len(q) + 1
  BY <1>1
<1>4. Filed(p) = Filed(q)
  BY <1>2, <1>3 DEF Filed
<1>5. \A t : Missed(p, t) = Missed(q, t)
  BY <1>2, <1>3 DEF Missed
<1>6. Limited(q) => Limited(p)
  BY <1>2, <1>3, <1>4, <1>5 DEF Limited
<1>7. Brief(q) => Brief(p)
  BY <1>2, <1>3, <1>4 DEF Brief
<1>8. \A v : Newest(q, v) => Newest(p, v)
  <2>1. \A i \in Filed(q) : p[i] = q[i]
    BY <1>3 DEF Filed
  <2> QED
    BY <1>4, <2>1 DEF Newest
<1> QED
  BY <1>1, <1>2, <1>3, <1>6, <1>7, <1>8

LEMMA OwnedAppend ==
    ASSUME NEW q \in Seq(ReportRow), NEW s \in {1, 2}, NEW w \in ReportRow, w.slot = s,
           w.unseen = {}, NEW p, p = Append(q, w), NEW r, NEW x, NEW y,
           Owned(r, q, x), ~Works(x, s, r), Works(y, s, r),
           \A t \in {1, 2} \ {s} : Works(y, t, r) <=> Works(x, t, r)
    PROVE  Owned(r, p, y)
<1> DEFINE m == Len(q) + 1
<1>1. /\ DOMAIN p = DOMAIN q \cup {m} /\ p[m] = w
      /\ \A i \in DOMAIN q : p[i] = q[i] /\ i # m
  <2>1. w.slot # 0
    OBVIOUS
  <2> QED
    BY <2>1, AppendedFacts
<1> HIDE DEF m
<1>2. /\ \A i \in DOMAIN q : q[i].slot # 0 => Works(x, q[i].slot, r)
      /\ \A i, j \in DOMAIN q : q[i].slot # 0 /\ q[j].slot = q[i].slot => j = i
      /\ \A t \in {1, 2} : Works(x, t, r) => \E i \in DOMAIN q : q[i].slot = t
  BY DEF Owned
<1>3. \A i \in DOMAIN q : q[i].slot \in {0, 1, 2} /\ q[i].slot # s
  <2>1. \A i \in DOMAIN q : q[i] \in ReportRow
    OBVIOUS
  <2> QED
    BY <1>2, <2>1 DEF ReportRow
<1>4. \A i \in DOMAIN p : p[i].slot # 0 => Works(y, p[i].slot, r)
  <2> SUFFICES ASSUME NEW i \in DOMAIN p, p[i].slot # 0 PROVE Works(y, p[i].slot, r)
    OBVIOUS
  <2>1. CASE i = m
    BY <1>1, <2>1
  <2>2. CASE i \in DOMAIN q
    BY <1>1, <1>2, <1>3, <2>2
  <2> QED
    BY <1>1, <2>1, <2>2
<1>5. \A i, j \in DOMAIN p : p[i].slot # 0 /\ p[j].slot = p[i].slot => j = i
  BY <1>1, <1>2, <1>3
<1>6. \A t \in {1, 2} : Works(y, t, r) => \E i \in DOMAIN p : p[i].slot = t
  <2> SUFFICES ASSUME NEW t \in {1, 2}, Works(y, t, r) PROVE \E i \in DOMAIN p : p[i].slot = t
    OBVIOUS
  <2>1. CASE t = s
    BY <1>1, <2>1
  <2>2. CASE t # s
    BY <1>1, <1>2, <2>2
  <2> QED
    BY <2>1, <2>2
<1> QED
  BY <1>4, <1>5, <1>6 DEF Owned

\* The row of request s moves to the phase c, and the rows of its route to p.
LEMMA RouteStep ==
    ASSUME TableTypes, Histories, NEW s \in {1, 2}, NEW c \in {"open", "done"},
           req' = [req EXCEPT ![s].pc = c], NEW p \in Seq(ReportRow),
           rows' = [rows EXCEPT ![req[s].route] = p],
           Limited(p), Owned(req[s].route, p, req')
    PROVE  /\ req' \in [{1, 2} -> RequestRow] /\ rows' \in [{"station", "failure"} -> Seq(ReportRow)]
           /\ req'[s].pc = c /\ req'[s].route = req[s].route /\ req'[s].what = req[s].what
           /\ \A z \in {1, 2} \ {s} : req'[z] = req[z]
           /\ rows'[req[s].route] = p
           /\ \A r \in {"station", "failure"} \ {req[s].route} : rows'[r] = rows[r]
           /\ Histories'
<1>1. /\ req \in [{1, 2} -> RequestRow] /\ rows \in [{"station", "failure"} -> Seq(ReportRow)]
      /\ req[s] \in RequestRow /\ req[s].route \in {"station", "failure"}
  BY DEF TableTypes, RequestRow
<1>2. /\ req' \in [{1, 2} -> RequestRow] /\ req'[s].pc = c /\ req'[s].route = req[s].route
      /\ req'[s].what = req[s].what /\ \A z \in {1, 2} \ {s} : req'[z] = req[z]
  <2>1. [req[s] EXCEPT !.pc = c] \in RequestRow
    BY <1>1 DEF RequestRow
  <2>2. req' = [req EXCEPT ![s] = [req[s] EXCEPT !.pc = c]]
    OBVIOUS
  <2>3. req'[s] = [req[s] EXCEPT !.pc = c]
    BY <1>1, <2>2
  <2> QED
    BY <1>1, <2>1, <2>2, <2>3 DEF RequestRow
<1>3. /\ rows' \in [{"station", "failure"} -> Seq(ReportRow)] /\ rows'[req[s].route] = p
      /\ \A r \in {"station", "failure"} \ {req[s].route} : rows'[r] = rows[r]
  BY <1>1
<1>4. ASSUME NEW r \in {"station", "failure"} PROVE Limited(rows'[r]) /\ Owned(r, rows'[r], req')
  <2>1. CASE r = req[s].route
    BY <1>3, <2>1
  <2>2. CASE r # req[s].route
    <3>1. Limited(rows[r]) /\ Owned(r, rows[r], req) /\ rows[r] \in Seq(ReportRow)
      BY <1>1 DEF Histories
    <3>2. \A t \in {1, 2} : Works(req', t, r) <=> Works(req, t, r)
      BY <1>2, <2>2 DEF Works
    <3>3. Owned(r, rows[r], req')
      BY <3>1, <3>2, OwnedByOthers
    <3> QED
      BY <1>3, <2>2, <3>1, <3>3
  <2> QED
    BY <2>1, <2>2
<1> QED
  BY <1>2, <1>3, <1>4 DEF Histories

\* A route begins.
LEMMA BeginKeeps ==
    ASSUME DiagIInv, NEW s \in {1, 2}, Diag!Begin(s)
    PROVE  DiagIInv'
<1>1. /\ AgentTypes /\ TableTypes /\ SaysFine(st, conn) /\ Histories /\ Undisturbed
      /\ req[s] \in RequestRow /\ req[s].route \in {"station", "failure"} /\ req[s].what \in Diag!States
  BY DEF DiagIInv, TableTypes, RequestRow
<1> DEFINE r == req[s].route  q == rows[r]  w == [slot |-> s, what |-> req[s].what, unseen |-> {}]
           p == Append(q, w)
<1>2. /\ UNCHANGED <<server, saved, st, conn, rep, summary, outages>> /\ req[s].pc = "sent"
      /\ rows' = [rows EXCEPT ![r] = Append(@, w)] /\ req' = [req EXCEPT ![s].pc = "open"]
  BY DEF Diag!Begin, Diag!Row
<1>3. w \in ReportRow /\ w.slot = s /\ w.slot # 0 /\ w.unseen = {}
  BY <1>1 DEF ReportRow
<1>4. q \in Seq(ReportRow) /\ Limited(q) /\ Owned(r, q, req)
  BY <1>1 DEF TableTypes, Histories
<1>5. rows' = [rows EXCEPT ![r] = p]
  BY <1>2
<1> HIDE DEF w, q
<1>6. /\ p \in Seq(ReportRow) /\ Len(p) = Len(q) + 1 /\ p[Len(p)] = w /\ Limited(p)
      /\ (Brief(q) => Brief(p)) /\ \A v : Newest(q, v) => Newest(p, v)
  <2>1. p = Append(q, w)
    OBVIOUS
  <2> HIDE DEF p
  <2>2. /\ p \in Seq(ReportRow) /\ Len(p) = Len(q) + 1 /\ p[Len(q) + 1] = w
        /\ (Limited(q) => Limited(p)) /\ (Brief(q) => Brief(p))
    BY <1>3, <1>4, <2>1, AppendedFacts
  <2>3. \A v : Newest(q, v) => Newest(p, v)
    BY <1>3, <1>4, <2>1, AppendedFacts
  <2> QED
    BY <1>4, <2>2, <2>3
<1>7. /\ req'[s].pc = "open" /\ req'[s].route = r /\ req'[s].what = req[s].what
      /\ \A z \in {1, 2} \ {s} : req'[z] = req[z]
  BY <1>1, <1>2 DEF TableTypes, RequestRow
<1>8. Owned(r, p, req')
  <2>1. ~Works(req, s, r) /\ Works(req', s, r)
        /\ \A t \in {1, 2} \ {s} : Works(req', t, r) <=> Works(req, t, r)
    BY <1>2, <1>7 DEF Works
  <2> DEFINE y == req'
  <2>2. ~Works(req, s, r) /\ Works(y, s, r)
        /\ \A t \in {1, 2} \ {s} : Works(y, t, r) <=> Works(req, t, r)
    BY <2>1
  <2> HIDE DEF y, r, p
  <2>3. p = Append(q, w)
    BY DEF p
  <2>4. Owned(r, p, y)
    BY <1>3, <1>4, <2>2, <2>3, OwnedAppend
  <2> QED
    BY <2>4 DEF y
<1> HIDE DEF p
<1>9. /\ req' \in [{1, 2} -> RequestRow] /\ rows' \in [{"station", "failure"} -> Seq(ReportRow)]
      /\ rows'[r] = p /\ \A z \in {"station", "failure"} \ {r} : rows'[z] = rows[z]
      /\ Histories'
  <2>1. Limited(p) /\ Owned(req[s].route, p, req') /\ rows' = [rows EXCEPT ![req[s].route] = p]
    BY <1>5, <1>6, <1>8
  <2> QED
    BY <1>1, <1>2, <1>6, <2>1, RouteStep
<1>10. AgentTypes' /\ TableTypes' /\ SaysFine(st', conn')
  BY <1>1, <1>2, <1>9 DEF AgentTypes, TableTypes
<1>11. ASSUME outages' = 0
       PROVE  /\ OneCall(req', rep'.waits) /\ Alone(req', rows') /\ Told(req', summary')
              /\ \A z \in {"station", "failure"} : Brief(rows'[z])
              /\ Newest(rows'["station"], summary') /\ Agrees(rep', summary')
  <2>1. /\ OneCall(req, rep.waits) /\ Told(req, summary) /\ Newest(rows["station"], summary)
        /\ Agrees(rep, summary) /\ \A z \in {"station", "failure"} : Brief(rows[z])
    BY <1>1, <1>2, <1>11 DEF Undisturbed
  <2>2. OneCall(req', rep'.waits)
    BY <1>2, <1>7, <2>1 DEF OneCall
  <2>3. Told(req', summary')
    BY <1>2, <1>7, <2>1 DEF Told
  <2>4. \A z \in {1, 2} \ {s} : req'[z].pc = "free"
    BY <1>2, <1>7, <2>1 DEF OneCall
  <2>5. Alone(req', rows')
    <3>1. p # <<>> /\ p[Len(p)].slot = s
      BY <1>3, <1>4, <1>6
    <3> QED
      BY <1>7, <1>9, <2>4, <3>1 DEF Alone
  <2>6. \A z \in {"station", "failure"} : Brief(rows'[z])
    <3>1. Brief(q)
      BY <1>1, <2>1 DEF q
    <3> QED
      BY <1>6, <1>9, <2>1, <3>1
  <2>7. Newest(rows'["station"], summary')
    <3>1. CASE r = "station"
      BY <1>2, <1>6, <1>9, <2>1, <3>1 DEF q
    <3>2. CASE r # "station"
      BY <1>2, <1>9, <2>1, <3>2
    <3> QED
      BY <3>1, <3>2
  <2> QED
    BY <1>2, <2>1, <2>2, <2>3, <2>5, <2>6, <2>7
<1>12. Undisturbed'
  BY <1>11 DEF Undisturbed
<1> QED
  BY <1>9, <1>10, <1>12 DEF DiagIInv

\* A route commits.
LEMMA CommitKeeps ==
    ASSUME DiagConstants, DiagIInv, NEW s \in {1, 2},
           Diag!RecordStationDiagnostics(s) \/ Diag!RecordEnrollFailure(s)
    PROVE  DiagIInv'
<1>1. /\ AgentTypes /\ TableTypes /\ SaysFine(st, conn) /\ Histories /\ Undisturbed
      /\ req[s] \in RequestRow /\ req[s].route \in {"station", "failure"} /\ req[s].what \in Diag!States
  BY DEF DiagIInv, TableTypes, RequestRow
<1> DEFINE r == req[s].route  q == rows[r]  w == req[s].what
           Z == {z \in {1, 2} \ {s} : req[z].pc = "open"}  p == Marked(q, s, w, Z)
<1>2. /\ UNCHANGED <<server, saved, st, conn, rep, outages>> /\ req[s].pc = "open"
      /\ req' = [req EXCEPT ![s].pc = "done"]
      /\ summary' = IF r = "station" THEN w ELSE summary
      /\ \E u \in {{}, Diag!Unseen(s)} : rows' = [rows EXCEPT ![r] = Diag!Recorded(s, u)]
  BY DEF Diag!RecordStationDiagnostics, Diag!RecordEnrollFailure
<1>3. PICK u \in {{}, Missed(q, s)} : rows' = [rows EXCEPT ![r] = Diag!At(p, Stays(p, u))]
  <2>1. \A u : Diag!Recorded(s, u) = Diag!At(p, Stays(p, u)) /\ Diag!Unseen(s) = Missed(q, s)
    BY <1>1, RecordedIs
  <2> HIDE DEF p, q, r
  <2> QED
    BY <1>2, <2>1
<1> DEFINE R == Diag!At(p, Stays(p, u))
<1>4. q \in Seq(ReportRow) /\ Limited(q) /\ Owned(r, q, req)
  BY <1>1 DEF TableTypes, Histories
<1>5. Works(req, s, r) /\ w \in Diag!States /\ Z \in SUBSET ({1, 2} \ {s})
  BY <1>1, <1>2 DEF Works
<1>6. PICK o \in DOMAIN q : q[o].slot = s /\ \A j \in DOMAIN q : q[j].slot = s => j = o
  <2>1. PICK o \in DOMAIN q : q[o].slot = s
    BY <1>4, <1>5 DEF Owned
  <2>2. \A i, j \in DOMAIN q : q[i].slot # 0 /\ q[j].slot = q[i].slot => j = i
    BY <1>4 DEF Owned
  <2>3. \A j \in DOMAIN q : q[j].slot = s => j = o
    <3> HIDE DEF q
    <3> QED
      BY <2>1, <2>2
  <2> QED
    BY <2>1, <2>3
<1>7. /\ req'[s].pc = "done" /\ req'[s].route = r /\ req'[s].what = w
      /\ \A z \in {1, 2} \ {s} : req'[z] = req[z]
  BY <1>1, <1>2 DEF TableTypes, RequestRow
<1>8. /\ p = Marked(q, s, w, Z) /\ R = Diag!At(p, Stays(p, u)) /\ rows' = [rows EXCEPT ![r] = R]
  BY <1>3
<1> HIDE DEF q, w, Z, p, R
<1>9. R \in Seq(ReportRow) /\ Limited(R)
  BY <1>4, <1>5, <1>6, <1>8, Swept
<1>10. Owned(r, R, req')
  <2>1. ~Works(req', s, r) /\ \A t \in {1, 2} \ {s} : Works(req', t, r) <=> Works(req, t, r)
    BY <1>7 DEF Works
  <2>2. u \in SUBSET (DOMAIN q)
    BY DEF Missed
  <2> DEFINE y == req'
  <2>3. ~Works(y, s, r) /\ \A t \in {1, 2} \ {s} : Works(y, t, r) <=> Works(req, t, r)
    BY <2>1
  <2> HIDE DEF y, r
  <2>4. Owned(r, R, y)
    BY <1>4, <1>5, <1>8, <2>2, <2>3, OwnedSwept
  <2> QED
    BY <2>4 DEF y
<1>11. /\ req' \in [{1, 2} -> RequestRow] /\ rows' \in [{"station", "failure"} -> Seq(ReportRow)]
       /\ rows'[r] = R /\ \A z \in {"station", "failure"} \ {r} : rows'[z] = rows[z]
       /\ Histories'
  <2>1. Owned(req[s].route, R, req') /\ rows' = [rows EXCEPT ![req[s].route] = R]
    BY <1>8, <1>10
  <2> QED
    BY <1>1, <1>2, <1>9, <2>1, RouteStep
<1>12. AgentTypes' /\ TableTypes' /\ SaysFine(st', conn')
  <2>1. summary' \in Diag!States \cup {"none"}
    BY <1>1, <1>2, <1>5 DEF TableTypes
  <2> QED
    BY <1>1, <1>2, <1>11, <2>1 DEF AgentTypes, TableTypes
<1>13. ASSUME outages' = 0
       PROVE  /\ OneCall(req', rep'.waits) /\ Alone(req', rows') /\ Told(req', summary')
              /\ \A z \in {"station", "failure"} : Brief(rows'[z])
              /\ Newest(rows'["station"], summary') /\ Agrees(rep', summary')
  <2>1. /\ OneCall(req, rep.waits) /\ Told(req, summary) /\ Newest(rows["station"], summary)
        /\ Alone(req, rows) /\ \A z \in {"station", "failure"} : Brief(rows[z])
    BY <1>1, <1>2, <1>13 DEF Undisturbed
  <2>2. rep.waits = s /\ \A z \in {1, 2} \ {s} : req[z].pc = "free" /\ req'[z].pc = "free"
    BY <1>2, <1>7, <2>1 DEF OneCall
  <2>3. OneCall(req', rep'.waits)
    BY <1>2, <1>7, <2>1 DEF OneCall
  <2>4. Told(req', summary')
    <3>1. w \in Fine => r = "station"
      BY <1>2, <2>1 DEF Told, w
    <3> QED
      BY <1>2, <1>7, <2>2, <3>1 DEF Told
  <2>5. Alone(req', rows') /\ Agrees(rep', summary')
    BY <1>2, <1>7, <2>2 DEF Alone, Agrees
  <2>6. q # <<>> /\ q[Len(q)].slot = s
    BY <1>2, <2>1 DEF Alone, q
  <2>7. \A j \in DOMAIN q : q[j].slot # 0 => j = Len(q)
    <3> SUFFICES ASSUME NEW j \in DOMAIN q, q[j].slot # 0 PROVE j = Len(q)
      OBVIOUS
    <3>1. q[j] \in ReportRow /\ Len(q) \in DOMAIN q
      BY <1>4, <2>6
    <3>2. q[j].slot \in {1, 2} /\ Works(req, q[j].slot, r)
      BY <1>4, <3>1 DEF Owned, ReportRow
    <3>3. q[j].slot = s
      BY <2>2, <3>2 DEF Works
    <3> QED
      BY <1>6, <2>6, <3>1, <3>3
  <2>8. Brief(q) /\ \A j \in DOMAIN q : q[j].unseen = {}
    BY <1>1, <2>1 DEF Brief, q
  <2>9. u = {} /\ Z = {}
    <3>1. Missed(q, s) = {}
      BY <2>8 DEF Missed
    <3>2. \A z \in {1, 2} \ {s} : req[z].pc # "open"
      BY <2>2
    <3> QED
      BY <3>1, <3>2 DEF Z
  <2>10. Brief(R) /\ Newest(R, w)
    <3>1. p = Marked(q, s, w, {}) /\ R = Diag!At(p, Stays(p, {}))
      BY <1>8, <2>9
    <3> QED
      BY <1>4, <1>5, <2>6, <2>7, <2>8, <3>1, SweptAlone
  <2>11. \A z \in {"station", "failure"} : Brief(rows'[z])
    BY <1>11, <2>1, <2>10
  <2>12. Newest(rows'["station"], summary')
    <3>1. CASE r = "station"
      BY <1>2, <1>11, <2>10, <3>1
    <3>2. CASE r # "station"
      BY <1>2, <1>11, <2>1, <3>2
    <3> QED
      BY <3>1, <3>2
  <2> QED
    BY <2>3, <2>4, <2>5, <2>11, <2>12
<1>14. Undisturbed'
  BY <1>13 DEF Undisturbed
<1> QED
  BY <1>11, <1>12, <1>14 DEF DiagIInv

LEMMA DiagInitOK ==
    ASSUME DiagConstants, Diag!DiagInit
    PROVE  DiagIInv
<1>1. /\ server = "up" /\ saved \in {"none", "other"} /\ st = [what |-> "starting", enrolled |-> FALSE]
      /\ conn = "start" /\ rep = Diag!FreshReporter /\ req = [s \in {1, 2} |-> Diag!NoReq]
      /\ rows = [r \in {"station", "failure"} |-> <<>>] /\ summary = "none" /\ outages = 0
  BY DEF Diag!DiagInit, Diag!Slots, Diag!Routes
<1>2. /\ Diag!FreshReporter \in ReporterRow /\ [what |-> "starting", enrolled |-> FALSE] \in StatusRow
      /\ Diag!NoReq \in RequestRow /\ Diag!NoReq.pc = "free"
      /\ Diag!FreshReporter.waits = 0 /\ Diag!FreshReporter.first
  BY DEF Diag!FreshReporter, Diag!NoReq, RequestRow, ReporterRow, StatusRow, Diag!States
<1>3. <<>> \in Seq(ReportRow) /\ DOMAIN <<>> = {}
  OBVIOUS
<1>4. AgentTypes /\ TableTypes
  BY <1>1, <1>2, <1>3 DEF AgentTypes, TableTypes
<1>5. SaysFine(st, conn)
  BY <1>1 DEF SaysFine, Fine
<1>6. Filed(<<>>) = {} /\ \A t : Missed(<<>>, t) = {}
  BY <1>3 DEF Filed, Missed
<1>7. Limited(<<>>) /\ Brief(<<>>) /\ \A v : Newest(<<>>, v)
  <2>1. Cardinality({}) = 0 /\ History \in Nat
    BY FS_EmptySet DEF DiagConstants
  <2> DEFINE q == <<>>
  <2>2. DOMAIN q = {} /\ Cardinality(Filed(q)) = 0 /\ Filed(q) = {} /\ \A t : Missed(q, t) = {}
    BY <1>3, <1>6, <2>1
  <2>3. \A t : Cardinality(Missed(q, t)) = 0
    BY <2>1, <2>2
  <2> HIDE DEF q
  <2>4. Limited(q)
    BY <2>1, <2>2, <2>3 DEF Limited
  <2>5. Brief(q)
    BY <2>1, <2>2 DEF Brief
  <2>6. \A v : Newest(q, v)
    BY <2>2 DEF Newest
  <2> QED
    BY <2>4, <2>5, <2>6 DEF q
<1>8. \A s \in {1, 2} : req[s] = Diag!NoReq
  BY <1>1
<1>9. Histories
  <2>1. \A r \in {"station", "failure"} : Owned(r, <<>>, req)
    BY <1>2, <1>3, <1>8 DEF Owned, Works
  <2> QED
    BY <1>1, <1>7, <2>1 DEF Histories
<1>10. Undisturbed
  <2>1. OneCall(req, rep.waits)
    BY <1>1, <1>2, <1>8 DEF OneCall
  <2>2. Alone(req, rows) /\ Told(req, summary)
    BY <1>2, <1>8 DEF Alone, Told
  <2>3. Agrees(rep, summary)
    BY <1>1, <1>2 DEF Agrees
  <2> QED
    BY <1>1, <1>7, <2>1, <2>2, <2>3 DEF Undisturbed
<1> QED
  BY <1>4, <1>5, <1>9, <1>10 DEF DiagIInv

LEMMA DiagNextKeeps ==
    ASSUME DiagConstants, DiagIInv, [Diag!DiagNext]_Diag!diagVars
    PROVE  DiagIInv'
<1>1. CASE UNCHANGED Diag!diagVars
  <2>1. /\ UNCHANGED <<server, saved, st, conn>> /\ UNCHANGED <<rep, req, rows, summary, outages>>
    BY <1>1 DEF Diag!diagVars
  <2>2. AgentTypes' /\ SaysFine(st', conn')
    BY <2>1 DEF DiagIInv, AgentTypes
  <2> QED
    BY <2>1, <2>2, AgentKeeps
<1>2. CASE Diag!DiagNext
  <2>1. ASSUME NEW s \in {1, 2}, Diag!runReporter(s) \/ Diag!Serve(s) \/ Diag!Refused(s)
        PROVE  DiagIInv'
    BY <2>1, SendKeeps, BeginKeeps, CommitKeeps, EndsKeep DEF Diag!Serve
  <2>2. CASE Diag!Connecting \/ Diag!connectFails
    BY <2>2, ConnectKeeps, EnrollKeeps DEF Diag!Connecting
  <2>3. CASE (\E x \in {"up", "down", "refuses"} : Diag!ServerBecomes(x)) \/ Diag!Restart
    BY <2>3, OutsideKeeps
  <2>4. CASE Diag!Settle \/ Diag!TimePasses \/ Diag!postDiag \/ Diag!GivesUp
    BY <2>4, TimersKeep, AnswerKeeps
  <2> QED
    BY <1>2, <2>1, <2>2, <2>3, <2>4 DEF Diag!DiagNext, Diag!Slots
<1> QED
  BY <1>1, <1>2

\* The committed rows of a route, in their order.
LEMMA CommittedFacts ==
    ASSUME TableTypes, NEW r \in {"station", "failure"}
    PROVE  /\ Diag!Committed(r) \in Seq(ReportRow)
           /\ Len(Diag!Committed(r)) = Cardinality(Filed(rows[r]))
           /\ \A v : Newest(rows[r], v) /\ Diag!Committed(r) # <<>> => Diag!Last(Diag!Committed(r)).what = v
<1> DEFINE q == rows[r]  I == Filed(q)  R == Diag!At(q, I)
<1>1. q \in Seq(ReportRow) /\ I \in SUBSET (DOMAIN q)
  BY DEF TableTypes, Filed
<1>2. Diag!Committed(r) = R
  BY DEF Diag!Committed, Filed
<1> HIDE DEF q, I
<1>3. /\ R \in Seq(ReportRow) /\ Len(R) = Cardinality(I) /\ Cardinality(I) \in Nat
      /\ \A k \in 1..Cardinality(I) : Diag!Nth(I, k) \in I /\ R[k] = q[Diag!Nth(I, k)]
  BY <1>1, Picked
<1> HIDE DEF R
<1>4. ASSUME NEW v, Newest(q, v), R # <<>> PROVE R[Len(R)].what = v
  <2> DEFINE c == Cardinality(I)  m == Diag!Nth(I, c)
  <2>1. c \in 1..c /\ c = Len(R)
    BY <1>3, <1>4
  <2>2. m \in I /\ R[c] = q[m]
    BY <1>3, <2>1
  <2>3. Len(q) \in Nat /\ I \in SUBSET (1..Len(q))
    BY <1>1
  <2>4. \A i \in I : i <= m
    BY <2>3, NthFacts
  <2> HIDE DEF m, c
  <2>5. q[m].what = v
    BY <1>4, <2>2, <2>4 DEF Newest, I
  <2> QED
    BY <2>1, <2>2, <2>5
<1>5. Diag!Last(R) = R[Len(R)]
  BY DEF Diag!Last
<1> QED
  BY <1>2, <1>3, <1>4, <1>5 DEF q, I

LEMMA DiagImplies ==
    ASSUME DiagConstants, DiagIInv
    PROVE  Diag!DiagInv
<1>1. AgentTypes /\ TableTypes /\ SaysFine(st, conn) /\ Histories /\ Undisturbed
  BY DEF DiagIInv
<1>2. Diag!DiagTypeOK
  BY <1>1 DEF Diag!DiagTypeOK, AgentTypes, TableTypes, StatusRow, RequestRow, Diag!Slots
<1>3. \A r \in {"station", "failure"} : Len(Diag!Committed(r)) <= History + 1
  BY <1>1, CommittedFacts DEF Histories, Limited
<1>4. ASSUME outages = 0
      PROVE  /\ \A r \in {"station", "failure"} : Len(Diag!Committed(r)) <= History
             /\ Diag!Committed("station") # <<>> => summary = Diag!Last(Diag!Committed("station")).what
             /\ ~rep.first /\ rep.waits = 0 /\ rep.last \in Fine => summary = rep.last
  <2>1. /\ \A r \in {"station", "failure"} : Brief(rows[r])
        /\ Newest(rows["station"], summary) /\ Agrees(rep, summary)
    BY <1>1, <1>4 DEF Undisturbed
  <2>2. \A r \in {"station", "failure"} : Len(Diag!Committed(r)) <= History
    BY <1>1, <2>1, CommittedFacts DEF Brief
  <2>3. Diag!Committed("station") # <<>> => summary = Diag!Last(Diag!Committed("station")).what
    BY <1>1, <2>1, CommittedFacts
  <2> QED
    BY <2>1, <2>2, <2>3 DEF Agrees
<1> QED
  BY <1>2, <1>3, <1>4 DEF Diag!DiagInv, Diag!Routes, Diag!Last, Fine

\* Whatever outages, restarts, lost answers and late requests there are: the
\* history of a PC keeps its limit, with at most one row too many for reports
\* that overlapped, and while every answer was waited for it agrees with the
\* fleet list and with what the reporter has told (b2b/diag.go, reporter.go).
THEOREM DiagThm ==
    ASSUME DiagConstants
    PROVE  Diag!DiagSpec => []DiagInv
<1>1. Diag!DiagInit => DiagIInv
  BY DiagInitOK
<1>2. DiagIInv /\ [Diag!DiagNext]_Diag!diagVars => DiagIInv'
  BY DiagNextKeeps
<1>3. DiagIInv => DiagInv
  BY DiagImplies DEF DiagInv
<1> QED
  BY <1>1, <1>2, <1>3, PTL DEF Diag!DiagSpec
=============================================================================
