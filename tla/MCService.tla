------------------------------ MODULE MCService ------------------------------
(***************************************************************************)
(* The parts that talk to somebody in the background: the evening          *)
(* reminder, the quiz in a Telegram chat, the agent of a classroom PC (its *)
(* updates and its reports), the sockets of the support chat and web push. *)
(* They share nothing but the server, so a behaviour exercises one of      *)
(* them, chosen at the start, and the others rest.                         *)
(***************************************************************************)
EXTENDS DailyReminder

CONSTANTS
    Handlers, Total, MaxTaps, QuizTrouble,                              \* GroupQuiz
    MaxVersion, MaxEvents,                                              \* StationUpdate
    History, DiagTrouble,                                               \* StationDiag
    Learners, Staff, QueueCap, MaxMsgs, MaxTickets,                     \* SupportHub
    Profiles, Endpoints, Jobs, Workers, MaxJobs, MaxChanges                      \* WebPush

VARIABLES
    part,                                                               \* the one that moves
    sess, hands, timer, shown, poll, voted, answered, twice, quiz, taps,
    mishaps,                                                            \* GroupQuiz
    release, target, prev, old, staged, run, busy, up, ins, dl, events,  \* StationUpdate
    server, saved, st, conn, agent, rep, req, rows, summary, outages,    \* StationDiag
    sent, tickets, mints, hub, socket, pushed, broken,                  \* SupportHub
    owner, gone, due, recent, blind, job, begun, changes              \* WebPush

quizVars == <<sess, hands, timer, shown, poll, voted, answered, twice, quiz, taps, mishaps>>
updateVars == <<release, target, prev, old, staged, run, busy, up, ins, dl, events>>
diagVars == <<server, saved, st, conn, agent, rep, req, rows, summary, outages>>
hubVars == <<sent, tickets, mints, hub, socket, pushed, broken>>
pushVars == <<owner, gone, due, recent, blind, job, begun, changes>>

Quiz == INSTANCE GroupQuiz WITH
    h <- hands, rows <- poll, flag <- quiz, trouble <- mishaps, MaxTrouble <- QuizTrouble
Update == INSTANCE StationUpdate
Diag == INSTANCE StationDiag WITH trouble <- outages, MaxTrouble <- DiagTrouble
Hub == INSTANCE SupportHub WITH conn <- socket
Push == INSTANCE WebPush WITH moves <- changes, MaxMoves <- MaxChanges

(* Web push starts with one browser of the first profile and cards due for  *)
(* everybody, and only a behaviour about web push follows the others.       *)
AnEndpoint == CHOOSE e \in Endpoints : TRUE
AProfile == CHOOSE q \in Profiles : TRUE

ServiceInit ==
    /\ part \in {"reminder", "quiz", "update", "diag", "hub", "push"}
    /\ ReminderInit /\ Quiz!QuizInit /\ Update!UpdateInit /\ Diag!DiagInit /\ Hub!HubInit
    /\ Push!PushInit /\ owner[AnEndpoint] = AProfile
    /\ part # "diag" => saved = "none"
    /\ part = "push" => due = Profiles
    /\ part # "push" => due = {AProfile} /\ \A e \in Endpoints : owner[e] = AProfile

ReminderMoves ==
    part = "reminder" /\ ReminderNext
    /\ UNCHANGED <<part, quizVars, updateVars, diagVars, hubVars, pushVars>>
QuizMoves ==
    part = "quiz" /\ Quiz!QuizNext
    /\ UNCHANGED <<part, reminderVars, updateVars, diagVars, hubVars, pushVars>>
UpdateMoves ==
    part = "update" /\ Update!UpdateNext
    /\ UNCHANGED <<part, reminderVars, quizVars, diagVars, hubVars, pushVars>>
DiagMoves ==
    part = "diag" /\ Diag!DiagNext
    /\ UNCHANGED <<part, reminderVars, quizVars, updateVars, hubVars, pushVars>>
HubMoves ==
    part = "hub" /\ Hub!HubNext
    /\ UNCHANGED <<part, reminderVars, quizVars, updateVars, diagVars, pushVars>>
PushMoves ==
    part = "push" /\ Push!PushNext
    /\ UNCHANGED <<part, reminderVars, quizVars, updateVars, diagVars, hubVars>>

ServiceNext == ReminderMoves \/ QuizMoves \/ UpdateMoves \/ DiagMoves \/ HubMoves \/ PushMoves

(* The fairness of each component, while it moves.                          *)
ServiceFairness ==
    /\ \A r \in Procs : WF_reminderVars(part = "reminder" /\ Pass(r))
    /\ \A x \in Handlers : WF_quizVars(part = "quiz" /\ Quiz!Handle(x))
    /\ WF_quizVars(part = "quiz" /\ \E x \in Handlers : Quiz!Fire(x))
    /\ SF_updateVars(part = "update" /\ Update!Updater)
    /\ WF_updateVars(part = "update" /\ Update!Installer)
    /\ WF_updateVars(part = "update" /\ Update!Boot)
    /\ SF_updateVars(part = "update" /\ Update!SwitchOff)
    /\ WF_diagVars(part = "diag" /\ Diag!Connecting)
    /\ WF_diagVars(part = "diag" /\ (Diag!Settle \/ Diag!TimePasses))
    /\ WF_diagVars(part = "diag" /\ Diag!postDiag)
    /\ \A s \in Diag!Slots : WF_diagVars(part = "diag" /\ Diag!Serve(s))
    /\ WF_diagVars(part = "diag" /\ \E s \in Diag!Slots : Diag!runReporter(s))
    /\ \A c \in Hub!Conns :
          /\ WF_hubVars(part = "hub" /\ Hub!Handler(c))
          /\ WF_hubVars(part = "hub" /\ socket[c].slow /\ Hub!Close(c))

ServiceSpec ==
    ServiceInit
    /\ [][ServiceNext]_<<part, reminderVars, quizVars, updateVars, diagVars, hubVars, pushVars>>
    /\ ServiceFairness

-----------------------------------------------------------------------------
(* The group quiz: the number of a confirmed poll is not posted again, a    *)
(* game stops near its last question, votes are not invented (bot/quiz.go). *)
QuizInv == part = "quiz" => Quiz!QuizInv

(* Updates of a classroom PC: a build stays on the disk through renames,    *)
(* failed copies and power cuts, and nothing but the sweep of an installer  *)
(* that finds no installed copy takes the last one away (updater.replace,   *)
(* selfinstall.Ensure).                                                     *)
UpdateSafe == [](part = "update" => Update!UpdateInv) /\ Update!LastCopyKept

(* A PC's reports: the history keeps its limit and agrees with the fleet    *)
(* list (b2b/diag.go, reporter.go).                                         *)
DiagInv == part = "diag" => Diag!DiagInv

(* Support sockets: served once per message, tickets open one socket, the   *)
(* hub forgets dead sockets (supportchat/hub.go).                           *)
HubInv == part = "hub" => Hub!HubInv

(* Web push: a run tells a profile once, and a cooldown is overrun by one   *)
(* push per overlapping run or unread cooldown (ListFSRSDueCandidates,      *)
(* SendTest, BroadcastSupport).                                             *)
PushInv == part = "push" => Push!PushInv

(* Everybody is served in the end: reminded users are claimed, a game ends  *)
(* without help, a published build arrives, the panel shows what the PC     *)
(* says, and a closed socket leaves the hub (runDailyReminderPass,          *)
(* scheduleAutoAdvance, checkOnce, runReporter, Unregister).                *)
Settled ==
    CASE part = "reminder" ->
           open /\ flag /\ usable # {} => \A x \in Users : Eligible(x) /\ ~users[x].moved => users[x].claimed
      [] part = "quiz"   -> ~sess.active \/ mishaps > 0
      [] part = "update" -> target = release \/ staged = release \/ target = 0
      [] part = "diag"   -> agent /\ (Diag!ReportDiagnostics \/ Diag!ReportEnrollFailure) => Diag!Shown
      [] part = "hub"    -> \A c \in Hub!Conns : ~(socket[c].st = "live" /\ socket[c].closed)
      [] part = "push"   -> TRUE
ServiceSettles == <>[]Settled
=============================================================================
