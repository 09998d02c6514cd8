---------------------------- MODULE StationDiag ----------------------------
(***************************************************************************)
(* What a classroom PC says about itself, and what the school's panel      *)
(* shows of it: the status store of the agent (status), connect and        *)
(* keepTokenWarm that write it, the reporter that files it                 *)
(* (cmd/avtotest-station/reporter.go, agent/diag.go) and the two routes    *)
(* that record it (b2b/diag.go).                                           *)
(*                                                                         *)
(* A report is the phase and code of the moment, as one value.  Rows are   *)
(* in the order of created_at, which is now() and so the time the          *)
(* transaction began; an open transaction already has its place.  The PC   *)
(* waits a minute for an answer and may then ask again while the server    *)
(* still works on the first request: two slots are enough for that.        *)
(***************************************************************************)
EXTENDS Integers, Sequences, FiniteSets, SequencesExt

CONSTANTS
    History,      \* diagHistoryPerMachine
    MaxTrouble    \* bound on outages, restarts, failures and lost answers

Slots == {1, 2}
Routes == {"station", "failure"}
States == {"starting", "enrolling", "net", "refused", "seats", "other_school", "local", "ready"}

VARIABLES
    server,     \* "up", "down", or "refuses" this PC's enrolment and token
    saved,      \* station.json: "none", "mine", or the one of another school
    st,         \* the status store: what it says, and Enrolled
    conn,       \* where connect is
    agent,      \* setAgent has been called
    rep,        \* the reporter: settled, first, last, the two clocks, the slot it waits on
    req,        \* the requests the server has, by slot
    rows,       \* b2b_station_diag by route, in created_at order
    summary,    \* last_phase and last_code of b2b_station
    trouble

diagVars == <<server, saved, st, conn, agent, rep, req, rows, summary, trouble>>

NoReq == [pc |-> "free", route |-> "station", what |-> "starting"]
FreshReporter ==
    [settled |-> FALSE, first |-> TRUE, last |-> "starting", gap |-> TRUE, due |-> TRUE, waits |-> 0]

DiagInit ==
    /\ server = "up"
    /\ saved \in {"none", "other"}
    /\ st = [what |-> "starting", enrolled |-> FALSE]
    /\ conn = "start"
    /\ agent = FALSE
    /\ rep = FreshReporter
    /\ req = [s \in Slots |-> NoReq]
    /\ rows = [r \in Routes |-> <<>>]
    /\ summary = "none"
    /\ trouble = 0

Trouble == trouble < MaxTrouble /\ trouble' = trouble + 1

----------------------------------------------------------------------------
(* The agent: connect and keepTokenWarm                                    *)

\* The store's setters.
SetProblem(what) == st' = [st EXCEPT !.what = what]
SetReady == st' = [st EXCEPT !.what = "ready"]
SetIdentity(what) == st' = [what |-> what, enrolled |-> saved /= "none"]

\* diagnose.Token: what a failed token call is called on the screen.
TokenProblem == IF server = "down" THEN "net" ELSE "refused"

\* connect: the hardware id, the agent, the key, the saved identity, a first
\* token.  The warning of the wrong installer does not end it.
connect ==
    /\ conn = "start"
    /\ agent' = TRUE
    /\ CASE saved = "none" -> SetIdentity("enrolling") /\ conn' = "enroll"
         [] saved /= "none" /\ server /= "up" -> SetIdentity(TokenProblem) /\ conn' = "warm"
         [] saved = "other" /\ server = "up" -> SetIdentity("other_school") /\ conn' = "warm"
         [] OTHER -> SetIdentity(st.what) /\ conn' = "warm"
    /\ UNCHANGED <<server, saved, rep, req, rows, summary, trouble>>

\* The hardware id or the sealed key cannot be read: connect gives up, in the
\* first case before there is an agent to report with.
connectFails ==
    /\ conn = "start"
    /\ Trouble
    /\ SetProblem("local")
    /\ agent' \in BOOLEAN
    /\ conn' = "gone"
    /\ UNCHANGED <<server, saved, rep, req, rows, summary>>

\* enrollWithRetry: a refusal is final, an outage is waited out for a dozen
\* attempts.
enrollWithRetry ==
    /\ conn = "enroll"
    /\ CASE server = "up" -> saved' = "mine" /\ st' = [st EXCEPT !.enrolled = TRUE] /\ conn' = "warm"
         [] server = "refuses" -> SetProblem("seats") /\ conn' = "gone" /\ UNCHANGED saved
         [] OTHER -> SetProblem("net") /\ conn' \in {"enroll", "gone"} /\ UNCHANGED saved
    /\ UNCHANGED <<server, agent, rep, req, rows, summary, trouble>>

\* keepTokenWarm: one round of the loop that lasts as long as the process.
keepTokenWarm ==
    /\ conn = "warm"
    /\ IF server = "up" THEN SetReady ELSE SetProblem(TokenProblem)
    /\ UNCHANGED <<server, saved, conn, agent, rep, req, rows, summary, trouble>>

\* The network, the backend or the licence changes.
ServerBecomes(x) ==
    /\ Trouble
    /\ server /= x /\ server' = x
    /\ UNCHANGED <<saved, st, conn, agent, rep, req, rows, summary>>

\* The PC is switched off and on; a request under way goes on by itself.
Restart ==
    /\ Trouble
    /\ st' = [what |-> "starting", enrolled |-> FALSE]
    /\ conn' = "start" /\ agent' = FALSE
    /\ rep' = FreshReporter
    /\ UNCHANGED <<server, saved, req, rows, summary>>

----------------------------------------------------------------------------
(* The reporter                                                            *)

\* The settle time, the debounce and the heartbeat pass.
Settle ==
    /\ ~rep.settled
    /\ conn /= "start"
    /\ rep' = [rep EXCEPT !.settled = TRUE]
    /\ UNCHANGED <<server, saved, st, conn, agent, req, rows, summary, trouble>>

TimePasses ==
    /\ rep.waits = 0
    /\ \/ ~rep.gap /\ rep' = [rep EXCEPT !.gap = TRUE]
       \/ rep.gap /\ ~rep.due /\ rep' = [rep EXCEPT !.due = TRUE]
    /\ UNCHANGED <<server, saved, st, conn, agent, req, rows, summary, trouble>>

\* The condition of runReporter's loop.
WantsToReport == rep.gap /\ (rep.first \/ st.what /= rep.last \/ rep.due)

\* send: ReportDiagnostics needs a token, ReportEnrollFailure only the key.
ReportDiagnostics == st.enrolled /\ server = "up"
ReportEnrollFailure == ~st.enrolled /\ server /= "down"

runReporter(s) ==
    /\ rep.settled /\ rep.waits = 0 /\ agent
    /\ WantsToReport
    /\ ReportDiagnostics \/ ReportEnrollFailure
    /\ req[s].pc = "free" /\ \A z \in Slots : z < s => req[z].pc /= "free"
    /\ req' = [req EXCEPT ![s] = [pc |-> "sent", what |-> st.what,
                                  route |-> IF st.enrolled THEN "station" ELSE "failure"]]
    /\ rep' = [rep EXCEPT !.waits = s]
    /\ UNCHANGED <<server, saved, st, conn, agent, rows, summary, trouble>>

\* postDiag: the answer arrives, and the reporter remembers what it told.
postDiag ==
    /\ rep.waits /= 0
    /\ req[rep.waits].pc = "done"
    /\ rep' = [rep EXCEPT !.first = FALSE, !.last = req[rep.waits].what,
                          !.gap = FALSE, !.due = FALSE, !.waits = 0]
    /\ req' = [req EXCEPT ![rep.waits] = NoReq]
    /\ UNCHANGED <<server, saved, st, conn, agent, rows, summary, trouble>>

\* The minute passes, or the connection breaks: the reporter has told nothing,
\* and the server may still be at work.
GivesUp ==
    /\ rep.waits /= 0
    /\ Trouble
    /\ rep' = [rep EXCEPT !.waits = 0]
    /\ UNCHANGED <<server, saved, st, conn, agent, req, rows, summary>>

\* A request nobody waits for is over once the server is.
Forgotten(s) ==
    /\ req[s].pc = "done" /\ rep.waits /= s
    /\ req' = [req EXCEPT ![s] = NoReq]
    /\ UNCHANGED <<server, saved, st, conn, agent, rep, rows, summary, trouble>>

----------------------------------------------------------------------------
(* The routes                                                              *)

Row(s) == [slot |-> s, what |-> req[s].what, unseen |-> {}]

\* postDiagnostics or postEnrollFailure decodes the body and begins.
Begin(s) ==
    /\ req[s].pc = "sent"
    /\ rows' = [rows EXCEPT ![req[s].route] = Append(@, Row(s))]
    /\ req' = [req EXCEPT ![s].pc = "open"]
    /\ UNCHANGED <<server, saved, st, conn, agent, rep, summary, trouble>>

\* The rate limit or the database refuses: nothing is recorded, and the
\* reporter hears of it.
Refused(s) ==
    /\ req[s].pc = "sent"
    /\ Trouble
    /\ req' = [req EXCEPT ![s] = NoReq]
    /\ rep' = [rep EXCEPT !.waits = IF @ = s THEN 0 ELSE @]
    /\ UNCHANGED <<server, saved, st, conn, agent, rows, summary>>

\* The rows of q that I numbers, in their order.
Nth(I, k) == CHOOSE i \in I : Cardinality({j \in I : j <= i}) = k
At(q, I) == [k \in 1..Cardinality(I) |-> q[Nth(I, k)]]

\* Mutant: the sweep keeps the oldest rows.
KeepsOldest(V) == {i \in V : Cardinality({j \in V : j < i}) < History}
\* The sweep: of the rows its snapshot shows, the newest by created_at stay.
Newest(V) == {i \in V : Cardinality({j \in V : j > i}) < History}

\* The insert is committed with the sweep of the same transaction.  Rows that
\* were committed since it began may be missing from the sweep's snapshot.
Recorded(s, unseen) ==
    LET q == [i \in DOMAIN rows[req[s].route] |->
                 IF rows[req[s].route][i].slot = s
                 THEN [slot |-> 0, what |-> req[s].what,
                       unseen |-> {z \in Slots \ {s} : req[z].pc = "open"}]
                 ELSE [rows[req[s].route][i] EXCEPT !.unseen = @ \ {s}]]
        open == {i \in DOMAIN q : q[i].slot /= 0}
    IN  At(q, open \cup unseen \cup Newest(DOMAIN q \ (open \cup unseen)))

Unseen(s) == {i \in DOMAIN rows[req[s].route] : s \in rows[req[s].route][i].unseen}

\* RecordStationDiagnostics also rewrites the summary of the fleet list.
RecordStationDiagnostics(s) ==
    /\ req[s].pc = "open" /\ req[s].route = "station"
    /\ \E u \in {{}, Unseen(s)} : rows' = [rows EXCEPT !["station"] = Recorded(s, u)]
    /\ summary' = req[s].what
    /\ req' = [req EXCEPT ![s].pc = "done"]
    /\ UNCHANGED <<server, saved, st, conn, agent, rep, trouble>>

RecordEnrollFailure(s) ==
    /\ req[s].pc = "open" /\ req[s].route = "failure"
    /\ \E u \in {{}, Unseen(s)} : rows' = [rows EXCEPT !["failure"] = Recorded(s, u)]
    /\ req' = [req EXCEPT ![s].pc = "done"]
    /\ UNCHANGED <<server, saved, st, conn, agent, rep, summary, trouble>>

----------------------------------------------------------------------------

Serve(s) == Begin(s) \/ RecordStationDiagnostics(s) \/ RecordEnrollFailure(s) \/ Forgotten(s)
Connecting == connect \/ enrollWithRetry \/ keepTokenWarm

DiagNext ==
    \/ Connecting \/ connectFails
    \/ \E x \in {"up", "down", "refuses"} : ServerBecomes(x)
    \/ Restart
    \/ Settle \/ TimePasses \/ postDiag \/ GivesUp
    \/ \E s \in Slots : runReporter(s) \/ Serve(s) \/ Refused(s)

DiagSpec == DiagInit /\ [][DiagNext]_diagVars

\* The three loops of the process run on, the timers fire and the server works
\* off what it has; outages and failures owe nothing.
DiagFairness ==
    /\ WF_diagVars(Connecting)
    /\ WF_diagVars(Settle \/ TimePasses)
    /\ WF_diagVars(postDiag)
    /\ \A s \in Slots : WF_diagVars(Serve(s))
    /\ WF_diagVars(\E s \in Slots : runReporter(s))

DiagFairSpec == DiagSpec /\ DiagFairness

----------------------------------------------------------------------------

\* StationDiagnostics and OrgEnrollFailures: the committed rows, newest last.
Committed(r) == At(rows[r], {i \in DOMAIN rows[r] : rows[r][i].slot = 0})

DiagTypeOK ==
    /\ server \in {"up", "down", "refuses"} /\ saved \in {"none", "mine", "other"}
    /\ st \in [what : States, enrolled : BOOLEAN]
    /\ conn \in {"start", "enroll", "warm", "gone"}
    /\ summary \in States \cup {"none"}
    /\ \A s \in Slots : req[s].pc \in {"free", "sent", "open", "done"}

\* The history of a PC stays within its limit, up to one row for a report that
\* overlapped another; and while the PC has waited for every answer, the fleet
\* list and the newest row of the history say the same, and the reporter's idea
\* of what it last told is the row it is in.
DiagInv ==
    /\ DiagTypeOK
    /\ \A r \in Routes : Len(Committed(r)) <= History + 1
    /\ trouble = 0 =>
          /\ \A r \in Routes : Len(Committed(r)) <= History
          /\ Committed("station") /= <<>> => summary = Last(Committed("station")).what
          /\ ~rep.first /\ rep.waits = 0 /\ rep.last \in {"ready", "other_school"} =>
                summary = rep.last

\* What the panel shows of this PC.
Shown ==
    IF st.enrolled THEN summary = st.what
    ELSE Committed("failure") /= <<>> /\ Last(Committed("failure")).what = st.what

\* The panel catches up: once the outages are over, it shows what the PC says,
\* whatever lost answers, restarts and late reports came before, unless the PC
\* has no agent to report with or its token is refused.
PanelCatchesUp == <>[](agent /\ (ReportDiagnostics \/ ReportEnrollFailure) => Shown)
=============================================================================
