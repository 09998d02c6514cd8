----------------------------- MODULE ArenaMatch -----------------------------
(***************************************************************************)
(* One arena duel, from its countdown to the rating and the stored result   *)
(* (backend/internal/arena/match.go and the persistence half of service.go) *)
(*                                                                         *)
(* One goroutine owns the match: it takes events from the inbox and acts on *)
(* the seats' timers, which run independently of each other.  finish then   *)
(* writes the rating to Redis, the result to Postgres and frees the         *)
(* players, and starts again from the rating whenever a call fails.  A call *)
(* may fail after its effect: the answer is lost.                           *)
(***************************************************************************)
EXTENDS Integers, Sequences, FiniteSets

CONSTANTS
    Seats,      \* the two seats
    Bot,        \* the seat that the bot takes in mode "bot"
    Modes,      \* the modes a duel can have
    Last,       \* number of questions
    Cap,        \* capacity of the inbox
    MaxFaults,  \* bound on lost answers and expired contexts
    MaxSent,    \* bound on the events that are sent
    None

ASSUME MatchAssumption ==
    /\ IsFiniteSet(Seats) /\ Cardinality(Seats) = 2 /\ Bot \in Seats /\ None \notin Seats
    /\ Modes \subseteq {"ranked", "friend", "bot"}
    /\ Last \in Nat \ {0} /\ Cap \in Nat \ {0} /\ MaxFaults \in Nat /\ MaxSent \in Nat

VARIABLES
    mode,     \* ranked, friend or bot
    phase,    \* pending, active or finished
    seat,     \* per seat: state, index of the question, verdicts
    gone,     \* seats with disconnected = true
    inbox,    \* the channel of events
    sent,     \* number of events sent so far
    end,      \* endReason and quitter
    fin,      \* finish: the next call, the deltas in hand
    expired,  \* the context of the finishing step is past its 10 seconds
    elo,      \* rating change that Redis has applied, per seat
    result,   \* arena:rating:match:<id>: whether the key exists, its deltas
    record,   \* the arena_match row and its players
    hub,      \* seats whose player is in this match (Hub.inMatch)
    told,     \* match.end has been sent; Run returns
    faults

vars == <<mode, phase, seat, gone, inbox, sent, end, fin, expired, elo, result, record,
          hub, told, faults>>

Unreached == -2
Skipped == -1
Questions == 1..Last
Humans == IF mode = "bot" THEN Seats \ {Bot} ELSE Seats
Other(s) == CHOOSE t \in Seats : t # s

Kinds == {"answer", "disconnect", "reconnect", "forfeit_check", "leave", "abort"}
Event == [kind : Kinds, seat : Seats \cup {None}, index : 0..Last, points : 0..1]
Outcomes == {"won", "lost", "draw"}

TypeOK ==
    /\ mode \in Modes /\ phase \in {"pending", "active", "finished"}
    /\ seat \in [Seats -> [state : {"active", "reveal", "done"}, index : 1..(Last + 1),
                           verdict : [Questions -> Unreached..1]]]
    /\ gone \subseteq Humans
    /\ inbox \in Seq(Event) /\ Len(inbox) <= Cap
    /\ sent \in 0..MaxSent
    /\ end \in [reason : {"none", "completed", "forfeit", "both_disconnected", "server_shutdown"},
                quitter : Seats \cup {None}]
    /\ fin \in [at : {"none", "rate", "persist", "clean", "tell", "done"}, delta : [Seats -> -1..1]]
    /\ expired \in BOOLEAN
    /\ elo \in [Seats -> -1..1]
    /\ result \in [known : BOOLEAN, delta : [Seats -> -1..1]]
    /\ record \in [status : {"active", "finished"}, outcome : [Seats -> Outcomes],
                   delta : [Seats -> -1..1]]
    /\ hub \subseteq Seats
    /\ told \in BOOLEAN
    /\ faults \in 0..MaxFaults

Zero == [s \in Seats |-> 0]

Init ==
    /\ mode \in Modes
    /\ phase = "pending"
    /\ seat = [s \in Seats |-> [state |-> "active", index |-> 1,
                                verdict |-> [q \in Questions |-> Unreached]]]
    /\ gone = {}
    /\ inbox = <<>> /\ sent = 0
    /\ end = [reason |-> "none", quitter |-> None]
    /\ fin = [at |-> "none", delta |-> Zero]
    /\ expired = FALSE
    /\ elo = Zero /\ result = [known |-> FALSE, delta |-> Zero]
    /\ record = [status |-> "active", outcome |-> [s \in Seats |-> "draw"], delta |-> Zero]
    /\ hub = Humans
    /\ told = FALSE
    /\ faults = 0

saved == <<expired, elo, result, record, hub, told, faults>>
playing == <<mode, phase, seat, gone, inbox, sent, end>>

-----------------------------------------------------------------------------
(* The verdict.  Points are 0 or 1, a rating moves by its sign or not.     *)

Score(s) == Cardinality({q \in Questions : seat[s].verdict[q] = 1})

\* OutcomeFromScores, for the seat.
OutcomeFromScores(mine, theirs) ==
    IF mine > theirs THEN "won" ELSE IF mine < theirs THEN "lost" ELSE "draw"

\* outcomes: a shutdown or both players gone is a draw, a quitter loses.
Outcome(s) ==
    CASE end.reason \in {"both_disconnected", "server_shutdown"} -> "draw"
      [] end.reason = "forfeit" -> IF end.quitter = s THEN "lost" ELSE "won"
      [] OTHER -> OutcomeFromScores(Score(s), Score(Other(s)))

\* rated.
Rated == mode = "ranked" /\ end.reason \in {"completed", "forfeit"}

\* EloDelta, by its sign: a win can round to no points, a draw moves points
\* to the player with the lower rating.
EloDelta(s) ==
    CASE Outcome(s) = "won" -> {0, 1} [] Outcome(s) = "lost" -> {-1, 0} [] OTHER -> -1..1

\* What applyResult can compute: EloDelta of both seats, of opposite sign.
EloDeltas ==
    {d \in [Seats -> -1..1] : \A s \in Seats : d[s] \in EloDelta(s) /\ d[s] = -d[Other(s)]}

\* finish, up to its loop: the phase, the reason and the step's context.
Finish(reason, quitter) ==
    /\ phase' = "finished"
    /\ end' = [reason |-> reason, quitter |-> quitter]
    /\ fin' = [at |-> "rate", delta |-> Zero]

-----------------------------------------------------------------------------
(* The clocks: onTimer, one seat at a time.                                *)

\* The countdown is over: startQuestion(s, 0) for both.
Countdown ==
    /\ phase = "pending"
    /\ phase' = "active"
    /\ UNCHANGED <<mode, seat, gone, inbox, sent, end, fin, saved>>

\* resolve: the verdict on the current question of a seat.
Resolved(r, v) == [r EXCEPT !.verdict[r.index] = v, !.state = "reveal"]

\* The deadline of a human (skipped), the answer of the bot.
Deadline(s) ==
    /\ phase = "active" /\ seat[s].state = "active"
    /\ \E v \in IF s \in Humans THEN {Skipped} ELSE {0, 1} :
          seat' = [seat EXCEPT ![s] = Resolved(@, v)]
    /\ UNCHANGED <<mode, phase, gone, inbox, sent, end, fin, saved>>

\* advance: the reveal is over, the next question or the finish line.
Advanced(r) ==
    [r EXCEPT !.index = @ + 1, !.state = IF r.index = Last THEN "done" ELSE "active"]
Advance(s) ==
    /\ phase = "active" /\ seat[s].state = "reveal"
    /\ LET last == seat[s].index = Last
       IN  /\ seat' = [seat EXCEPT ![s] = Advanced(@)]
           /\ IF last /\ seat[Other(s)].state = "done"
                 THEN Finish("completed", None) ELSE UNCHANGED <<phase, end, fin>>
    /\ UNCHANGED <<mode, gone, inbox, sent, saved>>

-----------------------------------------------------------------------------
(* The inbox.                                                              *)

\* enqueue: sockets, the sleepers of a disconnect and Drain.  (Nobody takes
\* what is sent to a finished match.)
Enqueue(e) ==
    /\ phase # "finished"
    /\ Len(inbox) < Cap
    /\ sent < MaxSent
    /\ inbox' = Append(inbox, e)
    /\ sent' = sent + 1
    /\ UNCHANGED <<mode, phase, seat, gone, end, fin, saved>>

Handled == inbox' = Tail(inbox)
Took(kind) == phase # "finished" /\ inbox # <<>> /\ Head(inbox).kind = kind

\* Mutant: the seat's state is not looked at.
AnswerFitsAny(e) == phase = "active" /\ e.index = seat[e.seat].index

\* onAnswer's checks before the clock.
AnswerFits(e) ==
    /\ phase = "active" /\ seat[e.seat].state = "active"
    /\ e.index = seat[e.seat].index

\* onAnswer: scored, or refused (not the seat's question, too late).
OnAnswer ==
    /\ Took("answer")
    /\ LET e == Head(inbox)
       IN  \/ AnswerFits(e) /\ seat' = [seat EXCEPT ![e.seat] = Resolved(@, e.points)]
           \/ UNCHANGED seat
    /\ Handled
    /\ UNCHANGED <<mode, phase, gone, sent, end, fin, saved>>

\* disconnect: nobody left ends the duel.  (The forfeit_check it schedules
\* is an event of module ArenaPresence.)
OnDisconnect ==
    /\ Took("disconnect")
    /\ LET s == Head(inbox).seat
       IN  /\ gone' = gone \cup {s}
           /\ IF s \notin gone /\ Other(s) \in gone
                 THEN Finish("both_disconnected", None) ELSE UNCHANGED <<phase, end, fin>>
    /\ Handled
    /\ UNCHANGED <<mode, seat, sent, saved>>

OnReconnect ==
    /\ Took("reconnect")
    /\ gone' = gone \ {Head(inbox).seat}
    /\ Handled
    /\ UNCHANGED <<mode, phase, seat, sent, end, fin, saved>>

\* forfeit_check of a player who is still away; leave.
OnForfeit ==
    /\ Took("forfeit_check") \/ Took("leave")
    /\ LET e == Head(inbox)
       IN  IF e.kind = "leave" \/ e.seat \in gone
              THEN Finish("forfeit", e.seat) ELSE UNCHANGED <<phase, end, fin>>
    /\ Handled
    /\ UNCHANGED <<mode, seat, gone, sent, saved>>

\* A forfeit_check that belongs to an earlier disconnect does nothing.
OnForfeitStale ==
    /\ Took("forfeit_check")
    /\ Handled
    /\ UNCHANGED <<mode, phase, seat, gone, sent, end, fin, saved>>

\* AbortShutdown.
OnAbort ==
    /\ Took("abort")
    /\ Finish("server_shutdown", None)
    /\ Handled
    /\ UNCHANGED <<mode, seat, gone, sent, saved>>

-----------------------------------------------------------------------------
(* The loop of finish: every call takes the context of the step.           *)

Calling(at) == fin.at = at /\ ~expired

\* A call is answered (fin moves on), or its answer is lost and the loop
\* starts again.
Answered(next, delta) ==
    \/ /\ fin' = [at |-> next, delta |-> delta]
       /\ UNCHANGED faults
    \/ /\ faults < MaxFaults
       /\ faults' = faults + 1
       /\ fin' = [fin EXCEPT !.at = "rate"]

\* Mutant: no match-scoped result key.
ApplyResultAgain ==
    /\ Calling("rate") /\ Rated
    /\ \E d \in EloDeltas :
          /\ elo' = [s \in Seats |-> elo[s] + d[s]]
          /\ result' = [known |-> TRUE, delta |-> d]
    /\ Answered("persist", result'.delta)
    /\ UNCHANGED <<playing, expired, record, hub, told>>

\* ApplyResult: WATCH ... EXEC, once per match; then the two ratings.
ApplyResult ==
    /\ Calling("rate") /\ Rated
    /\ IF result.known THEN UNCHANGED <<elo, result>>
       ELSE \E d \in EloDeltas :
              /\ elo' = [s \in Seats |-> elo[s] + d[s]]
              /\ result' = [known |-> TRUE, delta |-> d]
    /\ Answered("persist", result'.delta)
    /\ UNCHANGED <<playing, expired, record, hub, told>>

Unrated ==
    /\ Calling("rate") /\ ~Rated
    /\ fin' = [fin EXCEPT !.at = "persist"]
    /\ UNCHANGED <<playing, saved>>

\* Mutant: a finished row is an error.
FinishPersistStrict ==
    /\ Calling("persist")
    /\ record.status = "active"
    /\ record' = [status |-> "finished", outcome |-> [s \in Seats |-> Outcome(s)],
                  delta |-> fin.delta]
    /\ Answered("clean", fin.delta)
    /\ UNCHANGED <<playing, expired, elo, result, hub, told>>

\* FinishPersist's transaction: a finished row is left as it is.
FinishPersist ==
    /\ Calling("persist")
    /\ record' = IF record.status = "finished" THEN record
                 ELSE [status |-> "finished", outcome |-> [s \in Seats |-> Outcome(s)],
                       delta |-> fin.delta]
    /\ Answered("clean", fin.delta)
    /\ UNCHANGED <<playing, expired, elo, result, hub, told>>

\* cleanupFinishedMatch: DEL in Redis first, an error leaves the hub alone.
CleanupFinishedMatch ==
    /\ Calling("clean")
    /\ Answered("tell", fin.delta)
    /\ hub' = IF fin'.at = "tell" THEN {} ELSE hub
    /\ UNCHANGED <<playing, expired, elo, result, record, told>>

\* match.end to both; Run returns and m.done is closed.
Tell ==
    /\ fin.at = "tell"
    /\ told' = TRUE
    /\ fin' = [fin EXCEPT !.at = "done"]
    /\ UNCHANGED <<playing, expired, elo, result, record, hub, faults>>

\* Redis or Postgres does not answer in time: the context of the step ends,
\* and every later call of the loop fails on it.
Expire ==
    /\ fin.at \in {"rate", "persist", "clean"}
    /\ ~expired
    /\ faults < MaxFaults
    /\ expired' = TRUE
    /\ faults' = faults + 1
    /\ UNCHANGED <<playing, fin, elo, result, record, hub, told>>

Clock == Countdown \/ \E s \in Seats : Deadline(s) \/ Advance(s)
Handle ==
    OnAnswer \/ OnDisconnect \/ OnReconnect \/ OnForfeit \/ OnForfeitStale \/ OnAbort
Persist == ApplyResult \/ Unrated \/ FinishPersist \/ CleanupFinishedMatch \/ Tell

Next ==
    \/ Clock \/ Handle \/ Persist \/ Expire
    \/ \E s \in Humans :
          \/ \E q \in Questions, v \in 0..1 :
                Enqueue([kind |-> "answer", seat |-> s, index |-> q, points |-> v])
          \/ \E kind \in {"disconnect", "reconnect", "forfeit_check", "leave"} :
                Enqueue([kind |-> kind, seat |-> s, index |-> 0, points |-> 0])
    \/ Enqueue([kind |-> "abort", seat |-> None, index |-> 0, points |-> 0])

Spec == Init /\ [][Next]_vars

\* The timers fire, the goroutine runs, and Redis and Postgres answer the
\* calls that still have a context.
FairSpec == Spec /\ WF_vars(Clock) /\ WF_vars(Handle) /\ WF_vars(Persist)

-----------------------------------------------------------------------------
(* Properties.                                                             *)

\* A duel is completed only when both seats have a verdict on every question
\* (advance waits for the opponent's finish line).
CompletedIsWhole ==
    /\ TypeOK
    /\ end.reason = "completed" =>
          \A s \in Seats, q \in Questions : seat[s].verdict[q] # Unreached

\* The first verdict on a question counts: neither a second answer in the
\* inbox, nor one that races the deadline, nor the clock changes it
\* (onAnswer's checks of state and index).
FirstVerdictCounts ==
    [][\A s \in Seats, q \in Questions :
          seat[s].verdict[q] # Unreached => seat'[s].verdict[q] = seat[s].verdict[q]]_vars

\* Redis and Postgres tell the same story, whatever answers were lost: the
\* rating moved once and by the stored result, for rated duels only, and the
\* row carries the same outcome and deltas (ApplyResult, FinishPersist).
RecordAgrees ==
    /\ elo = result.delta
    /\ result.known => Rated /\ result.delta \in EloDeltas
    /\ record.status = "finished" =>
          /\ phase = "finished"
          /\ result.known <=> Rated
          /\ record.delta = elo
          /\ \A s \in Seats : record.outcome[s] = Outcome(s)

\* A player is free for the next duel, and is told the result, only when this
\* one is stored (cleanupFinishedMatch comes after the commit).
FreeIsStored == hub # Humans \/ told => record.status = "finished"

MatchInv == CompletedIsWhole /\ RecordAgrees /\ FreeIsStored

\* Every duel comes to its end, even if both players vanish (the clocks).
DuelEnds == <>(phase = "finished")

\* A finished duel is stored and its goroutine returns, if the step's context
\* outlives the lost answers (finish retries until it succeeds).
FinishedIsStored == (phase = "finished") ~> (told \/ expired)

\* Violated.  A wedged query costs "one step, not the goroutine" (Run): a
\* finished duel frees its players whatever happened before.
WedgeIsSurvived == (phase = "finished") ~> told
=============================================================================
