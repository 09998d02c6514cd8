----------------------------- MODULE ArenaProofs -----------------------------
(***************************************************************************)
(* The safety of the arena: a duel (ArenaMatch), the sockets that feed it  *)
(* (ArenaPresence) and the lobby that starts it (ArenaQueue), each for     *)
(* every value of its constants.  The sockets and the lobby have parts of  *)
(* their own below; this one is about a duel, for any number of questions, *)
(* any inbox and any number of lost answers and expired contexts.          *)
(*                                                                         *)
(* RecordAgrees is not inductive: the loop of finish starts again from the *)
(* rating after a lost answer, with deltas it may have got before.  The    *)
(* invariant says what each call may rely on (Books): past the rating the  *)
(* deltas in hand are the ones Redis keeps, and past the row the row is    *)
(* stored.  FirstVerdictCounts needs that a seat has verdicts on exactly   *)
(* the questions before its current one (SeatOK).                          *)
(***************************************************************************)
EXTENDS MCArena, FiniteSetTheorems, TLAPS

SeatRow == [state : {"active", "reveal", "done"}, index : 1..(Last + 1),
            verdict : [Questions -> Unreached..1]]

\* A seat has a verdict on every question before its own and on none after it.
SeatOK(r) ==
    /\ r \in SeatRow
    /\ \A q \in Questions : /\ q < r.index => r.verdict[q] # Unreached
                            /\ q > r.index => r.verdict[q] = Unreached
    /\ r.state = "active" => r.index \in Questions /\ r.verdict[r.index] = Unreached
    /\ r.state = "reveal" => r.index \in Questions /\ r.verdict[r.index] # Unreached
    /\ r.state = "done" => r.index = Last + 1

SeatsOK(f) == f \in [Seats -> SeatRow] /\ \A s \in Seats : SeatOK(f[s])

\* Only humans send anything but the abort.
InboxOK ==
    /\ inbox \in Seq(Event) /\ Len(inbox) <= Cap
    /\ \A i \in 1..Len(inbox) : inbox[i].kind # "abort" => inbox[i].seat \in Humans

\* Nothing is rated, stored or told before the duel is over.
Open ==
    /\ fin.at = "none" /\ end.reason = "none" /\ ~result.known
    /\ record.status = "active" /\ hub = Humans /\ ~told
Flow ==
    /\ phase # "finished" => Open
    /\ phase = "finished" => fin.at # "none"
    /\ end.reason = "completed" => \A s \in Seats : seat[s].state = "done"

\* What the calls of finish rely on.
Books ==
    /\ elo = result.delta /\ (~result.known => result.delta = Zero)
    /\ result.known => Rated /\ result.delta \in EloDeltas
    /\ ~Rated => fin.delta = Zero
    /\ fin.at \in {"persist", "clean", "tell", "done"} =>
          fin.delta = result.delta /\ (Rated => result.known)
    /\ record.status = "finished" =>
          /\ phase = "finished" /\ (Rated => result.known) /\ record.delta = elo
          /\ \A s \in Seats : record.outcome[s] = Outcome(s)
    /\ fin.at \in {"clean", "tell", "done"} \/ hub # Humans \/ told => record.status = "finished"

\* The rest of the types.
Types ==
    /\ mode \in Modes /\ phase \in {"pending", "active", "finished"}
    /\ gone \subseteq Humans /\ sent \in 0..MaxSent
    /\ end \in [reason : {"none", "completed", "forfeit", "both_disconnected", "server_shutdown"},
                quitter : Seats \cup {None}]
    /\ fin \in [at : {"none", "rate", "persist", "clean", "tell", "done"}, delta : [Seats -> -1..1]]
    /\ expired \in BOOLEAN /\ elo \in [Seats -> -1..1]
    /\ result \in [known : BOOLEAN, delta : [Seats -> -1..1]]
    /\ record \in [status : {"active", "finished"}, outcome : [Seats -> Outcomes],
                   delta : [Seats -> -1..1]]
    /\ hub \subseteq Seats /\ told \in BOOLEAN /\ faults \in 0..MaxFaults

IInv == Types /\ SeatsOK(seat) /\ InboxOK /\ Flow /\ Books

-----------------------------------------------------------------------------
(* The seats.                                                              *)

\* A verdict falls once and stays.
LEMMA SeatResolved ==
    ASSUME NEW r, SeatOK(r), r.state = "active", NEW v \in Skipped..1
    PROVE  /\ SeatOK(Resolved(r, v)) /\ Resolved(r, v).state = "reveal"
           /\ \A q \in Questions : r.verdict[q] # Unreached => Resolved(r, v).verdict[q] = r.verdict[q]
<1> DEFINE w == [r.verdict EXCEPT ![r.index] = v]
           n == [r EXCEPT !.verdict = w, !.state = "reveal"]
<1>1. r \in SeatRow /\ r.index \in Questions /\ r.verdict[r.index] = Unreached
  BY DEF SeatOK
<1>2. r.verdict \in [Questions -> Unreached..1] /\ r.index \in Int /\ Last \in Nat
  BY <1>1, MatchAssumption DEF SeatRow, Questions
<1>3. /\ w \in [Questions -> Unreached..1] /\ w[r.index] = v
      /\ \A q \in Questions \ {r.index} : w[q] = r.verdict[q]
  BY <1>1, <1>2 DEF Unreached, Skipped
<1>4. Resolved(r, v) = n
  BY DEF Resolved
<1> HIDE DEF w
<1>5. n \in SeatRow /\ n.verdict = w /\ n.index = r.index /\ n.state = "reveal"
  BY <1>1, <1>3 DEF SeatRow
<1> HIDE DEF n
<1>6. v # Unreached
  BY DEF Skipped, Unreached
<1>7. \A q \in Questions : /\ q < n.index => n.verdict[q] # Unreached
                           /\ q > n.index => n.verdict[q] = Unreached
  <2> TAKE q \in Questions
  <2>1. CASE q = r.index
    BY <1>2, <1>5, <2>1
  <2>2. CASE q # r.index
    BY <1>3, <1>5, <2>2 DEF SeatOK
  <2>3. QED
    BY <2>1, <2>2
<1>8. SeatOK(n)
  BY <1>1, <1>3, <1>5, <1>6, <1>7 DEF SeatOK
<1>9. \A q \in Questions : r.verdict[q] # Unreached => n.verdict[q] = r.verdict[q]
  BY <1>1, <1>3, <1>5
<1>10. QED
  BY <1>4, <1>5, <1>8, <1>9

\* The next question has no verdict yet.
LEMMA SeatAdvanced ==
    ASSUME NEW r, SeatOK(r), r.state = "reveal"
    PROVE  /\ SeatOK(Advanced(r)) /\ Advanced(r).verdict = r.verdict
           /\ r.index = Last => Advanced(r).state = "done"
<1> DEFINE i == r.index + 1
           st == IF r.index = Last THEN "done" ELSE "active"
           n == [r EXCEPT !.index = i, !.state = st]
<1>1. r \in SeatRow /\ r.index \in Questions /\ r.verdict[r.index] # Unreached
  BY DEF SeatOK
<1>2. Advanced(r) = n
  BY DEF Advanced
<1>3. i \in 1..(Last + 1) /\ st \in {"active", "done"} /\ (r.index = Last <=> st = "done")
  BY <1>1, MatchAssumption DEF Questions
<1>4. /\ r.index \in Int /\ i = r.index + 1 /\ Last \in Nat
      /\ \A q \in Questions : q \in Int
  BY <1>1, MatchAssumption DEF Questions
<1>5. (st = "active" => i \in Questions) /\ (st = "done" => i = Last + 1)
  BY <1>1, <1>3, MatchAssumption DEF Questions
<1> HIDE DEF i, st
<1>6. n \in SeatRow /\ n.verdict = r.verdict /\ n.index = i /\ n.state = st
  BY <1>1, <1>3 DEF SeatRow
<1> HIDE DEF n
<1>7. \A q \in Questions : /\ q < i => r.verdict[q] # Unreached
                           /\ q >= i => r.verdict[q] = Unreached
  <2> TAKE q \in Questions
  <2>1. q \in Int
    BY <1>4
  <2>2. CASE q < i
    <3>1. q < r.index \/ q = r.index
      BY <1>4, <2>1, <2>2
    <3>2. QED
      BY <1>1, <1>4, <2>1, <2>2, <3>1 DEF SeatOK
  <2>3. CASE q >= i
    <3>1. q > r.index
      BY <1>4, <2>1, <2>3
    <3>2. QED
      BY <1>4, <2>1, <2>3, <3>1 DEF SeatOK
  <2>4. QED
    BY <1>4, <2>1, <2>2, <2>3
<1>8. st = "active" => r.verdict[i] = Unreached
  BY <1>4, <1>5, <1>7
<1>9. \A q \in Questions : /\ q < n.index => n.verdict[q] # Unreached
                           /\ q > n.index => n.verdict[q] = Unreached
  BY <1>4, <1>6, <1>7
<1>10. SeatOK(n)
  BY <1>3, <1>5, <1>6, <1>8, <1>9 DEF SeatOK
<1>11. QED
  BY <1>2, <1>3, <1>6, <1>10

\* One seat changes.
LEMMA OneSeat ==
    ASSUME SeatsOK(seat), NEW s \in Seats, NEW r, SeatOK(r), seat' = [seat EXCEPT ![s] = r]
    PROVE  SeatsOK(seat') /\ seat'[s] = r /\ \A t \in Seats \ {s} : seat'[t] = seat[t]
BY DEF SeatsOK, SeatOK

\* The two seats.
LEMMA TwoSeats ==
    /\ \A s \in Seats : Other(s) \in Seats /\ Other(s) # s
    /\ \A s, t \in Seats : t # s => t = Other(s)
<1>1. PICK b : Seats \ {Bot} = {b}
  <2>1. IsFiniteSet(Seats \ {Bot}) /\ Cardinality(Seats \ {Bot}) = 1
    BY MatchAssumption, FS_RemoveElement
  <2>2. QED
    BY <2>1, FS_Singleton
<1>2. Bot \in Seats
  BY MatchAssumption
<1>3. QED
  BY <1>1, <1>2 DEF Other

-----------------------------------------------------------------------------
(* The steps.                                                              *)

\* What the verdict is computed from does not move.
LEMMA SameVerdict ==
    ASSUME UNCHANGED <<mode, seat, end>>
    PROVE  /\ Rated' = Rated /\ Humans' = Humans /\ EloDeltas' = EloDeltas
           /\ \A s \in Seats : Outcome(s)' = Outcome(s)
BY DEF Rated, Humans, EloDeltas, EloDelta, Outcome, Score, OutcomeFromScores

\* A step of the duel itself: verdicts only fall, the duel goes on or ends,
\* and it is completed only at both finish lines.
PlayStep ==
    /\ phase # "finished" /\ UNCHANGED <<mode, saved>>
    /\ SeatsOK(seat') /\ InboxOK' /\ gone' \subseteq Humans /\ sent' \in 0..MaxSent
    /\ \A s \in Seats, q \in Questions :
          seat[s].verdict[q] # Unreached => seat'[s].verdict[q] = seat[s].verdict[q]
    /\ \/ phase' \in {"pending", "active"} /\ UNCHANGED <<end, fin>>
       \/ \E reason \in {"completed", "forfeit", "both_disconnected", "server_shutdown"},
             quitter \in Seats \cup {None} :
             /\ Finish(reason, quitter)
             /\ reason = "completed" => \A s \in Seats : seat'[s].state = "done"

LEMMA PlayKeeps == ASSUME IInv, PlayStep PROVE IInv'
<1>1. Open /\ elo = Zero /\ result.delta = Zero /\ fin.delta = Zero
  BY DEF IInv, PlayStep, Flow, Open, Books, Rated
<1>2. Zero \in [Seats -> -1..1]
  BY DEF Zero
<1>3. /\ UNCHANGED <<mode, expired, elo, result, record, hub, told, faults>>
      /\ Humans' = Humans
  BY DEF PlayStep, saved, Humans
<1>4. CASE phase' \in {"pending", "active"} /\ UNCHANGED <<end, fin>>
  <2>1. Types'
    BY <1>3, <1>4 DEF IInv, Types, PlayStep
  <2>2. Flow'
    BY <1>1, <1>3, <1>4 DEF Flow, Open
  <2>3. Books'
    BY <1>1, <1>3, <1>4 DEF Books, Open, Zero
  <2>4. QED
    BY <2>1, <2>2, <2>3 DEF IInv, PlayStep
<1>5. ASSUME NEW reason \in {"completed", "forfeit", "both_disconnected", "server_shutdown"},
             NEW quitter \in Seats \cup {None}, Finish(reason, quitter),
             reason = "completed" => \A s \in Seats : seat'[s].state = "done"
      PROVE IInv'
  <2>1. /\ phase' = "finished" /\ end' = [reason |-> reason, quitter |-> quitter]
        /\ fin' = [at |-> "rate", delta |-> Zero]
    BY <1>5 DEF Finish
  <2>2. Types'
    BY <1>2, <1>3, <2>1 DEF IInv, Types, PlayStep
  <2>3. Flow'
    BY <1>5, <2>1 DEF Flow
  <2>4. Books'
    BY <1>1, <1>3, <2>1 DEF Books, Open, Zero
  <2>5. QED
    BY <2>2, <2>3, <2>4 DEF IInv, PlayStep
<1>6. QED
  BY <1>4, <1>5 DEF PlayStep

\* The event at the head of the inbox, and what is left.
LEMMA HeadEvent ==
    ASSUME IInv, NEW kind, Took(kind), Handled
    PROVE  /\ InboxOK' \/ Humans' # Humans
           /\ Head(inbox) \in Event /\ Head(inbox).kind = kind
           /\ kind # "abort" => Head(inbox).seat \in Humans /\ Head(inbox).seat \in Seats
<1>1. inbox \in Seq(Event) /\ inbox # <<>> /\ inbox' = Tail(inbox)
  BY DEF IInv, InboxOK, Took, Handled
<1>2. Len(inbox) > 0 /\ Head(inbox) = inbox[1] /\ Head(inbox) \in Event /\ Len(inbox) \in Nat
  BY <1>1
<1>3. /\ inbox' \in Seq(Event) /\ Len(inbox') = Len(inbox) - 1
      /\ \A i \in 1..Len(inbox') : inbox'[i] = inbox[i + 1]
  BY <1>1
<1>4. Cap \in Nat
  BY MatchAssumption
<1>5. Humans' = Humans => InboxOK'
  BY <1>2, <1>3, <1>4 DEF IInv, InboxOK
<1>6. kind # "abort" => Head(inbox).seat \in Humans
  BY <1>2 DEF IInv, InboxOK, Took
<1>7. QED
  BY <1>2, <1>5, <1>6 DEF Humans, Took

LEMMA PlaySteps ==
    ASSUME IInv
    PROVE  /\ Clock => PlayStep
           /\ Handle => PlayStep
           /\ \A e \in Event : Enqueue(e) /\ (e.kind # "abort" => e.seat \in Humans) => PlayStep
<1>1. /\ SeatsOK(seat) /\ InboxOK /\ gone \subseteq Humans /\ sent \in 0..MaxSent
      /\ Humans \subseteq Seats
      /\ phase \in {"pending", "active", "finished"}
  BY DEF IInv, Types, Humans
<1>2. ASSUME UNCHANGED seat
      PROVE  SeatsOK(seat') /\ \A s \in Seats, q \in Questions :
                seat[s].verdict[q] # Unreached => seat'[s].verdict[q] = seat[s].verdict[q]
  BY <1>1, <1>2
<1>3. ASSUME NEW s \in Seats, NEW r, SeatOK(r), seat' = [seat EXCEPT ![s] = r],
             \A q \in Questions : seat[s].verdict[q] # Unreached => r.verdict[q] = seat[s].verdict[q]
      PROVE  SeatsOK(seat') /\ \A t \in Seats, q \in Questions :
                seat[t].verdict[q] # Unreached => seat'[t].verdict[q] = seat[t].verdict[q]
  <2>1. SeatsOK(seat') /\ seat'[s] = r /\ \A t \in Seats \ {s} : seat'[t] = seat[t]
    BY <1>1, <1>3, OneSeat
  <2>2. QED
    BY <1>3, <2>1
<1>4. UNCHANGED <<mode, inbox>> => InboxOK' /\ Humans' = Humans
  BY <1>1 DEF InboxOK, Humans
<1>5. UNCHANGED mode => Humans' = Humans
  BY DEF Humans
<1>6. ASSUME Countdown PROVE PlayStep
  BY <1>1, <1>2, <1>4, <1>6 DEF Countdown, PlayStep
<1>7. ASSUME NEW s \in Seats, Deadline(s) PROVE PlayStep
  <2>1. PICK v \in IF s \in Humans THEN {Skipped} ELSE {0, 1} :
          seat' = [seat EXCEPT ![s] = Resolved(seat[s], v)]
    BY <1>7 DEF Deadline
  <2>5. v \in Skipped..1
    BY DEF Skipped
  <2>2. SeatOK(seat[s]) /\ seat[s].state = "active"
    BY <1>1, <1>7 DEF SeatsOK, Deadline
  <2>3. SeatsOK(seat') /\ \A t \in Seats, q \in Questions :
           seat[t].verdict[q] # Unreached => seat'[t].verdict[q] = seat[t].verdict[q]
    <3>1. SeatOK(Resolved(seat[s], v)) /\ \A q \in Questions :
             seat[s].verdict[q] # Unreached => Resolved(seat[s], v).verdict[q] = seat[s].verdict[q]
      BY <2>2, <2>5, SeatResolved
    <3>2. QED
      BY <1>3, <2>1, <3>1
  <2>4. QED
    BY <1>1, <1>4, <1>7, <2>3 DEF Deadline, PlayStep
<1>8. ASSUME NEW s \in Seats, Advance(s) PROVE PlayStep
  <2>1. seat' = [seat EXCEPT ![s] = Advanced(seat[s])]
    BY <1>8 DEF Advance
  <2>2. SeatOK(seat[s]) /\ seat[s].state = "reveal"
    BY <1>1, <1>8 DEF SeatsOK, Advance
  <2>3. SeatsOK(seat') /\ \A t \in Seats, q \in Questions :
           seat[t].verdict[q] # Unreached => seat'[t].verdict[q] = seat[t].verdict[q]
    BY <1>3, <2>1, <2>2, SeatAdvanced
  <2>4. seat[s].index = Last /\ seat[Other(s)].state = "done" => \A t \in Seats : seat'[t].state = "done"
    <3>1. SeatOK(Advanced(seat[s])) /\ (seat[s].index = Last => Advanced(seat[s]).state = "done")
      BY <2>2, SeatAdvanced
    <3>2. seat'[s] = Advanced(seat[s]) /\ \A t \in Seats \ {s} : seat'[t] = seat[t]
      BY <1>1, <2>1, <3>1, OneSeat
    <3>3. QED
      BY <3>1, <3>2, TwoSeats
  <2>5. \/ seat[s].index = Last /\ seat[Other(s)].state = "done" /\ Finish("completed", None)
        \/ UNCHANGED <<phase, end, fin>>
    BY <1>8 DEF Advance
  <2>6. phase # "finished" /\ UNCHANGED <<mode, saved, gone, inbox, sent>> /\ phase = "active"
    BY <1>8 DEF Advance
  <2>7. QED
    BY <1>1, <1>4, <2>3, <2>4, <2>5, <2>6 DEF PlayStep
<1>9. ASSUME OnAnswer PROVE PlayStep
  <2> DEFINE e == Head(inbox)
  <2>1. e \in Event /\ e.kind = "answer" /\ e.seat \in Seats /\ InboxOK'
    BY <1>5, <1>9, HeadEvent DEF OnAnswer
  <2>2. e.points \in Skipped..1
    BY <2>1 DEF Event, Skipped
  <2>3. \/ AnswerFits(e) /\ seat' = [seat EXCEPT ![e.seat] = Resolved(seat[e.seat], e.points)]
        \/ UNCHANGED seat
    BY <1>9 DEF OnAnswer
  <2>4. UNCHANGED <<mode, phase, gone, sent, end, fin, saved>> /\ phase # "finished"
    BY <1>9 DEF OnAnswer, Took
  <2> HIDE DEF e
  <2>5. SeatsOK(seat') /\ \A t \in Seats, q \in Questions :
           seat[t].verdict[q] # Unreached => seat'[t].verdict[q] = seat[t].verdict[q]
    <3>1. CASE UNCHANGED seat
      BY <1>2, <3>1
    <3>2. CASE AnswerFits(e) /\ seat' = [seat EXCEPT ![e.seat] = Resolved(seat[e.seat], e.points)]
      <4>1. SeatOK(seat[e.seat]) /\ seat[e.seat].state = "active"
        BY <1>1, <2>1, <3>2 DEF SeatsOK, AnswerFits
      <4>2. SeatOK(Resolved(seat[e.seat], e.points)) /\ \A q \in Questions :
               seat[e.seat].verdict[q] # Unreached =>
                  Resolved(seat[e.seat], e.points).verdict[q] = seat[e.seat].verdict[q]
        BY <2>2, <4>1, SeatResolved
      <4>3. QED
        BY <1>3, <2>1, <3>2, <4>2
    <3>3. QED
      BY <2>3, <3>1, <3>2
  <2>6. QED
    BY <1>1, <2>1, <2>4, <2>5 DEF PlayStep
<1>10. ASSUME OnDisconnect PROVE PlayStep
  <2> DEFINE s == Head(inbox).seat
  <2>1. s \in Humans /\ s \in Seats /\ InboxOK'
    BY <1>5, <1>10, HeadEvent DEF OnDisconnect
  <2>2. /\ UNCHANGED <<mode, seat, sent, saved>> /\ phase # "finished" /\ gone' = gone \cup {s}
        /\ Finish("both_disconnected", None) \/ UNCHANGED <<phase, end, fin>>
    BY <1>10 DEF OnDisconnect, Took
  <2> HIDE DEF s
  <2>3. QED
    BY <1>1, <1>2, <2>1, <2>2 DEF PlayStep
<1>11. ASSUME OnReconnect PROVE PlayStep
  <2>1. InboxOK'
    BY <1>5, <1>11, HeadEvent DEF OnReconnect
  <2>2. /\ UNCHANGED <<mode, phase, seat, sent, end, fin, saved>> /\ phase # "finished"
        /\ gone' \subseteq gone
    BY <1>11 DEF OnReconnect, Took
  <2>3. QED
    BY <1>1, <1>2, <2>1, <2>2 DEF PlayStep
<1>12. ASSUME OnForfeit PROVE PlayStep
  <2> DEFINE s == Head(inbox).seat
  <2>1. s \in Seats /\ InboxOK'
    <3>1. CASE Took("forfeit_check")
      BY <1>5, <1>12, <3>1, HeadEvent DEF OnForfeit
    <3>2. CASE Took("leave")
      BY <1>5, <1>12, <3>2, HeadEvent DEF OnForfeit
    <3>3. QED
      BY <1>12, <3>1, <3>2 DEF OnForfeit
  <2>2. /\ UNCHANGED <<mode, seat, gone, sent, saved>> /\ phase # "finished"
        /\ Finish("forfeit", s) \/ UNCHANGED <<phase, end, fin>>
    BY <1>12 DEF OnForfeit, Took
  <2> HIDE DEF s
  <2>3. QED
    BY <1>1, <1>2, <2>1, <2>2 DEF PlayStep
<1>13. ASSUME OnForfeitStale PROVE PlayStep
  <2>1. InboxOK'
    BY <1>5, <1>13, HeadEvent DEF OnForfeitStale
  <2>2. UNCHANGED <<mode, phase, seat, gone, sent, end, fin, saved>> /\ phase # "finished"
    BY <1>13 DEF OnForfeitStale, Took
  <2>3. QED
    BY <1>1, <1>2, <2>1, <2>2 DEF PlayStep
<1>14. ASSUME OnAbort PROVE PlayStep
  <2>1. InboxOK'
    BY <1>5, <1>14, HeadEvent DEF OnAbort
  <2>2. /\ UNCHANGED <<mode, seat, gone, sent, saved>> /\ phase # "finished"
        /\ Finish("server_shutdown", None)
    BY <1>14 DEF OnAbort, Took
  <2>3. QED
    BY <1>1, <1>2, <2>1, <2>2 DEF PlayStep
<1>15. ASSUME NEW e \in Event, Enqueue(e), e.kind # "abort" => e.seat \in Humans PROVE PlayStep
  <2>1. /\ UNCHANGED <<mode, phase, seat, gone, end, fin, saved>> /\ phase # "finished"
        /\ inbox' = Append(inbox, e) /\ Len(inbox) < Cap /\ sent < MaxSent /\ sent' = sent + 1
    BY <1>15 DEF Enqueue
  <2>2. sent' \in 0..MaxSent
    BY <1>1, <2>1, MatchAssumption
  <2>3. inbox \in Seq(Event) /\ Len(inbox) \in Nat /\ Cap \in Nat
    BY <1>1, MatchAssumption DEF InboxOK
  <2>4. /\ inbox' \in Seq(Event) /\ Len(inbox') = Len(inbox) + 1
        /\ \A i \in 1..Len(inbox') : inbox'[i] = IF i = Len(inbox) + 1 THEN e ELSE inbox[i]
    BY <2>1, <2>3
  <2>5. InboxOK'
    BY <1>1, <1>5, <1>15, <2>1, <2>3, <2>4 DEF InboxOK
  <2>6. QED
    BY <1>1, <1>2, <2>1, <2>2, <2>5 DEF PlayStep
<1>16. QED
  BY <1>6, <1>7, <1>8, <1>9, <1>10, <1>11, <1>12, <1>13, <1>14, <1>15 DEF Clock, Handle

\* A call of finish: the duel itself no longer moves.
CallStep ==
    /\ UNCHANGED playing /\ phase = "finished"
    /\ fin' \in [at : {"rate", "persist", "clean", "tell", "done"}, delta : [Seats -> -1..1]]
    /\ expired' \in BOOLEAN /\ faults' \in 0..MaxFaults /\ hub' \subseteq Seats /\ told' \in BOOLEAN
    /\ elo' \in [Seats -> -1..1] /\ result' \in [known : BOOLEAN, delta : [Seats -> -1..1]]
    /\ record' \in [status : {"active", "finished"}, outcome : [Seats -> Outcomes],
                    delta : [Seats -> -1..1]]
    /\ Books'

LEMMA CallKeeps == ASSUME IInv, CallStep PROVE IInv'
<1>1. UNCHANGED <<mode, phase, seat, gone, inbox, sent, end>>
  BY DEF CallStep, playing
<1>2. Humans' = Humans
  BY <1>1 DEF Humans
<1>3. Types'
  BY <1>1, <1>2 DEF IInv, Types, CallStep
<1>4. InboxOK' /\ SeatsOK(seat')
  BY <1>1, <1>2 DEF IInv, InboxOK
<1>5. Flow'
  BY <1>1 DEF IInv, Flow, CallStep
<1>6. QED
  BY <1>3, <1>4, <1>5 DEF IInv, CallStep

\* An answer or its loss.
LEMMA AnsweredType ==
    ASSUME IInv, fin.at # "none", NEW next \in {"persist", "clean", "tell"},
           NEW d \in [Seats -> -1..1], Answered(next, d)
    PROVE  /\ fin' \in [at : {"rate", "persist", "clean", "tell", "done"}, delta : [Seats -> -1..1]]
           /\ faults' \in 0..MaxFaults
           /\ \/ fin'.at = next /\ fin'.delta = d
              \/ fin'.at = "rate" /\ fin'.delta = fin.delta
<1>1. CASE fin' = [at |-> next, delta |-> d] /\ UNCHANGED faults
  BY <1>1 DEF IInv, Types
<1>2. CASE faults < MaxFaults /\ faults' = faults + 1 /\ fin' = [fin EXCEPT !.at = "rate"]
  <2>1. faults' \in 0..MaxFaults
    BY <1>2, MatchAssumption DEF IInv, Types
  <2>2. fin \in [at : {"none", "rate", "persist", "clean", "tell", "done"}, delta : [Seats -> -1..1]]
    BY DEF IInv, Types
  <2>3. QED
    BY <1>2, <2>1, <2>2
<1>3. QED
  BY <1>1, <1>2 DEF Answered

LEMMA CallSteps ==
    ASSUME IInv, Persist \/ Expire
    PROVE  CallStep
<1>1. /\ fin \in [at : {"none", "rate", "persist", "clean", "tell", "done"}, delta : [Seats -> -1..1]]
      /\ expired \in BOOLEAN /\ elo \in [Seats -> -1..1] /\ faults \in 0..MaxFaults
      /\ result \in [known : BOOLEAN, delta : [Seats -> -1..1]]
      /\ record \in [status : {"active", "finished"}, outcome : [Seats -> Outcomes],
                     delta : [Seats -> -1..1]]
      /\ hub \subseteq Seats /\ told \in BOOLEAN
  BY DEF IInv, Types
<1>2. phase # "finished" => fin.at = "none"
  BY DEF IInv, Flow, Open
<1>3. /\ elo = result.delta /\ (~result.known => result.delta = Zero)
      /\ result.known => Rated /\ result.delta \in EloDeltas
      /\ ~Rated => fin.delta = Zero
      /\ fin.at \in {"persist", "clean", "tell", "done"} =>
            fin.delta = result.delta /\ (Rated => result.known)
      /\ record.status = "finished" =>
            /\ phase = "finished" /\ (Rated => result.known) /\ record.delta = elo
            /\ \A s \in Seats : record.outcome[s] = Outcome(s)
      /\ fin.at \in {"clean", "tell", "done"} \/ hub # Humans \/ told => record.status = "finished"
  BY DEF IInv, Books
<1>4. UNCHANGED playing =>
        /\ Rated' = Rated /\ Humans' = Humans /\ EloDeltas' = EloDeltas /\ phase' = phase
        /\ \A s \in Seats : Outcome(s)' = Outcome(s)
  BY SameVerdict DEF playing
<1>5. Zero \in [Seats -> -1..1]
  BY DEF Zero
<1>6. ASSUME ApplyResult PROVE CallStep
  <2>1. /\ UNCHANGED <<playing, expired, record, hub, told>> /\ fin.at = "rate" /\ Rated
        /\ Answered("persist", result'.delta)
    BY <1>6 DEF ApplyResult, Calling
  <2>2. /\ result' \in [known : BOOLEAN, delta : [Seats -> -1..1]] /\ result'.known
        /\ elo' = result'.delta /\ result'.delta \in EloDeltas
        /\ result.known => elo' = elo
    <3>1. CASE result.known
      BY <1>1, <1>3, <1>6, <3>1 DEF ApplyResult
    <3>2. CASE ~result.known
      <4>1. PICK d \in EloDeltas : /\ elo' = [s \in Seats |-> elo[s] + d[s]]
                                   /\ result' = [known |-> TRUE, delta |-> d]
        BY <1>6, <3>2 DEF ApplyResult
      <4>2. d \in [Seats -> -1..1]
        BY DEF EloDeltas
      <4>3. elo' = d
        <5>1. \A s \in Seats : elo[s] = 0
          BY <1>3, <3>2 DEF Zero
        <5>2. \A s \in Seats : elo[s] + d[s] = d[s]
          BY <4>2, <5>1
        <5>3. QED
          BY <4>1, <4>2, <5>2
      <4>4. QED
        BY <3>2, <4>1, <4>2, <4>3
    <3>3. QED
      BY <3>1, <3>2
  <2>3. result'.delta \in [Seats -> -1..1] /\ elo' \in [Seats -> -1..1]
    BY <2>2
  <2>4. /\ fin' \in [at : {"rate", "persist", "clean", "tell", "done"}, delta : [Seats -> -1..1]]
        /\ faults' \in 0..MaxFaults
        /\ \/ fin'.at = "persist" /\ fin'.delta = result'.delta
           \/ fin'.at = "rate" /\ fin'.delta = fin.delta
    BY <2>1, <2>3, AnsweredType
  <2>5. Books'
    BY <1>3, <1>4, <2>1, <2>2, <2>4 DEF Books
  <2>6. QED
    BY <1>1, <1>2, <2>1, <2>2, <2>3, <2>4, <2>5 DEF CallStep
<1>7. ASSUME Unrated PROVE CallStep
  <2>1. /\ UNCHANGED playing /\ UNCHANGED <<expired, elo, result, record, hub, told, faults>>
        /\ fin.at = "rate" /\ ~Rated /\ fin' = [fin EXCEPT !.at = "persist"]
    BY <1>7 DEF Unrated, Calling, saved
  <2>2. /\ fin' \in [at : {"rate", "persist", "clean", "tell", "done"}, delta : [Seats -> -1..1]]
        /\ fin'.at = "persist" /\ fin'.delta = fin.delta
    BY <1>1, <2>1
  <2>3. Books'
    BY <1>3, <1>4, <2>1, <2>2 DEF Books
  <2>4. QED
    BY <1>1, <1>2, <2>1, <2>2, <2>3 DEF CallStep
<1>8. ASSUME FinishPersist PROVE CallStep
  <2>1. /\ UNCHANGED <<playing, expired, elo, result, hub, told>> /\ fin.at = "persist"
        /\ Answered("clean", fin.delta)
        /\ record' = IF record.status = "finished" THEN record
                     ELSE [status |-> "finished", outcome |-> [s \in Seats |-> Outcome(s)],
                           delta |-> fin.delta]
    BY <1>8 DEF FinishPersist, Calling
  <2>2. fin.delta \in [Seats -> -1..1]
    BY <1>1
  <2>3. /\ fin' \in [at : {"rate", "persist", "clean", "tell", "done"}, delta : [Seats -> -1..1]]
        /\ faults' \in 0..MaxFaults /\ fin'.delta = fin.delta /\ fin'.at \in {"clean", "rate"}
    BY <2>1, <2>2, AnsweredType
  <2>4. [s \in Seats |-> Outcome(s)] \in [Seats -> Outcomes]
    BY DEF Outcome, OutcomeFromScores, Outcomes
  <2>5. /\ record' \in [status : {"active", "finished"}, outcome : [Seats -> Outcomes],
                        delta : [Seats -> -1..1]]
        /\ record'.status = "finished" /\ record'.delta = elo
        /\ \A s \in Seats : record'.outcome[s] = Outcome(s)
    BY <1>1, <1>3, <2>1, <2>2, <2>4
  <2>6. phase = "finished"
    BY <1>2, <2>1
  <2>7. Books'
    BY <1>3, <1>4, <2>1, <2>3, <2>5, <2>6 DEF Books
  <2>8. QED
    BY <1>1, <2>1, <2>3, <2>5, <2>6, <2>7 DEF CallStep
<1>9. ASSUME CleanupFinishedMatch PROVE CallStep
  <2>1. /\ UNCHANGED <<playing, expired, elo, result, record, told>> /\ fin.at = "clean"
        /\ Answered("tell", fin.delta) /\ hub' \in {{}, hub}
    BY <1>9 DEF CleanupFinishedMatch, Calling
  <2>2. fin.delta \in [Seats -> -1..1]
    BY <1>1
  <2>3. /\ fin' \in [at : {"rate", "persist", "clean", "tell", "done"}, delta : [Seats -> -1..1]]
        /\ faults' \in 0..MaxFaults /\ fin'.delta = fin.delta /\ fin'.at \in {"tell", "rate"}
    BY <2>1, <2>2, AnsweredType
  <2>4. Books'
    BY <1>3, <1>4, <2>1, <2>3 DEF Books
  <2>5. QED
    BY <1>1, <1>2, <2>1, <2>3, <2>4 DEF CallStep
<1>10. ASSUME Tell PROVE CallStep
  <2>1. /\ UNCHANGED <<playing, expired, elo, result, record, hub, faults>> /\ fin.at = "tell"
        /\ told' = TRUE /\ fin' = [fin EXCEPT !.at = "done"]
    BY <1>10 DEF Tell
  <2>2. /\ fin' \in [at : {"rate", "persist", "clean", "tell", "done"}, delta : [Seats -> -1..1]]
        /\ fin'.at = "done" /\ fin'.delta = fin.delta
    BY <1>1, <2>1
  <2>3. Books'
    BY <1>3, <1>4, <2>1, <2>2 DEF Books
  <2>4. QED
    BY <1>1, <1>2, <2>1, <2>2, <2>3 DEF CallStep
<1>11. ASSUME Expire PROVE CallStep
  <2>1. /\ UNCHANGED <<playing, fin, elo, result, record, hub, told>> /\ fin.at \in {"rate", "persist", "clean"}
        /\ expired' = TRUE /\ faults < MaxFaults /\ faults' = faults + 1
    BY <1>11 DEF Expire
  <2>2. faults' \in 0..MaxFaults
    BY <1>1, <2>1, MatchAssumption
  <2>3. Books'
    BY <1>3, <1>4, <2>1 DEF Books
  <2>4. QED
    BY <1>1, <1>2, <2>1, <2>2, <2>3 DEF CallStep
<1>12. QED
  BY <1>6, <1>7, <1>8, <1>9, <1>10, <1>11 DEF Persist

\* Every step is one of the two kinds.
LEMMA EveryStep == ASSUME IInv, Next PROVE PlayStep \/ CallStep
<1>1. CASE Clock \/ Handle
  BY <1>1, PlaySteps
<1>2. CASE Persist \/ Expire
  BY <1>2, CallSteps
<1>3. ASSUME NEW s \in Humans, NEW q \in Questions, NEW v \in 0..1,
             Enqueue([kind |-> "answer", seat |-> s, index |-> q, points |-> v])
      PROVE PlayStep
  <2>1. [kind |-> "answer", seat |-> s, index |-> q, points |-> v] \in Event
    BY MatchAssumption DEF Event, Kinds, Humans, Questions
  <2>2. QED
    BY <1>3, <2>1, PlaySteps
<1>4. ASSUME NEW s \in Humans, NEW kind \in {"disconnect", "reconnect", "forfeit_check", "leave"},
             Enqueue([kind |-> kind, seat |-> s, index |-> 0, points |-> 0])
      PROVE PlayStep
  <2>1. [kind |-> kind, seat |-> s, index |-> 0, points |-> 0] \in Event
    BY MatchAssumption DEF Event, Kinds, Humans
  <2>2. QED
    BY <1>4, <2>1, PlaySteps
<1>5. ASSUME Enqueue([kind |-> "abort", seat |-> None, index |-> 0, points |-> 0]) PROVE PlayStep
  <2>1. [kind |-> "abort", seat |-> None, index |-> 0, points |-> 0] \in Event
    BY MatchAssumption DEF Event, Kinds
  <2>2. QED
    BY <1>5, <2>1, PlaySteps
<1>6. QED
  BY <1>1, <1>2, <1>3, <1>4, <1>5 DEF Next

LEMMA InitIInv == Init => IInv
<1> SUFFICES ASSUME Init PROVE IInv
  OBVIOUS
<1>1. Last \in Nat \ {0} /\ Cap \in Nat \ {0} /\ MaxSent \in Nat /\ MaxFaults \in Nat
  BY MatchAssumption
<1>2. Zero \in [Seats -> -1..1]
  BY DEF Zero
<1>3. Types
  <2>1. [s \in Seats |-> "draw"] \in [Seats -> Outcomes]
    BY DEF Outcomes
  <2>2. record \in [status : {"active", "finished"}, outcome : [Seats -> Outcomes],
                    delta : [Seats -> -1..1]]
    BY <1>2, <2>1 DEF Init
  <2>3. sent \in 0..MaxSent /\ faults \in 0..MaxFaults
    BY <1>1 DEF Init
  <2>4. gone \subseteq Humans /\ hub \subseteq Seats
    BY DEF Init, Humans
  <2>5. /\ fin \in [at : {"none", "rate", "persist", "clean", "tell", "done"}, delta : [Seats -> -1..1]]
        /\ result \in [known : BOOLEAN, delta : [Seats -> -1..1]] /\ elo \in [Seats -> -1..1]
    BY <1>2 DEF Init
  <2>6. QED
    BY <2>2, <2>3, <2>4, <2>5 DEF Init, Types
<1>4. SeatsOK(seat)
  <2> DEFINE w == [q \in Questions |-> Unreached]
             r == [state |-> "active", index |-> 1, verdict |-> w]
  <2>1. seat = [s \in Seats |-> r]
    BY DEF Init
  <2>2. w \in [Questions -> Unreached..1] /\ \A q \in Questions : w[q] = Unreached
    BY DEF Unreached
  <2> HIDE DEF w
  <2>3. r \in SeatRow
    BY <1>1, <2>2 DEF SeatRow
  <2>4. 1 \in Questions /\ \A q \in Questions : ~(q < 1)
    BY <1>1 DEF Questions
  <2>5. SeatOK(r)
    BY <2>2, <2>3, <2>4 DEF SeatOK
  <2>6. QED
    BY <2>1, <2>3, <2>5 DEF SeatsOK
<1>5. InboxOK
  BY <1>1 DEF Init, InboxOK
<1>6. Flow
  BY DEF Init, Flow, Open
<1>7. Books
  BY DEF Init, Books, Rated
<1>8. QED
  BY <1>3, <1>4, <1>5, <1>6, <1>7 DEF IInv

THEOREM Invariance == Spec => []IInv
<1>1. IInv /\ [Next]_vars => IInv'
  <2> SUFFICES ASSUME IInv, [Next]_vars PROVE IInv'
    OBVIOUS
  <2>1. CASE Next
    BY <2>1, EveryStep, PlayKeeps, CallKeeps
  <2>2. CASE UNCHANGED vars
    <3>1. UNCHANGED <<mode, phase, seat, gone, inbox, sent, end, fin, expired, elo, result, record,
                      hub, told, faults>>
      BY <2>2 DEF vars
    <3>2. Types' /\ Flow' /\ InboxOK' /\ SeatsOK(seat')
      BY <3>1 DEF IInv, Types, Flow, Open, InboxOK, Humans
    <3>3. Books'
      BY <3>1, SameVerdict DEF IInv, Books
    <3>4. QED
      BY <3>2, <3>3 DEF IInv
  <2>3. QED
    BY <2>1, <2>2
<1>2. QED
  BY <1>1, InitIInv, PTL DEF Spec

\* A completed duel has a verdict on every question of both seats, Redis and
\* Postgres tell the same story whatever answers were lost, and nobody is free
\* or told before the result is stored (match.go, FinishPersist).
THEOREM MatchThm == Spec => []MatchInv
<1>1. IInv => MatchInv
  <2> SUFFICES ASSUME IInv PROVE MatchInv
    OBVIOUS
  <2>1. TypeOK
    BY DEF IInv, Types, SeatsOK, SeatRow, InboxOK, TypeOK
  <2>2. ASSUME end.reason = "completed", NEW s \in Seats, NEW q \in Questions
        PROVE  seat[s].verdict[q] # Unreached
    <3>1. SeatOK(seat[s]) /\ seat[s].state = "done"
      BY <2>2 DEF IInv, Flow, SeatsOK
    <3>2. q < seat[s].index
      BY <3>1, MatchAssumption DEF SeatOK, Questions
    <3>3. QED
      BY <3>1, <3>2 DEF SeatOK
  <2>3. RecordAgrees
    BY DEF IInv, Books, RecordAgrees
  <2>4. FreeIsStored
    BY DEF IInv, Books, FreeIsStored
  <2>5. QED
    BY <2>1, <2>2, <2>3, <2>4 DEF MatchInv, CompletedIsWhole
<1>2. QED
  BY <1>1, Invariance, PTL

\* The first verdict on a question counts, whatever answers and clocks race
\* for it (onAnswer, onTimer).
THEOREM FirstVerdictThm == Spec => FirstVerdictCounts
<1>1. IInv /\ [Next]_vars =>
        [\A s \in Seats, q \in Questions :
            seat[s].verdict[q] # Unreached => seat'[s].verdict[q] = seat[s].verdict[q]]_vars
  <2> SUFFICES ASSUME IInv, Next
               PROVE  \A s \in Seats, q \in Questions :
                        seat[s].verdict[q] # Unreached => seat'[s].verdict[q] = seat[s].verdict[q]
    OBVIOUS
  <2>1. CASE PlayStep
    BY <2>1 DEF PlayStep
  <2>2. CASE CallStep
    BY <2>2 DEF CallStep, playing
  <2>3. QED
    BY <2>1, <2>2, EveryStep
<1>2. QED
  BY <1>1, Invariance, PTL DEF Spec, FirstVerdictCounts
-----------------------------------------------------------------------------
(***************************************************************************)
(* The sockets (ArenaPresence), for any number of sockets, any grace and    *)
(* any inbox.                                                               *)
(*                                                                         *)
(* PresenceInv speaks of moments when nothing is half-way, so the invariant *)
(* says what is under way: an open socket has the hub's entry or is being   *)
(* replaced (Held); while the last word the match will hear is a            *)
(* disconnect, a live socket has a newer one beside it that is still to     *)
(* send its reconnect (WordToCome); a check of the present generation was   *)
(* sent a whole grace after the drop (Timely); every generation, and every  *)
(* disconnect in the inbox, is the one of a socket that has closed (Counted).*)
(***************************************************************************)


\* The player opens finitely many sockets; None is none of them.
SocketConstants ==
    IsFiniteSet(Socks) /\ None \notin Socks /\ Grace \in Nat /\ MaxTime \in Nat

SockRow == [serve : {"new", "replace", "connect", "run", "rejoin", "gone"},
            close : {"no", "check", "notify", "done"},
            old : Socks \cup {None}]
Word == [kind : {"disconnect", "reconnect", "forfeit_check"}, gen : Nat]
Sleeper == [gen : Nat, from : 0..MaxTime]

SockTypes ==
    /\ now \in 0..MaxTime /\ sock \in [Socks -> SockRow] /\ conn \in Socks \cup {None}
    /\ mail \in Seq(Word) /\ disconnected \in BOOLEAN /\ discGen \in Nat
    /\ sleepers \subseteq Sleeper /\ forfeited \in BOOLEAN /\ awaySince \in 0..MaxTime

\* Only a registered socket closes.
Begun == \A c \in Socks : sock[c].serve = "new" => sock[c].close = "no"

\* An open socket has the hub's entry, or the Register that took it over
\* waits for its Close.
Replacing(c) == \E o \in Socks : sock[o].old = c /\ sock[o].serve = "replace"
Held == \A c \in Socks :
    sock[c].serve # "new" /\ sock[c].close # "done" => conn = c \/ Replacing(c)

\* The last word: a disconnect that no reconnect follows.
Quiet(s, i) == \A j \in 1..Len(s) : j > i => s[j].kind # "reconnect"
LastWordAway(s, d) ==
    \/ \E i \in 1..Len(s) : s[i].kind = "disconnect" /\ Quiet(s, i)
    \/ d /\ Quiet(s, 0)

Arriving == \E o \in Socks : sock[o].serve \in {"replace", "connect"}
WordToCome == LastWordAway(mail, disconnected) /\ (\E c \in Socks : Sockets!Live(c)) => Arriving

\* Generations, and what those of the present one know.
Timely ==
    /\ awaySince <= now
    /\ \A t \in sleepers : t.gen <= discGen /\ (t.gen = discGen => t.from = awaySince)
    /\ \A i \in 1..Len(mail) :
          /\ mail[i].gen <= discGen
          /\ mail[i].kind = "forfeit_check" /\ mail[i].gen = discGen => now >= awaySince + Grace
    /\ forfeited => now >= awaySince + Grace

Drops(s) == {i \in 1..Len(s) : s[i].kind = "disconnect"}
NotClosed(f) == {c \in Socks : f[c].close # "done"}
Counted == discGen + Cardinality(Drops(mail)) + Cardinality(NotClosed(sock)) <= Cardinality(Socks)

PresenceIInv == SockTypes /\ Begun /\ Held /\ WordToCome /\ Timely /\ Counted

-----------------------------------------------------------------------------
(* The inbox.                                                              *)

LEMMA Appended ==
    ASSUME NEW s \in Seq(Word), NEW e \in Word
    PROVE  /\ Append(s, e) \in Seq(Word) /\ Len(s) \in Nat /\ Len(Append(s, e)) = Len(s) + 1
           /\ Append(s, e)[Len(s) + 1] = e
           /\ \A i \in 1..Len(s) : Append(s, e)[i] = s[i]
  OBVIOUS

LEMMA TailOf ==
    ASSUME NEW s \in Seq(Word), s # <<>>
    PROVE  /\ Tail(s) \in Seq(Word) /\ Len(Tail(s)) \in Nat /\ Len(s) = Len(Tail(s)) + 1
           /\ Head(s) = s[1] /\ s[1] \in Word
           /\ \A i \in 1..Len(Tail(s)) : Tail(s)[i] = s[i + 1]
  OBVIOUS

\* A reconnect takes the last word from a disconnect; a check leaves it.
LEMMA AppendedWord ==
    ASSUME NEW s \in Seq(Word), NEW e \in Word, NEW d \in BOOLEAN
    PROVE  /\ e.kind = "reconnect" => ~LastWordAway(Append(s, e), d)
           /\ e.kind = "forfeit_check" /\ LastWordAway(Append(s, e), d) => LastWordAway(s, d)
<1> DEFINE a == Append(s, e)
<1>1. /\ Len(s) \in Nat /\ Len(a) = Len(s) + 1 /\ a[Len(s) + 1] = e
      /\ \A i \in 1..Len(s) : a[i] = s[i]
  BY Appended
<1> HIDE DEF a
<1>2. ASSUME e.kind = "reconnect" PROVE ~LastWordAway(a, d)
  BY <1>1, <1>2 DEF LastWordAway, Quiet
<1>3. ASSUME e.kind = "forfeit_check", LastWordAway(a, d) PROVE LastWordAway(s, d)
  <2>1. ASSUME NEW i \in Nat, Quiet(a, i) PROVE Quiet(s, i)
    BY <1>1, <2>1 DEF Quiet
  <2>2. ASSUME NEW i \in 1..Len(a), a[i].kind = "disconnect" PROVE i \in 1..Len(s) /\ s[i].kind = "disconnect"
    BY <1>1, <1>3, <2>2
  <2>3. QED
    BY <1>3, <2>1, <2>2 DEF LastWordAway
<1>4. QED
  BY <1>2, <1>3 DEF a

\* The match hears the first word.
LEMMA TakenWord ==
    ASSUME NEW s \in Seq(Word), s # <<>>, NEW d \in BOOLEAN, NEW e \in BOOLEAN,
           LastWordAway(Tail(s), e),
           e => s[1].kind = "disconnect" \/ (d /\ s[1].kind # "reconnect")
    PROVE  LastWordAway(s, d)
<1> DEFINE t == Tail(s)
<1>1. /\ Len(t) \in Nat /\ Len(s) = Len(t) + 1
      /\ \A i \in 1..Len(t) : t[i] = s[i + 1]
  BY TailOf
<1> HIDE DEF t
<1>2. ASSUME NEW i \in Nat, Quiet(t, i) PROVE Quiet(s, i + 1)
  <2> SUFFICES ASSUME NEW j \in 1..Len(s), j > i + 1 PROVE s[j].kind # "reconnect"
    BY DEF Quiet
  <2>1. j - 1 \in 1..Len(t) /\ j - 1 > i /\ (j - 1) + 1 = j
    BY <1>1
  <2>2. QED
    BY <1>1, <1>2, <2>1 DEF Quiet
<1>3. CASE \E i \in 1..Len(t) : t[i].kind = "disconnect" /\ Quiet(t, i)
  <2>1. PICK i \in 1..Len(t) : t[i].kind = "disconnect" /\ Quiet(t, i)
    BY <1>3
  <2>2. i + 1 \in 1..Len(s) /\ s[i + 1].kind = "disconnect" /\ Quiet(s, i + 1)
    BY <1>1, <1>2, <2>1
  <2>3. QED
    BY <2>2 DEF LastWordAway
<1>4. CASE e /\ Quiet(t, 0)
  <2>1. Quiet(s, 1) /\ 1 \in 1..Len(s)
    BY <1>1, <1>2, <1>4
  <2>2. CASE s[1].kind = "disconnect"
    BY <2>1, <2>2 DEF LastWordAway
  <2>3. CASE d /\ s[1].kind # "reconnect"
    BY <1>1, <2>1, <2>3 DEF LastWordAway, Quiet
  <2>4. QED
    BY <1>4, <2>2, <2>3
<1>5. QED
  BY <1>3, <1>4 DEF LastWordAway, t

LEMMA DropsFinite ==
    ASSUME NEW s \in Seq(Word)
    PROVE  IsFiniteSet(Drops(s)) /\ Cardinality(Drops(s)) \in Nat
<1>1. IsFiniteSet(1..Len(s)) /\ Drops(s) \subseteq 1..Len(s)
  BY FS_Interval DEF Drops
<1>2. QED
  BY <1>1, FS_Subset, FS_CardinalityType

LEMMA AppendedDrops ==
    ASSUME NEW s \in Seq(Word), NEW e \in Word
    PROVE  Cardinality(Drops(Append(s, e))) =
             IF e.kind = "disconnect" THEN Cardinality(Drops(s)) + 1 ELSE Cardinality(Drops(s))
<1>1. /\ Len(s) \in Nat /\ Len(Append(s, e)) = Len(s) + 1 /\ Append(s, e)[Len(s) + 1] = e
      /\ \A i \in 1..Len(s) : Append(s, e)[i] = s[i]
  BY Appended
<1>2. CASE e.kind = "disconnect"
  <2>1. Drops(Append(s, e)) = Drops(s) \cup {Len(s) + 1} /\ Len(s) + 1 \notin Drops(s)
    BY <1>1, <1>2 DEF Drops
  <2>2. QED
    BY <1>2, <2>1, DropsFinite, FS_AddElement
<1>3. CASE e.kind # "disconnect"
  <2>1. Drops(Append(s, e)) = Drops(s)
    BY <1>1, <1>3 DEF Drops
  <2>2. QED
    BY <1>3, <2>1
<1>4. QED
  BY <1>2, <1>3

LEMMA TakenDrops ==
    ASSUME NEW s \in Seq(Word), s # <<>>
    PROVE  Cardinality(Drops(s)) =
             IF s[1].kind = "disconnect" THEN Cardinality(Drops(Tail(s))) + 1
                                         ELSE Cardinality(Drops(Tail(s)))
<1> DEFINE t == Tail(s)
           R == Drops(s) \ {1}
           f == [i \in R |-> i - 1]
<1>1. /\ t \in Seq(Word) /\ Len(t) \in Nat /\ Len(s) = Len(t) + 1
      /\ \A i \in 1..Len(t) : t[i] = s[i + 1]
  BY TailOf
<1> HIDE DEF t
<1>2. IsFiniteSet(R) /\ Cardinality(R) \in Nat
  BY DropsFinite, FS_Subset, FS_CardinalityType
<1>3. ASSUME NEW i \in R PROVE i - 1 \in Drops(t)
  BY <1>1 DEF Drops
<1>4. ASSUME NEW i \in Drops(t) PROVE i + 1 \in R /\ (i + 1) - 1 = i
  BY <1>1 DEF Drops
<1>5. \A i \in R : i \in Int
  BY DEF Drops
<1> HIDE DEF R
<1>6. f \in [R -> Drops(t)]
  BY <1>3
<1>7. \A i, j \in R : f[i] = f[j] => i = j
  BY <1>5
<1>8. \A i \in Drops(t) : \E j \in R : f[j] = i
  BY <1>4
<1>9. f \in Bijection(R, Drops(t))
  BY <1>6, <1>7, <1>8 DEF Bijection, Injection, Surjection, IsInjective
<1>10. Cardinality(R) = Cardinality(Drops(t))
  BY <1>2, <1>9, FS_Bijection DEF ExistsBijection
<1>11. CASE s[1].kind = "disconnect"
  <2>1. Drops(s) = R \cup {1} /\ 1 \notin R
    BY <1>1, <1>11 DEF Drops, R
  <2>2. QED
    BY <1>2, <1>10, <1>11, <2>1, FS_AddElement DEF t
<1>12. CASE s[1].kind # "disconnect"
  <2>1. Drops(s) = R
    BY <1>12 DEF Drops, R
  <2>2. QED
    BY <1>10, <1>12, <2>1 DEF t
<1>13. QED
  BY <1>11, <1>12

-----------------------------------------------------------------------------
(* What a step of a socket and a step of the match do to the invariant.     *)

\* The row of one socket moves.
LEMMA Moved ==
    ASSUME SockTypes, NEW c \in Socks, NEW r \in SockRow, sock' = [sock EXCEPT ![c] = r]
    PROVE  /\ sock' \in [Socks -> SockRow] /\ sock'[c] = r
           /\ \A x \in Socks \ {c} : sock'[x] = sock[x]
  BY DEF SockTypes

\* Closed sockets stay closed.
LEMMA FewerOpen ==
    ASSUME SocketConstants, SockTypes, NEW c \in Socks, NEW r \in SockRow,
           sock' = [sock EXCEPT ![c] = r], sock[c].close = "done" => r.close = "done"
    PROVE  /\ Cardinality(NotClosed(sock)) \in Nat /\ Cardinality(NotClosed(sock')) \in Nat
           /\ Cardinality(NotClosed(sock')) <= Cardinality(NotClosed(sock))
           /\ sock[c].close # "done" /\ r.close = "done" =>
                Cardinality(NotClosed(sock')) + 1 = Cardinality(NotClosed(sock))
<1>1. sock'[c] = r /\ \A x \in Socks \ {c} : sock'[x] = sock[x]
  BY Moved
<1>2. NotClosed(sock') \subseteq NotClosed(sock) /\ NotClosed(sock) \subseteq Socks
  BY <1>1 DEF NotClosed
<1>3. IsFiniteSet(NotClosed(sock)) /\ IsFiniteSet(NotClosed(sock'))
  BY <1>2, FS_Subset DEF SocketConstants
<1>4. Cardinality(NotClosed(sock)) \in Nat /\ Cardinality(NotClosed(sock')) \in Nat
  BY <1>3, FS_CardinalityType
<1>5. Cardinality(NotClosed(sock')) <= Cardinality(NotClosed(sock))
  BY <1>2, <1>3, FS_Subset
<1>6. ASSUME sock[c].close # "done", r.close = "done"
      PROVE  Cardinality(NotClosed(sock')) + 1 = Cardinality(NotClosed(sock))
  <2>1. NotClosed(sock') = NotClosed(sock) \ {c} /\ c \in NotClosed(sock)
    BY <1>1, <1>6 DEF NotClosed
  <2>2. Cardinality(NotClosed(sock) \ {c}) = Cardinality(NotClosed(sock)) - 1
    BY <1>3, <2>1, FS_RemoveElement
  <2>3. Cardinality(NotClosed(sock')) = Cardinality(NotClosed(sock)) - 1
    BY <2>1, <2>2
  <2>4. QED
    BY <1>4, <2>3
<1>7. QED
  BY <1>4, <1>5, <1>6

\* The hub's entry and the sockets keep one another.
LEMMA HeldKept ==
    ASSUME SocketConstants, SockTypes, Begun, Held, NEW c \in Socks, NEW r \in SockRow,
           sock' = [sock EXCEPT ![c] = r],
           r.serve = "new" => r.close = "no",
           \* the entry goes to c, is given up by the closed c, or stays
           \/ conn' = c /\ sock[c].serve = "new" /\ r.serve = "replace" /\ r.old = conn
           \/ /\ conn' = conn \/ (conn = c /\ sock[c].close = "done")
              /\ sock[c].serve # "new"
              /\ sock[c].close = "done" => r.close = "done"
              /\ r.old = sock[c].old
              /\ r.serve = sock[c].serve \/ r.serve # "replace"
              /\ sock[c].serve = "replace" /\ r.serve # "replace" =>
                    \A o \in Socks : sock[c].old = o => sock[o].close = "done"
    PROVE  Begun' /\ Held'
<1>1. sock'[c] = r /\ \A x \in Socks \ {c} : sock'[x] = sock[x]
  BY Moved
<1>2. Begun'
  BY <1>1 DEF Begun
<1>3. ASSUME NEW x \in Socks, sock'[x].serve # "new", sock'[x].close # "done"
      PROVE  conn' = x \/ Replacing(x)'
  <2>1. CASE conn' = c /\ sock[c].serve = "new" /\ r.serve = "replace" /\ r.old = conn
    <3>1. CASE x = c
      BY <2>1, <3>1
    <3>2. CASE x # c
      <4>1. conn = x \/ Replacing(x)
        BY <1>1, <1>3, <3>2 DEF Held
      <4>2. QED
        BY <1>1, <2>1, <4>1 DEF Replacing
    <3>3. QED
      BY <3>1, <3>2
  <2>2. CASE ~(conn' = c /\ sock[c].serve = "new" /\ r.serve = "replace" /\ r.old = conn)
    <3>1. sock[x].serve # "new" /\ sock[x].close # "done"
      BY <1>1, <1>3, <2>2
    <3>2. conn = x \/ Replacing(x)
      BY <3>1 DEF Held
    <3>3. CASE conn = x
      BY <2>2, <3>1, <3>3
    <3>4. CASE Replacing(x)
      <4>1. PICK o \in Socks : sock[o].old = x /\ sock[o].serve = "replace"
        BY <3>4 DEF Replacing
      <4>2. sock'[o].old = x /\ sock'[o].serve = "replace"
        BY <1>1, <2>2, <3>1, <4>1
      <4>3. QED
        BY <4>2 DEF Replacing
    <3>5. QED
      BY <3>2, <3>3, <3>4
  <2>3. QED
    BY <2>1, <2>2
<1>4. QED
  BY <1>2, <1>3 DEF Held

\* The clock and the match are as they were.
LEMMA TimelyKept ==
    ASSUME SockTypes, SocketConstants, Timely, UNCHANGED <<now, Sockets!match>>,
           \/ UNCHANGED mail
           \/ \E e \in Word : e.gen = 0 /\ e.kind # "forfeit_check" /\ mail' = Append(mail, e)
    PROVE  Timely' /\ mail' \in Seq(Word)
<1>1. UNCHANGED <<now, disconnected, discGen, sleepers, forfeited, awaySince>>
  BY DEF Sockets!match
<1>2. CASE UNCHANGED mail
  BY <1>1, <1>2 DEF Timely, SockTypes
<1>3. CASE \E e \in Word : e.gen = 0 /\ e.kind # "forfeit_check" /\ mail' = Append(mail, e)
  <2>1. PICK e \in Word : e.gen = 0 /\ e.kind # "forfeit_check" /\ mail' = Append(mail, e)
    BY <1>3
  <2>2. /\ mail' \in Seq(Word) /\ Len(mail) \in Nat /\ Len(mail') = Len(mail) + 1
        /\ mail'[Len(mail) + 1] = e
        /\ \A i \in 1..Len(mail) : mail'[i] = mail[i]
    BY <2>1, Appended DEF SockTypes
  <2>3. ASSUME NEW i \in 1..Len(mail')
        PROVE  /\ mail'[i].gen <= discGen
               /\ mail'[i].kind = "forfeit_check" /\ mail'[i].gen = discGen => now >= awaySince + Grace
    <3>1. CASE i = Len(mail) + 1
      BY <2>1, <2>2, <3>1 DEF SockTypes
    <3>2. CASE i \in 1..Len(mail)
      BY <2>2, <3>2 DEF Timely
    <3>3. QED
      BY <2>2, <3>1, <3>2
  <2>4. QED
    BY <1>1, <2>2, <2>3 DEF Timely
<1>4. QED
  BY <1>2, <1>3

\* A step of a socket that says nothing.
LEMMA SilentStep ==
    ASSUME SocketConstants, PresenceIInv, NEW c \in Socks, NEW r \in SockRow,
           sock' = [sock EXCEPT ![c] = r], Begun', Held',
           UNCHANGED <<now, mail, Sockets!match>>, conn' \in Socks \cup {None},
           sock[c].close = "done" => r.close = "done",
           r.serve = "run" /\ r.close = "no" => sock[c].serve = "run" /\ sock[c].close = "no",
           sock[c].serve \in {"replace", "connect"} => r.serve \in {"replace", "connect"}
    PROVE  PresenceIInv'
<1>1. /\ sock' \in [Socks -> SockRow] /\ sock'[c] = r
      /\ \A x \in Socks \ {c} : sock'[x] = sock[x]
  BY Moved DEF PresenceIInv
<1>2. UNCHANGED <<now, mail, disconnected, discGen, sleepers, forfeited, awaySince>>
  BY DEF Sockets!match
<1>3. SockTypes'
  BY <1>1, <1>2 DEF PresenceIInv, SockTypes
<1>4. WordToCome'
  <2> SUFFICES ASSUME LastWordAway(mail', disconnected'), NEW x \in Socks, Sockets!Live(x)'
               PROVE  Arriving'
    BY DEF WordToCome
  <2>1. Sockets!Live(x)
    BY <1>1 DEF Sockets!Live
  <2>2. PICK o \in Socks : sock[o].serve \in {"replace", "connect"}
    BY <1>2, <2>1 DEF PresenceIInv, WordToCome, Arriving
  <2>3. sock'[o].serve \in {"replace", "connect"}
    BY <1>1, <2>2
  <2>4. QED
    BY <2>3 DEF Arriving
<1>5. Timely'
  BY TimelyKept DEF PresenceIInv
<1>6. Counted'
  <2>1. /\ Cardinality(NotClosed(sock)) \in Nat /\ Cardinality(NotClosed(sock')) \in Nat
        /\ Cardinality(NotClosed(sock')) <= Cardinality(NotClosed(sock))
    BY FewerOpen DEF PresenceIInv
  <2>2. Cardinality(Drops(mail)) \in Nat /\ Cardinality(Socks) \in Nat /\ discGen \in Nat
    BY DropsFinite, FS_CardinalityType DEF PresenceIInv, SockTypes, SocketConstants
  <2>3. discGen + Cardinality(Drops(mail)) + Cardinality(NotClosed(sock)) <= Cardinality(Socks)
    BY DEF PresenceIInv, Counted
  <2>4. discGen + Cardinality(Drops(mail)) + Cardinality(NotClosed(sock')) <= Cardinality(Socks)
    BY <2>1, <2>2, <2>3
  <2>5. QED
    BY <1>2, <2>4 DEF Counted
<1>7. QED
  BY <1>3, <1>4, <1>5, <1>6 DEF PresenceIInv

\* A step of a socket that says a reconnect, which is then the last word.
LEMMA ReconnectStep ==
    ASSUME SocketConstants, PresenceIInv, NEW c \in Socks, NEW r \in SockRow,
           sock' = [sock EXCEPT ![c] = r], Begun', Held',
           mail' = Append(mail, [kind |-> "reconnect", gen |-> 0]),
           UNCHANGED <<now, conn, Sockets!match>>, r.close = sock[c].close
    PROVE  PresenceIInv'
<1> DEFINE e == [kind |-> "reconnect", gen |-> 0]
<1>1. e \in Word /\ e.kind = "reconnect" /\ e.gen = 0 /\ mail' = Append(mail, e)
  BY DEF Word
<1> HIDE DEF e
<1>2. sock' \in [Socks -> SockRow]
  BY Moved DEF PresenceIInv
<1>3. UNCHANGED <<now, disconnected, discGen, sleepers, forfeited, awaySince>>
  BY DEF Sockets!match
<1>4. Timely' /\ mail' \in Seq(Word)
  BY <1>1, TimelyKept DEF PresenceIInv
<1>5. SockTypes'
  BY <1>2, <1>3, <1>4 DEF PresenceIInv, SockTypes
<1>6. ~LastWordAway(mail', disconnected')
  BY <1>1, <1>3, AppendedWord DEF PresenceIInv, SockTypes
<1>7. WordToCome'
  BY <1>6 DEF WordToCome
<1>8. Counted'
  <2>1. /\ Cardinality(NotClosed(sock)) \in Nat /\ Cardinality(NotClosed(sock')) \in Nat
        /\ Cardinality(NotClosed(sock')) <= Cardinality(NotClosed(sock))
    BY FewerOpen DEF PresenceIInv
  <2>2. Cardinality(Drops(mail)) \in Nat /\ Cardinality(Socks) \in Nat /\ discGen \in Nat
    BY DropsFinite, FS_CardinalityType DEF PresenceIInv, SockTypes, SocketConstants
  <2>3. discGen + Cardinality(Drops(mail)) + Cardinality(NotClosed(sock)) <= Cardinality(Socks)
    BY DEF PresenceIInv, Counted
  <2>4. Cardinality(Drops(mail')) = Cardinality(Drops(mail))
    BY <1>1, AppendedDrops DEF PresenceIInv, SockTypes
  <2>5. QED
    BY <1>3, <2>1, <2>2, <2>3, <2>4 DEF Counted
<1>9. QED
  BY <1>4, <1>5, <1>7, <1>8 DEF PresenceIInv

\* A closing socket says its disconnect: if another one is live, the entry is
\* not its own, so a Register is waiting for it.
LEMMA DisconnectStep ==
    ASSUME SocketConstants, PresenceIInv, NEW c \in Socks, Sockets!NotifyDisconnect(c)
    PROVE  PresenceIInv'
<1> DEFINE e == [kind |-> "disconnect", gen |-> 0]
           r == [sock[c] EXCEPT !.close = "done"]
<1>1. e \in Word /\ e.kind = "disconnect" /\ e.gen = 0 /\ mail' = Append(mail, e)
  BY DEF Word, Sockets!NotifyDisconnect, Sockets!Enqueue
<1> HIDE DEF e
<1>2. /\ sock[c].close = "notify" /\ sock' = [sock EXCEPT ![c] = r]
      /\ UNCHANGED <<now, conn, Sockets!match>>
  BY DEF Sockets!NotifyDisconnect
<1>3. SockTypes /\ Begun /\ Held /\ sock[c] \in SockRow /\ sock[c].serve # "new"
  BY <1>2 DEF PresenceIInv, SockTypes, Begun
<1>4. r \in SockRow /\ r.close = "done" /\ r.serve = sock[c].serve /\ r.old = sock[c].old
  BY <1>3 DEF SockRow
<1> HIDE DEF r
<1>5. /\ sock' \in [Socks -> SockRow] /\ sock'[c] = r
      /\ \A x \in Socks \ {c} : sock'[x] = sock[x]
  BY <1>2, <1>3, <1>4, Moved
<1>6. Begun' /\ Held'
  <2>1. conn' = conn /\ (r.serve = "new" => r.close = "no")
    BY <1>2, <1>3, <1>4
  <2>2. QED
    BY <1>2, <1>3, <1>4, <2>1, HeldKept
<1>7. UNCHANGED <<now, conn, disconnected, discGen, sleepers, forfeited, awaySince>>
  BY <1>2 DEF Sockets!match
<1>8. Timely' /\ mail' \in Seq(Word)
  BY <1>1, <1>2, TimelyKept DEF PresenceIInv
<1>9. SockTypes'
  BY <1>5, <1>7, <1>8 DEF PresenceIInv, SockTypes
<1>10. WordToCome'
  <2> SUFFICES ASSUME NEW x \in Socks, Sockets!Live(x)' PROVE Arriving'
    BY DEF WordToCome
  <2>1. x # c /\ sock[x].serve = "run" /\ sock[x].close = "no"
    BY <1>4, <1>5 DEF Sockets!Live
  <2>2. Replacing(x) \/ Replacing(c)
    BY <1>2, <1>3, <2>1 DEF Held
  <2>3. PICK o \in Socks : sock[o].serve = "replace"
    BY <2>2 DEF Replacing
  <2>4. sock'[o].serve = "replace"
    BY <1>4, <1>5, <2>3
  <2>5. QED
    BY <2>4 DEF Arriving
<1>11. Counted'
  <2>1. /\ Cardinality(NotClosed(sock)) \in Nat /\ Cardinality(NotClosed(sock')) \in Nat
        /\ Cardinality(NotClosed(sock')) + 1 = Cardinality(NotClosed(sock))
    BY <1>2, <1>4, FewerOpen DEF PresenceIInv
  <2>2. Cardinality(Drops(mail)) \in Nat /\ Cardinality(Socks) \in Nat /\ discGen \in Nat
    BY DropsFinite, FS_CardinalityType DEF PresenceIInv, SockTypes, SocketConstants
  <2>3. discGen + Cardinality(Drops(mail)) + Cardinality(NotClosed(sock)) <= Cardinality(Socks)
    BY DEF PresenceIInv, Counted
  <2>4. Cardinality(Drops(mail')) = Cardinality(Drops(mail)) + 1
    BY <1>1, AppendedDrops DEF PresenceIInv, SockTypes
  <2>5. QED
    BY <1>7, <2>1, <2>2, <2>3, <2>4 DEF Counted
<1>12. QED
  BY <1>6, <1>8, <1>9, <1>10, <1>11 DEF PresenceIInv

\* The steps of serveWS and of Close.
LEMMA SocketStep ==
    ASSUME SocketConstants, PresenceIInv, NEW c \in Socks,
           \/ Sockets!Register(c) \/ Sockets!Registered(c) \/ Sockets!OnConnect(c)
           \/ Sockets!Unregister(c) \/ Sockets!ReadRejoin(c) \/ Sockets!HandleRejoin(c)
           \/ Sockets!Close(c) \/ Sockets!OnDisconnect(c) \/ Sockets!NotifyDisconnect(c)
    PROVE  PresenceIInv'
<1>1. SockTypes /\ Begun /\ Held /\ sock[c] \in SockRow /\ conn \in Socks \cup {None}
      /\ (sock[c].serve = "new" => sock[c].close = "no")
  BY DEF PresenceIInv, SockTypes, Begun
<1>2. CASE Sockets!Register(c)
  <2> DEFINE r == [sock[c] EXCEPT !.serve = "replace", !.old = conn]
  <2>1. /\ sock[c].serve = "new" /\ sock' = [sock EXCEPT ![c] = r] /\ conn' = c
        /\ UNCHANGED <<now, mail, Sockets!match>>
    BY <1>2 DEF Sockets!Register
  <2>2. r \in SockRow /\ r.serve = "replace" /\ r.old = conn /\ r.close = sock[c].close
    BY <1>1 DEF SockRow
  <2> HIDE DEF r
  <2>3. Begun' /\ Held'
    BY <1>1, <2>1, <2>2, HeldKept
  <2>4. QED
    BY <1>1, <2>1, <2>2, <2>3, SilentStep
<1>3. CASE Sockets!Registered(c)
  <2> DEFINE r == [sock[c] EXCEPT !.serve = "connect"]
  <2>1. /\ sock[c].serve = "replace" /\ sock' = [sock EXCEPT ![c] = r] /\ conn' = conn
        /\ \A o \in Socks : sock[c].old = o => sock[o].close = "done"
        /\ UNCHANGED <<now, mail, Sockets!match>>
    BY <1>3 DEF Sockets!Registered
  <2>2. r \in SockRow /\ r.serve = "connect" /\ r.old = sock[c].old /\ r.close = sock[c].close
    BY <1>1 DEF SockRow
  <2> HIDE DEF r
  <2>3. Begun' /\ Held'
    BY <1>1, <2>1, <2>2, HeldKept
  <2>4. QED
    BY <1>1, <2>1, <2>2, <2>3, SilentStep
<1>4. CASE Sockets!OnConnect(c) \/ Sockets!HandleRejoin(c)
  <2> DEFINE r == [sock[c] EXCEPT !.serve = "run"]
  <2>1. /\ sock[c].serve \in {"connect", "rejoin"} /\ sock' = [sock EXCEPT ![c] = r]
        /\ conn' = conn /\ mail' = Append(mail, [kind |-> "reconnect", gen |-> 0])
        /\ UNCHANGED <<now, conn, Sockets!match>>
    BY <1>4 DEF Sockets!OnConnect, Sockets!HandleRejoin, Sockets!Enqueue
  <2>2. r \in SockRow /\ r.serve = "run" /\ r.old = sock[c].old /\ r.close = sock[c].close
    BY <1>1 DEF SockRow
  <2> HIDE DEF r
  <2>3. Begun' /\ Held'
    BY <1>1, <2>1, <2>2, HeldKept
  <2>4. QED
    BY <1>1, <2>1, <2>2, <2>3, ReconnectStep
<1>5. CASE Sockets!Unregister(c)
  <2> DEFINE r == [sock[c] EXCEPT !.serve = "gone"]
  <2>1. /\ sock[c].serve = "run" /\ sock[c].close = "done" /\ sock' = [sock EXCEPT ![c] = r]
        /\ conn' = conn \/ (conn = c /\ conn' = None)
        /\ UNCHANGED <<now, mail, Sockets!match>>
    BY <1>5 DEF Sockets!Unregister
  <2>2. r \in SockRow /\ r.serve = "gone" /\ r.old = sock[c].old /\ r.close = sock[c].close
    BY <1>1 DEF SockRow
  <2> HIDE DEF r
  <2>3. Begun' /\ Held'
    BY <1>1, <2>1, <2>2, HeldKept
  <2>4. QED
    BY <1>1, <2>1, <2>2, <2>3, SilentStep
<1>6. CASE Sockets!ReadRejoin(c)
  <2> DEFINE r == [sock[c] EXCEPT !.serve = "rejoin"]
  <2>1. /\ sock[c].serve = "run" /\ sock[c].close = "no" /\ sock' = [sock EXCEPT ![c] = r]
        /\ conn' = conn /\ UNCHANGED <<now, mail, Sockets!match>>
    BY <1>6 DEF Sockets!ReadRejoin
  <2>2. r \in SockRow /\ r.serve = "rejoin" /\ r.old = sock[c].old /\ r.close = sock[c].close
    BY <1>1 DEF SockRow
  <2> HIDE DEF r
  <2>3. Begun' /\ Held'
    BY <1>1, <2>1, <2>2, HeldKept
  <2>4. QED
    BY <1>1, <2>1, <2>2, <2>3, SilentStep
<1>7. CASE Sockets!Close(c) \/ Sockets!OnDisconnect(c)
  <2>1. PICK k \in {"check", "notify", "done"} :
          /\ sock[c].close \in {"no", "check"} /\ sock[c].serve # "new"
          /\ sock' = [sock EXCEPT ![c].close = k]
          /\ conn' = conn /\ UNCHANGED <<now, mail, Sockets!match>>
    <3>1. CASE Sockets!Close(c)
      BY <1>1, <3>1 DEF Sockets!Close
    <3>2. CASE Sockets!OnDisconnect(c)
      BY <1>1, <3>2 DEF Sockets!OnDisconnect
    <3>3. QED
      BY <1>7, <3>1, <3>2
  <2> DEFINE r == [sock[c] EXCEPT !.close = k]
  <2>2. sock' = [sock EXCEPT ![c] = r]
    BY <2>1
  <2>3. r \in SockRow /\ r.serve = sock[c].serve /\ r.old = sock[c].old /\ r.close = k
    BY <1>1 DEF SockRow
  <2> HIDE DEF r
  <2>4. Begun' /\ Held'
    BY <1>1, <2>1, <2>2, <2>3, HeldKept
  <2>5. QED
    BY <1>1, <2>1, <2>2, <2>3, <2>4, SilentStep
<1>8. CASE Sockets!NotifyDisconnect(c)
  BY <1>8, DisconnectStep
<1>9. QED
  BY <1>2, <1>3, <1>4, <1>5, <1>6, <1>7, <1>8

\* The match takes an event: what is left of the inbox was there before.
LEMMA Heard ==
    ASSUME PresenceIInv, ~forfeited, mail # <<>>, mail' = Tail(mail)
    PROVE  /\ mail' \in Seq(Word) /\ mail[1] \in Word /\ mail[1] = Head(mail)
           /\ 1 \in 1..Len(mail)
           /\ \A i \in 1..Len(mail') : \E j \in 1..Len(mail) : mail'[i] = mail[j]
<1>1. /\ mail' \in Seq(Word) /\ Len(mail') \in Nat /\ Len(mail) = Len(mail') + 1
      /\ Head(mail) = mail[1] /\ mail[1] \in Word
      /\ \A i \in 1..Len(mail') : mail'[i] = mail[i + 1]
  BY TailOf DEF PresenceIInv, SockTypes
<1>2. \A i \in 1..Len(mail') : i + 1 \in 1..Len(mail)
  BY <1>1
<1>3. QED
  BY <1>1, <1>2

\* The first disconnect opens a new generation.
LEMMA HandleDisconnectKeeps ==
    ASSUME SocketConstants, PresenceIInv, Sockets!HandleDisconnect
    PROVE  PresenceIInv'
<1>1. /\ ~forfeited /\ mail # <<>> /\ Head(mail).kind = "disconnect" /\ mail' = Tail(mail)
      /\ UNCHANGED <<now, sock, conn, forfeited>>
  BY DEF Sockets!HandleDisconnect, Sockets!Took
<1>2. \/ disconnected /\ UNCHANGED <<disconnected, discGen, sleepers, awaySince>>
      \/ /\ ~disconnected /\ disconnected' = TRUE /\ discGen' = discGen + 1 /\ awaySince' = now
         /\ sleepers' = sleepers \cup {[gen |-> discGen + 1, from |-> now]}
  BY DEF Sockets!HandleDisconnect
<1>3. /\ mail' \in Seq(Word) /\ mail[1] \in Word /\ mail[1] = Head(mail) /\ 1 \in 1..Len(mail)
      /\ \A i \in 1..Len(mail') : \E j \in 1..Len(mail) : mail'[i] = mail[j]
  BY <1>1, Heard
<1>4. SockTypes /\ Timely /\ discGen \in Nat /\ awaySince \in Nat /\ now \in Nat /\ Grace \in Nat
  BY DEF PresenceIInv, SockTypes, SocketConstants
<1>5. ASSUME NEW i \in 1..Len(mail') PROVE mail'[i].gen \in Nat /\ mail'[i].gen <= discGen
  <2>1. PICK j \in 1..Len(mail) : mail'[i] = mail[j]
    BY <1>3
  <2>2. mail[j] \in Word
    BY <1>4 DEF SockTypes
  <2>3. QED
    BY <1>4, <2>1, <2>2 DEF Timely, Word
<1>6. SockTypes' /\ Timely'
  <2>1. CASE disconnected /\ UNCHANGED <<disconnected, discGen, sleepers, awaySince>>
    <3>1. SockTypes'
      BY <1>1, <1>3, <1>4, <2>1 DEF SockTypes
    <3>2. Timely'
      BY <1>1, <1>3, <1>4, <2>1 DEF Timely
    <3>3. QED
      BY <3>1, <3>2
  <2>2. CASE /\ ~disconnected /\ disconnected' = TRUE /\ discGen' = discGen + 1 /\ awaySince' = now
             /\ sleepers' = sleepers \cup {[gen |-> discGen + 1, from |-> now]}
    <3> DEFINE n == [gen |-> discGen + 1, from |-> now]
    <3>1. n \in Sleeper /\ n.gen = discGen + 1 /\ n.from = now
      BY <1>4 DEF Sleeper, SockTypes
    <3> HIDE DEF n
    <3>2. sleepers' = sleepers \cup {n} /\ sleepers \subseteq Sleeper
      BY <1>4, <2>2 DEF n, SockTypes
    <3>3. SockTypes'
      BY <1>1, <1>3, <1>4, <2>2, <3>1, <3>2 DEF SockTypes
    <3>4. \A t \in sleepers' : t.gen <= discGen' /\ (t.gen = discGen' => t.from = awaySince')
      <4> TAKE t \in sleepers'
      <4>1. CASE t = n
        BY <1>4, <2>2, <3>1, <4>1
      <4>2. CASE t \in sleepers
        <5>1. t.gen \in Nat /\ t.gen <= discGen
          BY <1>4, <3>2, <4>2 DEF Timely, Sleeper
        <5>2. QED
          BY <1>4, <2>2, <5>1
      <4>3. QED
        BY <3>2, <4>1, <4>2
    <3>5. \A i \in 1..Len(mail') : mail'[i].gen <= discGen' /\ mail'[i].gen # discGen'
      BY <1>4, <1>5, <2>2
    <3>6. Timely'
      BY <1>1, <1>4, <2>2, <3>4, <3>5 DEF Timely
    <3>7. QED
      BY <3>3, <3>6
  <2>3. QED
    BY <1>2, <2>1, <2>2
<1>7. WordToCome'
  <2> SUFFICES ASSUME LastWordAway(mail', disconnected'), NEW x \in Socks, Sockets!Live(x)'
               PROVE  Arriving'
    BY DEF WordToCome
  <2>1. disconnected \in BOOLEAN /\ disconnected' \in BOOLEAN /\ mail \in Seq(Word)
    BY <1>4, <1>6 DEF SockTypes
  <2>2. LastWordAway(mail, disconnected)
    BY <1>1, <1>3, <2>1, TakenWord
  <2>3. Sockets!Live(x)
    BY <1>1 DEF Sockets!Live
  <2>4. Arriving
    BY <2>2, <2>3 DEF PresenceIInv, WordToCome
  <2>5. QED
    BY <1>1, <2>4 DEF Arriving
<1>8. Counted'
  <2>1. Cardinality(Drops(mail)) = Cardinality(Drops(mail')) + 1
    BY <1>1, <1>3, <1>4, TakenDrops DEF SockTypes
  <2>2. /\ Cardinality(Drops(mail')) \in Nat /\ Cardinality(Socks) \in Nat
        /\ Cardinality(NotClosed(sock)) \in Nat
    <3>1. IsFiniteSet(NotClosed(sock))
      BY FS_Subset DEF NotClosed, SocketConstants
    <3>2. QED
      BY <1>3, <3>1, DropsFinite, FS_CardinalityType DEF SocketConstants
  <2>3. discGen + Cardinality(Drops(mail)) + Cardinality(NotClosed(sock)) <= Cardinality(Socks)
    BY DEF PresenceIInv, Counted
  <2>4. discGen' <= discGen + 1 /\ discGen' \in Nat /\ NotClosed(sock') = NotClosed(sock)
    BY <1>1, <1>2, <1>4
  <2>5. QED
    BY <1>4, <2>1, <2>2, <2>3, <2>4 DEF Counted
<1>9. Begun' /\ Held'
  BY <1>1 DEF PresenceIInv, Begun, Held, Replacing
<1>10. QED
  BY <1>6, <1>7, <1>8, <1>9 DEF PresenceIInv

\* A reconnect clears the flag; a check of the present generation ends the match.
LEMMA HandleOtherKeeps ==
    ASSUME SocketConstants, PresenceIInv, Sockets!HandleReconnect \/ Sockets!HandleForfeitCheck
    PROVE  PresenceIInv'
<1>1. /\ ~forfeited /\ mail # <<>> /\ Head(mail).kind \in {"reconnect", "forfeit_check"}
      /\ mail' = Tail(mail)
      /\ UNCHANGED <<now, sock, conn, discGen, sleepers, awaySince>>
  BY DEF Sockets!HandleReconnect, Sockets!HandleForfeitCheck, Sockets!Took
<1>2. \/ Head(mail).kind = "reconnect" /\ disconnected' = FALSE /\ forfeited' = forfeited
      \/ /\ Head(mail).kind = "forfeit_check" /\ disconnected' = disconnected
         /\ forfeited' = (disconnected /\ discGen = Head(mail).gen)
  BY DEF Sockets!HandleReconnect, Sockets!HandleForfeitCheck, Sockets!StillAway, Sockets!Took
<1>3. /\ mail' \in Seq(Word) /\ mail[1] \in Word /\ mail[1] = Head(mail) /\ 1 \in 1..Len(mail)
      /\ \A i \in 1..Len(mail') : \E j \in 1..Len(mail) : mail'[i] = mail[j]
  BY <1>1, Heard
<1>4. SockTypes /\ Timely
  BY DEF PresenceIInv
<1>5. SockTypes'
  <2>1. disconnected' \in BOOLEAN /\ forfeited' \in BOOLEAN
    BY <1>2, <1>4 DEF SockTypes
  <2>2. QED
    BY <1>1, <1>3, <1>4, <2>1 DEF SockTypes
<1>6. Timely'
  <2>1. forfeited' => now >= awaySince + Grace
    BY <1>1, <1>2, <1>3, <1>4 DEF Timely
  <2>2. QED
    BY <1>1, <1>3, <1>4, <2>1 DEF Timely
<1>7. WordToCome'
  <2> SUFFICES ASSUME LastWordAway(mail', disconnected'), NEW x \in Socks, Sockets!Live(x)'
               PROVE  Arriving'
    BY DEF WordToCome
  <2>1. disconnected \in BOOLEAN /\ disconnected' \in BOOLEAN /\ mail \in Seq(Word)
    BY <1>4, <1>5 DEF SockTypes
  <2>2. disconnected' => disconnected /\ mail[1].kind # "reconnect"
    BY <1>2, <1>3
  <2>3. LastWordAway(mail, disconnected)
    BY <1>1, <2>1, <2>2, TakenWord
  <2>4. Sockets!Live(x)
    BY <1>1 DEF Sockets!Live
  <2>5. Arriving
    BY <2>3, <2>4 DEF PresenceIInv, WordToCome
  <2>6. QED
    BY <1>1, <2>5 DEF Arriving
<1>8. Counted'
  <2>1. Cardinality(Drops(mail)) = Cardinality(Drops(mail'))
    BY <1>1, <1>3, <1>4, TakenDrops DEF SockTypes
  <2>2. QED
    BY <1>1, <2>1 DEF PresenceIInv, Counted
<1>9. Begun' /\ Held'
  BY <1>1 DEF PresenceIInv, Begun, Held, Replacing
<1>10. QED
  BY <1>5, <1>6, <1>7, <1>8, <1>9 DEF PresenceIInv

\* A sleeper of the present generation has slept since the drop.
LEMMA WakeKeeps ==
    ASSUME SocketConstants, PresenceIInv, NEW t \in sleepers, Sockets!Wake(t)
    PROVE  PresenceIInv'
<1> DEFINE e == [kind |-> "forfeit_check", gen |-> t.gen]
<1>1. /\ now >= t.from + Grace /\ mail' = Append(mail, e) /\ sleepers' = sleepers \ {t}
      /\ UNCHANGED <<now, sock, conn, disconnected, discGen, forfeited, awaySince>>
  BY DEF Sockets!Wake, Sockets!Enqueue
<1>2. SockTypes /\ Timely /\ t \in Sleeper
  BY DEF PresenceIInv, SockTypes
<1>3. e \in Word /\ e.kind = "forfeit_check" /\ e.gen = t.gen
  BY <1>2 DEF Word, Sleeper
<1> HIDE DEF e
<1>4. /\ mail' \in Seq(Word) /\ Len(mail) \in Nat /\ Len(mail') = Len(mail) + 1
      /\ mail'[Len(mail) + 1] = e
      /\ \A i \in 1..Len(mail) : mail'[i] = mail[i]
  BY <1>1, <1>2, <1>3, Appended DEF SockTypes
<1>5. SockTypes'
  BY <1>1, <1>2, <1>4 DEF SockTypes
<1>6. Timely'
  <2>1. ASSUME NEW i \in 1..Len(mail')
        PROVE  /\ mail'[i].gen <= discGen
               /\ mail'[i].kind = "forfeit_check" /\ mail'[i].gen = discGen => now >= awaySince + Grace
    <3>1. CASE i = Len(mail) + 1
      BY <1>1, <1>2, <1>3, <1>4, <3>1 DEF Timely
    <3>2. CASE i \in 1..Len(mail)
      BY <1>2, <1>4, <3>2 DEF Timely
    <3>3. QED
      BY <1>4, <3>1, <3>2
  <2>2. QED
    BY <1>1, <1>2, <2>1 DEF Timely
<1>7. WordToCome'
  <2>1. LastWordAway(mail', disconnected) => LastWordAway(mail, disconnected)
    BY <1>1, <1>2, <1>3, AppendedWord DEF SockTypes
  <2>2. QED
    BY <1>1, <2>1 DEF PresenceIInv, WordToCome, Arriving, Sockets!Live
<1>8. Counted'
  <2>1. Cardinality(Drops(mail')) = Cardinality(Drops(mail))
    BY <1>1, <1>2, <1>3, AppendedDrops DEF SockTypes
  <2>2. QED
    BY <1>1, <2>1 DEF PresenceIInv, Counted
<1>9. Begun' /\ Held'
  BY <1>1 DEF PresenceIInv, Begun, Held, Replacing
<1>10. QED
  BY <1>5, <1>6, <1>7, <1>8, <1>9 DEF PresenceIInv

LEMMA ClockKeeps ==
    ASSUME SocketConstants, PresenceIInv, Sockets!Tick \/ UNCHANGED Sockets!vars
    PROVE  PresenceIInv'
<1>1. /\ UNCHANGED <<sock, conn, mail, disconnected, discGen, sleepers, forfeited, awaySince>>
      /\ now' \in Nat /\ now' \in 0..MaxTime /\ now <= now'
  <2>1. now \in 0..MaxTime /\ MaxTime \in Nat
    BY DEF PresenceIInv, SockTypes, SocketConstants
  <2>2. QED
    BY <2>1 DEF Sockets!Tick, Sockets!vars, Sockets!match
<1>2. now \in Nat /\ awaySince \in Nat /\ Grace \in Nat
  BY DEF PresenceIInv, SockTypes, SocketConstants
<1>3. SockTypes'
  BY <1>1 DEF PresenceIInv, SockTypes
<1>4. Timely'
  BY <1>1, <1>2 DEF PresenceIInv, Timely
<1>5. Begun' /\ Held' /\ WordToCome' /\ Counted'
  BY <1>1 DEF PresenceIInv, Begun, Held, Replacing, WordToCome, Arriving, Counted, Sockets!Live
<1>6. QED
  BY <1>3, <1>4, <1>5 DEF PresenceIInv

LEMMA InitPresence == SocketConstants /\ Sockets!Init => PresenceIInv
<1> SUFFICES ASSUME SocketConstants, Sockets!Init PROVE PresenceIInv
  OBVIOUS
<1> DEFINE r == [serve |-> "new", close |-> "no", old |-> None]
<1>1. r \in SockRow /\ r.serve = "new" /\ r.close = "no"
  BY DEF SockRow
<1> HIDE DEF r
<1>2. sock = [c \in Socks |-> r]
  BY DEF Sockets!Init, r
<1>3. sock \in [Socks -> SockRow] /\ \A c \in Socks : sock[c] = r
  BY <1>1, <1>2
<1>4. mail = <<>> /\ Len(mail) = 0 /\ mail \in Seq(Word)
  BY DEF Sockets!Init
<1>5. SockTypes
  <2>1. /\ now = 0 /\ conn = None /\ disconnected = FALSE /\ discGen = 0 /\ sleepers = {}
        /\ forfeited = FALSE /\ awaySince = 0
    BY DEF Sockets!Init
  <2>2. disconnected \in BOOLEAN /\ forfeited \in BOOLEAN /\ sleepers \subseteq Sleeper
    BY <2>1, Zenon
  <2>3. now \in 0..MaxTime /\ awaySince \in 0..MaxTime /\ discGen \in Nat
    BY <2>1 DEF SocketConstants
  <2>4. QED
    BY <1>3, <1>4, <2>1, <2>2, <2>3 DEF SockTypes
<1>6. Begun /\ Held /\ WordToCome
  BY <1>1, <1>3 DEF Begun, Held, WordToCome, Sockets!Live
<1>7. Timely
  BY <1>4 DEF Sockets!Init, Timely
<1>8. Counted
  <2>1. Drops(mail) = {} /\ NotClosed(sock) = Socks
    BY <1>1, <1>3, <1>4 DEF Drops, NotClosed
  <2>2. Cardinality({}) = 0 /\ Cardinality(Socks) \in Nat
    BY FS_EmptySet, FS_CardinalityType DEF SocketConstants
  <2>3. discGen = 0
    BY DEF Sockets!Init
  <2>4. QED
    BY <2>1, <2>2, <2>3 DEF Counted
<1>9. QED
  BY <1>5, <1>6, <1>7, <1>8 DEF PresenceIInv

\* However closes, replacements, reconnects and checks race, for any number of
\* sockets: a player with a live socket is not taken for absent once the match
\* has heard all, the hub's entry is the live socket, and a player forfeits
\* only after a whole grace since the last drop (serveWS, Hub, Conn.Close,
\* handle).
THEOREM PresenceThm ==
    ASSUME SocketConstants
    PROVE  Sockets!Spec => []PresenceInv
<1>1. Sockets!Init => PresenceIInv
  BY InitPresence
<1>2. PresenceIInv /\ [Sockets!Next]_Sockets!vars => PresenceIInv'
  <2> SUFFICES ASSUME PresenceIInv, [Sockets!Next]_Sockets!vars PROVE PresenceIInv'
    OBVIOUS
  <2>1. ASSUME NEW c \in Socks,
               \/ Sockets!Register(c) \/ Sockets!Registered(c) \/ Sockets!OnConnect(c)
               \/ Sockets!Unregister(c) \/ Sockets!ReadRejoin(c) \/ Sockets!HandleRejoin(c)
               \/ Sockets!Close(c) \/ Sockets!OnDisconnect(c) \/ Sockets!NotifyDisconnect(c)
        PROVE  PresenceIInv'
    BY <2>1, SocketStep
  <2>2. CASE Sockets!HandleDisconnect
    BY <2>2, HandleDisconnectKeeps
  <2>3. CASE Sockets!HandleReconnect \/ Sockets!HandleForfeitCheck
    BY <2>3, HandleOtherKeeps
  <2>4. ASSUME NEW t \in sleepers, Sockets!Wake(t) PROVE PresenceIInv'
    BY <2>4, WakeKeeps
  <2>5. CASE Sockets!Tick \/ UNCHANGED Sockets!vars
    BY <2>5, ClockKeeps
  <2>6. QED
    BY <2>1, <2>2, <2>3, <2>4, <2>5 DEF Sockets!Next
<1>3. PresenceIInv => PresenceInv
  <2> SUFFICES ASSUME PresenceIInv PROVE Sockets!PresenceInv
    BY DEF PresenceInv
  <2>1. Sockets!LiveIsConnected
    <3> SUFFICES ASSUME Sockets!Settled, NEW c \in Socks, Sockets!Live(c), disconnected
                 PROVE  FALSE
      BY DEF Sockets!LiveIsConnected, PresenceIInv, SockTypes
    <3>1. LastWordAway(mail, disconnected)
      BY DEF Sockets!Settled, LastWordAway, Quiet
    <3>2. Arriving
      BY <3>1 DEF PresenceIInv, WordToCome
    <3>3. QED
      BY <3>2 DEF Arriving, Sockets!Settled, Sockets!Live
  <2>2. Sockets!Settled => \A c \in Socks : Sockets!Live(c) => conn = c
    BY DEF PresenceIInv, Held, Replacing, Sockets!Settled, Sockets!Live
  <2>3. Sockets!TypeOK
    <3>1. /\ Cardinality(Drops(mail)) \in Nat /\ Cardinality(Socks) \in Nat
          /\ Cardinality(NotClosed(sock)) \in Nat /\ discGen \in Nat
      <4>1. IsFiniteSet(NotClosed(sock))
        BY FS_Subset DEF NotClosed, SocketConstants
      <4>2. QED
        BY <4>1, DropsFinite, FS_CardinalityType DEF SocketConstants, PresenceIInv, SockTypes
    <3>2. discGen <= Cardinality(Socks)
      BY <3>1 DEF PresenceIInv, Counted
    <3>3. \A g \in Nat : g <= discGen => g \in Sockets!Gens
      <4>1. Sockets!Cardinality(Socks) = Cardinality(Socks)
        BY DEF Sockets!Cardinality, Cardinality
      <4>2. QED
        BY <3>1, <3>2, <4>1 DEF Sockets!Gens
    <3>4. sleepers \subseteq [gen : Sockets!Gens, from : 0..MaxTime]
      BY <3>3 DEF PresenceIInv, SockTypes, Timely, Sleeper
    <3>5. mail \in Seq(Sockets!Event)
      <4>1. mail \in Seq(Word)
        BY DEF PresenceIInv, SockTypes
      <4>2. \A i \in 1..Len(mail) : mail[i] \in Sockets!Event
        <5> TAKE i \in 1..Len(mail)
        <5>1. mail[i] \in Word
          BY <4>1
        <5>2. mail[i].gen \in Sockets!Gens
          BY <3>3, <5>1 DEF PresenceIInv, Timely, Word
        <5>3. QED
          BY <5>1, <5>2 DEF Word, Sockets!Event
      <4>3. QED
        BY <4>1, <4>2
    <3>6. QED
      BY <3>1, <3>3, <3>4, <3>5 DEF PresenceIInv, SockTypes, SockRow, Sockets!TypeOK
  <2>4. Sockets!GraceIsWhole
    BY DEF PresenceIInv, Timely, Sockets!GraceIsWhole
  <2>5. QED
    BY <2>1, <2>2, <2>3, <2>4 DEF Sockets!PresenceInv, Sockets!OneLiveConn
<1>4. QED
  BY <1>1, <1>2, <1>3, PTL DEF Sockets!Spec

-----------------------------------------------------------------------------
(***************************************************************************)
(* The lobby, for any players, codes, retries and number of messages; no   *)
(* hypothesis on the constants is needed.                                  *)
(*                                                                         *)
(* A claim is the set of humans it was made for.  The claims being started *)
(* and the duels running are pairwise different (Starting, Duels) and each *)
(* is what all its humans point at, so releasing one or cleaning one up    *)
(* frees nobody else.  A searching screen belongs to an open socket and is *)
(* accounted for (Reachable): the player waits in the queue, is claimed,   *)
(* is a candidate in a joiner's hands, or counts as bumped.                *)
(***************************************************************************)


OpPc == {"idle", "join", "dequeue", "left", "search", "pair", "claim", "start", "code", "read",
         "take", "own", "theirs", "cancel"}
OpKind == {"none", "queue", "leave", "invite", "bot", "friend"}
OpRow == [pc : OpPc, kind : OpKind, with : SUBSET Players, tries : Nat, code : Codes \cup {NoCode},
          seen : {0, 1}]
Screens == {"home", "searching", "hosting", "duel"}
LobbyTypes ==
    /\ marker \in [Players -> Nat] /\ serial \in Nat /\ op \in [Players -> OpRow]
    /\ host \in [Codes -> Players \cup {NoOne}] /\ uses \in [Codes -> Nat]
    /\ inM \in [Players -> SUBSET Players] /\ running \in SUBSET SUBSET Players
    /\ ui \in [Players -> Screens]

\* Whom and which code a handler has in hand.
OpKnows(r) ==
    /\ r.pc \in {"pair", "take", "own", "theirs"} => \E c \in Players : r.with = {c}
    /\ r.pc \in {"read", "take"} => r.code \in Codes
OpsKnow == \A p \in Players : OpKnows(op[p])

Entries == queued \subseteq Players /\ \A p \in Players : marker[p] # 0 => p \in queued
Invites == \A c \in Codes : uses[c] \in {0, 1} /\ (host[c] # NoOne => uses[c] = 0)

Starting ==
    /\ \A q \in Players : op[q].pc = "start" =>
          Lobby!Humans(q) \notin running /\ \A h \in Lobby!Humans(q) : inM[h] = Lobby!Humans(q)
    /\ \A p, q \in Players : op[p].pc = "start" /\ op[q].pc = "start" /\ Lobby!Humans(p) = Lobby!Humans(q)
                             => p = q
Duels ==
    /\ \A m \in running : m # {} /\ \A h \in m : inM[h] = m
    /\ \A x \in Players : inM[x] # {} => x \in inM[x]

InHands(x) == \E q \in Players : op[q].pc \in {"pair", "claim"} /\ x \in op[q].with
Accounted(x) == marker[x] # 0 \/ inM[x] # {} \/ x \in bumped \/ InHands(x)
Reachable == \A x \in Players : ui[x] = "searching" => x \in alive /\ Accounted(x)

LobbyIInv ==
    /\ LobbyTypes /\ OpsKnow /\ Entries /\ Invites /\ Starting /\ Duels /\ Lobby!ClaimsStand /\ Reachable

LEMMA LobbyImplies ==
    ASSUME LobbyIInv
    PROVE  Lobby!LobbyInv
<1>1. Lobby!OneDuel
  BY DEF LobbyIInv, Duels, Lobby!OneDuel
<1>2. Lobby!InviteOnce
  BY DEF LobbyIInv, Invites, Lobby!InviteOnce
<1>3. Lobby!NobodyForgotten
  <2> SUFFICES ASSUME NEW x \in Players, ui[x] = "searching"
               PROVE  (x \in queued /\ marker[x] # 0) \/ Lobby!InHand(x) \/ x \in bumped
    BY DEF Lobby!NobodyForgotten
  <2>1. Accounted(x) /\ (marker[x] # 0 => x \in queued)
    BY DEF LobbyIInv, Reachable, Entries
  <2>2. inM[x] # {} \/ InHands(x) => Lobby!InHand(x)
    BY DEF InHands, Lobby!InHand, Lobby!InMatch
  <2>3. QED
    BY <2>1, <2>2 DEF Accounted
<1>4. QED
  BY <1>1, <1>2, <1>3 DEF LobbyIInv, Lobby!LobbyInv

-----------------------------------------------------------------------------
(* One handler moves on: the player p's, to the row n.                      *)

LEMMA LobbyIdle ==
    /\ Lobby!Idle \in OpRow /\ Lobby!Idle.pc = "idle" /\ OpKnows(Lobby!Idle)
    /\ Lobby!Idle.with = {} /\ Lobby!Idle.code = NoCode
  BY DEF Lobby!Idle, OpRow, OpPc, OpKind, OpKnows

LEMMA OpMoves ==
    ASSUME LobbyTypes, NEW p \in Players, NEW n \in OpRow, op' = [op EXCEPT ![p] = n]
    PROVE  /\ op' \in [Players -> OpRow] /\ op'[p] = n
           /\ \A q \in Players : q # p => op'[q] = op[q]
  BY DEF LobbyTypes

LEMMA OpStays ==
    ASSUME LobbyTypes, NEW p \in Players, UNCHANGED op
    PROVE  op[p] \in OpRow /\ op' = [op EXCEPT ![p] = op[p]]
  BY DEF LobbyTypes

\* No claim is made or undone by a step outside the start of a duel.
LEMMA ClaimsKeep ==
    ASSUME LobbyIInv, NEW p \in Players, NEW n \in OpRow, op' = [op EXCEPT ![p] = n],
           n = op[p] \/ (op[p].pc # "start" /\ n.pc # "start"), UNCHANGED <<inM, running>>
    PROVE  Starting' /\ Duels' /\ Lobby!ClaimsStand'
<1>1. LobbyTypes /\ Starting /\ Duels /\ Lobby!ClaimsStand
  BY DEF LobbyIInv
<1>2. op'[p] = n /\ \A q \in Players : q # p => op'[q] = op[q]
  BY <1>1, OpMoves
<1>3. \A q \in Players : /\ op'[q].pc = "start" <=> op[q].pc = "start"
                         /\ op[q].pc = "start" => Lobby!Humans(q)' = Lobby!Humans(q)
  BY <1>2 DEF Lobby!Humans
<1>4. Starting'
  BY <1>1, <1>3 DEF Starting
<1>5. Duels'
  BY <1>1 DEF Duels
<1>6. Lobby!ClaimsStand'
  <2> SUFFICES ASSUME NEW x \in Players, inM[x] # {}
               PROVE  inM[x] \in running \/ \E q \in inM[x] : op'[q].pc = "start" /\ Lobby!Humans(q)' = inM[x]
    BY DEF Lobby!ClaimsStand, Lobby!InMatch
  <2>1. inM[x] \in running \/ \E q \in inM[x] : op[q].pc = "start" /\ Lobby!Humans(q) = inM[x]
    BY <1>1 DEF Lobby!ClaimsStand, Lobby!InMatch
  <2>2. inM[x] \subseteq Players
    BY <1>1 DEF LobbyTypes
  <2>3. QED
    BY <1>3, <2>1, <2>2
<1>7. QED
  BY <1>4, <1>5, <1>6

\* x's screen, if it searches, is accounted for anew, or as it was.
Kept(x, p, n) ==
    ui'[x] = "searching" =>
        \/ /\ x \in alive'
           /\ \/ marker'[x] # 0 \/ inM'[x] # {} \/ x \in bumped'
              \/ n.pc \in {"pair", "claim"} /\ x \in n.with
        \/ /\ ui[x] = "searching" /\ (x \in alive => x \in alive')
           /\ (marker[x] # 0 => marker'[x] # 0) /\ (inM[x] # {} => inM'[x] # {})
           /\ (x \in bumped => x \in bumped')
           /\ op[p].pc \in {"pair", "claim"} /\ x \in op[p].with => n.pc \in {"pair", "claim"} /\ x \in n.with

LEMMA ReachKeeps ==
    ASSUME LobbyTypes, Reachable, NEW p \in Players, NEW n \in OpRow, op' = [op EXCEPT ![p] = n],
           \A x \in Players : Kept(x, p, n)
    PROVE  Reachable'
<1>1. op'[p] = n /\ \A q \in Players : q # p => op'[q] = op[q]
  BY OpMoves
<1> SUFFICES ASSUME NEW x \in Players, ui'[x] = "searching"
             PROVE  x \in alive' /\ Accounted(x)'
  BY DEF Reachable
<1>2. CASE /\ x \in alive'
           /\ \/ marker'[x] # 0 \/ inM'[x] # {} \/ x \in bumped'
              \/ n.pc \in {"pair", "claim"} /\ x \in n.with
  BY <1>1, <1>2 DEF Accounted, InHands
<1>3. CASE /\ ui[x] = "searching" /\ (x \in alive => x \in alive')
           /\ (marker[x] # 0 => marker'[x] # 0) /\ (inM[x] # {} => inM'[x] # {})
           /\ (x \in bumped => x \in bumped')
           /\ op[p].pc \in {"pair", "claim"} /\ x \in op[p].with => n.pc \in {"pair", "claim"} /\ x \in n.with
  <2>1. x \in alive' /\ Accounted(x)
    BY <1>3 DEF Reachable
  <2>2. ASSUME InHands(x) PROVE InHands(x)'
    <3>1. PICK q \in Players : op[q].pc \in {"pair", "claim"} /\ x \in op[q].with
      BY <2>2 DEF InHands
    <3>2. op'[q].pc \in {"pair", "claim"} /\ x \in op'[q].with
      <4>1. CASE q = p
        BY <1>1, <1>3, <3>1, <4>1
      <4>2. CASE q # p
        BY <1>1, <3>1, <4>2
      <4>3. QED
        BY <4>1, <4>2
    <3>3. QED
      BY <3>2 DEF InHands
  <2>3. QED
    BY <1>3, <2>1, <2>2 DEF Accounted
<1>4. QED
  BY <1>2, <1>3 DEF Kept

\* A step that neither claims nor frees anybody.
LEMMA QuietStep ==
    ASSUME LobbyIInv, NEW p \in Players, NEW n \in OpRow, op' = [op EXCEPT ![p] = n],
           n = op[p] \/ (op[p].pc # "start" /\ n.pc # "start" /\ OpKnows(n)),
           UNCHANGED <<inM, running>>, \A x \in Players : Kept(x, p, n),
           marker' \in [Players -> Nat], serial' \in Nat, ui' \in [Players -> Screens],
           host' \in [Codes -> Players \cup {NoOne}], uses' \in [Codes -> Nat], Entries', Invites'
    PROVE  LobbyIInv'
<1>1. LobbyTypes /\ OpsKnow /\ Reachable
  BY DEF LobbyIInv
<1>2. op' \in [Players -> OpRow] /\ op'[p] = n /\ \A q \in Players : q # p => op'[q] = op[q]
  BY <1>1, OpMoves
<1>3. LobbyTypes'
  BY <1>1, <1>2 DEF LobbyTypes
<1>4. OpsKnow'
  <2>1. OpKnows(n)
    BY <1>1 DEF OpsKnow
  <2>2. \A q \in Players : OpKnows(op'[q])
    BY <1>1, <1>2, <2>1 DEF OpsKnow
  <2>3. QED
    BY <2>2 DEF OpsKnow, OpKnows
<1>5. Reachable'
  BY <1>1, ReachKeeps
<1>6. Starting' /\ Duels' /\ Lobby!ClaimsStand'
  BY ClaimsKeep
<1>7. QED
  BY <1>3, <1>4, <1>5, <1>6 DEF LobbyIInv

\* The Redis keys that a step leaves alone keep what is known of them.
LEMMA RedisStays ==
    ASSUME LobbyIInv
    PROVE  /\ UNCHANGED <<queued, marker, serial>> => marker' \in [Players -> Nat] /\ serial' \in Nat /\ Entries'
           /\ UNCHANGED <<host, uses>> =>
                 host' \in [Codes -> Players \cup {NoOne}] /\ uses' \in [Codes -> Nat] /\ Invites'
           /\ UNCHANGED ui => ui' \in [Players -> Screens]
  BY DEF LobbyIInv, LobbyTypes, Entries, Invites

\* dequeue: the entry goes and its marker with it.
LEMMA DequeuedKeeps ==
    ASSUME LobbyIInv, NEW x, Lobby!Dequeued(x), UNCHANGED serial
    PROVE  /\ marker' \in [Players -> Nat] /\ serial' \in Nat /\ Entries'
           /\ \A y \in Players : y # x => marker'[y] = marker[y]
           /\ x \in Players => marker'[x] = 0
<1>1. LobbyTypes /\ Entries
  BY DEF LobbyIInv
<1>2. queued' = queued \ {x} /\ marker' = [marker EXCEPT ![x] = 0]
  BY DEF Lobby!Dequeued
<1>3. /\ marker' \in [Players -> Nat] /\ serial' \in Nat /\ \A y \in Players : y # x => marker'[y] = marker[y]
      /\ x \in Players => marker'[x] = 0
  BY <1>1, <1>2 DEF LobbyTypes
<1>4. QED
  BY <1>1, <1>2, <1>3 DEF Entries

\* One screen changes.
LEMMA ScreenMoves ==
    ASSUME LobbyIInv, NEW x, NEW v \in Screens, ui' = [ui EXCEPT ![x] = v]
    PROVE  /\ ui' \in [Players -> Screens] /\ (x \in Players => ui'[x] = v)
           /\ \A y \in Players : y # x => ui'[y] = ui[y]
  BY DEF LobbyIInv, LobbyTypes

\* A screen that showed w is sent home.
LEMMA ScreenHome ==
    ASSUME LobbyIInv, NEW x, NEW w \in {"searching", "hosting"},
           ui' = [ui EXCEPT ![x] = IF @ = w THEN "home" ELSE @]
    PROVE  /\ ui' \in [Players -> Screens] /\ \A y \in Players : ui'[y] = "searching" => ui[y] = "searching"
           /\ w = "searching" /\ x \in Players => ui'[x] # "searching"
<1>1. ui \in [Players -> Screens] /\ "home" \in Screens
  BY DEF LobbyIInv, LobbyTypes, Screens
<1>2. QED
  BY <1>1

LEMMA CancelKeeps ==
    ASSUME LobbyIInv, NEW p \in Players, Lobby!cancelInvite(p), UNCHANGED uses
    PROVE  host' \in [Codes -> Players \cup {NoOne}] /\ uses' \in [Codes -> Nat] /\ Invites'
<1>1. /\ host \in [Codes -> Players \cup {NoOne}] /\ uses \in [Codes -> Nat]
      /\ Invites
  BY DEF LobbyIInv, LobbyTypes
<1>2. host' = [c \in Codes |-> IF c = hostCode[p] /\ host[c] = p THEN NoOne ELSE host[c]]
  BY DEF Lobby!cancelInvite
<1>3. \A c \in Codes : host'[c] \in {NoOne, host[c]}
  BY <1>2
<1>4. host' \in [Codes -> Players \cup {NoOne}]
  BY <1>1, <1>2
<1>5. Invites'
  BY <1>1, <1>3 DEF Invites
<1>6. QED
  BY <1>1, <1>4, <1>5

-----------------------------------------------------------------------------
(* Sockets, messages and timers.                                            *)

LEMMA SocketsKeep ==
    ASSUME LobbyIInv, NEW p \in Players,
           Lobby!MintTicket(p) \/ Lobby!serveWS(p) \/ Lobby!Disconnect(p) \/ Lobby!ReadMarker(p)
    PROVE  LobbyIInv'
<1>1. UNCHANGED <<queued, marker, serial, host, uses, inM, running, op, bumped>>
  BY DEF Lobby!MintTicket, Lobby!serveWS, Lobby!Disconnect, Lobby!ReadMarker, Lobby!redis, Lobby!net
<1>2. op[p] \in OpRow /\ op' = [op EXCEPT ![p] = op[p]]
  BY <1>1, OpStays DEF LobbyIInv
<1>3. ui' \in [Players -> Screens] /\ \A x \in Players : Kept(x, p, op[p])
  <2>1. CASE Lobby!Disconnect(p)
    <3>1. alive' = alive \ {p} /\ ui' = [ui EXCEPT ![p] = "home"] /\ "home" \in Screens
      BY <2>1 DEF Lobby!Disconnect, Screens
    <3>2. ui' \in [Players -> Screens] /\ ui'[p] = "home" /\ \A y \in Players : y # p => ui'[y] = ui[y]
      BY <3>1, ScreenMoves
    <3>3. QED
      BY <1>1, <3>1, <3>2 DEF Kept
  <2>2. CASE Lobby!MintTicket(p) \/ Lobby!serveWS(p) \/ Lobby!ReadMarker(p)
    <3>1. ui' = ui /\ alive \subseteq alive'
      BY <2>2 DEF Lobby!MintTicket, Lobby!serveWS, Lobby!ReadMarker, Lobby!net
    <3>2. QED
      BY <1>1, <3>1, RedisStays DEF Kept
  <2>3. QED
    BY <2>1, <2>2
<1>4. QED
  BY <1>1, <1>2, <1>3, RedisStays, QuietStep

LEMMA OnDisconnectKeeps ==
    ASSUME LobbyIInv, NEW p \in Players, Lobby!OnDisconnect(p)
    PROVE  LobbyIInv'
<1>1. /\ Lobby!Dequeued(p) /\ bumped' = bumped \cup {q \in {p} : ui[q] = "searching" /\ marker[q] # 0}
      /\ UNCHANGED <<alive, serial, host, uses, inM, running, op, ui>>
  BY DEF Lobby!OnDisconnect, Lobby!net
<1>2. op[p] \in OpRow /\ op' = [op EXCEPT ![p] = op[p]]
  BY <1>1, OpStays DEF LobbyIInv
<1>3. /\ marker' \in [Players -> Nat] /\ serial' \in Nat /\ Entries'
      /\ \A y \in Players : y # p => marker'[y] = marker[y]
  BY <1>1, DequeuedKeeps
<1>4. \A x \in Players : Kept(x, p, op[p])
  <2> SUFFICES ASSUME NEW x \in Players PROVE Kept(x, p, op[p])
    OBVIOUS
  <2>1. CASE x # p
    BY <1>1, <1>3, <2>1 DEF Kept
  <2>2. CASE x = p /\ marker[p] = 0
    BY <1>1, <2>2 DEF Kept
  <2>3. CASE x = p /\ marker[p] # 0
    <3>1. ui[x] = "searching" => x \in bumped' /\ x \in alive
      BY <1>1, <2>3 DEF LobbyIInv, Reachable
    <3>2. QED
      BY <1>1, <3>1 DEF Kept
  <2>4. QED
    BY <2>1, <2>2, <2>3
<1>5. QED
  BY <1>1, <1>2, <1>3, <1>4, RedisStays, QuietStep

LEMMA MessageKeeps ==
    ASSUME LobbyIInv, NEW p \in Players, NEW k \in OpKind, NEW pc \in OpPc, NEW code \in Codes \cup {NoCode},
           pc \in {"join", "dequeue"} \/ (pc = "read" /\ code \in Codes), Lobby!HandleClient(p, k, pc, code)
    PROVE  LobbyIInv'
<1> DEFINE n == [Lobby!Idle EXCEPT !.pc = pc, !.kind = k, !.code = code]
<1>1. /\ op[p] = Lobby!Idle /\ op' = [op EXCEPT ![p] = n]
      /\ UNCHANGED <<alive, queued, marker, serial, host, uses, inM, running, ui, bumped>>
  BY DEF Lobby!HandleClient, Lobby!net, Lobby!redis
<1>2. n \in OpRow /\ n.pc = pc /\ n.code = code
  BY LobbyIdle DEF OpRow
<1> HIDE DEF n
<1>3. op[p].pc = "idle"
  BY <1>1, LobbyIdle
<1>4. OpKnows(n) /\ n.pc # "start"
  BY <1>2 DEF OpKnows
<1>5. \A x \in Players : Kept(x, p, n)
  BY <1>1, <1>3 DEF Kept
<1>6. QED
  BY <1>1, <1>2, <1>3, <1>4, <1>5, RedisStays, QuietStep

LEMMA CancelInviteKeeps ==
    ASSUME LobbyIInv, NEW p \in Players, Lobby!CancelInvite(p)
    PROVE  LobbyIInv'
<1>1. /\ Lobby!cancelInvite(p) /\ ui' = [ui EXCEPT ![p] = IF @ = "hosting" THEN "home" ELSE @]
      /\ UNCHANGED <<alive, queued, marker, serial, uses, inM, running, op, bumped>>
  BY DEF Lobby!CancelInvite, Lobby!net
<1>2. op[p] \in OpRow /\ op' = [op EXCEPT ![p] = op[p]]
  BY <1>1, OpStays DEF LobbyIInv
<1>3. ui' \in [Players -> Screens] /\ \A y \in Players : ui'[y] = "searching" => ui[y] = "searching"
  BY <1>1, ScreenHome
<1>4. \A x \in Players : Kept(x, p, op[p])
  BY <1>1, <1>3 DEF Kept
<1>5. host' \in [Codes -> Players \cup {NoOne}] /\ uses' \in [Codes -> Nat] /\ Invites'
  BY <1>1, CancelKeeps
<1>6. QED
  BY <1>1, <1>2, <1>3, <1>4, <1>5, RedisStays, QuietStep

LEMMA TimeoutKeeps ==
    ASSUME LobbyIInv, NEW t, Lobby!watchQueueTimeout(t), NEW p \in Players
    PROVE  LobbyIInv'
<1>1. UNCHANGED <<alive, serial, host, uses, inM, running, op, bumped>>
  BY DEF Lobby!watchQueueTimeout, Lobby!net
<1>2. op[p] \in OpRow /\ op' = [op EXCEPT ![p] = op[p]]
  BY <1>1, OpStays DEF LobbyIInv
<1>3. CASE UNCHANGED <<queued, marker, ui>>
  <2>1. \A x \in Players : Kept(x, p, op[p])
    BY <1>1, <1>3 DEF Kept
  <2>2. QED
    BY <1>1, <1>2, <1>3, <2>1, RedisStays, QuietStep
<1>4. CASE Lobby!Dequeued(t[1]) /\ ui' = [ui EXCEPT ![t[1]] = IF @ = "searching" THEN "home" ELSE @]
  <2> DEFINE y == t[1]
  <2>1. Lobby!Dequeued(y) /\ ui' = [ui EXCEPT ![y] = IF @ = "searching" THEN "home" ELSE @]
    BY <1>4
  <2> HIDE DEF y
  <2>2. /\ marker' \in [Players -> Nat] /\ serial' \in Nat /\ Entries'
        /\ \A x \in Players : x # y => marker'[x] = marker[x]
    BY <1>1, <2>1, DequeuedKeeps
  <2>3. /\ ui' \in [Players -> Screens] /\ \A x \in Players : ui'[x] = "searching" => ui[x] = "searching"
        /\ y \in Players => ui'[y] # "searching"
    BY <2>1, ScreenHome
  <2>4. \A x \in Players : Kept(x, p, op[p])
    BY <1>1, <2>2, <2>3 DEF Kept
  <2>5. QED
    BY <1>1, <1>2, <2>2, <2>3, <2>4, RedisStays, QuietStep
<1>5. QED
  BY <1>3, <1>4 DEF Lobby!watchQueueTimeout

\* A handler dequeues its own player and goes on.
LEMMA DequeueSelfKeeps ==
    ASSUME LobbyIInv, NEW p \in Players, NEW from \in {"dequeue", "own"}, NEW pc \in {"left", "code", "cancel", "theirs"},
           pc = "theirs" => from = "own", Lobby!DequeueSelf(p, from, pc)
    PROVE  LobbyIInv'
<1>1. /\ op[p].pc = from /\ op[p] \in OpRow /\ OpKnows(op[p])
      /\ UNCHANGED <<alive, serial, host, uses, inM, running, bumped>>
  BY DEF Lobby!DequeueSelf, Lobby!net, LobbyIInv, LobbyTypes, OpsKnow
<1>2. from \in OpPc /\ pc \in OpPc /\ pc # "start" /\ from # "start" /\ from \notin {"pair", "claim"}
  BY DEF OpPc
<1>3. ASSUME NEW n \in OpRow, n.pc \in {from, pc}, n.with = op[p].with
      PROVE  OpKnows(n) /\ n.pc # "start"
  BY <1>1, <1>2, <1>3 DEF OpKnows
<1>4. ASSUME op' = [op EXCEPT ![p].seen = 1], UNCHANGED <<queued, marker, ui>> PROVE LobbyIInv'
  <2> DEFINE n == [op[p] EXCEPT !.seen = 1]
  <2>1. n \in OpRow /\ n.pc = from /\ n.with = op[p].with /\ op' = [op EXCEPT ![p] = n]
    BY <1>1, <1>4 DEF OpRow
  <2> HIDE DEF n
  <2>2. \A x \in Players : Kept(x, p, n)
    BY <1>1, <1>2, <1>4, <2>1 DEF Kept
  <2>3. QED
    BY <1>1, <1>2, <1>3, <1>4, <2>1, <2>2, RedisStays, QuietStep
<1>5. ASSUME Lobby!Step(p, pc), UNCHANGED <<queued, marker, ui>> PROVE LobbyIInv'
  <2> DEFINE n == [op[p] EXCEPT !.pc = pc]
  <2>1. n \in OpRow /\ n.pc = pc /\ n.with = op[p].with /\ op' = [op EXCEPT ![p] = n]
    BY <1>1, <1>2, <1>5 DEF OpRow, Lobby!Step
  <2> HIDE DEF n
  <2>2. \A x \in Players : Kept(x, p, n)
    BY <1>1, <1>2, <1>5, <2>1 DEF Kept
  <2>3. QED
    BY <1>1, <1>2, <1>3, <1>5, <2>1, <2>2, RedisStays, QuietStep
<1>6. ASSUME Lobby!Dequeued(p), op' = [op EXCEPT ![p] = [@ EXCEPT !.pc = pc, !.seen = 0]],
             ui' = [ui EXCEPT ![p] = IF @ = "searching" THEN "home" ELSE @]
      PROVE  LobbyIInv'
  <2> DEFINE n == [op[p] EXCEPT !.pc = pc, !.seen = 0]
  <2>1. n \in OpRow /\ n.pc = pc /\ n.with = op[p].with /\ op' = [op EXCEPT ![p] = n]
    BY <1>1, <1>2, <1>6 DEF OpRow
  <2> HIDE DEF n
  <2>2. /\ marker' \in [Players -> Nat] /\ serial' \in Nat /\ Entries'
        /\ \A x \in Players : x # p => marker'[x] = marker[x]
    BY <1>1, <1>6, DequeuedKeeps
  <2>3. /\ ui' \in [Players -> Screens] /\ \A x \in Players : ui'[x] = "searching" => ui[x] = "searching"
        /\ ui'[p] # "searching"
    BY <1>6, ScreenHome
  <2>4. \A x \in Players : Kept(x, p, n)
    BY <1>1, <1>2, <2>2, <2>3 DEF Kept
  <2>5. QED
    BY <1>1, <1>2, <1>3, <2>1, <2>2, <2>3, <2>4, RedisStays, QuietStep
<1>7. QED
  BY <1>4, <1>5, <1>6 DEF Lobby!DequeueSelf

-----------------------------------------------------------------------------
(* The queue.                                                               *)

\* The handler goes on or ends; nothing else moves but screens going home.
LEMMA HandlerMoves ==
    ASSUME LobbyIInv, NEW p \in Players, NEW n \in OpRow, op' = [op EXCEPT ![p] = n],
           op[p].pc \notin {"pair", "claim", "start"}, n.pc # "start", OpKnows(n),
           ui' \in [Players -> Screens], \A y \in Players : ui'[y] = "searching" => ui[y] = "searching",
           UNCHANGED <<alive, queued, marker, serial, host, uses, inM, running, bumped>>
    PROVE  LobbyIInv'
<1>1. \A x \in Players : Kept(x, p, n)
  BY DEF Kept
<1>2. QED
  BY <1>1, RedisStays, QuietStep

LEMMA LeaveKeeps ==
    ASSUME LobbyIInv, NEW p \in Players, Lobby!LeaveQueue(p)
    PROVE  LobbyIInv'
<1>1. CASE Lobby!DequeueSelf(p, "dequeue", "left")
  BY <1>1, DequeueSelfKeeps
<1>2. CASE op[p].pc = "left" /\ Lobby!Done(p)
           /\ ui' = [ui EXCEPT ![p] = IF @ = "searching" THEN "home" ELSE @]
           /\ UNCHANGED <<Lobby!net, Lobby!redis, timers, inM, running, closing, bumped, ops>>
  <2>1. ui' \in [Players -> Screens] /\ \A y \in Players : ui'[y] = "searching" => ui[y] = "searching"
    BY <1>2, ScreenHome
  <2>2. /\ op' = [op EXCEPT ![p] = Lobby!Idle]
        /\ UNCHANGED <<alive, queued, marker, serial, host, uses, inM, running, bumped>>
    BY <1>2 DEF Lobby!Done, Lobby!net, Lobby!redis
  <2>3. QED
    BY <1>2, <2>1, <2>2, LobbyIdle, HandlerMoves
<1>3. QED
  BY <1>1, <1>2 DEF Lobby!LeaveQueue

LEMMA JoinQueueKeeps ==
    ASSUME LobbyIInv, NEW p \in Players, Lobby!JoinQueue(p)
    PROVE  LobbyIInv'
<1>1. /\ op[p].pc = "join" /\ op[p] \in OpRow
      /\ UNCHANGED <<alive, queued, marker, serial, uses, inM, running, bumped>>
  BY DEF Lobby!JoinQueue, Lobby!net, LobbyIInv, LobbyTypes
<1>2. CASE Lobby!Done(p) /\ UNCHANGED <<host, hostCode, ui>>
  <2>1. ui' \in [Players -> Screens] /\ \A y \in Players : ui'[y] = "searching" => ui[y] = "searching"
    BY <1>2, RedisStays
  <2>2. QED
    BY <1>1, <1>2, <2>1, LobbyIdle, HandlerMoves DEF Lobby!Done
<1>3. CASE Lobby!cancelInvite(p) /\ Lobby!Step(p, "search")
           /\ ui' = [ui EXCEPT ![p] = IF @ = "hosting" THEN "home" ELSE @]
  <2> DEFINE n == [op[p] EXCEPT !.pc = "search"]
  <2>1. "search" \in OpPc
    BY DEF OpPc
  <2>2. n \in OpRow /\ n.pc = "search" /\ op' = [op EXCEPT ![p] = n]
    BY <1>1, <1>3, <2>1 DEF OpRow, Lobby!Step
  <2> HIDE DEF n
  <2>3. OpKnows(n)
    BY <2>2 DEF OpKnows
  <2>4. ui' \in [Players -> Screens] /\ \A y \in Players : ui'[y] = "searching" => ui[y] = "searching"
    BY <1>3, ScreenHome
  <2>5. \A x \in Players : Kept(x, p, n)
    BY <1>1, <2>4 DEF Kept
  <2>6. host' \in [Codes -> Players \cup {NoOne}] /\ uses' \in [Codes -> Nat] /\ Invites'
    BY <1>1, <1>3, CancelKeeps
  <2>7. QED
    BY <1>1, <2>2, <2>3, <2>4, <2>5, <2>6, RedisStays, QuietStep
<1>4. QED
  BY <1>2, <1>3 DEF Lobby!JoinQueue

LEMMA JoinLuaKeeps ==
    ASSUME LobbyIInv, NEW p \in Players, Lobby!arenaJoinLua(p)
    PROVE  LobbyIInv'
<1>1. /\ op[p].pc = "search" /\ op[p] \in OpRow /\ marker \in [Players -> Nat] /\ serial \in Nat /\ Entries
      /\ ui \in [Players -> Screens] /\ Reachable
      /\ UNCHANGED <<alive, host, uses, inM, running, bumped>>
  BY DEF Lobby!arenaJoinLua, Lobby!net, LobbyIInv, LobbyTypes
<1>2. CASE \E c \in (queued \ Lobby!Ghosts) \ {p} :
             /\ queued' = queued \ {c} /\ marker' = [marker EXCEPT ![c] = 0]
             /\ op' = [op EXCEPT ![p] = [@ EXCEPT !.pc = "pair", !.with = {c}]]
             /\ UNCHANGED <<serial, timers, ui>>
  <2>1. PICK c \in (queued \ Lobby!Ghosts) \ {p} :
             /\ queued' = queued \ {c} /\ marker' = [marker EXCEPT ![c] = 0]
             /\ op' = [op EXCEPT ![p] = [@ EXCEPT !.pc = "pair", !.with = {c}]]
             /\ UNCHANGED <<serial, timers, ui>>
    BY <1>2
  <2>2. c \in Players
    BY <1>1 DEF Entries
  <2> DEFINE n == [op[p] EXCEPT !.pc = "pair", !.with = {c}]
  <2>3. "pair" \in OpPc /\ {c} \in SUBSET Players
    BY <2>2 DEF OpPc
  <2>4. n \in OpRow /\ n.pc = "pair" /\ n.with = {c} /\ op' = [op EXCEPT ![p] = n]
    BY <1>1, <2>1, <2>3 DEF OpRow
  <2> HIDE DEF n
  <2>5. OpKnows(n)
    BY <2>2, <2>4 DEF OpKnows
  <2>6. /\ marker' \in [Players -> Nat] /\ serial' \in Nat /\ Entries'
        /\ \A x \in Players : x # c => marker'[x] = marker[x]
    <3>1. Lobby!Dequeued(c)
      BY <2>1 DEF Lobby!Dequeued
    <3>2. QED
      BY <2>1, <3>1, DequeuedKeeps
  <2>7. \A x \in Players : Kept(x, p, n)
    BY <1>1, <2>1, <2>4, <2>6 DEF Kept, Reachable
  <2>8. QED
    BY <1>1, <2>1, <2>4, <2>5, <2>6, <2>7, RedisStays, QuietStep
<1>3. CASE /\ serial' = serial + 1 /\ queued' = (queued \ Lobby!Ghosts) \cup {p}
           /\ marker' = [marker EXCEPT ![p] = serial + 1]
           /\ ui' = IF p \in alive THEN [ui EXCEPT ![p] = "searching"] ELSE ui
           /\ Lobby!Done(p)
  <2>1. op' = [op EXCEPT ![p] = Lobby!Idle]
    BY <1>3 DEF Lobby!Done
  <2>2. serial' \in Nat /\ serial + 1 \in Nat /\ serial + 1 # 0
    BY <1>1, <1>3
  <2>3. /\ marker' \in [Players -> Nat] /\ marker'[p] # 0 /\ \A x \in Players : x # p => marker'[x] = marker[x]
    BY <1>1, <1>3, <2>2
  <2>4. Entries'
    <3>1. \A x \in Players : marker[x] # 0 => x \in queued /\ x \notin Lobby!Ghosts
      BY <1>1 DEF Entries, Lobby!Ghosts
    <3>2. queued' \subseteq Players
      BY <1>1, <1>3 DEF Entries
    <3>3. \A x \in Players : marker'[x] # 0 => x \in queued'
      BY <1>3, <2>3, <3>1
    <3>4. QED
      BY <3>2, <3>3 DEF Entries
  <2>5. /\ ui' \in [Players -> Screens] /\ (p \notin alive => ui'[p] = ui[p])
        /\ \A x \in Players : x # p => ui'[x] = ui[x]
    <3>1. "searching" \in Screens
      BY DEF Screens
    <3>2. QED
      BY <1>1, <1>3, <3>1
  <2>6. \A x \in Players : Kept(x, p, Lobby!Idle)
    <3> SUFFICES ASSUME NEW x \in Players PROVE Kept(x, p, Lobby!Idle)
      OBVIOUS
    <3>1. CASE x = p
      BY <1>1, <2>3, <2>5, <3>1 DEF Kept, Reachable
    <3>2. CASE x # p
      BY <1>1, <2>3, <2>5, <3>2 DEF Kept
    <3>3. QED
      BY <3>1, <3>2
  <2>7. QED
    BY <1>1, <2>1, <2>2, <2>3, <2>4, <2>5, <2>6, LobbyIdle, RedisStays, QuietStep
<1>4. QED
  BY <1>2, <1>3 DEF Lobby!arenaJoinLua

\* The handler drops its candidate and searches again, or gives up.
LEMMA RetryRow ==
    ASSUME LobbyTypes, NEW p \in Players, Lobby!Retry(p)
    PROVE  \E n \in OpRow : op' = [op EXCEPT ![p] = n] /\ n.pc \in {"search", "idle"} /\ OpKnows(n)
<1>1. op[p] \in OpRow /\ op[p].tries \in Nat
  BY DEF LobbyTypes, OpRow
<1> DEFINE m == op[p].tries + 1
           s == [op[p] EXCEPT !.pc = "search", !.with = {}, !.tries = m]
<1>2. m \in Nat /\ "search" \in OpPc
  BY <1>1 DEF OpPc
<1>3. op' = [op EXCEPT ![p] = IF m < MaxAttempts THEN s ELSE Lobby!Idle]
  BY DEF Lobby!Retry
<1> HIDE DEF m
<1>4. s \in OpRow /\ s.pc = "search"
  BY <1>1, <1>2 DEF OpRow
<1> HIDE DEF s
<1>5. OpKnows(s)
  BY <1>4 DEF OpKnows
<1>6. QED
  BY <1>3, <1>4, <1>5, LobbyIdle

LEMMA CheckCandidateKeeps ==
    ASSUME LobbyIInv, NEW p \in Players, Lobby!CheckCandidate(p)
    PROVE  LobbyIInv'
<1>1. /\ op[p].pc = "pair" /\ op[p] \in OpRow /\ OpKnows(op[p]) /\ LobbyTypes /\ Reachable
      /\ UNCHANGED <<alive, queued, marker, serial, host, uses, inM, running, ui, bumped>>
  BY DEF Lobby!CheckCandidate, Lobby!net, Lobby!redis, LobbyIInv, LobbyTypes, OpsKnow
<1>2. CASE Lobby!Step(p, "claim")
  <2> DEFINE n == [op[p] EXCEPT !.pc = "claim"]
  <2>1. "claim" \in OpPc
    BY DEF OpPc
  <2>2. n \in OpRow /\ n.pc = "claim" /\ n.with = op[p].with /\ op' = [op EXCEPT ![p] = n]
    BY <1>1, <1>2, <2>1 DEF OpRow, Lobby!Step
  <2> HIDE DEF n
  <2>3. OpKnows(n)
    BY <2>2 DEF OpKnows
  <2>4. \A x \in Players : Kept(x, p, n)
    BY <1>1, <2>2 DEF Kept
  <2>5. QED
    BY <1>1, <2>2, <2>3, <2>4, RedisStays, QuietStep
<1>3. CASE ~(\A c \in op[p].with : Lobby!Fits(c)) /\ Lobby!Retry(p)
  <2>1. PICK n \in OpRow : op' = [op EXCEPT ![p] = n] /\ n.pc \in {"search", "idle"} /\ OpKnows(n)
    BY <1>1, <1>3, RetryRow
  <2>2. PICK c \in Players : op[p].with = {c}
    BY <1>1 DEF OpKnows
  <2>3. c \notin alive \/ inM[c] # {}
    BY <1>3, <2>2 DEF Lobby!Fits, Lobby!InMatch
  <2>4. \A x \in Players : Kept(x, p, n)
    BY <1>1, <2>2, <2>3 DEF Kept, Reachable
  <2>5. QED
    BY <1>1, <2>1, <2>4, RedisStays, QuietStep
<1>4. QED
  BY <1>2, <1>3 DEF Lobby!CheckCandidate

-----------------------------------------------------------------------------
(* Invites and the bot.                                                     *)

\* What a code that is made or taken leaves of the others.
LEMMA InviteMoves ==
    ASSUME LobbyIInv, NEW c \in Codes, NEW v \in {0, 1}, NEW g \in Players \cup {NoOne},
           g # NoOne => v = 0, uses' = [uses EXCEPT ![c] = v], host' \in [Codes -> Players \cup {NoOne}],
           host'[c] = g, \A k \in Codes : k # c => host'[k] \in {NoOne, host[k]}
    PROVE  uses' \in [Codes -> Nat] /\ Invites'
<1>1. uses \in [Codes -> Nat] /\ Invites
  BY DEF LobbyIInv, LobbyTypes
<1>2. uses' \in [Codes -> Nat] /\ uses'[c] = v /\ \A k \in Codes : k # c => uses'[k] = uses[k]
  BY <1>1
<1>3. QED
  BY <1>1, <1>2 DEF Invites

LEMMA CreateInviteKeeps ==
    ASSUME LobbyIInv, NEW p \in Players, Lobby!CreateInvite(p)
    PROVE  LobbyIInv'
<1>1. CASE Lobby!DequeueSelf(p, "dequeue", "code")
  BY <1>1, DequeueSelfKeeps
<1>2. CASE op[p].pc = "code"
           /\ \E c \in {k \in Codes : host[k] = NoOne \/ k = hostCode[p]} :
                 /\ host' = [k \in Codes |-> IF k = c THEN p
                                             ELSE IF k = hostCode[p] /\ host[k] = p THEN NoOne ELSE host[k]]
                 /\ hostCode' = [hostCode EXCEPT ![p] = c] /\ uses' = [uses EXCEPT ![c] = 0]
           /\ ui' = (IF p \in alive THEN [ui EXCEPT ![p] = "hosting"] ELSE ui)
           /\ Lobby!Done(p)
           /\ UNCHANGED <<Lobby!net, queued, marker, serial, timers, inM, running, closing, bumped, ops>>
  <2>1. PICK c \in Codes :
                 /\ host' = [k \in Codes |-> IF k = c THEN p
                                             ELSE IF k = hostCode[p] /\ host[k] = p THEN NoOne ELSE host[k]]
                 /\ uses' = [uses EXCEPT ![c] = 0]
    BY <1>2
  <2>2. host \in [Codes -> Players \cup {NoOne}] /\ ui \in [Players -> Screens]
    BY DEF LobbyIInv, LobbyTypes
  <2>3. /\ host' \in [Codes -> Players \cup {NoOne}] /\ host'[c] = p
        /\ \A k \in Codes : k # c => host'[k] \in {NoOne, host[k]}
    BY <2>1, <2>2
  <2>4. uses' \in [Codes -> Nat] /\ Invites'
    BY <2>1, <2>3, InviteMoves
  <2>5. ui' \in [Players -> Screens] /\ \A y \in Players : ui'[y] = "searching" => ui[y] = "searching"
    <3>1. "hosting" \in Screens
      BY DEF Screens
    <3>2. QED
      BY <1>2, <2>2, <3>1
  <2>6. op' = [op EXCEPT ![p] = Lobby!Idle] /\ UNCHANGED <<alive, queued, marker, serial, inM, running, bumped>>
    BY <1>2 DEF Lobby!Done, Lobby!net
  <2>7. \A x \in Players : Kept(x, p, Lobby!Idle)
    BY <1>2, <2>5, <2>6 DEF Kept
  <2>8. QED
    BY <1>2, <2>3, <2>4, <2>5, <2>6, <2>7, LobbyIdle, RedisStays, QuietStep
<1>3. QED
  BY <1>1, <1>2 DEF Lobby!CreateInvite

LEMMA ReadInviteKeeps ==
    ASSUME LobbyIInv, NEW p \in Players, Lobby!ReadInvite(p)
    PROVE  LobbyIInv'
<1> DEFINE h == host[op[p].code]
<1>1. /\ op[p].pc = "read" /\ op[p] \in OpRow /\ OpKnows(op[p])
      /\ host \in [Codes -> Players \cup {NoOne}]
      /\ UNCHANGED <<alive, queued, marker, serial, host, uses, inM, running, ui, bumped>>
  BY DEF Lobby!ReadInvite, Lobby!net, Lobby!redis, LobbyIInv, LobbyTypes, OpsKnow
<1>2. op[p].code \in Codes /\ h \in Players \cup {NoOne}
  BY <1>1 DEF OpKnows
<1>3. /\ ui' \in [Players -> Screens] /\ \A y \in Players : ui'[y] = "searching" => ui[y] = "searching"
  BY <1>1, RedisStays
<1>4. CASE Lobby!Done(p)
  BY <1>1, <1>3, <1>4, LobbyIdle, HandlerMoves DEF Lobby!Done
<1>5. CASE h # NoOne /\ op' = [op EXCEPT ![p] = [@ EXCEPT !.pc = "take", !.with = {h}]]
  <2> DEFINE n == [op[p] EXCEPT !.pc = "take", !.with = {h}]
  <2>1. op' = [op EXCEPT ![p] = n]
    BY <1>5
  <2>2. h \in Players
    BY <1>2, <1>5
  <2> HIDE DEF h
  <2>3. "take" \in OpPc /\ {h} \in SUBSET Players
    BY <2>2 DEF OpPc
  <2>4. n \in OpRow /\ n.pc = "take" /\ n.with = {h} /\ n.code = op[p].code
    BY <1>1, <2>3 DEF OpRow
  <2> HIDE DEF n
  <2>5. OpKnows(n)
    BY <1>2, <2>2, <2>4 DEF OpKnows
  <2>6. QED
    BY <1>1, <1>3, <2>1, <2>4, <2>5, HandlerMoves
<1>6. QED
  BY <1>4, <1>5 DEF Lobby!ReadInvite

LEMMA TakeInviteKeeps ==
    ASSUME LobbyIInv, NEW p \in Players, op[p].pc = "take", Lobby!TakeInvite(p),
           UNCHANGED <<alive, queued, marker, serial, inM, running, ui, bumped>>
    PROVE  LobbyIInv'
<1>1. /\ op[p] \in OpRow /\ OpKnows(op[p]) /\ Invites
      /\ host \in [Codes -> Players \cup {NoOne}] /\ uses \in [Codes -> Nat]
  BY DEF LobbyIInv, LobbyTypes, OpsKnow
<1>2. /\ ui' \in [Players -> Screens] /\ \A y \in Players : ui'[y] = "searching" => ui[y] = "searching"
  BY RedisStays
<1>3. CASE Lobby!Done(p) /\ UNCHANGED <<host, hostCode, uses>>
  BY <1>2, <1>3, LobbyIdle, HandlerMoves DEF Lobby!Done
<1>4. CASE /\ host[op[p].code] # NoOne /\ host' = [host EXCEPT ![op[p].code] = NoOne]
           /\ uses' = [uses EXCEPT ![op[p].code] = @ + 1] /\ Lobby!Step(p, "own")
  <2> DEFINE n == [op[p] EXCEPT !.pc = "own"]
             c == op[p].code
  <2>1. c \in Codes
    BY <1>1 DEF OpKnows
  <2>2. "own" \in OpPc
    BY DEF OpPc
  <2>3. n \in OpRow /\ n.pc = "own" /\ n.with = op[p].with /\ op' = [op EXCEPT ![p] = n]
    BY <1>1, <1>4, <2>2 DEF OpRow, Lobby!Step
  <2>4. host[c] # NoOne /\ host' = [host EXCEPT ![c] = NoOne] /\ uses' = [uses EXCEPT ![c] = uses[c] + 1]
    BY <1>4
  <2> HIDE DEF n, c
  <2>5. OpKnows(n)
    BY <1>1, <2>3 DEF OpKnows
  <2>6. uses' = [uses EXCEPT ![c] = 1]
    <3>1. uses[c] = 0
      BY <1>1, <2>1, <2>4 DEF Invites
    <3>2. uses[c] + 1 = 1
      BY <3>1
    <3>3. QED
      BY <2>4, <3>2
  <2>7. /\ host' \in [Codes -> Players \cup {NoOne}] /\ host'[c] = NoOne
        /\ \A k \in Codes : k # c => host'[k] \in {NoOne, host[k]}
    BY <1>1, <2>1, <2>4
  <2>8. uses' \in [Codes -> Nat] /\ Invites'
    BY <2>1, <2>6, <2>7, InviteMoves
  <2>9. \A x \in Players : Kept(x, p, n)
    BY DEF Kept
  <2>10. QED
    BY <1>2, <2>3, <2>5, <2>7, <2>8, <2>9, RedisStays, QuietStep
<1>5. QED
  BY <1>3, <1>4 DEF Lobby!TakeInvite

LEMMA DequeueHostKeeps ==
    ASSUME LobbyIInv, NEW p \in Players, Lobby!DequeueHost(p)
    PROVE  LobbyIInv'
<1>1. /\ op[p].pc = "theirs" /\ op[p] \in OpRow /\ OpKnows(op[p]) /\ Reachable
      /\ UNCHANGED <<alive, serial, host, uses, inM, running, ui, bumped>>
  BY DEF Lobby!DequeueHost, Lobby!net, LobbyIInv, LobbyTypes, OpsKnow
<1>2. PICK h \in Players : op[p].with = {h}
  BY <1>1 DEF OpKnows
<1>3. (CHOOSE g \in op[p].with : TRUE) = h
  BY <1>2
<1>4. ui' \in [Players -> Screens] /\ \A y \in Players : ui'[y] = "searching" => ui[y] = "searching"
  BY <1>1, RedisStays
<1>5. "claim" \in OpPc
  BY DEF OpPc
<1>6. ASSUME op' = [op EXCEPT ![p].seen = 1], UNCHANGED <<queued, marker>> PROVE LobbyIInv'
  <2> DEFINE n == [op[p] EXCEPT !.seen = 1]
  <2>1. n \in OpRow /\ n.pc = "theirs" /\ n.with = op[p].with /\ op' = [op EXCEPT ![p] = n]
    BY <1>1, <1>6 DEF OpRow
  <2> HIDE DEF n
  <2>2. OpKnows(n)
    BY <1>1, <2>1 DEF OpKnows
  <2>3. QED
    BY <1>1, <1>4, <1>6, <2>1, <2>2, HandlerMoves
<1>7. ASSUME Lobby!Step(p, "claim"), UNCHANGED <<queued, marker>> PROVE LobbyIInv'
  <2> DEFINE n == [op[p] EXCEPT !.pc = "claim"]
  <2>1. n \in OpRow /\ n.pc = "claim" /\ op' = [op EXCEPT ![p] = n]
    BY <1>1, <1>5, <1>7 DEF OpRow, Lobby!Step
  <2> HIDE DEF n
  <2>2. OpKnows(n)
    BY <2>1 DEF OpKnows
  <2>3. QED
    BY <1>1, <1>4, <1>7, <2>1, <2>2, HandlerMoves
<1>8. ASSUME Lobby!Dequeued(h), op' = [op EXCEPT ![p] = [@ EXCEPT !.pc = "claim", !.seen = 0]] PROVE LobbyIInv'
  <2> DEFINE n == [op[p] EXCEPT !.pc = "claim", !.seen = 0]
  <2>1. n \in OpRow /\ n.pc = "claim" /\ n.with = op[p].with /\ op' = [op EXCEPT ![p] = n]
    BY <1>1, <1>5, <1>8 DEF OpRow
  <2> HIDE DEF n
  <2>2. OpKnows(n)
    BY <2>1 DEF OpKnows
  <2>3. /\ marker' \in [Players -> Nat] /\ serial' \in Nat /\ Entries'
        /\ \A x \in Players : x # h => marker'[x] = marker[x]
    BY <1>1, <1>8, DequeuedKeeps
  <2>4. \A x \in Players : Kept(x, p, n)
    BY <1>1, <1>2, <2>1, <2>3 DEF Kept, Reachable
  <2>5. QED
    BY <1>1, <1>4, <2>1, <2>2, <2>3, <2>4, RedisStays, QuietStep
<1>9. QED
  BY <1>3, <1>6, <1>7, <1>8 DEF Lobby!DequeueHost

LEMMA JoinInviteKeeps ==
    ASSUME LobbyIInv, NEW p \in Players, Lobby!JoinInvite(p)
    PROVE  LobbyIInv'
<1>1. CASE /\ op[p].pc = "take" /\ Lobby!TakeInvite(p)
           /\ UNCHANGED <<Lobby!net, queued, marker, serial, timers, inM, running, closing, ui, bumped, ops>>
  BY <1>1, TakeInviteKeeps DEF Lobby!net
<1>2. CASE Lobby!DequeueSelf(p, "own", "theirs")
  BY <1>2, DequeueSelfKeeps
<1>3. QED
  BY <1>1, <1>2, ReadInviteKeeps, DequeueHostKeeps DEF Lobby!JoinInvite

LEMMA StartBotKeeps ==
    ASSUME LobbyIInv, NEW p \in Players, Lobby!StartBot(p)
    PROVE  LobbyIInv'
<1>1. CASE Lobby!DequeueSelf(p, "dequeue", "cancel")
  BY <1>1, DequeueSelfKeeps
<1>2. CASE /\ op[p].pc = "cancel" /\ Lobby!cancelInvite(p) /\ Lobby!Step(p, "claim")
           /\ UNCHANGED <<Lobby!net, queued, marker, serial, uses, timers, inM, running, closing, ui, bumped, ops>>
  <2> DEFINE n == [op[p] EXCEPT !.pc = "claim"]
  <2>1. "claim" \in OpPc /\ op[p] \in OpRow
    BY DEF OpPc, LobbyIInv, LobbyTypes
  <2>2. n \in OpRow /\ n.pc = "claim" /\ op' = [op EXCEPT ![p] = n]
    BY <1>2, <2>1 DEF OpRow, Lobby!Step
  <2> HIDE DEF n
  <2>3. OpKnows(n)
    BY <2>2 DEF OpKnows
  <2>4. UNCHANGED <<alive, queued, marker, serial, uses, inM, running, ui, bumped>>
    BY <1>2 DEF Lobby!net
  <2>5. \A x \in Players : Kept(x, p, n)
    BY <1>2, <2>4 DEF Kept
  <2>6. host' \in [Codes -> Players \cup {NoOne}] /\ uses' \in [Codes -> Nat] /\ Invites'
    BY <1>2, <2>4, CancelKeeps
  <2>7. QED
    BY <1>2, <2>2, <2>3, <2>4, <2>5, <2>6, RedisStays, QuietStep
<1>3. QED
  BY <1>1, <1>2 DEF Lobby!StartBot

-----------------------------------------------------------------------------
(* Claims, releases, starts and ends of duels.                              *)

LEMMA ClaimStep ==
    ASSUME LobbyIInv, NEW p \in Players, NEW n \in OpRow, op' = [op EXCEPT ![p] = n], OpKnows(n),
           UNCHANGED <<queued, marker, serial, host, uses>>, inM' \in [Players -> SUBSET Players],
           running' \in SUBSET SUBSET Players, ui' \in [Players -> Screens],
           \A x \in Players : Kept(x, p, n), Starting', Duels', Lobby!ClaimsStand'
    PROVE  LobbyIInv'
<1>1. LobbyTypes /\ OpsKnow /\ Reachable
  BY DEF LobbyIInv
<1>2. op' \in [Players -> OpRow] /\ op'[p] = n /\ \A q \in Players : q # p => op'[q] = op[q]
  BY <1>1, OpMoves
<1>3. LobbyTypes'
  BY <1>1, <1>2 DEF LobbyTypes
<1>4. OpsKnow'
  <2>1. \A q \in Players : OpKnows(op'[q])
    BY <1>1, <1>2 DEF OpsKnow
  <2>2. QED
    BY <2>1 DEF OpsKnow, OpKnows
<1>5. Reachable'
  BY <1>1, ReachKeeps
<1>6. QED
  BY <1>3, <1>4, <1>5, RedisStays DEF LobbyIInv

LEMMA HumansOf ==
    ASSUME LobbyTypes, NEW p \in Players
    PROVE  Lobby!Humans(p) \subseteq Players /\ p \in Lobby!Humans(p) /\ op[p].with \subseteq Lobby!Humans(p)
  BY DEF LobbyTypes, OpRow, Lobby!Humans

LEMMA ClaimedKeeps ==
    ASSUME LobbyIInv, NEW p \in Players, op[p].pc = "claim", Lobby!Claimable(p),
           inM' = [h \in Players |-> IF h \in Lobby!Humans(p) THEN Lobby!Humans(p) ELSE inM[h]],
           Lobby!Step(p, "start"), UNCHANGED <<alive, queued, marker, serial, host, uses, running, ui, bumped>>
    PROVE  LobbyIInv'
<1>1. /\ LobbyTypes /\ Starting /\ Duels /\ Lobby!ClaimsStand /\ Reachable /\ op[p] \in OpRow
      /\ inM \in [Players -> SUBSET Players]
  BY DEF LobbyIInv, LobbyTypes
<1> DEFINE n == [op[p] EXCEPT !.pc = "start"]
           H == Lobby!Humans(p)
<1>2. "start" \in OpPc
  BY DEF OpPc
<1>3. n \in OpRow /\ n.pc = "start" /\ n.with = op[p].with /\ op' = [op EXCEPT ![p] = n]
  BY <1>1, <1>2 DEF OpRow, Lobby!Step
<1> HIDE DEF n
<1>4. op'[p] = n /\ \A q \in Players : q # p => op'[q] = op[q]
  BY <1>1, <1>3, OpMoves
<1>5. H \subseteq Players /\ p \in H /\ op[p].with \subseteq H
  BY <1>1, HumansOf
<1>6. \A q \in Players : Lobby!Humans(q)' = Lobby!Humans(q)
  BY <1>3, <1>4 DEF Lobby!Humans
<1>7. \A h \in H : inM[h] = {}
  BY DEF Lobby!Claimable, Lobby!InMatch
<1>8. inM' = [h \in Players |-> IF h \in H THEN H ELSE inM[h]]
  OBVIOUS
<1> HIDE DEF H
<1>9. /\ inM' \in [Players -> SUBSET Players] /\ (\A h \in H : inM'[h] = H)
      /\ \A h \in Players : inM[h] # {} => h \notin H /\ inM'[h] = inM[h]
  BY <1>1, <1>5, <1>7, <1>8
<1>10. OpKnows(n)
  BY <1>3 DEF OpKnows
<1>11. ASSUME NEW q \in Players, q # p, op[q].pc = "start"
       PROVE  /\ Lobby!Humans(q) \notin running /\ \A h \in Lobby!Humans(q) : inM'[h] = Lobby!Humans(q)
              /\ Lobby!Humans(q) # H
  <2>1. /\ Lobby!Humans(q) \notin running /\ \A h \in Lobby!Humans(q) : inM[h] = Lobby!Humans(q)
        /\ q \in Lobby!Humans(q) /\ Lobby!Humans(q) \subseteq Players
    BY <1>1, <1>11, HumansOf DEF Starting
  <2>2. \A h \in Lobby!Humans(q) : h \in Players /\ inM[h] # {}
    BY <2>1
  <2>3. QED
    BY <1>5, <1>7, <1>9, <2>1, <2>2
<1>12. H \notin running
  BY <1>1, <1>5, <1>7 DEF Duels
<1>13. Starting'
  <2>1. ASSUME NEW q \in Players, op'[q].pc = "start"
        PROVE  Lobby!Humans(q)' \notin running' /\ \A h \in Lobby!Humans(q)' : inM'[h] = Lobby!Humans(q)'
    <3>1. CASE q = p
      BY <1>6, <1>9, <1>12, <3>1 DEF H
    <3>2. CASE q # p
      BY <1>4, <1>6, <1>11, <2>1, <3>2
    <3>3. QED
      BY <3>1, <3>2
  <2>2. ASSUME NEW q \in Players, NEW r \in Players, op'[q].pc = "start", op'[r].pc = "start",
               Lobby!Humans(q)' = Lobby!Humans(r)'
        PROVE  q = r
    <3>1. Lobby!Humans(q) = Lobby!Humans(r)
      BY <1>6, <2>2
    <3>2. CASE q # p /\ r # p
      BY <1>1, <1>4, <2>2, <3>1, <3>2 DEF Starting
    <3>3. CASE q = p /\ r # p
      BY <1>4, <1>11, <2>2, <3>1, <3>3 DEF H
    <3>4. CASE q # p /\ r = p
      BY <1>4, <1>11, <2>2, <3>1, <3>4 DEF H
    <3>5. QED
      BY <3>2, <3>3, <3>4
  <2>3. QED
    BY <2>1, <2>2 DEF Starting
<1>14. Duels'
  <2>1. ASSUME NEW m \in running PROVE m # {} /\ \A h \in m : inM'[h] = m
    <3>1. m # {} /\ m \subseteq Players /\ \A h \in m : inM[h] = m
      BY <1>1 DEF Duels, LobbyTypes
    <3>2. QED
      BY <1>9, <3>1
  <2>2. \A x \in Players : inM'[x] # {} => x \in inM'[x]
    BY <1>1, <1>8 DEF Duels
  <2>3. QED
    BY <2>1, <2>2 DEF Duels
<1>15. Lobby!ClaimsStand'
  <2> SUFFICES ASSUME NEW x \in Players, inM'[x] # {}
               PROVE  inM'[x] \in running \/ \E q \in inM'[x] : op'[q].pc = "start" /\ Lobby!Humans(q)' = inM'[x]
    BY DEF Lobby!ClaimsStand, Lobby!InMatch
  <2>1. CASE x \in H
    <3>1. inM'[x] = H /\ op'[p].pc = "start" /\ Lobby!Humans(p)' = H
      BY <1>3, <1>4, <1>6, <1>9, <2>1 DEF H
    <3>2. QED
      BY <1>5, <3>1
  <2>2. CASE x \notin H
    <3>1. inM'[x] = inM[x] /\ inM[x] \subseteq Players
      BY <1>1, <1>8, <2>2
    <3>2. inM[x] \in running \/ \E q \in inM[x] : op[q].pc = "start" /\ Lobby!Humans(q) = inM[x]
      BY <1>1, <3>1 DEF Lobby!ClaimsStand, Lobby!InMatch
    <3>3. QED
      BY <1>4, <1>6, <3>1, <3>2
  <2>3. QED
    BY <2>1, <2>2
<1>16. \A x \in Players : Kept(x, p, n)
  <2> SUFFICES ASSUME NEW x \in Players PROVE Kept(x, p, n)
    OBVIOUS
  <2>1. CASE x \in H
    BY <1>1, <1>5, <1>9, <2>1 DEF Kept, Reachable
  <2>2. CASE x \notin H
    BY <1>5, <1>8, <2>2 DEF Kept
  <2>3. QED
    BY <2>1, <2>2
<1>17. /\ ui' \in [Players -> Screens] /\ running' \in SUBSET SUBSET Players
  BY <1>1 DEF LobbyTypes
<1>18. QED
  BY <1>3, <1>9, <1>10, <1>13, <1>14, <1>15, <1>16, <1>17, ClaimStep

LEMMA RefusedKeeps ==
    ASSUME LobbyIInv, NEW p \in Players, op[p].pc = "claim", bumped' = bumped \cup Lobby!Forgotten(p),
           Lobby!Retry(p) \/ Lobby!Done(p),
           UNCHANGED <<alive, queued, marker, serial, host, uses, inM, running, ui>>
    PROVE  LobbyIInv'
<1>1. LobbyTypes /\ Reachable
  BY DEF LobbyIInv
<1>2. PICK n \in OpRow : op' = [op EXCEPT ![p] = n] /\ n.pc \in {"search", "idle"} /\ OpKnows(n)
  <2>1. CASE Lobby!Retry(p)
    BY <1>1, <2>1, RetryRow
  <2>2. CASE Lobby!Done(p)
    BY <2>2, LobbyIdle DEF Lobby!Done
  <2>3. QED
    BY <2>1, <2>2
<1>3. \A x \in Players : Kept(x, p, n)
  <2> SUFFICES ASSUME NEW x \in Players PROVE Kept(x, p, n)
    OBVIOUS
  <2>1. CASE x \in op[p].with /\ ui[x] = "searching"
    <3>1. x \in alive /\ (inM[x] # {} \/ marker[x] # 0 \/ x \in bumped')
      BY <1>1, <2>1 DEF Reachable, Lobby!Forgotten, Lobby!InMatch
    <3>2. QED
      BY <3>1 DEF Kept
  <2>2. CASE ~(x \in op[p].with /\ ui[x] = "searching")
    BY <2>2 DEF Kept
  <2>3. QED
    BY <2>1, <2>2
<1>4. QED
  BY <1>2, <1>3, RedisStays, QuietStep

LEMMA ClaimKeeps ==
    ASSUME LobbyIInv, NEW p \in Players, Lobby!claim(p)
    PROVE  LobbyIInv'
<1>1. op[p].pc = "claim" /\ UNCHANGED <<alive, queued, marker, serial, host, uses, running, ui>>
  BY DEF Lobby!claim, Lobby!net, Lobby!redis
<1>2. CASE Lobby!Claimable(p)
  <2>1. /\ inM' = [h \in Players |-> IF h \in Lobby!Humans(p) THEN Lobby!Humans(p) ELSE inM[h]]
        /\ Lobby!Step(p, "start") /\ UNCHANGED bumped
    BY <1>2 DEF Lobby!claim
  <2>2. QED
    BY <1>1, <1>2, <2>1, ClaimedKeeps
<1>3. CASE ~Lobby!Claimable(p)
  <2>1. bumped' = bumped \cup Lobby!Forgotten(p) /\ (Lobby!Retry(p) \/ Lobby!Done(p)) /\ UNCHANGED inM
    BY <1>3 DEF Lobby!claim
  <2>2. QED
    BY <1>1, <2>1, RefusedKeeps
<1>4. QED
  BY <1>2, <1>3

LEMMA ReleaseKeeps ==
    ASSUME LobbyIInv, NEW p \in Players, Lobby!release(p)
    PROVE  LobbyIInv'
<1>1. /\ LobbyTypes /\ Starting /\ Duels /\ Lobby!ClaimsStand
      /\ inM \in [Players -> SUBSET Players] /\ ui \in [Players -> Screens]
  BY DEF LobbyIInv, LobbyTypes
<1> DEFINE H == Lobby!Humans(p)
<1>2. /\ op[p].pc = "start" /\ op' = [op EXCEPT ![p] = Lobby!Idle] /\ bumped' = bumped \ H
      /\ inM' = [h \in Players |-> IF h \in H /\ inM[h] = H THEN {} ELSE inM[h]]
      /\ ui' = [h \in Players |-> IF h \in H THEN "home" ELSE ui[h]]
      /\ UNCHANGED <<alive, queued, marker, serial, host, uses, running>>
  BY DEF Lobby!release, Lobby!net, Lobby!redis, Lobby!Done
<1>3. op'[p].pc = "idle" /\ \A q \in Players : q # p => op'[q] = op[q]
  BY <1>1, <1>2, LobbyIdle, OpMoves
<1>4. /\ H \subseteq Players /\ p \in H /\ op[p].with \subseteq H /\ H \notin running
      /\ \A h \in H : inM[h] = H
  BY <1>1, <1>2, HumansOf DEF Starting
<1>5. \A q \in Players : q # p => Lobby!Humans(q)' = Lobby!Humans(q)
  BY <1>3 DEF Lobby!Humans
<1>6. \A q \in Players : op[q].pc = "start" /\ Lobby!Humans(q) = H => q = p
  BY <1>1, <1>2 DEF Starting
<1> HIDE DEF H
<1>7. /\ inM' \in [Players -> SUBSET Players]
      /\ \A h \in Players : /\ inM[h] # H => inM'[h] = inM[h]
                            /\ inM'[h] # {} => inM'[h] = inM[h] /\ h \notin H
  BY <1>1, <1>2, <1>4
<1>8. ASSUME NEW q \in Players, op'[q].pc = "start"
      PROVE  /\ q # p /\ op[q].pc = "start" /\ Lobby!Humans(q)' = Lobby!Humans(q)
             /\ Lobby!Humans(q) \notin running /\ \A h \in Lobby!Humans(q) : inM'[h] = Lobby!Humans(q)
  <2>1. q # p /\ op[q].pc = "start" /\ Lobby!Humans(q)' = Lobby!Humans(q)
    BY <1>3, <1>5, <1>8
  <2>2. /\ Lobby!Humans(q) \notin running /\ Lobby!Humans(q) # H /\ Lobby!Humans(q) \subseteq Players
        /\ \A h \in Lobby!Humans(q) : inM[h] = Lobby!Humans(q)
    BY <1>1, <1>6, <2>1, HumansOf DEF Starting
  <2>3. QED
    BY <1>7, <2>1, <2>2
<1>9. Starting'
  <2>1. \A q \in Players : op'[q].pc = "start" =>
          Lobby!Humans(q)' \notin running' /\ \A h \in Lobby!Humans(q)' : inM'[h] = Lobby!Humans(q)'
    BY <1>2, <1>8
  <2>2. \A q, r \in Players : op'[q].pc = "start" /\ op'[r].pc = "start" /\ Lobby!Humans(q)' = Lobby!Humans(r)'
                              => q = r
    BY <1>1, <1>8 DEF Starting
  <2>3. QED
    BY <2>1, <2>2 DEF Starting
<1>10. Duels'
  <2>1. ASSUME NEW m \in running PROVE m # {} /\ \A h \in m : inM'[h] = m
    <3>1. m # {} /\ m # H /\ m \subseteq Players /\ \A h \in m : inM[h] = m
      BY <1>1, <1>4 DEF Duels, LobbyTypes
    <3>2. QED
      BY <1>7, <3>1
  <2>2. \A x \in Players : inM'[x] # {} => x \in inM'[x]
    BY <1>1, <1>7 DEF Duels
  <2>3. QED
    BY <1>2, <2>1, <2>2 DEF Duels
<1>11. Lobby!ClaimsStand'
  <2> SUFFICES ASSUME NEW x \in Players, inM'[x] # {}
               PROVE  inM'[x] \in running \/ \E q \in inM'[x] : op'[q].pc = "start" /\ Lobby!Humans(q)' = inM'[x]
    BY <1>2 DEF Lobby!ClaimsStand, Lobby!InMatch
  <2>1. inM'[x] = inM[x] /\ inM[x] \subseteq Players /\ inM[x] # H
    BY <1>1, <1>7 DEF Duels
  <2>2. inM[x] \in running \/ \E q \in inM[x] : op[q].pc = "start" /\ Lobby!Humans(q) = inM[x]
    BY <1>1, <2>1 DEF Lobby!ClaimsStand, Lobby!InMatch
  <2>3. ASSUME NEW q \in inM[x], op[q].pc = "start", Lobby!Humans(q) = inM[x]
        PROVE  op'[q].pc = "start" /\ Lobby!Humans(q)' = inM[x]
    <3>1. q # p /\ q \in Players
      BY <2>1, <2>3 DEF H
    <3>2. QED
      BY <1>3, <1>5, <2>3, <3>1
  <2>4. QED
    BY <2>1, <2>2, <2>3
<1>12. ui' \in [Players -> Screens] /\ \A x \in Players : Kept(x, p, Lobby!Idle)
  <2>1. "home" \in Screens
    BY DEF Screens
  <2>2. /\ ui' \in [Players -> Screens]
        /\ \A x \in Players : ui'[x] = "searching" => x \notin H /\ ui[x] = "searching"
    BY <1>1, <1>2, <2>1
  <2>3. \A x \in Players : x \notin H => inM'[x] = inM[x] /\ (x \in bumped => x \in bumped')
    BY <1>2
  <2>4. QED
    BY <1>2, <1>4, <2>2, <2>3 DEF Kept
<1>13. running' \in SUBSET SUBSET Players
  BY <1>1, <1>2 DEF LobbyTypes
<1>14. QED
  BY <1>2, <1>7, <1>9, <1>10, <1>11, <1>12, <1>13, LobbyIdle, ClaimStep

LEMMA StartKeeps ==
    ASSUME LobbyIInv, NEW p \in Players, Lobby!startMatch(p)
    PROVE  LobbyIInv'
<1>1. /\ LobbyTypes /\ Starting /\ Duels /\ Lobby!ClaimsStand /\ Reachable
      /\ inM \in [Players -> SUBSET Players] /\ ui \in [Players -> Screens]
  BY DEF LobbyIInv, LobbyTypes
<1> DEFINE H == Lobby!Humans(p)
<1>2. /\ op[p].pc = "start" /\ op' = [op EXCEPT ![p] = Lobby!Idle] /\ bumped' = bumped \ H
      /\ running' = running \cup {H}
      /\ ui' = [h \in Players |-> IF h \in H \cap alive THEN "duel" ELSE ui[h]]
      /\ UNCHANGED <<alive, queued, marker, serial, host, uses, inM>>
  BY DEF Lobby!startMatch, Lobby!net, Lobby!redis, Lobby!Done, Lobby!InsertArenaMatch
<1>3. op'[p].pc = "idle" /\ \A q \in Players : q # p => op'[q] = op[q]
  BY <1>1, <1>2, LobbyIdle, OpMoves
<1>4. H \subseteq Players /\ p \in H /\ op[p].with \subseteq H /\ \A h \in H : inM[h] = H
  BY <1>1, <1>2, HumansOf DEF Starting
<1>5. \A q \in Players : q # p => Lobby!Humans(q)' = Lobby!Humans(q)
  BY <1>3 DEF Lobby!Humans
<1>6. \A q \in Players : op[q].pc = "start" /\ Lobby!Humans(q) = H => q = p
  BY <1>1, <1>2 DEF Starting
<1> HIDE DEF H
<1>7. ASSUME NEW q \in Players, op'[q].pc = "start"
      PROVE  /\ op[q].pc = "start" /\ Lobby!Humans(q)' = Lobby!Humans(q)
             /\ Lobby!Humans(q) \notin running' /\ \A h \in Lobby!Humans(q) : inM[h] = Lobby!Humans(q)
  <2>1. q # p /\ op[q].pc = "start" /\ Lobby!Humans(q)' = Lobby!Humans(q)
    BY <1>3, <1>5, <1>7
  <2>2. /\ Lobby!Humans(q) \notin running /\ Lobby!Humans(q) # H
        /\ \A h \in Lobby!Humans(q) : inM[h] = Lobby!Humans(q)
    BY <1>1, <1>6, <2>1 DEF Starting
  <2>3. QED
    BY <1>2, <2>1, <2>2
<1>8. Starting'
  <2>1. \A q \in Players : op'[q].pc = "start" =>
          Lobby!Humans(q)' \notin running' /\ \A h \in Lobby!Humans(q)' : inM'[h] = Lobby!Humans(q)'
    BY <1>2, <1>7
  <2>2. \A q, r \in Players : op'[q].pc = "start" /\ op'[r].pc = "start" /\ Lobby!Humans(q)' = Lobby!Humans(r)'
                              => q = r
    BY <1>1, <1>7 DEF Starting
  <2>3. QED
    BY <2>1, <2>2 DEF Starting
<1>9. Duels'
  BY <1>1, <1>2, <1>4 DEF Duels
<1>10. Lobby!ClaimsStand'
  <2> SUFFICES ASSUME NEW x \in Players, inM[x] # {}
               PROVE  inM[x] \in running' \/ \E q \in inM[x] : op'[q].pc = "start" /\ Lobby!Humans(q)' = inM[x]
    BY <1>2 DEF Lobby!ClaimsStand, Lobby!InMatch
  <2>1. inM[x] \subseteq Players
    BY <1>1
  <2>2. inM[x] \in running \/ \E q \in inM[x] : op[q].pc = "start" /\ Lobby!Humans(q) = inM[x]
    BY <1>1 DEF Lobby!ClaimsStand, Lobby!InMatch
  <2>3. CASE inM[x] \in running \/ inM[x] = H
    BY <1>2, <2>3
  <2>4. CASE inM[x] \notin running /\ inM[x] # H
    <3>1. PICK q \in inM[x] : op[q].pc = "start" /\ Lobby!Humans(q) = inM[x]
      BY <2>2, <2>4
    <3>2. q # p /\ q \in Players
      BY <2>1, <2>4, <3>1 DEF H
    <3>3. QED
      BY <1>3, <1>5, <3>1, <3>2
  <2>5. QED
    BY <2>3, <2>4
<1>11. ui' \in [Players -> Screens] /\ \A x \in Players : Kept(x, p, Lobby!Idle)
  <2>1. "duel" \in Screens
    BY DEF Screens
  <2>2. /\ ui' \in [Players -> Screens]
        /\ \A x \in Players : ui'[x] = "searching" => x \notin H \cap alive /\ ui[x] = "searching"
    BY <1>1, <1>2, <2>1
  <2>3. \A x \in Players : ui'[x] = "searching" => x \notin H /\ ui[x] = "searching"
    BY <1>1, <2>2 DEF Reachable
  <2>4. \A x \in Players : x \notin H => (x \in bumped => x \in bumped')
    BY <1>2
  <2>5. op[p].pc \notin {"pair", "claim"} /\ UNCHANGED <<alive, marker, inM>>
    BY <1>2
  <2>6. ASSUME NEW x \in Players, ui'[x] = "searching" PROVE Kept(x, p, Lobby!Idle)
    <3>1. ui[x] = "searching" /\ (x \in bumped => x \in bumped')
      BY <2>3, <2>4, <2>6
    <3>2. QED
      BY <2>5, <3>1 DEF Kept
  <2>7. \A x \in Players : Kept(x, p, Lobby!Idle)
    BY <2>6 DEF Kept
  <2>8. QED
    BY <2>2, <2>7
<1>12. running' \in SUBSET SUBSET Players
  BY <1>1, <1>2, <1>4 DEF LobbyTypes
<1>13. QED
  BY <1>1, <1>2, <1>8, <1>9, <1>10, <1>11, <1>12, LobbyIdle, ClaimStep

LEMMA CleanupKeeps ==
    ASSUME LobbyIInv, NEW m \in running, Lobby!cleanupFinishedMatch(m)
    PROVE  LobbyIInv'
<1>1. /\ LobbyTypes /\ Starting /\ Duels /\ Lobby!ClaimsStand
      /\ inM \in [Players -> SUBSET Players] /\ ui \in [Players -> Screens]
  BY DEF LobbyIInv, LobbyTypes
<1>2. /\ running' = running \ {m} /\ inM' = [h \in Players |-> IF h \in m THEN {} ELSE inM[h]]
      /\ ui' = [h \in Players |-> IF h \in m THEN "home" ELSE ui[h]]
      /\ UNCHANGED <<alive, queued, marker, serial, host, uses, op, bumped>>
  BY DEF Lobby!cleanupFinishedMatch, Lobby!net, Lobby!redis
<1>3. m # {} /\ m \subseteq Players /\ \A h \in m : inM[h] = m
  BY <1>1 DEF Duels, LobbyTypes
<1>4. PICK p \in Players : p \in m
  BY <1>3
<1>5. op[p] \in OpRow /\ op' = [op EXCEPT ![p] = op[p]] /\ OpKnows(op[p])
  BY <1>1, <1>2, OpStays DEF LobbyIInv, OpsKnow
<1>6. /\ inM' \in [Players -> SUBSET Players]
      /\ \A h \in Players : inM[h] # m => inM'[h] = inM[h]
      /\ \A h \in Players : inM'[h] # {} => inM'[h] = inM[h] /\ inM[h] # m
  BY <1>1, <1>2, <1>3 DEF Duels
<1>7. \A q \in Players : Lobby!Humans(q)' = Lobby!Humans(q)
  BY <1>2 DEF Lobby!Humans
<1>8. Starting'
  <2>1. ASSUME NEW q \in Players, op[q].pc = "start"
        PROVE  Lobby!Humans(q) \notin running' /\ \A h \in Lobby!Humans(q) : inM'[h] = Lobby!Humans(q)
    <3>1. /\ Lobby!Humans(q) \notin running /\ Lobby!Humans(q) \subseteq Players
          /\ \A h \in Lobby!Humans(q) : inM[h] = Lobby!Humans(q)
      BY <1>1, <2>1, HumansOf DEF Starting
    <3>2. QED
      BY <1>2, <1>6, <3>1
  <2>2. \A q, r \in Players : op[q].pc = "start" /\ op[r].pc = "start" /\ Lobby!Humans(q) = Lobby!Humans(r) => q = r
    BY <1>1 DEF Starting
  <2>3. \A q \in Players : op'[q].pc = "start" =>
          Lobby!Humans(q)' \notin running' /\ \A h \in Lobby!Humans(q)' : inM'[h] = Lobby!Humans(q)'
    BY <1>2, <1>7, <2>1
  <2>4. \A q, r \in Players : op'[q].pc = "start" /\ op'[r].pc = "start" /\ Lobby!Humans(q)' = Lobby!Humans(r)'
                              => q = r
    BY <1>2, <1>7, <2>2
  <2>5. QED
    BY <2>3, <2>4 DEF Starting
<1>9. Duels'
  <2>1. ASSUME NEW k \in running' PROVE k # {} /\ \A h \in k : inM'[h] = k
    <3>1. k # {} /\ k # m /\ k \subseteq Players /\ \A h \in k : inM[h] = k
      BY <1>1, <1>2 DEF Duels, LobbyTypes
    <3>2. QED
      BY <1>6, <3>1
  <2>2. \A x \in Players : inM'[x] # {} => x \in inM'[x]
    BY <1>1, <1>6 DEF Duels
  <2>3. QED
    BY <2>1, <2>2 DEF Duels
<1>10. Lobby!ClaimsStand'
  <2> SUFFICES ASSUME NEW x \in Players, inM'[x] # {}
               PROVE  inM'[x] \in running' \/ \E q \in inM'[x] : op'[q].pc = "start" /\ Lobby!Humans(q)' = inM'[x]
    BY DEF Lobby!ClaimsStand, Lobby!InMatch
  <2>1. inM'[x] = inM[x] /\ inM[x] # m /\ inM[x] \subseteq Players
    BY <1>1, <1>6
  <2>2. inM[x] \in running \/ \E q \in inM[x] : op[q].pc = "start" /\ Lobby!Humans(q) = inM[x]
    BY <1>1, <2>1 DEF Lobby!ClaimsStand, Lobby!InMatch
  <2>3. QED
    BY <1>2, <1>7, <2>1, <2>2
<1>11. ui' \in [Players -> Screens] /\ \A x \in Players : Kept(x, p, op[p])
  <2>1. "home" \in Screens
    BY DEF Screens
  <2>2. /\ ui' \in [Players -> Screens]
        /\ \A x \in Players : ui'[x] = "searching" => x \notin m /\ ui[x] = "searching"
    BY <1>1, <1>2, <2>1
  <2>3. \A x \in Players : x \notin m => inM'[x] = inM[x]
    BY <1>2
  <2>4. QED
    BY <1>2, <2>2, <2>3 DEF Kept
<1>12. running' \in SUBSET SUBSET Players
  BY <1>1, <1>2 DEF LobbyTypes
<1>13. QED
  BY <1>2, <1>5, <1>6, <1>8, <1>9, <1>10, <1>11, <1>12, ClaimStep

-----------------------------------------------------------------------------
LEMMA LobbyInitOK ==
    ASSUME Lobby!LobbyInit
    PROVE  LobbyIInv
<1>1. /\ queued = {} /\ marker = [p \in Players |-> 0] /\ serial = 0
      /\ host = [c \in Codes |-> NoOne] /\ uses = [c \in Codes |-> 0]
      /\ inM = [p \in Players |-> {}] /\ running = {} /\ op = [p \in Players |-> Lobby!Idle]
      /\ ui = [p \in Players |-> "home"]
  BY DEF Lobby!LobbyInit
<1>2. LobbyTypes
  BY <1>1, LobbyIdle DEF LobbyTypes, Screens
<1>3. \A p \in Players : op[p] = Lobby!Idle /\ op[p].pc = "idle" /\ OpKnows(op[p])
  BY <1>1, LobbyIdle
<1>4. OpsKnow /\ Entries /\ Invites
  BY <1>1, <1>3 DEF OpsKnow, Entries, Invites
<1>5. Starting /\ Duels
  BY <1>1, <1>3 DEF Starting, Duels
<1>6. Lobby!ClaimsStand /\ Reachable
  BY <1>1 DEF Lobby!ClaimsStand, Lobby!InMatch, Reachable
<1>7. QED
  BY <1>2, <1>4, <1>5, <1>6 DEF LobbyIInv

LEMMA MessagesKeep ==
    ASSUME LobbyIInv, NEW p \in Players, Lobby!Message(p)
    PROVE  LobbyIInv'
<1>1. NoCode \in Codes \cup {NoCode} /\ Codes \subseteq Codes \cup {NoCode}
  OBVIOUS
<1>2. {"queue", "leave", "invite", "bot", "friend"} \subseteq OpKind /\ {"join", "dequeue", "read"} \subseteq OpPc
  BY DEF OpKind, OpPc
<1>3. CASE \E k \in {"queue", "leave", "invite", "bot"}, pc \in {"join", "dequeue"} :
               Lobby!HandleClient(p, k, pc, NoCode)
  BY <1>1, <1>2, <1>3, MessageKeeps
<1>4. CASE \E c \in Codes : Lobby!HandleClient(p, "friend", "read", c)
  BY <1>1, <1>2, <1>4, MessageKeeps
<1>5. CASE Lobby!CancelInvite(p)
  BY <1>5, CancelInviteKeeps
<1>6. QED
  BY <1>3, <1>4, <1>5 DEF Lobby!Message

LEMMA LobbyNextKeeps ==
    ASSUME LobbyIInv, [Lobby!LobbyNext]_Lobby!lobbyVars
    PROVE  LobbyIInv'
<1>1. CASE UNCHANGED Lobby!lobbyVars
  <2>1. UNCHANGED <<alive, queued, marker, serial, host, uses, inM, running, op, ui, bumped>>
    BY <1>1 DEF Lobby!lobbyVars, Lobby!net, Lobby!redis
  <2>2. LobbyTypes' /\ OpsKnow' /\ Entries' /\ Invites'
    BY <2>1 DEF LobbyIInv, LobbyTypes, OpsKnow, OpKnows, Entries, Invites
  <2>3. Starting' /\ Duels' /\ Lobby!ClaimsStand'
    BY <2>1 DEF LobbyIInv, Starting, Duels, Lobby!ClaimsStand, Lobby!InMatch, Lobby!Humans
  <2>4. Reachable'
    BY <2>1 DEF LobbyIInv, Reachable, Accounted, InHands
  <2>5. QED
    BY <2>2, <2>3, <2>4 DEF LobbyIInv
<1>2. CASE \E p \in Players : \/ Lobby!MintTicket(p) \/ Lobby!serveWS(p) \/ Lobby!Disconnect(p)
                              \/ Lobby!ReadMarker(p) \/ Lobby!OnDisconnect(p)
                              \/ Lobby!Message(p) \/ Lobby!Handling(p)
  <2>1. PICK p \in Players : \/ Lobby!MintTicket(p) \/ Lobby!serveWS(p) \/ Lobby!Disconnect(p)
                             \/ Lobby!ReadMarker(p) \/ Lobby!OnDisconnect(p)
                             \/ Lobby!Message(p) \/ Lobby!Handling(p)
    BY <1>2
  <2>2. CASE Lobby!Handling(p)
    BY <2>2, JoinQueueKeeps, JoinLuaKeeps, CheckCandidateKeeps, LeaveKeeps, CreateInviteKeeps,
       JoinInviteKeeps, StartBotKeeps, ClaimKeeps, ReleaseKeeps, StartKeeps DEF Lobby!Handling
  <2>3. QED
    BY <2>1, <2>2, SocketsKeep, OnDisconnectKeeps, MessagesKeep
<1>3. CASE \E t \in timers : Lobby!watchQueueTimeout(t)
  <2>1. PICK t \in timers : Lobby!watchQueueTimeout(t)
    BY <1>3
  <2>2. CASE Players # {}
    BY <2>1, <2>2, TimeoutKeeps
  <2>3. CASE Players = {}
    <3>1. UNCHANGED <<serial, host, uses, inM, running, op>>
      BY <2>1 DEF Lobby!watchQueueTimeout, Lobby!net
    <3>2. marker' \in [Players -> Nat] /\ ui' \in [Players -> Screens]
      <4>1. CASE UNCHANGED <<queued, marker, ui>>
        BY <3>1, <4>1, RedisStays
      <4>2. CASE Lobby!Dequeued(t[1]) /\ ui' = [ui EXCEPT ![t[1]] = IF @ = "searching" THEN "home" ELSE @]
        BY <3>1, <4>2, DequeuedKeeps, ScreenHome
      <4>3. QED
        BY <2>1, <4>1, <4>2 DEF Lobby!watchQueueTimeout
    <3>3. queued' \subseteq queued
      BY <2>1 DEF Lobby!watchQueueTimeout, Lobby!Dequeued
    <3>4. LobbyTypes' /\ Invites'
      BY <3>1, <3>2 DEF LobbyIInv, LobbyTypes, Invites
    <3>5. Duels'
      BY <3>1, <2>3 DEF LobbyIInv, Duels
    <3>6. QED
      BY <2>3, <3>3, <3>4, <3>5 DEF LobbyIInv, OpsKnow, Entries, Starting, Lobby!ClaimsStand, Reachable
  <2>4. QED
    BY <2>2, <2>3
<1>4. CASE \E m \in running : Lobby!cleanupFinishedMatch(m)
  BY <1>4, CleanupKeeps
<1>5. QED
  BY <1>1, <1>2, <1>3, <1>4 DEF Lobby!LobbyNext

\* The lobby's safety, for any players, codes and number of messages: claim
\* pulls nobody into two duels, a duel stands behind every claim, one friend
\* is let in by a code, and a searching player is in the queue or in the
\* hands of somebody who will tell them (arena/service.go, arena_join.lua).
THEOREM LobbyThm == Lobby!LobbySpec => []LobbyInv
<1>1. Lobby!LobbyInit => LobbyIInv
  BY LobbyInitOK
<1>2. LobbyIInv /\ [Lobby!LobbyNext]_Lobby!lobbyVars => LobbyIInv'
  BY LobbyNextKeeps
<1>3. LobbyIInv => LobbyInv
  BY LobbyImplies DEF LobbyInv
<1>4. QED
  BY <1>1, <1>2, <1>3, PTL DEF Lobby!LobbySpec
=============================================================================
