-------------------------- MODULE BroadcastProofs --------------------------
(***************************************************************************)
(* The safety of a campaign for any learners, workers, limits and pages,   *)
(* and any number of deaths, failures and outlived leases.                 *)
(*                                                                         *)
(* PushesBounded is not inductive: a worker that outlived its lease pushes *)
(* for a claim whose row somebody else has claimed again.  Every push must *)
(* be paid for by an attempt of its own, so the invariant counts what is   *)
(* still owed (Covered): the pushes shown and the workers that may yet     *)
(* show one never exceed the attempts on the row.                          *)
(***************************************************************************)
EXTENDS Broadcast, FiniteSetTheorems, TLAPS

Row == [st : {"none", "pending", "processing", "failed", "sent"}, att : Nat,
        ready : BOOLEAN, stale : BOOLEAN]

\* A row that is not there has no attempts; no row has more than the limit.
RowOK(r) == r \in Row /\ r.att <= MaxAttempts /\ (r.st = "none" => r.att = 0)

\* Whoever delivers to a learner no longer has that claim in hand.
Delivering == {"inapp", "push"}
Shape(r) ==
    r \in [pc : {r.pc}, cursor : {r.cursor}, page : {r.page}, total : {r.total},
          claims : {r.claims}, cur : {r.cur}]
WorkerOK(r) ==
    /\ Shape(r)
    /\ r.pc \in Delivering => r.cur \notin r.claims

\* The workers K that may yet push to l.
Owes(r, l) == l \in r.claims \/ (r.pc \in Delivering /\ r.cur = l)
Owing(K, l) == {w \in Workers : Owes(K[w], l)}

Covered == \A l \in Learners : pushes[l] + Cardinality(Owing(wk, l)) <= rec[l].att

RowsOK == rec \in [Learners -> Row] /\ \A l \in Learners : RowOK(rec[l])
WorkersOK == wk = [w \in Workers |-> wk[w]] /\ \A w \in Workers : WorkerOK(wk[w])
MarksOK ==
    /\ seen \subseteq inbox /\ retracted \in BOOLEAN
    /\ retracted => camp = "cancelled"

IInv ==
    /\ RowsOK /\ WorkersOK /\ MarksOK
    /\ pushes \in [Learners -> Nat]
    /\ SentIsDelivered /\ Covered

-----------------------------------------------------------------------------
(* The shape of a step.                                                    *)

\* What a row may become without being claimed: nobody is marked sent who has
\* no notification.
RowKept(l, r, s) ==
    /\ RowOK(s) /\ s.att = r.att
    /\ s.st = "sent" => r.st = "sent" \/ l \in inbox
RowsStill ==
    /\ rec' \in [Learners -> Row]
    /\ \A l \in Learners : RowKept(l, rec[l], rec'[l])

\* No worker gets to owe a push.
WorkersStill ==
    /\ wk' = [w \in Workers |-> wk'[w]]
    /\ \A w \in Workers : /\ WorkerOK(wk'[w])
                          /\ \A l \in Learners : Owes(wk'[w], l) => Owes(wk[w], l)

\* Only a retraction takes notifications away, and a campaign is completed
\* only with everybody's notification in place.
Closes ==
    camp # camp' /\ camp' = "completed" =>
        Rows({"none", "sent"}) = Learners /\ Rows({"sent"}) \subseteq inbox
MarksStill ==
    /\ MarksOK' /\ (retracted => retracted')
    /\ ~retracted' => inbox \subseteq inbox' /\ seen \subseteq seen'
    /\ Closes

Still == RowsStill /\ WorkersStill /\ MarksStill /\ pushes' = pushes

\* What a campaign's marks and rows say stays true in such a step.
LEMMA SentStep ==
    ASSUME IInv, MarksStill,
           \A l \in Learners : rec'[l].st = "sent" => rec[l].st = "sent" \/ l \in inbox
    PROVE  SentIsDelivered'
  BY DEF IInv, MarksStill, SentIsDelivered, Rows

\* The workers that owe a push are finitely many, and fewer owe no more.
LEMMA OwingFinite ==
    ASSUME NEW K, NEW l
    PROVE  IsFiniteSet(Owing(K, l)) /\ Cardinality(Owing(K, l)) \in Nat
<1>1. Owing(K, l) \subseteq Workers
  BY DEF Owing
<1>2. IsFiniteSet(Owing(K, l))
  BY <1>1, FS_Subset, BroadcastAssumption
<1>3. QED
  BY <1>2, FS_CardinalityType

LEMMA OwingShrinks ==
    ASSUME NEW l \in Learners, WorkersStill
    PROVE  Cardinality(Owing(wk', l)) <= Cardinality(Owing(wk, l))
<1>1. Owing(wk', l) \subseteq Owing(wk, l)
  BY DEF WorkersStill, Owing
<1>2. IsFiniteSet(Owing(wk, l))
  BY OwingFinite
<1>3. QED
  BY <1>1, <1>2, FS_Subset

\* A step that claims nothing and pushes nothing keeps the invariant.
LEMMA StillStep ==
    ASSUME IInv, Still
    PROVE  IInv'
<1>1. RowsOK' /\ WorkersOK' /\ MarksOK' /\ pushes' \in [Learners -> Nat]
  BY DEF IInv, Still, RowsStill, RowKept, RowsOK, WorkersStill, WorkersOK, MarksStill
<1>2. SentIsDelivered'
  BY SentStep DEF Still, RowsStill, RowKept
<1>3. ASSUME NEW l \in Learners
      PROVE  pushes'[l] + Cardinality(Owing(wk', l)) <= rec'[l].att
  <2>1. Cardinality(Owing(wk', l)) <= Cardinality(Owing(wk, l))
    BY OwingShrinks DEF Still
  <2>2. /\ Cardinality(Owing(wk, l)) \in Nat /\ Cardinality(Owing(wk', l)) \in Nat
        /\ pushes[l] \in Nat /\ rec[l].att \in Nat
    BY OwingFinite DEF IInv, RowsOK, Row
  <2>3. pushes[l] + Cardinality(Owing(wk, l)) <= rec[l].att
    BY DEF IInv, Covered
  <2>4. pushes'[l] = pushes[l] /\ rec'[l].att = rec[l].att
    BY DEF Still, RowsStill, RowKept
  <2>5. QED
    BY <2>1, <2>2, <2>3, <2>4
<1>4. QED
  BY <1>1, <1>2, <1>3 DEF IInv, Covered

-----------------------------------------------------------------------------
(* Parts that stay as they are, and parts of which one entry changes.      *)

LEMMA SameRows ==
    ASSUME IInv, UNCHANGED rec
    PROVE  RowsStill
  BY DEF IInv, RowsOK, RowsStill, RowKept

LEMMA SameWorkers ==
    ASSUME IInv, UNCHANGED wk
    PROVE  WorkersStill
  BY DEF IInv, WorkersOK, WorkersStill

LEMMA SameMarks ==
    ASSUME IInv, UNCHANGED <<camp, retracted, inbox, seen>>
    PROVE  MarksStill
  BY DEF IInv, MarksOK, MarksStill, Closes

LEMMA OneRow ==
    ASSUME IInv, NEW c, NEW r, rec' = [rec EXCEPT ![c] = r],
           c \in Learners => RowKept(c, rec[c], r)
    PROVE  RowsStill
<1>1. rec \in [Learners -> Row]
  BY DEF IInv, RowsOK
<1>2. ASSUME NEW l \in Learners
      PROVE  RowKept(l, rec[l], rec'[l])
  <2>1. CASE l = c
    <3>1. rec'[l] = r
      BY <1>1, <2>1
    <3>2. QED
      BY <2>1, <3>1
  <2>2. CASE l # c
    <3>1. rec'[l] = rec[l]
      BY <1>1, <2>2
    <3>2. QED
      BY <3>1 DEF IInv, RowsOK, RowKept
  <2>3. QED
    BY <2>1, <2>2
<1>3. c \in Learners => r \in Row
  BY DEF RowKept, RowOK
<1>4. QED
  BY <1>1, <1>2, <1>3 DEF RowsStill

LEMMA OneWorker ==
    ASSUME IInv, NEW w \in Workers, NEW r, wk' = [wk EXCEPT ![w] = r], WorkerOK(r),
           \A l \in Learners : Owes(r, l) => Owes(wk[w], l)
    PROVE  WorkersStill
<1>1. wk = [v \in Workers |-> wk[v]]
  BY DEF IInv, WorkersOK
<1>2. wk' = [v \in Workers |-> IF v = w THEN r ELSE wk[v]]
  BY <1>1
<1>3. \A v \in Workers : wk'[v] = IF v = w THEN r ELSE wk[v]
  BY <1>2
<1>4. wk' = [v \in Workers |-> wk'[v]]
  BY <1>2, <1>3
<1>5. ASSUME NEW v \in Workers
      PROVE  WorkerOK(wk'[v]) /\ \A l \in Learners : Owes(wk'[v], l) => Owes(wk[v], l)
  <2>1. CASE v = w
    <3>1. wk'[v] = r
      BY <1>3, <2>1
    <3>2. QED
      BY <2>1, <3>1
  <2>2. CASE v # w
    <3>1. wk'[v] = wk[v]
      BY <1>3, <2>2
    <3>2. QED
      BY <3>1 DEF IInv, WorkersOK
  <2>3. QED
    BY <2>1, <2>2
<1>6. QED
  BY <1>4, <1>5 DEF WorkersStill

\* A worker that lets go of claims, or keeps them, and delivers to nobody owes
\* nothing new.
LEMMA LetsGo ==
    ASSUME IInv, NEW w \in Workers, NEW r, wk' = [wk EXCEPT ![w] = r],
           Shape(r), r.pc \notin Delivering, r.claims \subseteq wk[w].claims
    PROVE  WorkersStill
<1>1. WorkerOK(r)
  BY DEF WorkerOK
<1>2. \A l \in Learners : Owes(r, l) => Owes(wk[w], l)
  BY DEF Owes
<1>3. QED
  BY <1>1, <1>2, OneWorker

LEMMA BackToIdle ==
    ASSUME IInv, NEW w \in Workers, NEW pc, pc \notin Delivering,
           wk' = [wk EXCEPT ![w] = [Idle EXCEPT !.pc = pc]]
    PROVE  WorkersStill
<1> DEFINE r == [Idle EXCEPT !.pc = pc]
<1>1. r = [pc |-> pc, cursor |-> 0, page |-> {}, total |-> 0, claims |-> {}, cur |-> 0]
  BY DEF Idle
<1> HIDE DEF r
<1>2. Shape(r) /\ r.pc = pc /\ r.claims = {}
  BY <1>1 DEF Shape
<1>3. wk' = [wk EXCEPT ![w] = r]
  BY DEF r
<1>4. QED
  BY <1>2, <1>3, LetsGo

LEMMA StopsStill ==
    ASSUME IInv, NEW w \in Workers, wk' = [wk EXCEPT ![w] = Idle]
    PROVE  WorkersStill
<1>1. "idle" \notin Delivering
  BY DEF Delivering
<1>2. [Idle EXCEPT !.pc = "idle"] = Idle
  BY DEF Idle
<1>3. QED
  BY <1>1, <1>2, BackToIdle

LEMMA ResumeStill ==
    ASSUME IInv, NEW w \in Workers, NEW pc, pc \notin Delivering, Resume(w, pc)
    PROVE  WorkersStill
<1> DEFINE r == [Idle EXCEPT !.pc = pc, !.claims = wk[w].claims]
           S == [pc : {"idle", pc}, cursor : {0}, page : {{}}, total : {0},
                 claims : {{}, wk[w].claims}, cur : {0}]
<1>1. Idle \in S
  BY DEF Idle
<1>2. r \in S /\ r.pc = pc /\ r.claims = wk[w].claims
  BY <1>1
<1>3. wk' = [wk EXCEPT ![w] = r]
  BY DEF Resume
<1> HIDE DEF r
<1>4. Shape(r)
  BY <1>2 DEF Shape
<1>5. QED
  BY <1>2, <1>3, <1>4, LetsGo

LEMMA GotoStill ==
    ASSUME IInv, NEW w \in Workers, NEW pc, pc \notin Delivering, Goto(w, pc)
    PROVE  WorkersStill
<1> DEFINE q == wk[w]
           r == [q EXCEPT !.pc = pc]
           S == [pc : {q.pc, pc}, cursor : {q.cursor}, page : {q.page}, total : {q.total},
                 claims : {q.claims}, cur : {q.cur}]
<1>1. WorkerOK(wk[w])
  BY DEF IInv, WorkersOK
<1>2. wk[w] \in S
  BY <1>1 DEF WorkerOK, Shape
<1>3. r \in S /\ r.pc = pc /\ r.claims = wk[w].claims
  BY <1>2
<1>4. wk' = [wk EXCEPT ![w] = r]
  BY DEF Goto
<1> HIDE DEF r
<1>5. Shape(r)
  BY <1>3 DEF Shape
<1>6. QED
  BY <1>3, <1>4, <1>5, LetsGo

-----------------------------------------------------------------------------
(* The console, the learners and the clock.                                *)

LEMMA CreateStep ==
    ASSUME IInv, createBroadcastCampaign \/ Cancel
    PROVE  Still
<1>1. UNCHANGED <<retracted, rec, inbox, seen, pushes, wk>>
  BY DEF createBroadcastCampaign, Create, Cancel, learnerVars
<1>2. ~(camp = "cancelled") /\ camp' \in {"queued", "cancelled"}
  BY DEF createBroadcastCampaign, Create, Cancel, GetBroadcastCampaignByIdempotencyKey,
         InsertBroadcastCampaign, CancelBroadcastCampaign
<1>3. MarksStill
  BY <1>1, <1>2 DEF IInv, MarksOK, MarksStill, Closes
<1>4. QED
  BY <1>1, <1>3, SameRows, SameWorkers DEF Still

LEMMA RetractStep ==
    ASSUME IInv, Retract
    PROVE  Still
<1>1. UNCHANGED <<wk, pushes>>
  BY DEF Retract
<1>2. MarksStill
  BY DEF Retract, IInv, MarksOK, MarksStill, Closes, DeleteInappNotificationsByCampaign,
         RetractBroadcastCampaign
<1>3. rec' = [l \in Learners |-> IF rec[l].st \in {"pending", "processing", "failed"}
                                 THEN [rec[l] EXCEPT !.st = "failed", !.stale = FALSE] ELSE rec[l]]
  BY DEF Retract, FailPendingRecipientsForCampaign
<1>4. RowsStill
  <2>1. ASSUME NEW l \in Learners
        PROVE  RowKept(l, rec[l], rec'[l])
    <3> DEFINE n == [rec[l] EXCEPT !.st = "failed", !.stale = FALSE]
    <3>1. RowOK(rec[l])
      BY DEF IInv, RowsOK
    <3>2. rec'[l] = rec[l] \/ (rec'[l] = n /\ rec[l].st # "none")
      BY <1>3
    <3>3. n \in Row /\ n.att = rec[l].att /\ n.st = "failed"
      BY <3>1 DEF RowOK, Row
    <3> HIDE DEF n
    <3>4. QED
      BY <3>1, <3>2, <3>3 DEF RowKept, RowOK
  <2>2. rec' = [l \in Learners |-> rec'[l]]
    BY <1>3
  <2>3. QED
    BY <2>1, <2>2 DEF RowsStill, RowKept, RowOK
<1>5. QED
  BY <1>1, <1>2, <1>4, SameWorkers DEF Still

LEMMA LearnerStep ==
    ASSUME IInv, NEW l \in Learners, JoinAudience(l) \/ readOne(l) \/ readAll(l)
    PROVE  Still
<1>1. UNCHANGED <<camp, retracted, rec, inbox, pushes, wk>>
  BY DEF JoinAudience, readOne, readAll, outbox
<1>2. seen \subseteq seen' /\ seen' \subseteq seen \cup inbox
  BY DEF JoinAudience, readOne, readAll, MarkInappNotificationRead,
         MarkAllInappNotificationsRead, ListInappNotifications
<1>3. MarksStill
  BY <1>1, <1>2 DEF IInv, MarksOK, MarksStill, Closes
<1>4. QED
  BY <1>1, <1>3, SameRows, SameWorkers DEF Still

LEMMA TimeStep ==
    ASSUME IInv, NEW l \in Learners, TimePasses(l)
    PROVE  Still
<1>1. UNCHANGED <<camp, retracted, inbox, seen, pushes, wk>>
  BY DEF TimePasses, BackoffPasses, LeaseExpires, learnerVars
<1>2. RowOK(rec[l])
  BY DEF IInv, RowsOK
<1>3. CASE rec' = [rec EXCEPT ![l] = [@ EXCEPT !.ready = TRUE]]
  <2>1. RowKept(l, rec[l], [rec[l] EXCEPT !.ready = TRUE])
    BY <1>2 DEF RowKept, RowOK, Row
  <2>2. QED
    BY <1>1, <1>3, <2>1, OneRow, SameWorkers, SameMarks DEF Still
<1>4. CASE rec' = [rec EXCEPT ![l] = [@ EXCEPT !.stale = TRUE]]
  <2>1. RowKept(l, rec[l], [rec[l] EXCEPT !.stale = TRUE])
    BY <1>2 DEF RowKept, RowOK, Row
  <2>2. QED
    BY <1>1, <1>4, <2>1, OneRow, SameWorkers, SameMarks DEF Still
<1>5. QED
  BY <1>3, <1>4 DEF TimePasses, BackoffPasses, LeaseExpires

-----------------------------------------------------------------------------
(* Reclaim and expand.                                                     *)

LEMMA ReclaimStep ==
    ASSUME IInv, NEW w \in Workers, reclaimStaleProcessing(w)
    PROVE  Still
<1>1. UNCHANGED <<camp, retracted, inbox, seen, pushes>>
  BY DEF reclaimStaleProcessing, learnerVars
<1>2. rec' = [l \in Learners |->
                 IF rec[l].st = "processing" /\ rec[l].stale
                 THEN [rec[l] EXCEPT !.st = IF MaxedOut(rec[l]) THEN "failed" ELSE "pending",
                                     !.ready = TRUE, !.stale = FALSE]
                 ELSE rec[l]]
  BY DEF reclaimStaleProcessing
<1>3. RowsStill
  <2>1. ASSUME NEW l \in Learners
        PROVE  RowKept(l, rec[l], rec'[l])
    <3> DEFINE st == IF MaxedOut(rec[l]) THEN "failed" ELSE "pending"
               n == [rec[l] EXCEPT !.st = st, !.ready = TRUE, !.stale = FALSE]
    <3>1. RowOK(rec[l]) /\ st \in {"failed", "pending"}
      BY DEF IInv, RowsOK
    <3>2. rec'[l] = n \/ rec'[l] = rec[l]
      BY <1>2
    <3> HIDE DEF st
    <3>3. n \in Row /\ n.att = rec[l].att /\ n.st = st
      BY <3>1 DEF RowOK, Row
    <3> HIDE DEF n
    <3>4. QED
      BY <3>1, <3>2, <3>3 DEF RowKept, RowOK
  <2>2. rec' = [l \in Learners |-> rec'[l]]
    BY <1>2
  <2>3. QED
    BY <2>1, <2>2 DEF RowsStill, RowKept, RowOK
<1>4. PICK pc \in {"mark", "claim"} : wk' = [wk EXCEPT ![w] = [Idle EXCEPT !.pc = pc]]
  BY DEF reclaimStaleProcessing
<1>5. pc \notin Delivering
  BY DEF Delivering
<1>6. QED
  BY <1>1, <1>3, <1>4, <1>5, BackToIdle, SameMarks DEF Still

LEMMA ExpandStep ==
    ASSUME IInv, NEW w \in Workers, expandQueued(w)
    PROVE  Still
<1>1. UNCHANGED <<retracted, rec, inbox, seen, pushes>>
  BY DEF expandQueued, learnerVars
<1>2. camp' = camp \/ (camp # "cancelled" /\ camp' = "expanding")
  BY DEF expandQueued
<1>3. MarksStill
  BY <1>1, <1>2 DEF IInv, MarksOK, MarksStill, Closes
<1>4. Goto(w, "check") \/ Resume(w, "claim")
  BY DEF expandQueued
<1>5. WorkersStill
  <2>1. "check" \notin Delivering /\ "claim" \notin Delivering
    BY DEF Delivering
  <2>2. CASE Goto(w, "check")
    BY <2>1, <2>2, GotoStill
  <2>3. CASE Resume(w, "claim")
    BY <2>1, <2>3, ResumeStill, ZenonT(30)
  <2>4. QED
    BY <1>4, <2>2, <2>3
<1>6. QED
  BY <1>1, <1>3, <1>5, SameRows DEF Still

LEMMA PageStep ==
    ASSUME IInv, NEW w \in Workers, NextPage(w)
    PROVE  Still
<1>1. UNCHANGED <<camp, retracted, rec, inbox, seen, pushes>>
  BY DEF NextPage, outbox, learnerVars
<1>2. CASE Resume(w, "claim")
  BY <1>1, <1>2, ResumeStill, SameRows, SameMarks DEF Still, Delivering
<1>3. ASSUME NEW ids, NEW pc \in {"total", "insert"},
             wk' = [wk EXCEPT ![w] = [@ EXCEPT !.page = ids, !.pc = pc]]
      PROVE  Still
  <2> DEFINE q == wk[w]
             r == [q EXCEPT !.page = ids, !.pc = pc]
             S == [pc : {q.pc, pc}, cursor : {q.cursor}, page : {q.page, ids}, total : {q.total},
                   claims : {q.claims}, cur : {q.cur}]
  <2>1. WorkerOK(wk[w])
    BY DEF IInv, WorkersOK
  <2>2. q \in S
    BY <2>1 DEF WorkerOK, Shape
  <2>3. r \in S /\ r.pc = pc /\ r.claims = q.claims
    BY <2>2
  <2>4. wk' = [wk EXCEPT ![w] = r]
    BY <1>3
  <2>5. pc \notin Delivering
    BY DEF Delivering
  <2> HIDE DEF r
  <2>6. Shape(r)
    BY <2>3 DEF Shape
  <2>7. WorkersStill
    BY <2>3, <2>4, <2>5, <2>6, LetsGo
  <2>8. QED
    BY <1>1, <2>7, SameRows, SameMarks DEF Still
<1>4. QED
  BY <1>2, <1>3 DEF NextPage

LEMMA InsertStep ==
    ASSUME IInv, NEW w \in Workers, InsertRecipients(w)
    PROVE  Still
<1>1. UNCHANGED <<camp, retracted, inbox, seen, pushes>>
  BY DEF InsertRecipients, learnerVars
<1>2. rec' = [l \in Learners |-> IF l \in wk[w].page /\ rec[l].st = "none"
                                 THEN [NoRow EXCEPT !.st = "pending", !.ready = TRUE] ELSE rec[l]]
  BY DEF InsertRecipients
<1> DEFINE n == [NoRow EXCEPT !.st = "pending", !.ready = TRUE]
<1>3. n \in Row /\ n.st = "pending" /\ n.att = 0
  <2>1. NoRow \in Row /\ NoRow.att = 0
    BY DEF NoRow, Row
  <2>2. QED
    BY <2>1 DEF Row
<1>4. RowsStill
  <2> HIDE DEF n
  <2>1. rec' = [l \in Learners |-> IF l \in wk[w].page /\ rec[l].st = "none" THEN n ELSE rec[l]]
    BY <1>2 DEF n
  <2>2. QED
    BY <1>3, <2>1, BroadcastAssumption DEF IInv, RowsOK, RowOK, Row, RowsStill, RowKept
<1> DEFINE q == wk[w]
           t == q.total + Cardinality(q.page)
           k == Last(q.page)
           pc == IF Cardinality(q.page) < PageSize THEN "total" ELSE "check"
           r == [q EXCEPT !.total = t, !.cursor = k, !.page = {}, !.pc = pc]
           S == [pc : {q.pc, pc}, cursor : {q.cursor, k}, page : {q.page, {}}, total : {q.total, t},
                 claims : {q.claims}, cur : {q.cur}]
<1>5. wk' = [wk EXCEPT ![w] = r]
  BY Zenon DEF InsertRecipients
<1>6. WorkerOK(q)
  BY DEF IInv, WorkersOK
<1>7. pc \notin Delivering
  BY DEF Delivering
<1> HIDE DEF t, k, pc
<1>8. q \in S
  BY <1>6 DEF WorkerOK, Shape
<1>9. r \in S /\ r.pc = pc /\ r.claims = q.claims
  BY <1>8
<1> HIDE DEF r
<1>10. Shape(r)
  BY <1>9 DEF Shape
<1>11. WorkersStill
  BY <1>5, <1>7, <1>9, <1>10, LetsGo
<1>12. QED
  BY <1>1, <1>4, <1>11, SameMarks DEF Still

LEMMA FinishExpandStep ==
    ASSUME IInv, NEW w \in Workers, FinishExpand(w)
    PROVE  Still
<1>1. UNCHANGED <<retracted, rec, inbox, seen, pushes>>
  BY DEF FinishExpand, learnerVars
<1>2. camp' = camp \/ (camp \in {"expanding", "sending"} /\ camp' \in {"completed", "sending"})
  BY DEF FinishExpand
<1>3. camp # camp' /\ camp' = "completed" => Rows({"none"}) = Learners
  BY DEF FinishExpand
<1>4. Closes
  BY <1>3 DEF Closes, Rows
<1>5. MarksStill
  BY <1>1, <1>2, <1>4 DEF IInv, MarksOK, MarksStill
<1>6. WorkersStill
  BY ResumeStill DEF FinishExpand, Delivering
<1>7. QED
  BY <1>1, <1>5, <1>6, SameRows DEF Still

LEMMA ExpandFailsStep ==
    ASSUME IInv, NEW w \in Workers, ExpandFails(w)
    PROVE  Still
<1>1. UNCHANGED <<retracted, rec, inbox, seen, pushes>>
  BY DEF ExpandFails, learnerVars
<1>2. camp' = camp \/ (camp # "cancelled" /\ camp' = "failed")
  BY DEF ExpandFails
<1>3. MarksStill
  BY <1>1, <1>2 DEF IInv, MarksOK, MarksStill, Closes
<1>4. WorkersStill
  BY StopsStill DEF ExpandFails
<1>5. QED
  BY <1>1, <1>3, <1>4, SameRows DEF Still

-----------------------------------------------------------------------------
(* Claim and deliver.                                                      *)

LEMMA DeliverStep ==
    ASSUME IInv, NEW w \in Workers, deliverOne(w)
    PROVE  Still
<1>1. UNCHANGED <<camp, retracted, rec, inbox, seen, pushes>>
  BY DEF deliverOne, outbox, learnerVars
<1> DEFINE q == wk[w]
           pc == IF camp = "cancelled" THEN "drop" ELSE "inapp"
<1>2. PICK l \in q.claims :
         wk' = [wk EXCEPT ![w] = [q EXCEPT !.cur = l, !.claims = q.claims \ {l}, !.pc = pc]]
  BY Zenon DEF deliverOne
<1> DEFINE c == q.claims \ {l}
           r == [q EXCEPT !.cur = l, !.claims = c, !.pc = pc]
           S == [pc : {q.pc, pc}, cursor : {q.cursor}, page : {q.page}, total : {q.total},
                 claims : {q.claims, c}, cur : {q.cur, l}]
<1>3. WorkerOK(q)
  BY DEF IInv, WorkersOK
<1>4. wk' = [wk EXCEPT ![w] = r]
  BY <1>2
<1> HIDE DEF pc, c
<1>5. q \in S
  BY <1>3 DEF WorkerOK, Shape
<1>6. r \in S /\ r.pc = pc /\ r.claims = c /\ r.cur = l
  BY <1>5
<1> HIDE DEF r
<1>7. Shape(r)
  BY <1>6 DEF Shape
<1>8. WorkerOK(r) /\ \A k \in Learners : Owes(r, k) => Owes(q, k)
  BY <1>2, <1>6, <1>7 DEF WorkerOK, Owes, c
<1>9. WorkersStill
  BY <1>4, <1>8, OneWorker
<1>10. QED
  BY <1>1, <1>9, SameRows, SameMarks DEF Still

LEMMA DropStep ==
    ASSUME IInv, NEW w \in Workers, DropCancelled(w)
    PROVE  Still
<1> DEFINE c == wk[w].cur
           r == [rec[c] EXCEPT !.st = "failed", !.stale = FALSE]
<1>1. UNCHANGED <<camp, retracted, inbox, seen, pushes>>
  BY DEF DropCancelled, learnerVars
<1>2. rec' = [rec EXCEPT ![c] = r]
  BY DEF DropCancelled
<1>3. c \in Learners => RowKept(c, rec[c], r)
  <2>1. c \in Learners => RowOK(rec[c])
    BY DEF IInv, RowsOK
  <2>2. c \in Learners => r \in Row /\ r.att = rec[c].att /\ r.st = "failed"
    BY <2>1 DEF RowOK, Row
  <2> HIDE DEF r
  <2>3. QED
    BY <2>1, <2>2 DEF RowKept, RowOK
<1>4. RowsStill
  <2> HIDE DEF c, r
  <2>1. QED
    BY <1>2, <1>3, OneRow
<1>5. WorkersStill
  BY ResumeStill DEF DropCancelled, Delivering
<1>6. QED
  BY <1>1, <1>4, <1>5, SameMarks DEF Still

LEMMA SentRowStep ==
    ASSUME IInv, NEW w \in Workers, RecordSent(w)
    PROVE  Still
<1> DEFINE c == wk[w].cur
           r == [rec[c] EXCEPT !.st = "sent", !.stale = FALSE]
<1>1. UNCHANGED <<camp, retracted, inbox, seen, pushes>> /\ c \in inbox
  BY DEF RecordSent, learnerVars
<1>2. rec' = [rec EXCEPT ![c] = r]
  BY DEF RecordSent
<1>3. c \in Learners => RowKept(c, rec[c], r)
  <2>1. c \in Learners => RowOK(rec[c])
    BY DEF IInv, RowsOK
  <2>2. c \in Learners => r \in Row /\ r.att = rec[c].att /\ r.st = "sent"
    BY <2>1 DEF RowOK, Row
  <2> HIDE DEF r
  <2>3. QED
    BY <1>1, <2>1, <2>2 DEF RowKept, RowOK
<1>4. RowsStill
  <2> HIDE DEF c, r
  <2>1. QED
    BY <1>2, <1>3, OneRow
<1>5. WorkersStill
  BY ResumeStill DEF RecordSent, Delivering
<1>6. QED
  BY <1>1, <1>4, <1>5, SameMarks DEF Still

LEMMA FailStep ==
    ASSUME IInv, NEW w \in Workers, failRecipient(w)
    PROVE  Still
<1> DEFINE c == wk[w].cur
           r == [rec[c] EXCEPT !.st = "failed", !.ready = FALSE, !.stale = FALSE]
<1>1. UNCHANGED <<camp, retracted, inbox, seen, pushes>>
  BY DEF failRecipient, learnerVars
<1>2. rec' = [rec EXCEPT ![c] = r]
  BY DEF failRecipient
<1>3. c \in Learners => RowKept(c, rec[c], r)
  <2>1. c \in Learners => RowOK(rec[c])
    BY DEF IInv, RowsOK
  <2>2. c \in Learners => r \in Row /\ r.att = rec[c].att /\ r.st = "failed"
    BY <2>1 DEF RowOK, Row
  <2> HIDE DEF r
  <2>3. QED
    BY <2>1, <2>2 DEF RowKept, RowOK
<1>4. RowsStill
  <2> HIDE DEF c, r
  <2>1. QED
    BY <1>2, <1>3, OneRow
<1>5. WorkersStill
  BY ResumeStill DEF failRecipient, Delivering
<1>6. QED
  BY <1>1, <1>4, <1>5, SameMarks DEF Still

LEMMA LeaveStep ==
    ASSUME IInv, NEW w \in Workers, LeavesRow(w)
    PROVE  Still
<1>1. UNCHANGED <<camp, retracted, rec, inbox, seen, pushes>>
  BY DEF LeavesRow, outbox, learnerVars
<1>2. WorkersStill
  BY ResumeStill DEF LeavesRow, Delivering
<1>3. QED
  BY <1>1, <1>2, SameRows, SameMarks DEF Still

LEMMA InappStep ==
    ASSUME IInv, NEW w \in Workers, ensureInapp(w)
    PROVE  Still
<1>1. UNCHANGED <<camp, retracted, rec, seen, pushes>> /\ inbox \subseteq inbox'
  BY DEF ensureInapp, outbox, InsertInappNotification
<1>2. MarksStill
  BY <1>1 DEF IInv, MarksOK, MarksStill, Closes
<1> DEFINE q == wk[w]
           r == [q EXCEPT !.pc = "push"]
           S == [pc : {q.pc, "push"}, cursor : {q.cursor}, page : {q.page}, total : {q.total},
                 claims : {q.claims}, cur : {q.cur}]
<1>3. WorkerOK(q) /\ q.pc = "inapp"
  BY DEF IInv, WorkersOK, ensureInapp, At
<1>4. q \in S
  BY <1>3 DEF WorkerOK, Shape
<1>5. r \in S /\ r.pc = "push" /\ r.claims = q.claims /\ r.cur = q.cur
  BY <1>4
<1>6. wk' = [wk EXCEPT ![w] = r]
  BY DEF ensureInapp, Goto
<1> HIDE DEF r
<1>7. Shape(r)
  BY <1>5 DEF Shape
<1>8. WorkerOK(r) /\ \A k \in Learners : Owes(r, k) => Owes(q, k)
  BY <1>3, <1>5, <1>7 DEF WorkerOK, Owes, Delivering
<1>9. WorkersStill
  BY <1>6, <1>8, OneWorker
<1>10. QED
  BY <1>1, <1>2, <1>9, SameRows DEF Still

LEMMA RefreshStep ==
    ASSUME IInv, NEW w \in Workers, refreshCampaignStats(w)
    PROVE  Still
<1>1. UNCHANGED <<retracted, rec, inbox, seen, pushes>>
  BY DEF refreshCampaignStats, learnerVars
<1>2. \/ camp' = camp
      \/ /\ camp = "sending" /\ Outstanding = {}
         /\ \/ camp' = "completed_with_errors"
            \/ camp' = "completed" /\ Rows({"failed"}) = {}
  BY DEF refreshCampaignStats
<1>3. ASSUME camp # camp', camp' = "completed"
      PROVE  Rows({"none", "sent"}) = Learners /\ Rows({"sent"}) \subseteq inbox
  <2>1. camp = "sending" /\ Outstanding = {} /\ Rows({"failed"}) = {}
    BY <1>2, <1>3
  <2>2. ~retracted
    BY <2>1 DEF IInv, MarksOK
  <2>3. \A l \in Learners : rec[l].st \in {"none", "pending", "processing", "failed", "sent"}
    BY DEF IInv, RowsOK, Row
  <2>4. \A l \in Learners : rec[l].st \in {"none", "sent"}
    BY <2>1, <2>3 DEF Outstanding, Rows
  <2>5. QED
    BY <2>2, <2>4 DEF IInv, SentIsDelivered, Rows
<1>4. MarksStill
  BY <1>1, <1>2, <1>3 DEF IInv, MarksOK, MarksStill, Closes
<1>5. WorkersStill
  BY StopsStill DEF refreshCampaignStats
<1>6. QED
  BY <1>1, <1>4, <1>5, SameRows DEF Still

LEMMA DeathStep ==
    ASSUME IInv, NEW w \in Workers, Dies(w)
    PROVE  Still
<1>1. UNCHANGED <<camp, retracted, rec, inbox, seen, pushes>>
  BY DEF Dies, outbox, learnerVars
<1>2. WorkersStill
  BY StopsStill DEF Dies
<1>3. QED
  BY <1>1, <1>2, SameRows, SameMarks DEF Still

-----------------------------------------------------------------------------
(* The two steps that move the count: a claim and a push.                  *)

\* A claim owes one push more, and has one attempt more.
LEMMA ClaimStep ==
    ASSUME IInv, NEW w \in Workers, processRecipients(w)
    PROVE  IInv' /\ MarksStill
<1> DEFINE q == wk[w]
           r == [q EXCEPT !.claims = Claimable, !.pc = "next"]
           S == [pc : {q.pc, "next"}, cursor : {q.cursor}, page : {q.page}, total : {q.total},
                 claims : {q.claims, Claimable}, cur : {q.cur}]
<1>1. UNCHANGED <<camp, retracted, inbox, seen, pushes>>
  BY DEF processRecipients, learnerVars
<1>2. MarksStill
  BY <1>1, SameMarks
<1>3. rec' = [l \in Learners |-> IF l \in Claimable
                 THEN [rec[l] EXCEPT !.st = "processing", !.att = rec[l].att + 1, !.stale = FALSE]
                 ELSE rec[l]]
  BY DEF processRecipients
<1>4. WorkerOK(wk[w]) /\ wk = [v \in Workers |-> wk[v]]
  BY DEF IInv, WorkersOK
<1>5. r \in S /\ r.pc = "next" /\ r.claims = Claimable
  <2>1. q \in S
    BY <1>4 DEF WorkerOK, Shape
  <2>2. QED
    BY <2>1
<1>6. wk' = [v \in Workers |-> IF v = w THEN r ELSE wk[v]]
  BY <1>4 DEF processRecipients
<1> HIDE DEF r
<1>7. WorkersOK'
  <2>1. WorkerOK(r)
    BY <1>5 DEF WorkerOK, Shape, Delivering
  <2>2. \A v \in Workers : wk'[v] = IF v = w THEN r ELSE wk[v]
    BY <1>6
  <2>3. \A v \in Workers : WorkerOK(wk'[v])
    BY <2>1, <2>2 DEF IInv, WorkersOK
  <2>4. wk' = [v \in Workers |-> wk'[v]]
    BY <1>6, <2>2
  <2>5. QED
    BY <2>3, <2>4 DEF WorkersOK
<1>8. \A l \in Learners : RowOK(rec[l])
  BY DEF IInv, RowsOK
<1>9. ASSUME NEW l \in Learners, l \in Claimable
      PROVE  RowOK(rec'[l]) /\ rec'[l].att = rec[l].att + 1 /\ rec'[l].st # "sent"
  <2>1. rec[l].att < MaxAttempts /\ rec[l] \in Row
    BY <1>8, <1>9, BroadcastAssumption DEF Claimable, MaxedOut, RowOK, Row
  <2>2. rec'[l] = [rec[l] EXCEPT !.st = "processing", !.att = rec[l].att + 1, !.stale = FALSE]
    BY <1>3, <1>9
  <2>3. rec'[l] \in Row /\ rec'[l].att = rec[l].att + 1 /\ rec'[l].st = "processing"
    <3>1. rec[l].att + 1 \in Nat
      BY <2>1 DEF Row
    <3>2. QED
      BY <2>1, <2>2, <3>1 DEF Row
  <2>4. QED
    BY <2>1, <2>3, BroadcastAssumption DEF RowOK, Row
<1>10. ASSUME NEW l \in Learners, l \notin Claimable
       PROVE  rec'[l] = rec[l]
  BY <1>3, <1>10
<1>11. RowsOK'
  <2>1. \A l \in Learners : RowOK(rec'[l])
    BY <1>8, <1>9, <1>10
  <2>2. rec' = [l \in Learners |-> rec'[l]]
    BY <1>3
  <2>3. QED
    BY <2>1, <2>2 DEF RowsOK, RowOK
<1>12. SentIsDelivered'
  BY <1>2, <1>9, <1>10, SentStep
<1>13. ASSUME NEW l \in Learners
       PROVE  pushes'[l] + Cardinality(Owing(wk', l)) <= rec'[l].att
  <2>1. /\ Cardinality(Owing(wk, l)) \in Nat /\ Cardinality(Owing(wk', l)) \in Nat
        /\ pushes[l] \in Nat /\ rec[l].att \in Nat
    BY <1>8, OwingFinite DEF IInv, RowOK, Row
  <2>2. pushes[l] + Cardinality(Owing(wk, l)) <= rec[l].att
    BY DEF IInv, Covered
  <2>3. IsFiniteSet(Owing(wk, l))
    BY OwingFinite
  <2>4. CASE l \in Claimable
    <3>1. Owing(wk', l) \subseteq Owing(wk, l) \cup {w}
      BY <1>6 DEF Owing
    <3>2. /\ IsFiniteSet(Owing(wk, l) \cup {w})
          /\ Cardinality(Owing(wk, l) \cup {w}) <= Cardinality(Owing(wk, l)) + 1
      BY <2>1, <2>3, FS_AddElement
    <3>3. Cardinality(Owing(wk', l)) <= Cardinality(Owing(wk, l) \cup {w})
      BY <3>1, <3>2, FS_Subset
    <3>4. Cardinality(Owing(wk, l) \cup {w}) \in Nat
      BY <3>2, FS_CardinalityType
    <3>5. rec'[l].att = rec[l].att + 1 /\ pushes'[l] = pushes[l]
      BY <1>1, <1>9, <2>4
    <3>6. QED
      BY <2>1, <2>2, <3>2, <3>3, <3>4, <3>5
  <2>5. CASE l \notin Claimable
    <3>1. ~Owes(r, l)
      BY <1>5, <2>5 DEF Owes, Delivering
    <3>2. Owing(wk', l) \subseteq Owing(wk, l)
      BY <1>6, <3>1 DEF Owing
    <3>3. Cardinality(Owing(wk', l)) <= Cardinality(Owing(wk, l))
      BY <2>3, <3>2, FS_Subset
    <3>4. rec'[l].att = rec[l].att /\ pushes'[l] = pushes[l]
      BY <1>1, <1>10, <2>5
    <3>5. QED
      BY <2>1, <2>2, <3>3, <3>4
  <2>6. QED
    BY <2>4, <2>5
<1>14. QED
  BY <1>1, <1>2, <1>7, <1>11, <1>12, <1>13 DEF IInv, Covered, MarksStill

\* A push is one shown more, and one owed less.
LEMMA PushStep ==
    ASSUME IInv, NEW w \in Workers, DeliverToProfile(w)
    PROVE  IInv' /\ MarksStill
<1> DEFINE c == wk[w].cur
<1>1. UNCHANGED <<camp, retracted, rec, inbox, seen>>
  BY DEF DeliverToProfile, outbox
<1>2. MarksStill /\ RowsStill
  BY <1>1, SameMarks, SameRows
<1>3. WorkersStill
  BY GotoStill DEF DeliverToProfile, Delivering
<1>4. CASE UNCHANGED pushes
  BY <1>2, <1>3, <1>4, StillStep DEF Still
<1>5. CASE pushes' = [pushes EXCEPT ![c] = @ + 1]
  <2>1. pushes \in [Learners -> Nat]
    BY DEF IInv
  <2>2. pushes' \in [Learners -> Nat]
    <3>1. c \in Learners => pushes[c] + 1 \in Nat
      BY <2>1
    <3>2. QED
      BY <1>5, <2>1, <3>1
  <2>3. RowsOK' /\ WorkersOK' /\ MarksOK'
    BY <1>2, <1>3 DEF RowsStill, RowKept, RowsOK, WorkersStill, WorkersOK, MarksStill
  <2>4. SentIsDelivered'
    BY <1>2, SentStep DEF RowsStill, RowKept
  <2>5. w \notin Owing(wk', c)
    <3>1. wk = [v \in Workers |-> wk[v]] /\ WorkerOK(wk[w]) /\ wk[w].pc = "push"
      BY DEF IInv, WorkersOK, DeliverToProfile, At
    <3>2. wk'[w] = [wk[w] EXCEPT !.pc = "record"]
      BY <3>1 DEF DeliverToProfile, Goto
    <3>3. wk'[w].pc = "record" /\ wk'[w].claims = wk[w].claims
      BY <3>1, <3>2 DEF WorkerOK, Shape
    <3>4. c \notin wk[w].claims
      BY <3>1 DEF WorkerOK, Delivering
    <3>5. QED
      BY <3>3, <3>4 DEF Owing, Owes, Delivering
  <2>6. w \in Owing(wk, c)
    BY DEF Owing, Owes, Delivering, DeliverToProfile, At
  <2>7. ASSUME NEW l \in Learners
        PROVE  pushes'[l] + Cardinality(Owing(wk', l)) <= rec'[l].att
    <3>1. /\ Cardinality(Owing(wk, l)) \in Nat /\ Cardinality(Owing(wk', l)) \in Nat
          /\ pushes[l] \in Nat /\ rec[l].att \in Nat
      BY OwingFinite DEF IInv, RowsOK, Row
    <3>2. pushes[l] + Cardinality(Owing(wk, l)) <= rec[l].att
      BY DEF IInv, Covered
    <3>3. Cardinality(Owing(wk', l)) <= Cardinality(Owing(wk, l))
      BY <1>3, OwingShrinks
    <3>4. CASE l = c
      <4>1. IsFiniteSet(Owing(wk, l))
        BY OwingFinite
      <4>2. /\ IsFiniteSet(Owing(wk, l) \ {w})
            /\ Cardinality(Owing(wk, l) \ {w}) = Cardinality(Owing(wk, l)) - 1
        BY <2>6, <3>4, <4>1, FS_RemoveElement
      <4>3. Owing(wk', l) \subseteq Owing(wk, l) \ {w}
        BY <1>3, <2>5, <3>4 DEF WorkersStill, Owing
      <4>4. Cardinality(Owing(wk', l)) <= Cardinality(Owing(wk, l) \ {w})
        BY <4>2, <4>3, FS_Subset
      <4>5. pushes'[l] = pushes[l] + 1
        BY <1>5, <2>1, <3>4
      <4>6. QED
        BY <1>1, <3>1, <3>2, <4>2, <4>4, <4>5
    <3>5. CASE l # c
      <4>1. pushes'[l] = pushes[l]
        BY <1>5, <2>1, <3>5
      <4>2. QED
        BY <1>1, <3>1, <3>2, <3>3, <4>1
    <3>6. QED
      BY <3>4, <3>5
  <2>8. Covered'
    BY <2>7 DEF Covered
  <2>9. QED
    BY <1>2, <2>2, <2>3, <2>4, <2>8 DEF IInv
<1>6. QED
  BY <1>2, <1>4, <1>5 DEF DeliverToProfile

-----------------------------------------------------------------------------
(* The theorems.                                                           *)

LEMMA InitIInv == BroadcastInit => IInv
<1> SUFFICES ASSUME BroadcastInit PROVE IInv
  OBVIOUS
<1>1. RowsOK /\ SentIsDelivered
  BY BroadcastAssumption DEF BroadcastInit, RowsOK, RowOK, Row, NoRow, SentIsDelivered, Rows
<1>2. WorkersOK
  BY DEF BroadcastInit, WorkersOK, WorkerOK, Shape, Idle, Delivering
<1>3. MarksOK /\ pushes \in [Learners -> Nat]
  BY DEF BroadcastInit, MarksOK
<1>4. ASSUME NEW l \in Learners
      PROVE  pushes[l] + Cardinality(Owing(wk, l)) <= rec[l].att
  <2>1. Owing(wk, l) = {}
    BY DEF BroadcastInit, Owing, Owes, Idle, Delivering
  <2>2. Cardinality(Owing(wk, l)) = 0
    BY <2>1, FS_EmptySet
  <2>3. pushes[l] = 0 /\ rec[l].att = 0
    BY DEF BroadcastInit, NoRow
  <2>4. QED
    BY <2>2, <2>3
<1>5. QED
  BY <1>1, <1>2, <1>3, <1>4 DEF IInv, Covered

\* Every step keeps the invariant, takes nothing away and closes nothing early.
LEMMA AnyStep ==
    ASSUME IInv, [BroadcastNext]_broadcastVars
    PROVE  IInv' /\ MarksStill
<1>1. CASE UNCHANGED broadcastVars
  <2>1. UNCHANGED <<camp, retracted, rec, inbox, seen, pushes, wk>>
    BY <1>1 DEF broadcastVars, outbox, learnerVars
  <2>2. Still
    BY <2>1, SameRows, SameWorkers, SameMarks DEF Still
  <2>3. QED
    BY <2>2, StillStep DEF Still
<1>2. CASE createBroadcastCampaign \/ Cancel \/ Retract
  BY <1>2, CreateStep, RetractStep, StillStep DEF Still
<1>3. ASSUME NEW l \in Learners, JoinAudience(l) \/ readOne(l) \/ readAll(l) \/ TimePasses(l)
      PROVE  IInv' /\ MarksStill
  BY <1>3, LearnerStep, TimeStep, StillStep DEF Still
<1>4. ASSUME NEW w \in Workers, ProcessOnce(w)
      PROVE  IInv' /\ MarksStill
  <2>1. CASE \/ reclaimStaleProcessing(w) \/ expandQueued(w) \/ NextPage(w)
             \/ InsertRecipients(w) \/ FinishExpand(w) \/ ExpandFails(w)
    BY <2>1, ReclaimStep, ExpandStep, PageStep, InsertStep, FinishExpandStep, ExpandFailsStep,
       StillStep DEF Still
  <2>2. CASE \/ deliverOne(w) \/ DropCancelled(w) \/ ensureInapp(w)
             \/ RecordSent(w) \/ failRecipient(w) \/ LeavesRow(w) \/ refreshCampaignStats(w)
    BY <2>2, DeliverStep, DropStep, InappStep, SentRowStep, FailStep, LeaveStep, RefreshStep,
       StillStep DEF Still
  <2>3. CASE processRecipients(w)
    BY <2>3, ClaimStep
  <2>4. CASE DeliverToProfile(w)
    BY <2>4, PushStep
  <2>5. QED
    BY <1>4, <2>1, <2>2, <2>3, <2>4 DEF ProcessOnce
<1>5. ASSUME NEW w \in Workers, Dies(w)
      PROVE  IInv' /\ MarksStill
  BY <1>5, DeathStep, StillStep DEF Still
<1>6. QED
  BY <1>1, <1>2, <1>3, <1>4, <1>5 DEF BroadcastNext

\* The inductive invariant holds in every reachable state.
THEOREM Invariance == BroadcastSpec => []IInv
<1>1. IInv /\ [BroadcastNext]_broadcastVars => IInv'
  BY AnyStep
<1>2. QED
  BY <1>1, InitIInv, PTL DEF BroadcastSpec

\* Whoever is marked sent has the notification unless it was retracted, nobody
\* is pushed more often than claimed nor claimed beyond the limit, a campaign
\* is completed only when everybody has it, and only a retraction takes a
\* notification away (processRecipients, deliverOne, refreshCampaignStats).
THEOREM BroadcastSafeThm == BroadcastSpec => BroadcastSafe
<1>1. IInv => seen \subseteq inbox /\ SentIsDelivered /\ PushesBounded
  <2>1. ASSUME IInv, NEW l \in Learners
        PROVE  pushes[l] <= rec[l].att /\ rec[l].att <= MaxAttempts
    <3>1. Cardinality(Owing(wk, l)) \in Nat /\ pushes[l] \in Nat /\ rec[l].att \in Nat
      BY <2>1, OwingFinite DEF IInv, RowsOK, Row
    <3>2. pushes[l] + Cardinality(Owing(wk, l)) <= rec[l].att
      BY <2>1 DEF IInv, Covered
    <3>3. rec[l].att <= MaxAttempts
      BY <2>1 DEF IInv, RowsOK, RowOK
    <3>4. QED
      BY <3>1, <3>2, <3>3
  <2>2. QED
    BY <2>1 DEF IInv, MarksOK, PushesBounded
<1>2. IInv /\ [BroadcastNext]_broadcastVars =>
        [/\ camp # camp' /\ camp' = "completed" => Rows({"none", "sent"}) = Learners
                                                    /\ Rows({"sent"}) \subseteq inbox
         /\ ~retracted' => inbox \subseteq inbox' /\ seen \subseteq seen']_broadcastVars
  BY AnyStep DEF MarksStill, Closes
<1>3. QED
  BY <1>1, <1>2, Invariance, PTL DEF BroadcastSpec, BroadcastSafe, ClosedWhenDelivered
=============================================================================
