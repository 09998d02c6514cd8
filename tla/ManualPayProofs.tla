-------------------------- MODULE ManualPayProofs --------------------------
(***************************************************************************)
(* The safety of payments by card (ManualPay) and of the books (Ledger),   *)
(* one part each.  This part is about the card, for any number of orders,  *)
(* cards and prices.                                                       *)
(*                                                                         *)
(* A checkout in flight must be known to have no rows yet (CheckoutIsNew), *)
(* a push to carry what its payer was shown (PushShows), and an ingest on  *)
(* its way to the mark to hold a paid order (MarksPaid): only then do the  *)
(* sum and the card point to one order, and never to the wrong payer.      *)
(***************************************************************************)
EXTENDS MCMoney, FiniteSetTheorems, WellFoundedInduction, TLAPS

\* A checkout that has not committed has neither a payment nor an assignment.
CheckoutIsNew == \A p \in Payments : co[p].at # "done" => asg[p] = NoAsg /\ status[p] = "none"

\* A checkout about to commit has locked a card.
CheckoutNamesCard == \A p \in Payments : co[p].at = "commit" => co[p].card \in Cards

\* A push carries the sum its payer was shown, and is ingested
\* only once it was sent.
PushShows ==
    \A e \in Payments :
        /\ push[e].sent => asg[e].card # None /\ push[e].amount = asg[e].amount
        /\ ing[e].at # "idle" => push[e].sent

\* An order exists exactly when a card was assigned to it.
AssignedCard == \A p \in Payments : asg[p].card = None <=> asg[p].state = "none"

\* What IngestHumoPush is about to confirm is an order, and what it is about
\* to record as matched is a paid one.
MarksPaid ==
    \A e \in Payments :
        /\ ing[e].at \in {"confirm", "mark"} => ing[e].cand \in Payments
        /\ ing[e].at = "mark" => status[ing[e].cand] = "paid"

\* No two cards have the same number.
CardsDiffer == \A c, d \in Cards : last4[c] = last4[d] => c = d

Flight == CheckoutIsNew /\ CheckoutNamesCard /\ AssignedCard /\ PushShows /\ MarksPaid
IInv == TypeOK /\ Flight /\ AssignmentAgrees /\ OneCandidate /\ MatchedIsPaid

-----------------------------------------------------------------------------
(* The operators.                                                          *)

State == OpenState \cup {"none", "consumed", "rejected"}

\* What an assignment keeps for life.
SameDeal(a, b) == a.card = b.card /\ a.amount = b.amount /\ a.at = b.at

\* ReleaseExpiredManualHolds frees cards; it opens and closes no order.
LEMMA ReleaseFacts ==
    ASSUME NEW a \in [Payments -> Assignment]
    PROVE  /\ Release(a) \in [Payments -> Assignment]
           /\ \A p \in Payments :
                 /\ SameDeal(Release(a)[p], a[p])
                 /\ \/ Release(a)[p] = a[p]
                    \/ Release(a)[p].state \in OpenState /\ a[p].state \in OpenState
BY DEF Release, Assignment, SameDeal, OpenState

\* ExpireStaleManualPayments closes the open assignments of stale orders and
\* nothing else.
LEMMA CloseStaleFacts ==
    ASSUME NEW a \in [Payments -> Assignment]
    PROVE  /\ CloseStale(a) \in [Payments -> Assignment]
           /\ \A p \in Payments :
                 /\ SameDeal(CloseStale(a)[p], a[p])
                 /\ IF Stale(p) /\ a[p].state \in OpenState
                       THEN CloseStale(a)[p].state = "rejected"
                       ELSE CloseStale(a)[p] = a[p]
BY DEF CloseStale, Assignment, SameDeal, OpenState

\* A non-empty set of natural numbers has a least element, so uniqueManualAmount
\* picks one of the free sums.
LEMMA MinIsMember ==
    ASSUME NEW S \in SUBSET Nat, S # {}
    PROVE  Min(S) \in S
<1> DEFINE R == OpToRel(<, Nat)
<1>1. IsWellFoundedOn(R, Nat)
  BY NatLessThanWellFounded, Zenon
<1>2. PICK x \in S : \A y \in S : ~ (<<y, x>> \in R)
  <2> HIDE DEF R
  <2>1. QED
    BY <1>1, WFMin
<1>3. \A y \in S : ~ (y < x)
  BY <1>2 DEF OpToRel
<1>4. \A y \in S : x =< y
  BY <1>3
<1>5. QED
  BY <1>4 DEF Min

-----------------------------------------------------------------------------
(* What a step may do to an order.                                         *)

\* Nothing, or the hold is released or claimed.
Stays(p) ==
    /\ status'[p] = status[p] /\ grants'[p] = grants[p]
    /\ SameDeal(asg'[p], asg[p])
    /\ asg'[p] = asg[p] \/ (asg'[p].state \in OpenState /\ asg[p].state \in OpenState)

\* It is closed without money: swept, rejected or voided.
Closes(p) ==
    /\ \/ status[p] = "pending" /\ status'[p] \in {"canceled", "voided"}
       \/ status[p] = "canceled" /\ status'[p] = "voided"
    /\ grants'[p] = grants[p]
    /\ SameDeal(asg'[p], asg[p])
    /\ asg'[p].state = "rejected"

\* It is paid.
Pays(p) ==
    /\ status[p] = "pending" /\ status'[p] = "paid"
    /\ grants'[p] = grants[p] + 1
    /\ SameDeal(asg'[p], asg[p])
    /\ asg'[p].state = "consumed"

\* It is created, with a sum that no matchable order on the card expects.
Opens(p) ==
    /\ co[p].at = "commit" /\ co'[p].at = "done"
    /\ status'[p] = "pending" /\ grants'[p] = grants[p]
    /\ asg'[p].state = "awaiting_transfer"
    /\ asg'[p].card \in Cards /\ asg'[p].amount \notin OpenAmounts(asg'[p].card)

\* One order at most is created by a step, and the clock does not go back.
OrdersTurn ==
    /\ \A p \in Payments : Stays(p) \/ Closes(p) \/ Pays(p) \/ Opens(p)
    /\ \A p, q \in Payments : Opens(p) /\ Opens(q) => p = q
    /\ now' >= now

\* Payment, assignment and grant go on agreeing, and no two matchable orders
\* come to expect the same sum on one card.
LEMMA TurnAgrees ==
    ASSUME TypeOK, Flight, AssignmentAgrees, OneCandidate, OrdersTurn, TypeOK'
    PROVE  AssignmentAgrees' /\ OneCandidate'
<1>1. AssignmentAgrees'
  <2> SUFFICES ASSUME NEW p \in Payments
               PROVE  /\ status'[p] = "pending" <=> asg'[p].state \in OpenState
                      /\ status'[p] = "paid" <=> asg'[p].state = "consumed"
                      /\ status'[p] \in {"canceled", "voided"} <=> asg'[p].state = "rejected"
                      /\ grants'[p] = IF status'[p] = "paid" THEN 1 ELSE 0
    BY DEF AssignmentAgrees
  <2>0. /\ status[p] = "pending" <=> asg[p].state \in OpenState
        /\ status[p] = "paid" <=> asg[p].state = "consumed"
        /\ status[p] \in {"canceled", "voided"} <=> asg[p].state = "rejected"
        /\ grants[p] = IF status[p] = "paid" THEN 1 ELSE 0
    BY DEF AssignmentAgrees
  <2>1. CASE Stays(p)
    BY <2>0, <2>1 DEF Stays, OpenState
  <2>2. CASE Closes(p)
    BY <2>0, <2>2 DEF Closes, OpenState
  <2>3. CASE Pays(p)
    BY <2>0, <2>3 DEF Pays, OpenState
  <2>4. CASE Opens(p)
    <3>1. status[p] = "none"
      BY <2>4 DEF Opens, Flight, CheckoutIsNew
    <3>2. QED
      BY <2>0, <2>4, <3>1 DEF Opens, OpenState
  <2>5. QED
    BY <2>1, <2>2, <2>3, <2>4 DEF OrdersTurn
<1>2. \A p \in Payments : Matchable(p)' => Opens(p) \/ (Matchable(p) /\ SameDeal(asg'[p], asg[p]))
  <2> SUFFICES ASSUME NEW p \in Payments, Matchable(p)', ~Opens(p)
               PROVE  Matchable(p) /\ SameDeal(asg'[p], asg[p])
    OBVIOUS
  <2>1. Stays(p)
    BY DEF OrdersTurn, Closes, Pays, Matchable, OpenState
  <2>2. now \in Int /\ now' \in Int /\ asg[p].at \in Int /\ asg'[p].at = asg[p].at /\ now' >= now
    BY <2>1 DEF TypeOK, Assignment, Stays, SameDeal, OrdersTurn
  <2>3. asg[p].at + TTL >= now
    BY <2>2, NumberAssumption DEF Matchable
  <2>4. QED
    BY <2>1, <2>3 DEF Matchable, Stays
<1>3. OneCandidate'
  <2> SUFFICES ASSUME NEW p \in Payments, NEW q \in Payments, Matchable(p)', Matchable(q)',
                      asg'[p].card = asg'[q].card, asg'[p].amount = asg'[q].amount
               PROVE  p = q
    BY DEF OneCandidate
  <2>1. CASE ~Opens(p) /\ ~Opens(q)
    BY <1>2, <2>1 DEF OneCandidate, SameDeal
  <2>2. CASE Opens(p) /\ ~Opens(q)
    <3>1. asg[q].amount \in OpenAmounts(asg[q].card)
      BY <1>2, <2>2 DEF OpenAmounts
    <3>2. QED
      BY <1>2, <2>2, <3>1 DEF Opens, SameDeal
  <2>3. CASE ~Opens(p) /\ Opens(q)
    <3>1. asg[p].amount \in OpenAmounts(asg[p].card)
      BY <1>2, <2>3 DEF OpenAmounts
    <3>2. QED
      BY <1>2, <2>3, <3>1 DEF Opens, SameDeal
  <2>4. CASE Opens(p) /\ Opens(q)
    BY <2>4 DEF OrdersTurn
  <2>5. QED
    BY <2>1, <2>2, <2>3, <2>4
<1>4. QED
  BY <1>1, <1>3

\* What a step may do to checkouts and pushes.
FlightTurn ==
    /\ \A p \in Payments : \/ co'[p] = co[p]
                           \/ /\ co[p].at # "done"
                              /\ co'[p].at = "commit" => co'[p].card \in Cards
    /\ \A e \in Payments : \/ push'[e] = push[e]
                           \/ /\ asg[e].card # None
                              /\ push'[e].sent /\ push'[e].amount = asg[e].amount
    /\ \A e \in Payments : \/ ing'[e] = ing[e]
                           \/ ing'[e].at = "idle"
                           \/ /\ push[e].sent
                              /\ ing'[e].at \in {"confirm", "mark"} => ing'[e].cand \in Payments
                              /\ ing'[e].at = "mark" => status'[ing'[e].cand] = "paid"
    /\ \A e \in Payments : \/ event'[e].match \in {event[e].match, None}
                           \/ status'[event'[e].match] = "paid"

\* Every step of that shape keeps the inductive invariant.
LEMMA TurnStep ==
    ASSUME IInv, TypeOK', OrdersTurn, FlightTurn
    PROVE  IInv'
<1>1. AssignmentAgrees' /\ OneCandidate'
  BY TurnAgrees DEF IInv
<1>2. \A p \in Payments : status[p] = "paid" => status'[p] = "paid"
  BY DEF OrdersTurn, Stays, Closes, Pays, Opens, IInv, Flight, CheckoutIsNew
<1>3. CheckoutIsNew'
  <2> SUFFICES ASSUME NEW p \in Payments, co'[p].at # "done"
               PROVE  asg'[p] = NoAsg /\ status'[p] = "none"
    BY DEF CheckoutIsNew
  <2>1. co[p].at # "done" /\ ~Opens(p)
    BY DEF FlightTurn, Opens
  <2>2. asg[p] = NoAsg /\ status[p] = "none"
    BY <2>1 DEF IInv, Flight, CheckoutIsNew
  <2>3. Stays(p)
    BY <2>1, <2>2 DEF OrdersTurn, Closes, Pays
  <2>4. QED
    BY <2>2, <2>3 DEF Stays, NoAsg, OpenState
<1>4. CheckoutNamesCard'
  BY DEF FlightTurn, IInv, Flight, CheckoutNamesCard
<1>5. AssignedCard'
  <2> SUFFICES ASSUME NEW p \in Payments PROVE asg'[p].card = None <=> asg'[p].state = "none"
    BY DEF AssignedCard
  <2>1. /\ asg[p].card = None <=> asg[p].state = "none"
        /\ status[p] \in {"pending", "canceled"} => asg[p].state # "none"
    BY DEF IInv, Flight, AssignedCard, AssignmentAgrees, OpenState
  <2>2. CASE Opens(p)
    BY <2>2, NoneAssumption DEF Opens
  <2>3. CASE Stays(p)
    BY <2>1, <2>3 DEF Stays, SameDeal, OpenState
  <2>4. CASE Closes(p) \/ Pays(p)
    BY <2>1, <2>4 DEF Closes, Pays, SameDeal
  <2>5. QED
    BY <2>2, <2>3, <2>4 DEF OrdersTurn
<1>6. PushShows'
  <2> SUFFICES ASSUME NEW e \in Payments
               PROVE  /\ push'[e].sent => asg'[e].card # None /\ push'[e].amount = asg'[e].amount
                      /\ ing'[e].at # "idle" => push'[e].sent
    BY DEF PushShows
  <2>1. asg[e].card # None => SameDeal(asg'[e], asg[e])
    BY DEF OrdersTurn, Stays, Closes, Pays, Opens, IInv, Flight, CheckoutIsNew, NoAsg
  <2>2. /\ push[e].sent => asg[e].card # None /\ push[e].amount = asg[e].amount
        /\ ing[e].at # "idle" => push[e].sent
    BY DEF IInv, Flight, PushShows
  <2>3. QED
    BY <2>1, <2>2 DEF FlightTurn, SameDeal
<1>7. MarksPaid'
  BY <1>2 DEF FlightTurn, IInv, Flight, MarksPaid
<1>8. MatchedIsPaid'
  <2> SUFFICES ASSUME NEW e \in Payments, event'[e].match # None
               PROVE  status'[event'[e].match] = "paid"
    BY DEF MatchedIsPaid
  <2>1. CASE event'[e].match = event[e].match
    <3>1. event[e].match \in Payments
      BY <2>1 DEF IInv, TypeOK
    <3>2. QED
      BY <1>2, <2>1, <3>1 DEF IInv, MatchedIsPaid
  <2>2. QED
    BY <2>1 DEF FlightTurn
<1>9. QED
  BY <1>1, <1>3, <1>4, <1>5, <1>6, <1>7, <1>8 DEF IInv, Flight

-----------------------------------------------------------------------------
(* The actions.                                                            *)

CheckoutRec == [at : {"idle", "lock", "commit", "done"}, free : SUBSET Cards,
             card : Cards \cup {None}, number : Numbers \cup {None}]
Push == [sent : BOOLEAN, number : Numbers \cup {None}, amount : Nat, at : 0..MaxTime]
Event == [status : {"none", "unmatched", "matched", "ignored"}, match : Payments \cup {None}]
Ingest == [at : {"idle", "sweep", "find", "confirm", "mark"}, cand : Payments \cup {None}]

\* TypeOK, record by record.
LEMMA Typed ==
    TypeOK <=> /\ now \in 0..MaxTime /\ status \in [Payments -> Status]
               /\ asg \in [Payments -> Assignment] /\ enabled \in SUBSET Cards
               /\ last4 \in [Cards -> Numbers] /\ edits \in 0..MaxEdits
               /\ cardLock \in [Cards -> Payments \cup {None}] /\ co \in [Payments -> CheckoutRec]
               /\ push \in [Payments -> Push] /\ event \in [Payments -> Event]
               /\ ing \in [Payments -> Ingest] /\ grants \in [Payments -> Nat]
               /\ crashes \in 0..MaxCrashes
BY DEF TypeOK, CheckoutRec, Push, Event, Ingest

\* The shape every step has.
Turn == TypeOK' /\ OrdersTurn /\ FlightTurn

\* A step that leaves the orders alone.
LEMMA OrdersStay ==
    ASSUME TypeOK, UNCHANGED <<status, asg, grants>>, now' >= now,
           \A p \in Payments : status[p] # "pending" \/ co[p].at # "commit"
    PROVE  OrdersTurn
BY DEF OrdersTurn, Stays, SameDeal, Opens

\* An order in the making is not pending yet.
LEMMA NotYetPending ==
    ASSUME IInv
    PROVE  /\ \A p \in Payments : status[p] # "pending" \/ co[p].at # "commit"
           /\ now \in Int /\ now >= now
BY DEF IInv, Flight, CheckoutIsNew, TypeOK

\* StartManualCheckout's snapshot and card lock, and a checkout that dies.
LEMMA CheckoutTurn ==
    ASSUME IInv, NEW p \in Payments,
           CheckoutSnapshot(p) \/ CheckoutLockCard(p) \/ CheckoutCrash(p)
    PROVE  Turn
<1>0. TypeOK /\ co \in [Payments -> CheckoutRec]
  BY Typed DEF IInv
<1>1. co' \in [Payments -> CheckoutRec] /\ co[p].at # "done"
      /\ (\A q \in Payments : q # p => co'[q] = co[q])
      /\ (co'[p].at = "commit" => co'[p].card \in Cards)
  <2>1. CASE CheckoutSnapshot(p)
    <3> DEFINE F == {c \in enabled : \A q \in Payments :
                        Release(CloseStale(asg))[q].card = c => Release(CloseStale(asg))[q].released}
    <3>1. co' = [co EXCEPT ![p] = [@ EXCEPT !.at = "lock", !.free = F]] /\ co[p].at = "idle"
      BY <2>1 DEF CheckoutSnapshot
    <3>2. F \in SUBSET Cards
      BY <1>0 DEF TypeOK
    <3> HIDE DEF F
    <3>3. QED
      BY <1>0, <3>1, <3>2 DEF CheckoutRec
  <2>2. CASE CheckoutLockCard(p)
    <3>1. LockFreeManualPayCard(p) \subseteq Cards
      BY <1>0 DEF LockFreeManualPayCard, CheckoutRec
    <3>2. co[p].at # "done"
      BY <2>2 DEF CheckoutLockCard
    <3>3. CASE co' = [co EXCEPT ![p] = Checkout("done", None, None)]
      <4> DEFINE r == Checkout("done", None, None)
      <4>1. r \in CheckoutRec /\ r.at # "commit"
        BY DEF CheckoutRec, Checkout
      <4> HIDE DEF r
      <4>2. QED
        BY <1>0, <3>2, <3>3, <4>1 DEF r
    <3>4. ASSUME NEW c \in LockFreeManualPayCard(p),
                 co' = [co EXCEPT ![p] = Checkout("commit", c, None)]
          PROVE  /\ co' \in [Payments -> CheckoutRec]
                 /\ \A q \in Payments : q # p => co'[q] = co[q]
                 /\ co'[p].card \in Cards
      <4> DEFINE r == Checkout("commit", c, None)
      <4>1. r \in CheckoutRec /\ r.card \in Cards
        BY <3>1 DEF CheckoutRec, Checkout
      <4>2. co' = [co EXCEPT ![p] = r]
        BY <3>4
      <4> HIDE DEF r
      <4>3. QED
        BY <1>0, <4>1, <4>2
    <3>5. \/ co' = [co EXCEPT ![p] = Checkout("done", None, None)]
          \/ \E c \in LockFreeManualPayCard(p) :
                co' = [co EXCEPT ![p] = Checkout("commit", c, None)]
      BY <2>2, Zenon DEF CheckoutLockCard
    <3>6. QED
      BY <3>2, <3>3, <3>4, <3>5
  <2>3. CASE CheckoutCrash(p)
    BY <1>0, <2>3 DEF CheckoutCrash, CheckoutRec, Checkout
  <2>4. QED
    BY <2>1, <2>2, <2>3
<1>2. cardLock' \in [Cards -> Payments \cup {None}]
  <2>1. CASE CheckoutLockCard(p)
    BY <1>0, <2>1 DEF CheckoutLockCard, TypeOK
  <2>2. CASE CheckoutSnapshot(p) \/ CheckoutCrash(p)
    BY <1>0, <2>2 DEF CheckoutSnapshot, CheckoutCrash, TypeOK
  <2>3. QED
    BY <2>1, <2>2
<1>3. crashes' \in 0..MaxCrashes
  <2>1. crashes \in 0..MaxCrashes /\ MaxCrashes \in Nat
    BY <1>0, NumberAssumption DEF TypeOK
  <2>2. crashes' = crashes \/ (crashes < MaxCrashes /\ crashes' = crashes + 1)
    BY DEF CheckoutSnapshot, CheckoutLockCard, CheckoutCrash
  <2>3. QED
    BY <2>1, <2>2
<1>4. UNCHANGED <<now, status, asg, grants, enabled, last4, edits, push, event, ing>>
  BY DEF CheckoutSnapshot, CheckoutLockCard, CheckoutCrash, orders, transfers, cards
<1>5. TypeOK'
  BY <1>0, <1>1, <1>2, <1>3, <1>4 DEF TypeOK, CheckoutRec
<1>6. OrdersTurn
  BY <1>0, <1>4, NotYetPending, OrdersStay
<1>7. FlightTurn
  BY <1>1, <1>4 DEF FlightTurn
<1>8. QED
  BY <1>5, <1>6, <1>7 DEF Turn

\* The commit of a checkout: the swept orders close, the new one opens with a
\* sum of its own.
LEMMA CommitTurn ==
    ASSUME IInv, NEW p \in Payments, CheckoutCommit(p)
    PROVE  Turn
<1>0. TypeOK /\ co \in [Payments -> CheckoutRec] /\ asg \in [Payments -> Assignment]
  BY Typed DEF IInv
<1> DEFINE c == co[p].card
           sums == FreeAmounts(p, c)
           swept == Release(CloseStale(asg))
<1>1. c \in Cards /\ co[p].at = "commit" /\ asg[p] = NoAsg /\ status[p] = "none"
  BY DEF CheckoutCommit, IInv, Flight, CheckoutNamesCard, CheckoutIsNew
<1>2. /\ co' \in [Payments -> CheckoutRec] /\ co'[p].at = "done"
      /\ \A q \in Payments : q # p => co'[q] = co[q]
  <2>1. last4[c] \in Numbers
    BY <1>0, <1>1 DEF TypeOK
  <2>2. PICK n \in Numbers \cup {None} :
           co' = [co EXCEPT ![p] = [at |-> "done", free |-> {}, card |-> None, number |-> n]]
    <3>1. \/ co' = [co EXCEPT ![p] = Checkout("done", None, None)]
          \/ co' = [co EXCEPT ![p] = Checkout("done", None, last4[c])]
      BY DEF CheckoutCommit
    <3>2. CASE co' = [co EXCEPT ![p] = Checkout("done", None, None)]
      BY <3>2 DEF Checkout
    <3>3. CASE co' = [co EXCEPT ![p] = Checkout("done", None, last4[c])]
      BY <2>1, <3>3 DEF Checkout
    <3>4. QED
      BY <3>1, <3>2, <3>3
  <2>3. QED
    BY <1>0, <2>2 DEF CheckoutRec
<1>3. cardLock' \in [Cards -> Payments \cup {None}]
  BY <1>0 DEF CheckoutCommit, TypeOK
<1>4. UNCHANGED <<now, enabled, last4, edits, push, event, ing, grants, crashes>>
  BY DEF CheckoutCommit, transfers, cards
<1>5. FlightTurn
  BY <1>1, <1>2, <1>4 DEF FlightTurn
<1>6. CASE sums = {}
  <2>1. UNCHANGED <<status, asg>>
    BY <1>6 DEF CheckoutCommit
  <2>2. TypeOK'
    BY <1>0, <1>2, <1>3, <1>4, <2>1 DEF TypeOK, CheckoutRec
  <2>3. OrdersTurn
    BY <1>0, <1>4, <2>1, NotYetPending, OrdersStay
  <2>4. QED
    BY <1>5, <2>2, <2>3 DEF Turn
<1>7. CASE sums # {}
  <2>1. /\ status' = [ExpireStatus EXCEPT ![p] = "pending"]
        /\ asg' = [swept EXCEPT ![p] = InsertManualPayAssignment(c, Min(sums))]
    BY <1>7 DEF CheckoutCommit
  <2>2. sums \in SUBSET Nat
    <3>1. Price[p] \in Nat /\ Slots \in Nat
      BY NumberAssumption
    <3>2. \A k \in 0..(Slots - 1) : Price[p] + k \in Nat
      BY <3>1
    <3>3. QED
      BY <3>2 DEF FreeAmounts
  <2>3. Min(sums) \in sums
    BY <1>7, <2>2, MinIsMember
  <2>4. Min(sums) \in Nat /\ Min(sums) \notin OpenAmounts(c)
    BY <2>2, <2>3 DEF FreeAmounts
  <2> DEFINE sum == Min(sums)
             new == InsertManualPayAssignment(c, sum)
  <2>5. /\ new \in Assignment /\ new.card = c /\ new.amount = sum
        /\ new.state = "awaiting_transfer"
    BY <1>0, <1>1, <2>4 DEF InsertManualPayAssignment, Assignment, OpenState, TypeOK
  <2>6. /\ swept \in [Payments -> Assignment]
        /\ \A q \in Payments :
              /\ SameDeal(swept[q], asg[q])
              /\ IF Stale(q) /\ asg[q].state \in OpenState THEN swept[q].state = "rejected"
                 ELSE swept[q] = asg[q] \/ (swept[q].state \in OpenState /\ asg[q].state \in OpenState)
    <3>1. CloseStale(asg) \in [Payments -> Assignment]
      BY <1>0, CloseStaleFacts
    <3>2. QED
      BY <1>0, <3>1, CloseStaleFacts, ReleaseFacts DEF SameDeal, OpenState
  <2> HIDE DEF new, sum, swept, sums, c
  <2>7. asg' = [swept EXCEPT ![p] = new]
    BY <2>1 DEF new, sum
  <2>8. asg' \in [Payments -> Assignment] /\ asg'[p] = new
        /\ \A q \in Payments \ {p} : asg'[q] = swept[q]
    BY <2>5, <2>6, <2>7
  <2>9. /\ status' \in [Payments -> Status] /\ status'[p] = "pending"
        /\ \A q \in Payments \ {p} : status'[q] = IF Stale(q) THEN "canceled" ELSE status[q]
    BY <1>0, <2>1 DEF ExpireStatus, TypeOK, Status
  <2>10. TypeOK'
    BY <1>0, <1>2, <1>3, <1>4, <2>8, <2>9 DEF TypeOK, CheckoutRec
  <2>11. \A q \in Payments \ {p} : Stays(q) \/ Closes(q)
    <3> TAKE q \in Payments \ {p}
    <3>1. status[q] = "pending" <=> asg[q].state \in OpenState
      BY DEF IInv, AssignmentAgrees
    <3>2. CASE Stale(q)
      BY <1>4, <2>6, <2>8, <2>9, <3>1, <3>2 DEF Closes, Stale
    <3>3. CASE ~Stale(q)
      BY <1>4, <2>6, <2>8, <2>9, <3>3 DEF Stays
    <3>4. QED
      BY <3>2, <3>3
  <2>12. Opens(p)
    BY <1>1, <1>2, <1>4, <2>4, <2>5, <2>8, <2>9 DEF Opens, sum
  <2>13. \A q \in Payments : Opens(q) => q = p
    BY <1>2 DEF Opens
  <2>14. OrdersTurn
    BY <1>4, <2>11, <2>12, <2>13, NotYetPending DEF OrdersTurn
  <2>15. QED
    BY <1>5, <2>10, <2>14 DEF Turn
<1>8. QED
  BY <1>6, <1>7

\* Claims, releases and sweeps: open orders stay open or are swept.
LEMMA SweepTurn ==
    ASSUME IInv, UNCHANGED <<now, grants, enabled, last4, edits, cardLock, co, push, event, crashes>>,
           asg' \in [Payments -> Assignment],
           ing' \in [Payments -> Ingest],
           \A e \in Payments : ing'[e] = ing[e] \/ (push[e].sent /\ ing'[e].at = "find"),
           \/ /\ status' = status
              /\ \A p \in Payments :
                    /\ SameDeal(asg'[p], asg[p])
                    /\ \/ asg'[p] = asg[p]
                       \/ asg'[p].state \in OpenState /\ asg[p].state \in OpenState
           \/ /\ status' = ExpireStatus
              /\ \A p \in Payments :
                    /\ SameDeal(asg'[p], asg[p])
                    /\ IF Stale(p) /\ asg[p].state \in OpenState THEN asg'[p].state = "rejected"
                       ELSE \/ asg'[p] = asg[p]
                            \/ asg'[p].state \in OpenState /\ asg[p].state \in OpenState
    PROVE  Turn
<1>0. TypeOK
  BY DEF IInv
<1>1. status' \in [Payments -> Status]
  BY <1>0 DEF TypeOK, ExpireStatus, Status
<1>2. TypeOK'
  BY <1>0, <1>1 DEF TypeOK, Ingest
<1>3. \A p \in Payments : Stays(p) \/ Closes(p)
  <2> TAKE p \in Payments
  <2>1. status[p] = "pending" <=> asg[p].state \in OpenState
    BY DEF IInv, AssignmentAgrees
  <2>2. CASE status'[p] = status[p]
            /\ SameDeal(asg'[p], asg[p])
            /\ (asg'[p] = asg[p] \/ (asg'[p].state \in OpenState /\ asg[p].state \in OpenState))
    BY <2>2 DEF Stays
  <2>3. CASE status' = ExpireStatus /\ Stale(p)
            /\ SameDeal(asg'[p], asg[p])
            /\ (asg[p].state \in OpenState => asg'[p].state = "rejected")
    BY <2>1, <2>3 DEF Closes, ExpireStatus, Stale
  <2>4. QED
    BY <2>1, <2>2, <2>3 DEF ExpireStatus, Stale
<1>4. \A p \in Payments : ~Opens(p)
  BY DEF Opens
<1>5. OrdersTurn
  BY <1>3, <1>4, NotYetPending DEF OrdersTurn
<1>6. FlightTurn
  BY DEF FlightTurn
<1>7. QED
  BY <1>2, <1>5, <1>6 DEF Turn

\* Claim, the lists that release holds, the expiry worker and the sweep of an
\* ingest have that shape.
LEMMA SweepingActions ==
    ASSUME IInv,
           \/ \E p \in Payments : Claim(p) \/ IngestSweep(p)
           \/ ReleaseHolds \/ ExpireWorker
    PROVE  Turn
<1>0. TypeOK /\ asg \in [Payments -> Assignment] /\ ing \in [Payments -> Ingest]
  BY Typed DEF IInv
<1>1. /\ Release(asg) \in [Payments -> Assignment]
      /\ \A p \in Payments :
            /\ SameDeal(Release(asg)[p], asg[p])
            /\ \/ Release(asg)[p] = asg[p]
               \/ Release(asg)[p].state \in OpenState /\ asg[p].state \in OpenState
  BY <1>0, ReleaseFacts
<1>2. ASSUME NEW p \in Payments, Claim(p) PROVE Turn
  <2> DEFINE a == Release(asg)[p]
             b == ClaimManualPayAssignment(a)
  <2>1. a \in Assignment /\ a.state \in OpenState
    BY <1>1, <1>2 DEF Claim
  <2>2. b \in Assignment /\ SameDeal(b, a) /\ b.state \in OpenState
    BY <2>1 DEF ClaimManualPayAssignment, Assignment, SameDeal, OpenState
  <2>3. asg' = [Release(asg) EXCEPT ![p] = b]
    BY <1>1, <1>2 DEF Claim
  <2> HIDE DEF a, b
  <2>4. asg' \in [Payments -> Assignment]
    BY <1>1, <2>2, <2>3
  <2>5. \A q \in Payments :
           /\ SameDeal(asg'[q], asg[q])
           /\ asg'[q] = asg[q] \/ (asg'[q].state \in OpenState /\ asg[q].state \in OpenState)
    <3> TAKE q \in Payments
    <3>1. CASE q # p
      BY <1>1, <2>3, <3>1
    <3>2. CASE q = p
      <4>1. asg'[q] = b /\ SameDeal(a, asg[p]) /\ asg[p].state \in OpenState
        BY <1>1, <1>2, <2>3, <3>2 DEF Claim, a
      <4>2. QED
        BY <2>2, <3>2, <4>1 DEF SameDeal
    <3>3. QED
      BY <3>1, <3>2
  <2>6. UNCHANGED <<now, status, grants, enabled, last4, edits, cardLock, co, push, event, ing, crashes>>
    BY <1>2 DEF Claim, checkouts, transfers, cards
  <2>7. QED
    BY <1>0, <2>4, <2>5, <2>6, SweepTurn
<1>3. CASE ReleaseHolds
  <2>1. /\ asg' = Release(asg)
        /\ UNCHANGED <<now, status, grants, enabled, last4, edits, cardLock, co, push, event, ing, crashes>>
    BY <1>3 DEF ReleaseHolds, checkouts, transfers, cards
  <2>2. QED
    BY <1>0, <1>1, <2>1, SweepTurn
<1>4. CASE ExpireWorker
  <2>1. /\ asg' = CloseStale(asg) /\ status' = ExpireStatus
        /\ UNCHANGED <<now, grants, enabled, last4, edits, cardLock, co, push, event, ing, crashes>>
    BY <1>4 DEF ExpireWorker, Sweep, checkouts, transfers, cards
  <2>2. QED
    BY <1>0, <2>1, CloseStaleFacts, SweepTurn
<1>5. ASSUME NEW e \in Payments, IngestSweep(e) PROVE Turn
  <2>1. /\ asg' = CloseStale(Release(asg)) /\ status' = ExpireStatus
        /\ UNCHANGED <<now, grants, enabled, last4, edits, cardLock, co, push, event, crashes>>
        /\ ing' = [ing EXCEPT ![e] = [at |-> "find", cand |-> None]] /\ push[e].sent
    BY <1>5 DEF IngestSweep, IngestTo, checkouts, cards, IInv, Flight, PushShows
  <2>2. /\ asg' \in [Payments -> Assignment]
        /\ \A p \in Payments :
              /\ SameDeal(asg'[p], asg[p])
              /\ IF Stale(p) /\ asg[p].state \in OpenState THEN asg'[p].state = "rejected"
                 ELSE asg'[p] = asg[p] \/ (asg'[p].state \in OpenState /\ asg[p].state \in OpenState)
    BY <1>1, <2>1, CloseStaleFacts DEF SameDeal
  <2>3. /\ ing' \in [Payments -> Ingest]
        /\ \A d \in Payments : ing'[d] = ing[d] \/ (push[d].sent /\ ing'[d].at = "find")
    BY <1>0, <2>1 DEF Ingest
  <2>4. QED
    BY <2>1, <2>2, <2>3, SweepTurn
<1>6. QED
  BY <1>2, <1>3, <1>4, <1>5

\* The confirmation of an order, by the admin or by an ingest.
LEMMA ConfirmOrder ==
    ASSUME IInv, NEW p \in Payments, CanConfirm(p), ConfirmManualPayment(p),
           UNCHANGED <<now, co>>
    PROVE  /\ status' \in [Payments -> Status] /\ status'[p] = "paid"
           /\ asg' \in [Payments -> Assignment] /\ grants' \in [Payments -> Nat]
           /\ OrdersTurn
<1>0. TypeOK /\ asg \in [Payments -> Assignment]
  BY Typed DEF IInv
<1>1. status' \in [Payments -> Status] /\ status'[p] = "paid"
      /\ \A q \in Payments \ {p} : status'[q] = status[q]
  BY <1>0 DEF ConfirmManualPayment, MarkPaymentPaidIfOpen, TypeOK, Status
<1>2. /\ asg' \in [Payments -> Assignment] /\ asg'[p].state = "consumed"
      /\ SameDeal(asg'[p], asg[p]) /\ \A q \in Payments \ {p} : asg'[q] = asg[q]
  BY <1>0 DEF ConfirmManualPayment, MarkManualPayAssignmentConsumed, Assignment, SameDeal
<1>3. /\ grants' \in [Payments -> Nat] /\ grants'[p] = grants[p] + 1
      /\ \A q \in Payments \ {p} : grants'[q] = grants[q]
  BY <1>0 DEF ConfirmManualPayment, TypeOK
<1>4. Pays(p) /\ \A q \in Payments \ {p} : Stays(q)
  BY <1>1, <1>2, <1>3 DEF Pays, Stays, CanConfirm, SameDeal
<1>5. \A q \in Payments : ~Opens(q)
  BY DEF Opens
<1>6. QED
  BY <1>1, <1>2, <1>3, <1>4, <1>5, NotYetPending DEF OrdersTurn

\* The admin's confirmation, rejection and void.
LEMMA AdminTurn ==
    ASSUME IInv, NEW p \in Payments,
           AdminConfirm(p) \/ RejectManualPayment(p) \/ VoidPayment(p)
    PROVE  Turn
<1>0. /\ TypeOK /\ asg \in [Payments -> Assignment] /\ event \in [Payments -> Event]
  BY Typed DEF IInv
<1>1. CASE AdminConfirm(p)
  <2>1. /\ UNCHANGED <<now, enabled, last4, edits, cardLock, co, push, event, ing, crashes>>
        /\ CanConfirm(p) /\ ConfirmManualPayment(p)
    BY <1>1 DEF AdminConfirm, checkouts, transfers, cards
  <2>2. TypeOK' /\ OrdersTurn
    BY <1>0, <2>1, ConfirmOrder DEF TypeOK
  <2>3. QED
    BY <2>1, <2>2 DEF Turn, FlightTurn
<1>2. CASE RejectManualPayment(p)
  <2>1. /\ UNCHANGED <<now, grants, enabled, last4, edits, cardLock, co, push, event, ing, crashes>>
        /\ status[p] = "pending"
        /\ status' \in [Payments -> Status] /\ status'[p] = "canceled"
        /\ \A q \in Payments \ {p} : status'[q] = status[q]
    BY <1>0, <1>2 DEF RejectManualPayment, checkouts, transfers, cards, TypeOK, Status
  <2>2. /\ asg' \in [Payments -> Assignment] /\ asg'[p].state = "rejected"
        /\ SameDeal(asg'[p], asg[p]) /\ \A q \in Payments \ {p} : asg'[q] = asg[q]
    BY <1>0, <1>2 DEF RejectManualPayment, RejectManualPayAssignment, Assignment, SameDeal
  <2>3. Closes(p) /\ (\A q \in Payments \ {p} : Stays(q)) /\ \A q \in Payments : ~Opens(q)
    BY <2>1, <2>2 DEF Closes, Stays, SameDeal, Opens
  <2>4. TypeOK' /\ OrdersTurn
    BY <1>0, <2>1, <2>2, <2>3, NotYetPending DEF TypeOK, OrdersTurn
  <2>5. QED
    BY <2>1, <2>4 DEF Turn, FlightTurn
<1>3. CASE VoidPayment(p)
  <2>1. /\ UNCHANGED <<now, grants, enabled, last4, edits, cardLock, co, push, ing, crashes>>
        /\ status[p] \in {"pending", "canceled"}
        /\ status' \in [Payments -> Status] /\ status'[p] = "voided"
        /\ \A q \in Payments \ {p} : status'[q] = status[q]
    BY <1>0, <1>3 DEF VoidPayment, checkouts, cards, TypeOK, Status
  <2>2. asg[p].state # "consumed"
    BY <2>1 DEF IInv, AssignmentAgrees
  <2>3. /\ asg' \in [Payments -> Assignment] /\ asg'[p].state = "rejected"
        /\ SameDeal(asg'[p], asg[p]) /\ \A q \in Payments \ {p} : asg'[q] = asg[q]
    BY <1>0, <1>3, <2>2, ZenonT(60) DEF VoidPayment, Assignment, SameDeal
  <2>4. /\ event' \in [Payments -> Event]
        /\ \A e \in Payments : event'[e].match \in {event[e].match, None}
    BY <1>0, <1>3 DEF VoidPayment, Event
  <2>5. Closes(p) /\ (\A q \in Payments \ {p} : Stays(q)) /\ \A q \in Payments : ~Opens(q)
    BY <2>1, <2>3 DEF Closes, Stays, SameDeal, Opens
  <2>6. TypeOK' /\ OrdersTurn
    BY <1>0, <2>1, <2>3, <2>4, <2>5, NotYetPending DEF TypeOK, OrdersTurn, Event
  <2>7. QED
    BY <2>1, <2>4, <2>6 DEF Turn, FlightTurn
<1>4. QED
  BY <1>1, <1>2, <1>3

\* A step of an ingest that leaves the orders alone.
LEMMA IngestShape ==
    ASSUME IInv, NEW e \in Payments,
           UNCHANGED <<now, status, asg, grants, enabled, last4, edits, cardLock, co, push>>,
           crashes' \in 0..MaxCrashes,
           event' \in [Payments -> Event],
           \A d \in Payments : \/ event'[d].match \in {event[d].match, None}
                               \/ status[event'[d].match] = "paid",
           NEW r \in Ingest, ing' = [ing EXCEPT ![e] = r],
           \/ r = ing[e]
           \/ r.at = "idle"
           \/ /\ push[e].sent
              /\ r.at \in {"confirm", "mark"} => r.cand \in Payments
              /\ r.at = "mark" => status[r.cand] = "paid"
    PROVE  Turn
<1>0. TypeOK /\ ing \in [Payments -> Ingest]
  BY Typed DEF IInv
<1>1. ing' \in [Payments -> Ingest] /\ ing'[e] = r /\ \A d \in Payments \ {e} : ing'[d] = ing[d]
  BY <1>0
<1>2. TypeOK'
  BY <1>0, <1>1 DEF TypeOK, Ingest, Event
<1>3. OrdersTurn
  BY <1>0, NotYetPending, OrdersStay
<1>4. FlightTurn
  BY <1>1 DEF FlightTurn
<1>5. QED
  BY <1>2, <1>3, <1>4 DEF Turn

\* What an ingest finds it goes on to confirm.
LEMMA FindStep ==
    ASSUME IInv, NEW e \in Payments, IngestFind(e)
    PROVE  /\ push[e].sent
           /\ UNCHANGED <<now, status, asg, grants, enabled, last4, edits, cardLock, co, push, event, crashes>>
           /\ \/ Candidates(e) = {} /\ ing' = [ing EXCEPT ![e] = [at |-> "idle", cand |-> None]]
              \/ \E p \in Candidates(e) : ing' = [ing EXCEPT ![e] = [at |-> "confirm", cand |-> p]]
BY DEF IngestFind, IngestTo, orders, checkouts, cards, IInv, Flight, PushShows

\* The bank's push and its ingest: inserted, looked up, confirmed, marked, or
\* abandoned half-way.
LEMMA IngestTurn ==
    ASSUME IInv, NEW e \in Payments,
           \/ IngestHumoPush(e) \/ IngestFind(e) \/ IngestConfirm(e)
           \/ IngestMark(e) \/ IngestCrash(e) \/ IgnoreEvent(e)
    PROVE  Turn
<1>0. /\ TypeOK /\ event \in [Payments -> Event] /\ ing \in [Payments -> Ingest]
      /\ crashes \in 0..MaxCrashes
  BY Typed DEF IInv
<1>idle. [at |-> "idle", cand |-> None] \in Ingest
  BY DEF Ingest
<1>1. CASE IngestHumoPush(e)
  <2> DEFINE r == [at |-> "sweep", cand |-> None]
  <2>1. /\ UNCHANGED <<now, status, asg, grants, enabled, last4, edits, cardLock, co, push, crashes>>
        /\ push[e].sent /\ ing' = [ing EXCEPT ![e] = r]
    BY <1>1 DEF IngestHumoPush, IngestTo, orders, checkouts, cards
  <2>2. event' \in [Payments -> Event] /\ \A d \in Payments : event'[d].match = event[d].match
    BY <1>0, <1>1 DEF IngestHumoPush, InsertManualPayEvent, Event
  <2>3. r \in Ingest /\ r.at = "sweep"
    BY DEF Ingest
  <2> HIDE DEF r
  <2>4. QED
    BY <1>0, <2>1, <2>2, <2>3, IngestShape
<1>2. CASE IngestFind(e)
  <2>1. /\ UNCHANGED <<now, status, asg, grants, enabled, last4, edits, cardLock, co, push, event, crashes>>
        /\ push[e].sent
    BY <1>2, FindStep
  <2>2. PICK r \in Ingest : /\ ing' = [ing EXCEPT ![e] = r]
                            /\ r.at = "idle" \/ (r.at = "confirm" /\ r.cand \in Payments)
    <3>1. CASE ing' = [ing EXCEPT ![e] = [at |-> "idle", cand |-> None]]
      BY <1>idle, <3>1
    <3>2. ASSUME NEW p \in Candidates(e), ing' = [ing EXCEPT ![e] = [at |-> "confirm", cand |-> p]]
          PROVE  \E r \in Ingest : /\ ing' = [ing EXCEPT ![e] = r]
                                   /\ r.at = "idle" \/ (r.at = "confirm" /\ r.cand \in Payments)
      <4>1. p \in Payments
        BY DEF Candidates
      <4>2. [at |-> "confirm", cand |-> p] \in Ingest
        BY <4>1 DEF Ingest
      <4>3. QED
        BY <3>2, <4>1, <4>2
    <3>3. QED
      BY <1>2, <3>1, <3>2, FindStep
  <2>3. QED
    BY <1>0, <2>1, <2>2, IngestShape
<1>3. CASE IngestConfirm(e)
  <2> DEFINE p == ing[e].cand
             r == [at |-> "mark", cand |-> p]
  <2>1. /\ UNCHANGED <<now, enabled, last4, edits, cardLock, co, push, event, crashes>>
        /\ push[e].sent /\ p \in Payments
    BY <1>3 DEF IngestConfirm, checkouts, cards, IInv, Flight, PushShows, MarksPaid
  <2>2. r \in Ingest /\ r.at = "mark" /\ r.cand = p
    BY <2>1 DEF Ingest
  <2>3. \/ CanConfirm(p) /\ ConfirmManualPayment(p) /\ ing' = [ing EXCEPT ![e] = r]
        \/ /\ UNCHANGED <<status, asg, grants>>
           /\ \/ status[p] = "paid" /\ ing' = [ing EXCEPT ![e] = r]
              \/ ing' = [ing EXCEPT ![e] = [at |-> "idle", cand |-> None]]
    BY <1>3 DEF IngestConfirm, IngestTo, orders, cards
  <2> HIDE DEF p, r
  <2>4. CASE CanConfirm(p) /\ ConfirmManualPayment(p) /\ ing' = [ing EXCEPT ![e] = r]
    <3>1. /\ status' \in [Payments -> Status] /\ status'[p] = "paid"
          /\ asg' \in [Payments -> Assignment] /\ grants' \in [Payments -> Nat]
          /\ OrdersTurn
      BY <2>1, <2>4, ConfirmOrder
    <3>2. /\ ing' \in [Payments -> Ingest] /\ ing'[e] = r
          /\ \A d \in Payments \ {e} : ing'[d] = ing[d]
      BY <1>0, <2>2, <2>4
    <3>3. TypeOK'
      BY <1>0, <2>1, <3>1, <3>2 DEF TypeOK, Ingest
    <3>4. FlightTurn
      BY <2>1, <2>2, <3>1, <3>2 DEF FlightTurn
    <3>5. QED
      BY <3>1, <3>3, <3>4 DEF Turn
  <2>5. CASE UNCHANGED <<status, asg, grants>> /\ status[p] = "paid" /\ ing' = [ing EXCEPT ![e] = r]
    BY <1>0, <2>1, <2>2, <2>5, IngestShape
  <2>6. CASE /\ UNCHANGED <<status, asg, grants>>
             /\ ing' = [ing EXCEPT ![e] = [at |-> "idle", cand |-> None]]
    BY <1>0, <1>idle, <2>1, <2>6, IngestShape
  <2>7. QED
    BY <2>3, <2>4, <2>5, <2>6
<1>4. CASE IngestMark(e)
  <2>1. /\ UNCHANGED <<now, status, asg, grants, enabled, last4, edits, cardLock, co, push, crashes>>
        /\ ing' = [ing EXCEPT ![e] = [at |-> "idle", cand |-> None]]
    BY <1>4 DEF IngestMark, IngestTo, orders, checkouts, cards
  <2>2. ing[e].cand \in Payments /\ status[ing[e].cand] = "paid"
    BY <1>4 DEF IngestMark, IInv, Flight, MarksPaid
  <2>3. event' = [event EXCEPT ![e] = [status |-> "matched", match |-> ing[e].cand]]
    BY <1>4 DEF IngestMark, MarkManualPayEventMatched
  <2>4. /\ event' \in [Payments -> Event]
        /\ \A d \in Payments : event'[d].match = event[d].match \/ status[event'[d].match] = "paid"
    BY <1>0, <2>2, <2>3 DEF Event
  <2>5. QED
    BY <1>0, <1>idle, <2>1, <2>4, IngestShape
<1>5. CASE IngestCrash(e)
  <2>1. /\ UNCHANGED <<now, status, asg, grants, enabled, last4, edits, cardLock, co, push, event>>
        /\ ing' = [ing EXCEPT ![e] = [at |-> "idle", cand |-> None]]
    BY <1>5 DEF IngestCrash, IngestTo, orders, checkouts, cards
  <2>2. crashes' \in 0..MaxCrashes
    BY <1>0, <1>5, NumberAssumption DEF IngestCrash
  <2>3. QED
    BY <1>0, <1>idle, <2>1, <2>2, IngestShape
<1>6. CASE IgnoreEvent(e)
  <2>1. UNCHANGED <<now, status, asg, grants, enabled, last4, edits, cardLock, co, push, ing, crashes>>
    BY <1>6 DEF IgnoreEvent, orders, checkouts, cards
  <2>2. event' \in [Payments -> Event] /\ \A d \in Payments : event'[d].match = event[d].match
    BY <1>0, <1>6 DEF IgnoreEvent, MarkManualPayEventIgnored, Event
  <2>3. TypeOK'
    BY <1>0, <2>1, <2>2 DEF TypeOK, Event
  <2>4. QED
    BY <1>0, <2>1, <2>2, <2>3, NotYetPending, OrdersStay DEF Turn, FlightTurn
<1>7. QED
  BY <1>1, <1>2, <1>3, <1>4, <1>5, <1>6

\* The bank's transfer, a card switched on or off, the clock, and a stutter.
LEMMA OutsideTurn ==
    ASSUME IInv,
           \/ \E p \in Payments : Transfer(p)
           \/ \E c \in Cards : UpdateManualPayCard(c)
           \/ Tick
           \/ UNCHANGED vars
    PROVE  Turn
<1>0. TypeOK /\ push \in [Payments -> Push] /\ asg \in [Payments -> Assignment]
  BY Typed DEF IInv
<1>1. /\ UNCHANGED <<status, asg, grants, cardLock, co, event, ing, crashes>>
      /\ enabled' \in SUBSET Cards /\ last4' \in [Cards -> Numbers] /\ edits' \in 0..MaxEdits
      /\ now' \in 0..MaxTime /\ now' >= now
  BY <1>0, NotYetPending, NumberAssumption
     DEF Transfer, UpdateManualPayCard, Tick, vars, orders, checkouts, transfers, cards, TypeOK
<1>2. push' = push \/ \E p \in Payments : Transfer(p)
  BY DEF UpdateManualPayCard, Tick, vars, transfers, cards
<1>3. /\ push' \in [Payments -> Push]
      /\ \A e \in Payments : \/ push'[e] = push[e]
                             \/ /\ asg[e].card # None
                                /\ push'[e].sent /\ push'[e].amount = asg[e].amount
  <2>1. CASE push' = push
    BY <1>0, <2>1
  <2>2. ASSUME NEW p \in Payments, Transfer(p) PROVE <1>3!1 /\ <1>3!2
    <3>1. asg[p].card \in Cards /\ asg[p].amount \in Nat /\ now \in 0..MaxTime
      BY <1>0, <2>2 DEF Transfer, Assignment, TypeOK
    <3>2. co[p].number \in Numbers \cup {None} /\ last4[asg[p].card] \in Numbers
      BY <1>0, <3>1, Typed DEF CheckoutRec
    <3>3. PICK n \in Numbers \cup {None} :
             push' = [push EXCEPT ![p] = [sent |-> TRUE, number |-> n,
                                          amount |-> asg[p].amount, at |-> now]]
      BY <2>2, <3>2 DEF Transfer
    <3> DEFINE r == [sent |-> TRUE, number |-> n, amount |-> asg[p].amount, at |-> now]
    <3>4. /\ r \in Push /\ r.sent /\ r.amount = asg[p].amount
          /\ push' = [push EXCEPT ![p] = r]
      BY <3>1, <3>3 DEF Push
    <3>5. asg[p].card # None
      BY <2>2 DEF Transfer
    <3> HIDE DEF r
    <3>6. QED
      BY <1>0, <3>4, <3>5
  <2>3. QED
    BY <1>2, <2>1, <2>2
<1>4. TypeOK'
  BY <1>0, <1>1, <1>3 DEF TypeOK, Push
<1>5. OrdersTurn
  BY <1>0, <1>1, NotYetPending, OrdersStay
<1>6. FlightTurn
  BY <1>1, <1>3 DEF FlightTurn
<1>7. QED
  BY <1>4, <1>5, <1>6 DEF Turn

\* Every step has the shape of a turn.
LEMMA EveryStepTurns ==
    ASSUME IInv, [Next]_vars
    PROVE  Turn
<1>1. CASE \E p \in Payments :
              \/ CheckoutSnapshot(p) \/ CheckoutLockCard(p) \/ CheckoutCrash(p)
  BY <1>1, CheckoutTurn
<1>2. CASE \E p \in Payments : CheckoutCommit(p)
  BY <1>2, CommitTurn
<1>3. CASE (\E p \in Payments : Claim(p) \/ IngestSweep(p)) \/ ReleaseHolds \/ ExpireWorker
  BY <1>3, SweepingActions
<1>4. CASE \E p \in Payments : AdminConfirm(p) \/ RejectManualPayment(p) \/ VoidPayment(p)
  BY <1>4, AdminTurn
<1>5. CASE \E e \in Payments :
              \/ IngestHumoPush(e) \/ IngestFind(e) \/ IngestConfirm(e)
              \/ IngestMark(e) \/ IngestCrash(e) \/ IgnoreEvent(e)
  BY <1>5, IngestTurn
<1>6. CASE \/ \E p \in Payments : Transfer(p)
           \/ \E c \in Cards : UpdateManualPayCard(c)
           \/ Tick
           \/ UNCHANGED vars
  BY <1>6, OutsideTurn
<1>7. QED
  BY <1>1, <1>2, <1>3, <1>4, <1>5, <1>6, Zenon DEF Next

-----------------------------------------------------------------------------
(* The theorems.                                                           *)

\* Nothing has been ordered, locked or pushed at the start.
LEMMA InitIInv == Init => IInv
<1> SUFFICES ASSUME Init PROVE IInv
  OBVIOUS
<1>1. TypeOK
  BY NumberAssumption, CardAssumption
     DEF Init, TypeOK, Assignment, NoAsg, NoPush, Checkout, Status, OpenState
<1>2. Flight
  BY DEF Init, Flight, CheckoutIsNew, CheckoutNamesCard, AssignedCard, PushShows, MarksPaid,
         NoAsg, NoPush, Checkout
<1>3. AssignmentAgrees /\ OneCandidate /\ MatchedIsPaid
  BY DEF Init, AssignmentAgrees, OneCandidate, MatchedIsPaid, Matchable, NoAsg, OpenState
<1>4. QED
  BY <1>1, <1>2, <1>3 DEF IInv

\* A card that is given another number gets one no other card has, and an
\* order that is closed gives its card back.
LEMMA CardsStep ==
    ASSUME IInv, CardsDiffer, HoldsAreOpen, [Next]_vars
    PROVE  CardsDiffer' /\ HoldsAreOpen'
<1>0. TypeOK /\ asg \in [Payments -> Assignment] /\ last4 \in [Cards -> Numbers]
  BY Typed DEF IInv
<1>1. CASE \E c \in Cards : UpdateManualPayCard(c)
  <2>1. PICK c \in Cards, n \in Numbers : /\ \A d \in Cards \ {c} : last4[d] # n
                                        /\ last4' = [last4 EXCEPT ![c] = n]
                                        /\ asg' = asg
    BY <1>1 DEF UpdateManualPayCard, orders
  <2>2. QED
    BY <1>0, <2>1 DEF CardsDiffer, HoldsAreOpen
<1>2. CASE ~ \E c \in Cards : UpdateManualPayCard(c)
  <2>1. UNCHANGED last4
    BY <1>2 DEF Next, vars, cards, CheckoutSnapshot, CheckoutLockCard, CheckoutCommit,
       CheckoutCrash, Claim, AdminConfirm, RejectManualPayment, VoidPayment, Transfer, IgnoreEvent,
       ReleaseHolds, ExpireWorker, Tick, IngestHumoPush, IngestSweep, IngestFind, IngestConfirm,
       IngestMark, IngestCrash
  <2>2. HoldsAreOpen'
    <3> DEFINE Fine(a) == ~a.released => a.state \in {"awaiting_transfer", "claimed"}
    <3>1. \A p \in Payments : Fine(asg[p])
      BY DEF HoldsAreOpen
    <3>2. ASSUME NEW a \in [Payments -> Assignment], \A p \in Payments : Fine(a[p])
          PROVE  /\ Release(a) \in [Payments -> Assignment] /\ \A p \in Payments : Fine(Release(a)[p])
                 /\ CloseStale(a) \in [Payments -> Assignment]
                 /\ \A p \in Payments : Fine(CloseStale(a)[p])
      <4>1. \A p \in Payments : Fine(Release(a)[p])
        BY <3>2 DEF Release, Assignment
      <4>2. \A p \in Payments : Fine(CloseStale(a)[p])
        BY <3>2 DEF CloseStale, Assignment
      <4>3. QED
        BY <4>1, <4>2, ReleaseFacts, CloseStaleFacts
    <3>3. CASE asg' = asg
      BY <3>1, <3>3 DEF HoldsAreOpen
    <3>4. CASE ReleaseHolds \/ ExpireWorker \/ \E p \in Payments : IngestSweep(p)
      <4>1. asg' = Release(asg) \/ asg' = CloseStale(asg) \/ asg' = CloseStale(Release(asg))
        BY <3>4 DEF ReleaseHolds, ExpireWorker, Sweep, IngestSweep
      <4>2. \A p \in Payments : Fine(asg'[p])
        <5> HIDE DEF Fine
        <5>1. QED
          BY <1>0, <3>1, <3>2, <4>1
      <4>3. QED
        BY <4>2 DEF HoldsAreOpen
    <3>5. ASSUME NEW p \in Payments, CheckoutCommit(p) PROVE HoldsAreOpen'
      <4>1. CASE asg' = asg
        BY <3>1, <4>1 DEF HoldsAreOpen
      <4>2. CASE asg' # asg
        <5> DEFINE b == Release(CloseStale(asg))
        <5>1. b \in [Payments -> Assignment] /\ \A q \in Payments : Fine(b[q])
          <6> HIDE DEF Fine
          <6>1. QED
            BY <1>0, <3>1, <3>2
        <5>2. PICK c, m : asg' = [b EXCEPT ![p] = InsertManualPayAssignment(c, m)]
          BY <3>5, <4>2 DEF CheckoutCommit
        <5>3. Fine(InsertManualPayAssignment(c, m))
          BY DEF InsertManualPayAssignment
        <5> HIDE DEF b
        <5>4. \A q \in Payments : Fine(asg'[q])
          BY <5>1, <5>2, <5>3
        <5>5. QED
          BY <5>4 DEF HoldsAreOpen
      <4>3. QED
        BY <4>1, <4>2
    <3>6. ASSUME NEW p \in Payments, Claim(p) PROVE HoldsAreOpen'
      <4> DEFINE b == Release(asg)
      <4>1. b \in [Payments -> Assignment] /\ \A q \in Payments : Fine(b[q])
        <5> HIDE DEF Fine
        <5>1. QED
          BY <1>0, <3>1, <3>2
      <4>2. asg' = [b EXCEPT ![p] = ClaimManualPayAssignment(b[p])]
        BY <3>6, <4>1 DEF Claim
      <4>3. b[p] \in Assignment
        BY <4>1
      <4>4. Fine(ClaimManualPayAssignment(b[p]))
        BY <4>1, <4>3 DEF ClaimManualPayAssignment, Assignment
      <4> HIDE DEF b
      <4>5. \A q \in Payments : Fine(asg'[q])
        BY <4>1, <4>2, <4>4
      <4>6. QED
        BY <4>5 DEF HoldsAreOpen
    <3>7. ASSUME NEW p \in Payments,
                 AdminConfirm(p) \/ RejectManualPayment(p) \/ VoidPayment(p) \/ IngestConfirm(p)
          PROVE  HoldsAreOpen'
      <4>0. ASSUME NEW q \in Payments, NEW st,
                   asg' = [asg EXCEPT ![q] = [asg[q] EXCEPT !.state = st, !.released = TRUE]]
            PROVE  \A r \in Payments : Fine(asg'[r])
        <5>1. [asg[q] EXCEPT !.state = st, !.released = TRUE].released
          BY <1>0 DEF Assignment
        <5>2. QED
          BY <1>0, <3>1, <4>0, <5>1
      <4>1. \A r \in Payments : Fine(asg'[r])
        <5>1. CASE AdminConfirm(p)
          <6>1. asg' = [asg EXCEPT ![p] = [asg[p] EXCEPT !.state = "consumed", !.released = TRUE]]
            BY <1>0, <5>1 DEF AdminConfirm, ConfirmManualPayment, MarkManualPayAssignmentConsumed
          <6>2. QED
            BY <4>0, <6>1
        <5>2. CASE RejectManualPayment(p)
          <6>1. asg' = [asg EXCEPT ![p] = [asg[p] EXCEPT !.state = "rejected", !.released = TRUE]]
            BY <1>0, <5>2 DEF RejectManualPayment, RejectManualPayAssignment
          <6>2. QED
            BY <4>0, <6>1
        <5>3. CASE VoidPayment(p)
          <6>1. CASE asg[p].state = "consumed"
            <7>1. asg' = [asg EXCEPT ![p] = asg[p]]
              BY <1>0, <5>3, <6>1 DEF VoidPayment
            <7>2. QED
              BY <1>0, <3>1, <7>1
          <6>2. CASE asg[p].state # "consumed"
            <7>1. asg' = [asg EXCEPT ![p] = [asg[p] EXCEPT !.state = "rejected", !.released = TRUE]]
              BY <1>0, <5>3, <6>2 DEF VoidPayment
            <7>2. QED
              BY <4>0, <7>1
          <6>3. QED
            BY <6>1, <6>2
        <5>4. CASE IngestConfirm(p)
          <6> DEFINE q == ing[p].cand
          <6>1. CASE CanConfirm(q) /\ ConfirmManualPayment(q)
            <7>1. q \in Payments
              BY <5>4 DEF IngestConfirm, IInv, Flight, MarksPaid
            <7>2. asg' = [asg EXCEPT ![q] = [asg[q] EXCEPT !.state = "consumed", !.released = TRUE]]
              BY <6>1 DEF ConfirmManualPayment, MarkManualPayAssignmentConsumed
            <7>3. QED
              BY <4>0, <7>1, <7>2
          <6>2. CASE UNCHANGED orders
            BY <3>1, <6>2 DEF orders
          <6>3. QED
            BY <5>4, <6>1, <6>2 DEF IngestConfirm
        <5>5. QED
          BY <3>7, <5>1, <5>2, <5>3, <5>4
      <4>2. QED
        BY <4>1 DEF HoldsAreOpen
    <3>8. QED
      <4>1. \/ asg' = asg
            \/ ReleaseHolds \/ ExpireWorker \/ \E p \in Payments : IngestSweep(p)
            \/ \E p \in Payments : CheckoutCommit(p) \/ Claim(p)
            \/ \E p \in Payments : \/ AdminConfirm(p) \/ RejectManualPayment(p)
                                   \/ VoidPayment(p) \/ IngestConfirm(p)
        BY <1>2 DEF Next, vars, orders, CheckoutSnapshot, CheckoutLockCard, CheckoutCrash, Transfer,
           IgnoreEvent, Tick, IngestHumoPush, IngestFind, IngestMark, IngestCrash
      <4>2. QED
        BY <3>3, <3>4, <3>5, <3>6, <3>7, <4>1
  <2>3. QED
    BY <2>1, <2>2 DEF CardsDiffer
<1>3. QED
  BY <1>1, <1>2

\* The inductive invariant holds in every reachable state, for any number of
\* orders and cards, any prices and any hold, lifetime and tolerance.
THEOREM Invariance == Spec => [](IInv /\ CardsDiffer /\ HoldsAreOpen)
<1>1. IInv /\ [Next]_vars => IInv'
  BY EveryStepTurns, TurnStep DEF Turn
<1>2. IInv /\ CardsDiffer /\ HoldsAreOpen /\ [Next]_vars => CardsDiffer' /\ HoldsAreOpen'
  BY CardsStep
<1>3. Init => CardsDiffer /\ HoldsAreOpen
  BY CardAssumption DEF Init, CardsDiffer, HoldsAreOpen, NoAsg
<1>4. QED
  BY <1>1, <1>2, <1>3, InitIInv, PTL DEF Spec

\* Orders on two cards never answer to one number, so orders that match the
\* same push are on the same card.
LEMMA SameNumberSameCard ==
    ASSUME IInv, CardsDiffer, NEW p \in Payments, NEW q \in Payments,
           Matchable(p), Matchable(q), last4[asg[p].card] = last4[asg[q].card]
    PROVE  asg[p].card = asg[q].card
<1>1. asg[p].state # "none" /\ asg[q].state # "none"
  BY DEF Matchable, OpenState
<1>2. asg[p].card \in Cards /\ asg[q].card \in Cards
  BY <1>1 DEF IInv, Flight, AssignedCard, TypeOK, Assignment
<1>3. QED
  BY <1>2 DEF CardsDiffer

\* Payment, assignment and grant always agree, at most one order matches a
\* push, a closed order holds no card, and a push is recorded only against a
\* paid order.
THEOREM ManualSafe == Spec => []ManualInv
<1>1. IInv /\ CardsDiffer => OneMatch
  <2> SUFFICES ASSUME IInv, CardsDiffer, NEW e \in Payments, NEW p \in Candidates(e),
                      NEW q \in Candidates(e)
               PROVE  p = q
    BY DEF OneMatch
  <2>1. /\ p \in Payments /\ Matchable(p) /\ q \in Payments /\ Matchable(q)
        /\ last4[asg[p].card] = last4[asg[q].card] /\ asg[p].amount = asg[q].amount
    BY DEF Candidates
  <2>2. QED
    BY <2>1, SameNumberSameCard DEF IInv, OneCandidate
<1>2. IInv /\ CardsDiffer /\ HoldsAreOpen => ManualInv
  BY <1>1 DEF IInv, ManualInv
<1>3. QED
  BY <1>2, Invariance, PTL

\* Only the lookup takes an ingest from "find" to "confirm", and it found the
\* order it goes on with.
LEMMA OnlyFindConfirms ==
    ASSUME IInv, [Next]_vars, NEW e \in Payments, ing[e].at = "find", ing'[e].at = "confirm"
    PROVE  /\ IngestFind(e)
           /\ \E p \in Candidates(e) : ing' = [ing EXCEPT ![e] = [at |-> "confirm", cand |-> p]]
<1>0. ing \in [Payments -> Ingest]
  BY Typed DEF IInv
<1>1. ASSUME NEW d \in Payments, NEW a, NEW c, IngestTo(d, a, c)
      PROVE  d = e /\ a = "confirm"
  <2>1. ing' = [ing EXCEPT ![d] = [at |-> a, cand |-> c]]
    BY <1>1 DEF IngestTo
  <2>2. CASE d # e
    BY <1>0, <2>1, <2>2
  <2>3. QED
    BY <1>0, <2>1, <2>2
<1>2. ing' # ing
  OBVIOUS
<1>3. PICK d \in Payments : \/ IngestHumoPush(d) \/ IngestSweep(d) \/ IngestFind(d)
                            \/ IngestConfirm(d) \/ IngestMark(d) \/ IngestCrash(d)
  BY <1>2 DEF Next, vars, transfers, cards, CheckoutSnapshot, CheckoutLockCard, CheckoutCommit,
     CheckoutCrash, Claim, AdminConfirm, RejectManualPayment, VoidPayment, Transfer, IgnoreEvent,
     UpdateManualPayCard, ReleaseHolds, ExpireWorker, Tick
<1>4. \/ IngestFind(d)
      \/ \E a \in {"sweep", "find", "mark", "idle"}, c \in Payments \cup {None, ing[d].cand} :
            IngestTo(d, a, c)
  BY <1>3 DEF IngestHumoPush, IngestSweep, IngestConfirm, IngestMark, IngestCrash
<1>5. IngestFind(d)
  BY <1>1, <1>4
<1>6. d = e
  BY <1>1, <1>5 DEF IngestFind
<1>7. ing' # [ing EXCEPT ![e] = [at |-> "idle", cand |-> None]]
  BY <1>0
<1>8. QED
  BY <1>5, <1>6, <1>7, FindStep

\* No step hands a transfer to somebody else while its payer's order is open on
\* a card that has the number it went to, or re-opens a closed order.
THEOREM ManualStepsThm == Spec => ManualSteps
<1>1. ASSUME IInv, CardsDiffer, [Next]_vars
      PROVE  [\A e \in Payments :
                 /\ ing'[e].at = "confirm" /\ ing[e].at = "find"
                 /\ Matchable(e) /\ last4[asg[e].card] = push[e].number
                 => ing'[e].cand = e]_vars
  <2> SUFFICES ASSUME NEW e \in Payments, ing'[e].at = "confirm", ing[e].at = "find", Matchable(e),
                      last4[asg[e].card] = push[e].number
               PROVE  ing'[e].cand = e
    OBVIOUS
  <2>1. PICK p \in Candidates(e) : ing' = [ing EXCEPT ![e] = [at |-> "confirm", cand |-> p]]
    BY <1>1, FindStep, OnlyFindConfirms
  <2>2. ing'[e].cand = p /\ p \in Payments
    BY <1>1, <2>1 DEF IInv, TypeOK, Candidates
  <2>3. push[e].sent /\ push[e].amount = asg[e].amount
    BY <1>1, OnlyFindConfirms, FindStep DEF IInv, Flight, PushShows
  <2>4. Matchable(p) /\ last4[asg[p].card] = last4[asg[e].card] /\ asg[p].amount = asg[e].amount
    BY <2>3 DEF Candidates
  <2>5. asg[p].card = asg[e].card
    BY <1>1, <2>2, <2>4, SameNumberSameCard
  <2>6. QED
    BY <1>1, <2>2, <2>4, <2>5 DEF IInv, OneCandidate
<1>2. ASSUME IInv, [Next]_vars
      PROVE  [\A p \in Payments :
                 /\ status[p] \in {"paid", "voided"} => status'[p] = status[p]
                 /\ status[p] = "canceled" => status'[p] \in {"canceled", "voided"}]_vars
  <2>1. OrdersTurn
    BY <1>2, EveryStepTurns DEF Turn
  <2>2. QED
    BY <1>2, <2>1 DEF OrdersTurn, Stays, Closes, Pays, Opens, IInv, Flight, CheckoutIsNew
<1>3. QED
  BY <1>1, <1>2, Invariance, PTL DEF Spec, ManualSteps, PayerFirst, ClosedIsFinal

-----------------------------------------------------------------------------
(* What SumOf computes: the sum of the amounts, in whatever order FoldSet   *)
(* takes the rows.                                                          *)

Some(s) == CHOOSE x \in s : TRUE
SumRow(g, s) == IF s = {} THEN 0 ELSE Some(s).amount + g[s \ {Some(s)}]
SumFun(R) == CHOOSE g : g = [s \in SUBSET R |-> SumRow(g, s)]
Amounts(R) == IsFiniteSet(R) /\ \A r \in R : r.amount \in Int

LEMMA SumIsSumFun ==
    ASSUME NEW R
    PROVE  Books!SumOf(R) = SumFun(R)[R]
  BY DEF Books!SumOf, Books!FoldSet, Books!MapThenFoldSet, SumFun, SumRow, Some

LEMMA LeastNat ==
    ASSUME NEW T, T \subseteq Nat, T # {}
    PROVE  \E x \in T : \A y \in T : x <= y
<1> DEFINE R == {ss \in Nat \X Nat : ss[1] < ss[2]}
<1>1. IsWellFoundedOn(R, Nat)
  BY NatLessThanWellFounded DEF OpToRel
<1>2. \A x, y \in Nat : y < x => <<y, x>> \in R
  OBVIOUS
<1> HIDE DEF R
<1>3. \E x \in T : \A y \in T : ~(<<y, x>> \in R)
  BY <1>1, WFMin
<1>4. PICK x \in T : \A y \in T : ~(<<y, x>> \in R)
  BY <1>3
<1>5. ASSUME NEW y \in T PROVE x <= y
  <2>1. x \in Nat /\ y \in Nat
    OBVIOUS
  <2>2. ~(y < x)
    BY <1>2, <1>4, <2>1
  <2>3. QED
    BY <2>1, <2>2
<1>6. QED
  BY <1>5

\* A set of finite subsets that is not empty has one of the fewest elements.
LEMMA LeastSubset ==
    ASSUME NEW R, IsFiniteSet(R), NEW X, X \subseteq SUBSET R, X # {}
    PROVE  \E s \in X : \A t \in X : Cardinality(s) <= Cardinality(t)
<1> DEFINE T == {n \in Nat : \E s \in X : Cardinality(s) = n}
<1>1. \A s \in X : IsFiniteSet(s) /\ Cardinality(s) \in Nat
  BY FS_Subset, FS_CardinalityType
<1>2. T # {} /\ T \subseteq Nat
  BY <1>1
<1>3. PICK n \in T : \A m \in T : n <= m
  BY <1>2, LeastNat
<1>4. PICK s \in X : Cardinality(s) = n
  BY <1>3
<1>5. \A t \in X : Cardinality(s) <= Cardinality(t)
  BY <1>1, <1>3, <1>4
<1>6. QED
  BY <1>5

Below(R, n) == {t \in SUBSET R : Cardinality(t) <= n}
SumsTo(g, R, n) == g \in [Below(R, n) -> Int] /\ \A s \in Below(R, n) : g[s] = SumRow(g, s)

LEMMA SomeIn ==
    ASSUME NEW R, Amounts(R), NEW s \in SUBSET R, s # {}
    PROVE  /\ Some(s) \in s /\ Some(s).amount \in Int
           /\ s \ {Some(s)} \in SUBSET R /\ IsFiniteSet(s)
           /\ Cardinality(s) \in Nat \ {0} /\ Cardinality(s \ {Some(s)}) = Cardinality(s) - 1
<1>1. Some(s) \in s
  BY DEF Some
<1>2. IsFiniteSet(s)
  BY FS_Subset DEF Amounts
<1>3. Cardinality(s) \in Nat /\ Cardinality(s) # 0
  BY <1>2, FS_CardinalityType, FS_EmptySet
<1>4. Cardinality(s \ {Some(s)}) = Cardinality(s) - 1
  BY <1>1, <1>2, FS_RemoveElement
<1>5. QED
  BY <1>1, <1>2, <1>3, <1>4 DEF Amounts

LEMMA SumsGrow ==
    ASSUME NEW R, Amounts(R), NEW n \in Nat, NEW g, SumsTo(g, R, n)
    PROVE  \E h : SumsTo(h, R, n + 1)
<1> DEFINE h == [s \in Below(R, n + 1) |-> SumRow(g, s)]
<1>1. \A s \in Below(R, n + 1) : s # {} => s \ {Some(s)} \in Below(R, n)
  BY SomeIn DEF Below
<1>2. \A s \in Below(R, n) : s \in Below(R, n + 1) /\ h[s] = g[s]
  <2>1. \A s \in Below(R, n) : s \in Below(R, n + 1)
    <3> SUFFICES ASSUME NEW s \in Below(R, n) PROVE s \in Below(R, n + 1)
      OBVIOUS
    <3>1. Cardinality(s) \in Nat
      BY FS_Subset, FS_CardinalityType DEF Below, Amounts
    <3>2. QED
      BY <3>1 DEF Below
  <2>2. QED
    BY <2>1 DEF SumsTo
<1>3. \A s \in Below(R, n + 1) : h[s] = SumRow(h, s) /\ h[s] \in Int
  <2> SUFFICES ASSUME NEW s \in Below(R, n + 1) PROVE h[s] = SumRow(h, s) /\ h[s] \in Int
    OBVIOUS
  <2>1. h[s] = SumRow(g, s)
    OBVIOUS
  <2>2. CASE s = {}
    BY <2>1, <2>2 DEF SumRow
  <2>3. CASE s # {}
    <3>1. s \ {Some(s)} \in Below(R, n) /\ Some(s).amount \in Int
      BY <1>1, <2>3, SomeIn DEF Below
    <3>2. h[s \ {Some(s)}] = g[s \ {Some(s)}] /\ g[s \ {Some(s)}] \in Int
      BY <1>2, <3>1 DEF SumsTo
    <3> HIDE DEF h
    <3>3. QED
      BY <2>1, <2>3, <3>1, <3>2 DEF SumRow
  <2>4. QED
    BY <2>2, <2>3
<1>4. h \in [Below(R, n + 1) -> Int]
  BY <1>3
<1>5. QED
  BY <1>3, <1>4 DEF SumsTo

LEMMA SumFunIs ==
    ASSUME NEW R, Amounts(R)
    PROVE  /\ SumFun(R) = [s \in SUBSET R |-> SumRow(SumFun(R), s)]
           /\ \A s \in SUBSET R : SumFun(R)[s] \in Int
<1> DEFINE N == Cardinality(R)
           Bad == {n \in Nat : ~\E g : SumsTo(g, R, n)}
<1>1. IsFiniteSet(R) /\ N \in Nat
  BY FS_CardinalityType DEF Amounts
<1>2. Bad = {}
  <2> SUFFICES ASSUME Bad # {} PROVE FALSE
    OBVIOUS
  <2>1. PICK n \in Bad : \A m \in Bad : n <= m
    BY LeastNat
  <2>2. CASE n = 0
    <3> DEFINE z == [s \in Below(R, 0) |-> 0]
    <3>1. \A s \in Below(R, 0) : s = {}
      BY <1>1, FS_Subset, FS_CardinalityType, FS_EmptySet DEF Below
    <3>2. SumsTo(z, R, 0)
      BY <3>1 DEF SumsTo, SumRow
    <3>3. QED
      BY <2>2, <3>2
  <2>3. CASE n # 0
    <3>1. n - 1 \in Nat /\ n - 1 \notin Bad
      BY <2>1, <2>3
    <3>2. PICK g : SumsTo(g, R, n - 1)
      BY <3>1
    <3>3. \E h : SumsTo(h, R, (n - 1) + 1)
      BY <3>1, <3>2, SumsGrow
    <3>4. (n - 1) + 1 = n
      BY <2>1
    <3>5. QED
      BY <2>1, <3>3, <3>4
  <2>4. QED
    BY <2>2, <2>3
<1>3. PICK g : SumsTo(g, R, N)
  BY <1>1, <1>2
<1>4. Below(R, N) = SUBSET R
  BY <1>1, FS_Subset DEF Below
<1>5. g = [s \in SUBSET R |-> SumRow(g, s)]
  BY <1>3, <1>4 DEF SumsTo
<1>6. SumFun(R) = [s \in SUBSET R |-> SumRow(SumFun(R), s)]
  BY <1>5 DEF SumFun
<1> DEFINE F == SumFun(R)
           X == {s \in SUBSET R : F[s] \notin Int}
<1> HIDE DEF F
<1>7. \A s \in SUBSET R : F[s] = SumRow(F, s)
  BY <1>6 DEF F
<1>8. X = {}
  <2> SUFFICES ASSUME X # {} PROVE FALSE
    OBVIOUS
  <2>1. PICK s \in X : \A t \in X : Cardinality(s) <= Cardinality(t)
    BY <1>1, LeastSubset
  <2>2. s # {}
    <3> SUFFICES ASSUME s = {} PROVE FALSE
      OBVIOUS
    <3>1. F[s] = SumRow(F, s) /\ F[s] \notin Int
      BY <1>7, <2>1
    <3>2. SumRow(F, s) = 0
      BY DEF SumRow
    <3>3. QED
      BY <3>1, <3>2
  <2>3. s \ {Some(s)} \notin X
    <3> DEFINE c == Cardinality(s)  d == Cardinality(s \ {Some(s)})
    <3>1. c \in Nat /\ d = c - 1
      BY <2>2, SomeIn
    <3>2. s \ {Some(s)} \in X => c <= d
      BY <2>1
    <3> HIDE DEF c, d
    <3>3. QED
      BY <3>1, <3>2
  <2>4. F[s \ {Some(s)}] \in Int /\ Some(s).amount \in Int
    BY <2>2, <2>3, SomeIn
  <2>5. F[s] = Some(s).amount + F[s \ {Some(s)}]
    BY <1>7, <2>2 DEF SumRow
  <2>6. QED
    BY <2>1, <2>4, <2>5
<1>9. QED
  BY <1>6, <1>8 DEF F

\* The sum does not depend on the larger set it is taken in.
LEMMA SumInside ==
    ASSUME NEW R, Amounts(R), NEW S \in SUBSET R
    PROVE  Amounts(S) /\ Books!SumOf(S) = SumFun(R)[S]
<1>1. Amounts(S)
  BY FS_Subset DEF Amounts
<1> DEFINE F == SumFun(R)  G == SumFun(S)
           X == {t \in SUBSET S : F[t] # G[t]}
<1>2. /\ \A t \in SUBSET R : F[t] = SumRow(F, t)
      /\ \A t \in SUBSET S : G[t] = SumRow(G, t)
  BY <1>1, SumFunIs
<1> HIDE DEF F, G
<1>3. X = {}
  <2> SUFFICES ASSUME X # {} PROVE FALSE
    OBVIOUS
  <2>1. PICK s \in X : \A t \in X : Cardinality(s) <= Cardinality(t)
    BY <1>1, LeastSubset DEF Amounts
  <2>2. F[s] = SumRow(F, s) /\ G[s] = SumRow(G, s)
    BY <1>2
  <2>3. s # {}
    BY <2>1, <2>2 DEF SumRow
  <2>4. s \ {Some(s)} \notin X
    <3> DEFINE c == Cardinality(s)  d == Cardinality(s \ {Some(s)})
    <3>1. c \in Nat /\ d = c - 1
      BY <1>1, <2>3, SomeIn
    <3>2. s \ {Some(s)} \in X => c <= d
      BY <2>1
    <3> HIDE DEF c, d
    <3>3. QED
      BY <3>1, <3>2
  <2>5. F[s \ {Some(s)}] = G[s \ {Some(s)}]
    BY <2>4
  <2>6. QED
    BY <2>1, <2>2, <2>3, <2>5 DEF SumRow
<1>4. G[S] = F[S]
  BY <1>3
<1>5. QED
  BY <1>1, <1>4, SumIsSumFun DEF F, G

LEMMA SumAdds ==
    ASSUME NEW R, Amounts(R), NEW x \in R
    PROVE  /\ Books!SumOf(R) \in Int /\ Books!SumOf(R \ {x}) \in Int
           /\ Books!SumOf(R) = x.amount + Books!SumOf(R \ {x})
<1> DEFINE F == SumFun(R)
           X == {s \in SUBSET R : \E y \in s : F[s] # y.amount + F[s \ {y}]}
<1>1. /\ \A t \in SUBSET R : F[t] = SumRow(F, t) /\ F[t] \in Int
      /\ \A y \in R : y.amount \in Int
  BY SumFunIs DEF Amounts
<1> HIDE DEF F
<1>2. X = {}
  <2> SUFFICES ASSUME X # {} PROVE FALSE
    OBVIOUS
  <2>1. PICK s \in X : \A t \in X : Cardinality(s) <= Cardinality(t)
    BY LeastSubset DEF Amounts
  <2>2. PICK y \in s : F[s] # y.amount + F[s \ {y}]
    BY <2>1
  <2> DEFINE c == Some(s)
  <2>3. s # {} /\ c \in s /\ F[s] = c.amount + F[s \ {c}]
    BY <1>1, <2>2, SomeIn DEF SumRow
  <2>4. c # y
    BY <2>2, <2>3
  <2>5. \A z \in s : s \ {z} \notin X
    <3> SUFFICES ASSUME NEW z \in s, s \ {z} \in X PROVE FALSE
      OBVIOUS
    <3> DEFINE a == Cardinality(s)  d == Cardinality(s \ {z})
    <3>1. a \in Nat /\ d = a - 1
      BY FS_Subset, FS_CardinalityType, FS_RemoveElement DEF Amounts
    <3>2. a <= d
      BY <2>1
    <3> HIDE DEF a, d
    <3>3. QED
      BY <3>1, <3>2
  <2> HIDE DEF c
  <2>6. F[s \ {c}] = y.amount + F[(s \ {c}) \ {y}]
    BY <2>2, <2>3, <2>4, <2>5
  <2>7. F[s \ {y}] = c.amount + F[(s \ {y}) \ {c}]
    BY <2>2, <2>3, <2>4, <2>5
  <2>8. (s \ {y}) \ {c} = (s \ {c}) \ {y}
    OBVIOUS
  <2>9. /\ y.amount \in Int /\ c.amount \in Int /\ F[(s \ {c}) \ {y}] \in Int
        /\ F[s] \in Int /\ F[s \ {c}] \in Int /\ F[s \ {y}] \in Int
    BY <1>1, <2>2, <2>3
  <2> DEFINE a == F[s]  b == F[s \ {c}]  d == F[s \ {y}]  e == F[(s \ {c}) \ {y}]
             k == y.amount  m == c.amount
  <2>10. a # k + d /\ a = m + b /\ b = k + e /\ d = m + e
    BY <2>2, <2>3, <2>6, <2>7, <2>8
  <2>11. a \in Int /\ b \in Int /\ d \in Int /\ e \in Int /\ k \in Int /\ m \in Int
    BY <2>9
  <2> HIDE DEF a, b, d, e, k, m
  <2>12. QED
    BY <2>10, <2>11
<1>3. F[R] = x.amount + F[R \ {x}]
  BY <1>2
<1>4. Books!SumOf(R) = F[R] /\ Books!SumOf(R \ {x}) = F[R \ {x}]
  BY SumInside DEF F
<1>5. QED
  BY <1>1, <1>3, <1>4

LEMMA SumEmpty == Books!SumOf({}) = 0
<1>1. Amounts({})
  BY FS_EmptySet DEF Amounts
<1>2. SumFun({})[{}] = SumRow(SumFun({}), {})
  BY <1>1, SumFunIs
<1>3. QED
  BY <1>2, SumIsSumFun DEF SumRow

LEMMA SumPut ==
    ASSUME NEW R, Amounts(R), NEW x, x \notin R, x.amount \in Int
    PROVE  /\ Amounts(R \cup {x}) /\ Books!SumOf(R) \in Int
           /\ Books!SumOf(R \cup {x}) = x.amount + Books!SumOf(R)
<1>1. Amounts(R \cup {x})
  BY FS_AddElement DEF Amounts
<1>2. (R \cup {x}) \ {x} = R
  OBVIOUS
<1>3. QED
  BY <1>1, <1>2, SumAdds

-----------------------------------------------------------------------------
(***************************************************************************)
(* The books (Ledger), for any profiles, transactions, prices, terms,      *)
(* limits and percentages.                                                  *)
(*                                                                          *)
(* A transaction's record says what it may rely on until it commits:        *)
(* nobody else has its payment, its promo code or the profiles it locked    *)
(* (Apart), so what it read under those locks still holds (Facts).          *)
(***************************************************************************)
LedgerConstants ==
    /\ IsFiniteSet(Profiles) /\ "none" \notin Profiles
    /\ NPayments \in Nat /\ NPayouts \in Nat /\ PayoutAmounts \subseteq Nat
    /\ PriceUzs \in Nat \ {0} /\ TariffDays \in Nat \ {0} /\ BonusDays \in Nat /\ Percent \in Nat
    /\ PromoKinds \subseteq {"percent", "fixed", "days"} /\ PromoValue \in Nat
    /\ MaxUses \in Nat /\ PerUserLimit \in Nat

Ops == {"idle", "checkout", "refcheckout", "apply", "complete", "grant", "refund", "payout", "adjust"}
Deal == [op : Ops, u : Profiles \cup {"none"}, p : 0..NPayments, step : {0, 1}, promo : BOOLEAN,
         locks : SUBSET Profiles, read : Int, ok : BOOLEAN]
Sale == [st : {"none", "created", "paid", "refunded"}, u : Profiles \cup {"none"}, amount : Nat,
         promo : BOOLEAN]
Grant == [u : Profiles, p : 0..NPayments, source : {"purchase", "promo", "referral_buyer", "admin"},
          starts : Nat, ends : Nat]
EntryTypes == {"commission", "clawback", "payout_hold", "payout_reject_release", "admin_adjust"}
Entry == [u : Profiles, type : EntryTypes, amount : Int, ref : Nat]
Invite == [by : Profiles \cup {"none"}, st : {"none", "pending", "rewarded"}]
Withdrawal == [u : Profiles \cup {"none"}, amount : Nat, st : {"none", "pending", "paid", "rejected"}]
Done == {"paid", "refunded"}

\* What is redeemed of the promo code, by everybody and by one profile.
Uses(rd, py, u) == {p \in rd : py[p].u = u}
RowsOf(lg, u) == {r \in lg : r.u = u}
Balance(lg, u) == Books!SumOf(RowsOf(lg, u))

OpensSale(t, py) ==
    t.op \in {"checkout", "refcheckout"} =>
        /\ t.p \in Books!Purchases /\ py[t.p].st = "none"
        /\ t.op = "checkout" => t.promo
        /\ t.step = 0 => t.read \in Nat
        /\ t.op = "refcheckout" => t.read = PriceUzs
Completes(t, py) ==
    t.op = "complete" => t.p \in Books!Purchases /\ py[t.p].st = "created" /\ t.u = py[t.p].u
Refunds(t, py) ==
    t.op = "refund" =>
        t.p \in Books!Purchases /\ py[t.p].st = "paid" /\ t.u = py[t.p].u /\ t.u \in t.locks
Room(t, rd, py) ==
    t.op = "checkout" \/ t.ok =>
        Cardinality(Uses(rd, py, t.u)) < PerUserLimit /\ Cardinality(rd) < MaxUses
Stacks(t, es) ==
    t.step = 1 \/ t.op = "grant" =>
        /\ t.u \in t.locks /\ t.read \in Nat
        /\ \A e \in es : e.u = t.u => e.ends <= t.read
Withdraws(t, lg) ==
    t.op = "payout" => t.u \in t.locks /\ t.read \in Nat \ {0} /\ Balance(lg, t.u) >= t.read
Adjusts(t, lg) == t.op = "adjust" => t.u \in t.locks /\ Balance(lg, t.u) + t.read >= 0
Shape(t) ==
    /\ t.op # "idle" => t.u \in Profiles
    /\ t.ok => t.op = "complete" /\ t.promo
    /\ t.step = 1 => t.op \in {"checkout", "complete"}
Facts(t, py, es, rd, lg) ==
    /\ Shape(t) /\ OpensSale(t, py) /\ Completes(t, py) /\ Refunds(t, py) /\ Room(t, rd, py)
    /\ Stacks(t, es) /\ Withdraws(t, lg) /\ Adjusts(t, lg)

Asunder(s, t) ==
    /\ s.p = t.p => s.p = 0
    /\ ~(s.promo /\ t.promo)
    /\ s.locks \cap t.locks = {}
Apart(x) == \A v, w \in Workers : v # w => Asunder(x[v], x[w])
Transactions(x, py, es, rd, lg) ==
    /\ x \in [Workers -> Deal] /\ Apart(x)
    /\ \A w \in Workers : Facts(x[w], py, es, rd, lg)

\* Sales, grants and redemptions.
SaleRows(py) ==
    /\ py \in [Books!Purchases -> Sale]
    /\ \A p \in Books!Purchases :
         /\ py[p].st # "none" => py[p].u \in Profiles
         /\ py[p].st # "none" /\ ~py[p].promo => py[p].amount = PriceUzs
GrantRows(es, py) ==
    /\ es \subseteq Grant /\ IsFiniteSet(es)
    /\ \A e \in es : /\ e.starts < e.ends
                     /\ e.source \in {"purchase", "promo"} => e.p # 0
                     /\ e.p # 0 => py[e.p].st \in Done /\ py[e.p].u = e.u
Stacked(es) == \A e, f \in es : e.u = f.u /\ e # f => e.ends <= f.starts \/ f.ends <= e.starts
Generous(e, py) ==
    /\ e.source \in {"purchase", "promo"} /\ py[e.p].st = "paid"
    /\ e.ends - e.starts > Books!proRatedDays(py[e.p].amount)
Worth(es, rd, py) == \A e \in es : Generous(e, py) => e.p \in rd
Redeemed(rd, py) ==
    /\ rd \subseteq Books!Purchases /\ IsFiniteSet(rd) /\ \A p \in rd : py[p].st \in Done
    /\ Cardinality(rd) <= MaxUses
    /\ \A u \in Profiles : Cardinality(Uses(rd, py, u)) <= PerUserLimit
Counter == clock \in Nat /\ upsets \in Nat /\ promoKind \in PromoKinds

\* The referrals, the commissions they earned and what became of them.
Invites(rf) == rf \in [Profiles -> Invite] /\ \A u \in Profiles : rf[u].st # "none" => rf[u].by \in Profiles
Commissions(lg) == {r \in lg : r.type = "commission"}
Clawback(c) == [u |-> c.u, type |-> "clawback", amount |-> - c.amount, ref |-> c.ref]
Rewarded(rf, u) == {v \in Profiles : rf[v].by = u /\ rf[v].st = "rewarded"}
CommissionOk(c, py, lg, rf) ==
    /\ c.ref \in Books!Purchases /\ c.amount \in Nat /\ py[c.ref].st \in Done
    /\ rf[py[c.ref].u].st = "rewarded" /\ rf[py[c.ref].u].by = c.u
    /\ py[c.ref].st = "refunded" => Clawback(c) \in lg
ClawbackOk(r, py, lg) ==
    /\ r.ref \in Books!Purchases /\ py[r.ref].st = "refunded"
    /\ \E c \in Commissions(lg) : c.ref = r.ref /\ r = Clawback(c)
Settled(lg, py, rf) ==
    /\ \A c \in Commissions(lg) : CommissionOk(c, py, lg, rf)
    /\ \A c, d \in Commissions(lg) : py[c.ref].u = py[d.ref].u => c = d
    /\ \A r \in lg : r.type = "clawback" => ClawbackOk(r, py, lg)
    /\ \A u \in Profiles : Cardinality(RowsOf(Commissions(lg), u)) <= Cardinality(Rewarded(rf, u))

\* The wallets.
Clawed(lg, u) == Books!SumOf({r \in lg : r.u = u /\ r.type = "clawback"})
HoldTypes == {"payout_hold", "payout_reject_release"}
HeldBack(lg, u) == Books!SumOf({r \in lg : r.u = u /\ r.type \in HoldTypes})
Asked(po, u, st) == {k \in Books!Payouts : po[k].u = u /\ po[k].st = st}
Summed(po, K) == Books!SumOf({[po[k] EXCEPT !.u = k] : k \in K})
Solvent(lg) == \A u \in Profiles : Clawed(lg, u) <= 0 /\ Balance(lg, u) >= Clawed(lg, u)
Holds(lg, po) ==
    /\ po \in [Books!Payouts -> Withdrawal]
    /\ \A k \in Books!Payouts : po[k].st # "none" => po[k].u \in Profiles
    /\ \A r \in lg : r.type = "payout_hold" => r.ref \in Books!Payouts /\ po[r.ref].st # "none"
    /\ \A r \in lg : r.type = "payout_reject_release" => r.ref \in Books!Payouts /\ po[r.ref].st = "rejected"
    /\ \A u \in Profiles :
         Summed(po, Asked(po, u, "paid")) + Summed(po, Asked(po, u, "pending")) = - HeldBack(lg, u)
LedgerRows(lg) == lg \subseteq Entry /\ IsFiniteSet(lg)

LedgerIInv ==
    /\ Counter /\ SaleRows(pay) /\ percent \in [Profiles -> Nat]
    /\ GrantRows(ents, pay) /\ Stacked(ents) /\ Worth(ents, redeemed, pay) /\ Redeemed(redeemed, pay)
    /\ LedgerRows(ledger) /\ Invites(referral) /\ Settled(ledger, pay, referral)
    /\ Solvent(ledger) /\ Holds(ledger, payout)
    /\ Transactions(tx, pay, ents, redeemed, ledger)

-----------------------------------------------------------------------------
(* A transaction begins, goes on or ends.                                   *)

LEMMA IdleDeal ==
    ASSUME LedgerConstants
    PROVE  /\ Books!Idle \in Deal
           /\ Books!Idle.op = "idle" /\ Books!Idle.step = 0 /\ Books!Idle.p = 0 /\ ~Books!Idle.promo
           /\ Books!Idle.locks = {} /\ ~Books!Idle.ok
  BY DEF Books!Idle, Deal, Ops, Books!NoOne, Books!NoPay, LedgerConstants

LEMMA IdleFacts ==
    ASSUME LedgerConstants, NEW py, NEW es, NEW rd, NEW lg
    PROVE  Facts(Books!Idle, py, es, rd, lg)
  BY IdleDeal DEF Facts, Shape, OpensSale, Completes, Refunds, Room, Stacks, Withdraws, Adjusts

LEMMA DealKeeps ==
    ASSUME NEW py, NEW es, NEW rd, NEW lg, NEW w \in Workers, NEW n \in Deal,
           tx \in [Workers -> Deal], Apart(tx), tx' = [tx EXCEPT ![w] = n],
           \A v \in Workers \ {w} : Facts(tx[v], py, es, rd, lg),
           Facts(n, py, es, rd, lg),
           \A v \in Workers \ {w} : Asunder(tx[v], n)
    PROVE  Transactions(tx', py, es, rd, lg)
<1>1. tx' \in [Workers -> Deal] /\ tx'[w] = n /\ \A v \in Workers \ {w} : tx'[v] = tx[v]
  OBVIOUS
<1>2. \A v \in Workers : Facts(tx'[v], py, es, rd, lg)
  BY <1>1
<1>3. \A s, t : Asunder(s, t) => Asunder(t, s)
  BY DEF Asunder
<1>4. Apart(tx')
  BY <1>1, <1>3 DEF Apart
<1>5. QED
  BY <1>1, <1>2, <1>4 DEF Transactions

LEMMA CloseKeeps ==
    ASSUME LedgerConstants, NEW py, NEW es, NEW rd, NEW lg, NEW w \in Workers,
           tx \in [Workers -> Deal], Apart(tx), Books!Close(w),
           \A v \in Workers \ {w} : Facts(tx[v], py, es, rd, lg)
    PROVE  Transactions(tx', py, es, rd, lg)
<1>1. tx' = [tx EXCEPT ![w] = Books!Idle] /\ Books!Idle \in Deal
  BY IdleDeal DEF Books!Close
<1>2. \A v \in Workers \ {w} : Asunder(tx[v], Books!Idle)
  BY IdleDeal DEF Asunder
<1>3. QED
  BY <1>1, <1>2, DealKeeps, IdleFacts

-----------------------------------------------------------------------------
(* What the transactions read.                                              *)

\* A finite set of natural numbers that is not empty has a greatest element.
LEMMA GreatestNat ==
    ASSUME NEW S, S \subseteq Nat, IsFiniteSet(S), S # {}
    PROVE  \E m \in S : \A x \in S : m >= x
<1> DEFINE X == {T \in SUBSET S : T # {} /\ ~\E m \in T : \A x \in T : m >= x}
<1>1. X = {}
  <2> SUFFICES ASSUME X # {} PROVE FALSE
    OBVIOUS
  <2>1. PICK T \in X : \A U \in X : Cardinality(T) <= Cardinality(U)
    BY LeastSubset
  <2>2. PICK y \in T : TRUE
    BY <2>1
  <2>3. IsFiniteSet(T) /\ y \in Nat /\ T \subseteq Nat
    BY <2>1, <2>2, FS_Subset
  <2>4. T \ {y} \notin X
    <3> DEFINE a == Cardinality(T)  d == Cardinality(T \ {y})
    <3>1. a \in Nat /\ d = a - 1
      BY <2>2, <2>3, FS_CardinalityType, FS_RemoveElement
    <3>2. T \ {y} \in X => a <= d
      BY <2>1
    <3> HIDE DEF a, d
    <3>3. QED
      BY <3>1, <3>2
  <2>5. CASE T \ {y} = {}
    <3>1. \A x \in T : y >= x
      BY <2>3, <2>5
    <3>2. QED
      BY <2>1, <2>2, <3>1
  <2>6. CASE T \ {y} # {}
    <3>1. PICK m \in T \ {y} : \A x \in T \ {y} : m >= x
      BY <2>1, <2>4, <2>6
    <3>2. CASE m >= y
      BY <2>1, <3>1, <3>2
    <3>3. CASE ~(m >= y)
      <4>1. \A x \in T : y >= x
        BY <2>3, <3>1, <3>3
      <4>2. QED
        BY <2>1, <2>2, <4>1
    <3>4. QED
      BY <3>2, <3>3
  <2>7. QED
    BY <2>5, <2>6
<1>2. QED
  BY <1>1

\* The ends of a finite set of grants are finitely many.
LEMMA EndsFinite ==
    ASSUME IsFiniteSet(ents), ents \subseteq Grant, NEW u
    PROVE  IsFiniteSet(Books!EndsOf(u)) /\ Books!EndsOf(u) \subseteq Nat
<1> DEFINE E == {x \in ents : x.u = u}
           f == [e \in E |-> e.ends]
<1>1. IsFiniteSet(E)
  BY FS_Subset
<1>2. Books!EndsOf(u) = {e.ends : e \in E}
  BY DEF Books!EndsOf
<1>3. f \in Surjection(E, Books!EndsOf(u))
  BY <1>2 DEF Surjection
<1>4. IsFiniteSet(Books!EndsOf(u))
  BY <1>1, <1>3, FS_Surjection
<1>5. QED
  BY <1>2, <1>4 DEF Grant

LEMMA EndFacts ==
    ASSUME LedgerIInv, NEW u
    PROVE  /\ Books!ActiveEntitlementEnd(u) \in Nat
           /\ \A e \in ents : e.u = u => e.ends <= Books!ActiveEntitlementEnd(u)
<1> DEFINE S == {clock} \cup Books!EndsOf(u)
<1>1. clock \in Nat /\ IsFiniteSet(ents) /\ ents \subseteq Grant
  BY DEF LedgerIInv, Counter, GrantRows
<1>2. IsFiniteSet(Books!EndsOf(u)) /\ Books!EndsOf(u) \subseteq Nat
  BY <1>1, EndsFinite
<1>3. S # {} /\ S \subseteq Nat
  BY <1>1, <1>2
<1>4. Books!EndsOf(u) \cup {clock} = S
  OBVIOUS
<1>5. IsFiniteSet(S)
  BY <1>2, <1>4, FS_AddElement
<1>6. \E m \in S : \A x \in S : m >= x
  BY <1>3, <1>5, GreatestNat
<1>7. Books!Max(S) \in S /\ \A x \in S : Books!Max(S) >= x
  BY <1>6 DEF Books!Max
<1>8. \A e \in ents : e.u = u => e.ends \in S
  BY DEF Books!EndsOf
<1>9. Books!ActiveEntitlementEnd(u) = Books!Max(S)
  BY DEF Books!ActiveEntitlementEnd
<1>10. QED
  BY <1>3, <1>7, <1>8, <1>9

LEMMA BalanceFacts ==
    ASSUME NEW lg, LedgerRows(lg), NEW u
    PROVE  /\ Amounts(lg) /\ Amounts(RowsOf(lg, u)) /\ Balance(lg, u) \in Int
           /\ Amounts({r \in lg : r.u = u /\ r.type = "clawback"}) /\ Clawed(lg, u) \in Int
           /\ Amounts({r \in lg : r.u = u /\ r.type \in HoldTypes}) /\ HeldBack(lg, u) \in Int
<1>1. Amounts(lg)
  BY DEF LedgerRows, Amounts, Entry
<1>2. \A S \in SUBSET lg : Amounts(S) /\ Books!SumOf(S) \in Int
  <2> SUFFICES ASSUME NEW S \in SUBSET lg PROVE Amounts(S) /\ Books!SumOf(S) \in Int
    OBVIOUS
  <2>1. Amounts(S) /\ Books!SumOf(S) = SumFun(lg)[S]
    BY <1>1, SumInside
  <2>2. SumFun(lg)[S] \in Int
    BY <1>1, SumFunIs
  <2>3. QED
    BY <2>1, <2>2
<1>3. /\ RowsOf(lg, u) \in SUBSET lg
      /\ {r \in lg : r.u = u /\ r.type = "clawback"} \in SUBSET lg
      /\ {r \in lg : r.u = u /\ r.type \in HoldTypes} \in SUBSET lg
  BY DEF RowsOf
<1>4. QED
  BY <1>1, <1>2, <1>3 DEF Balance, Clawed, HeldBack

\* The model's names for what is redeemed and for a balance.
LEMMA CountsAre ==
    /\ Books!CountPromoRedemptions = Cardinality(redeemed)
    /\ \A u : Books!CountUserPromoRedemptions(u) = Cardinality(Uses(redeemed, pay, u))
    /\ \A u : Books!GetReferralBalance(u) = Balance(ledger, u)
<1>1. Books!CountPromoRedemptions = Cardinality(redeemed)
  BY DEF Books!CountPromoRedemptions, Books!Cardinality, Cardinality
<1>2. \A u : Books!CountUserPromoRedemptions(u) = Cardinality(Uses(redeemed, pay, u))
  BY DEF Books!CountUserPromoRedemptions, Uses, Books!Cardinality, Cardinality
<1>3. \A u : Books!GetReferralBalance(u) = Balance(ledger, u)
  BY DEF Books!GetReferralBalance, Balance, RowsOf
<1>4. QED
  BY <1>1, <1>2, <1>3

LEMMA RoomFacts ==
    ASSUME NEW u, Books!checkPromoRedeemable(u)
    PROVE  Cardinality(Uses(redeemed, pay, u)) < PerUserLimit /\ Cardinality(redeemed) < MaxUses
  BY CountsAre DEF Books!checkPromoRedeemable

LEMMA PromoPrice ==
    ASSUME LedgerConstants, LedgerIInv
    PROVE  Books!evaluatePromo \in Nat /\ Books!BonusOfPromo \in Nat
<1>1. promoKind \in {"percent", "fixed", "days"}
  BY DEF LedgerIInv, Counter, LedgerConstants
<1> DEFINE d == (PriceUzs * PromoValue) \div 100
<1>2. PriceUzs \in Nat /\ PromoValue \in Nat /\ PriceUzs * PromoValue \in Nat
  BY DEF LedgerConstants
<1>3. d \in Nat
  BY <1>2
<1> HIDE DEF d
<1>4. Books!Least(PriceUzs, d) \in 0..PriceUzs /\ Books!Least(PriceUzs, PromoValue) \in 0..PriceUzs
  BY <1>2, <1>3 DEF Books!Least
<1>5. Books!Discount \in 0..PriceUzs
  BY <1>1, <1>2, <1>4 DEF Books!Discount, d
<1>6. Books!evaluatePromo \in Nat
  BY <1>2, <1>5 DEF Books!evaluatePromo
<1>7. QED
  BY <1>2, <1>6 DEF Books!BonusOfPromo

-----------------------------------------------------------------------------
(* Steps that change nothing but the transactions.                          *)

Rows == <<pay, ents, redeemed, referral, ledger, payout, promoKind>>

LEMMA RowsStay ==
    ASSUME LedgerIInv, UNCHANGED Rows, clock' \in Nat, upsets' \in Nat, percent' \in [Profiles -> Nat],
           Transactions(tx', pay, ents, redeemed, ledger)
    PROVE  LedgerIInv'
  BY DEF LedgerIInv, Rows, Counter

\* A record that begins: the fields that are not named are Idle's.
LEMMA FreshDeal ==
    ASSUME LedgerConstants, LedgerIInv, NEW w \in Workers, NEW n \in Deal, Books!Begin(w, n),
           UNCHANGED Rows, clock' \in Nat, upsets' \in Nat, percent' \in [Profiles -> Nat],
           Facts(n, pay, ents, redeemed, ledger),
           \A v \in Workers \ {w} : Asunder(tx[v], n)
    PROVE  LedgerIInv'
<1>1. Transactions(tx, pay, ents, redeemed, ledger)
  BY DEF LedgerIInv
<1>2. tx' = [tx EXCEPT ![w] = n]
  BY DEF Books!Begin
<1>3. Transactions(tx', pay, ents, redeemed, ledger)
  BY <1>1, <1>2, DealKeeps DEF Transactions
<1>4. QED
  BY <1>3, RowsStay

\* A payment nobody has touched is no transaction's.
LEMMA FreshFacts ==
    ASSUME LedgerIInv, NEW p \in Books!Purchases, Books!FreshPayment(p)
    PROVE  pay[p].st = "none" /\ \A v \in Workers : tx[v].p # p
  BY DEF Books!FreshPayment, Books!Untouched

LEMMA PurchaseRange ==
    ASSUME LedgerConstants, NEW p \in Books!Purchases
    PROVE  p \in 0..NPayments /\ p # 0
  BY DEF Books!Purchases, LedgerConstants

LEMMA ValidateKeeps ==
    ASSUME LedgerConstants, LedgerIInv, NEW w \in Workers, NEW u \in Profiles, NEW p \in Books!Purchases,
           Books!validatePromoLocked(w, u, p)
    PROVE  LedgerIInv'
<1> DEFINE n == [Books!Idle EXCEPT !.op = "checkout", !.u = u, !.p = p, !.promo = TRUE,
                                   !.read = Books!evaluatePromo]
<1>1. /\ Books!FreshPayment(p) /\ Books!PromoLockFree /\ Books!checkPromoRedeemable(u)
      /\ Books!Begin(w, n) /\ UNCHANGED <<Rows, clock, percent, upsets>>
  BY DEF Books!validatePromoLocked, Rows
<1>2. p \in 0..NPayments /\ p # 0 /\ Books!evaluatePromo \in Nat
  BY PurchaseRange, PromoPrice
<1>3. /\ n \in Deal /\ n.op = "checkout" /\ n.u = u /\ n.p = p /\ n.step = 0 /\ n.promo = TRUE
      /\ n.locks = {} /\ n.read = Books!evaluatePromo /\ n.ok = FALSE
  <2>1. Books!Idle \in [op : Ops, u : Profiles \cup {"none"}, p : 0..NPayments, step : {0, 1},
                        promo : BOOLEAN, locks : SUBSET Profiles, read : Int, ok : BOOLEAN]
    BY IdleDeal DEF Deal
  <2>2. "checkout" \in Ops /\ Books!evaluatePromo \in Int
    BY <1>2 DEF Ops
  <2>3. n \in Deal
    BY <1>2, <2>1, <2>2 DEF Deal
  <2>4. QED
    BY <2>1, <2>3, IdleDeal
<1> HIDE DEF n
<1>4. Facts(n, pay, ents, redeemed, ledger)
  <2>1. Room(n, redeemed, pay)
    BY <1>1, <1>3, RoomFacts DEF Room
  <2>2. OpensSale(n, pay)
    BY <1>1, <1>2, <1>3, FreshFacts DEF OpensSale
  <2>3. QED
    BY <1>3, <2>1, <2>2 DEF Facts, Shape, Completes, Refunds, Stacks, Withdraws, Adjusts
<1>5. \A v \in Workers \ {w} : Asunder(tx[v], n)
  BY <1>1, <1>3, FreshFacts DEF Asunder, Books!PromoLockFree
<1>6. clock' \in Nat /\ upsets' \in Nat /\ percent' \in [Profiles -> Nat]
  BY <1>1 DEF LedgerIInv, Counter
<1>7. QED
  BY <1>1, <1>3, <1>4, <1>5, <1>6, FreshDeal

LEMMA ReferralCheckoutKeeps ==
    ASSUME LedgerConstants, LedgerIInv, NEW w \in Workers, NEW u \in Profiles, NEW p \in Books!Purchases,
           Books!TryApplyReferralAtCheckout(w, u, p)
    PROVE  LedgerIInv'
<1> DEFINE n == [Books!Idle EXCEPT !.op = "refcheckout", !.u = u, !.p = p, !.read = PriceUzs]
<1>1. Books!FreshPayment(p) /\ Books!Begin(w, n) /\ UNCHANGED <<Rows, clock, percent, upsets>>
  BY DEF Books!TryApplyReferralAtCheckout, Rows
<1>2. p \in 0..NPayments /\ p # 0 /\ PriceUzs \in Nat
  BY PurchaseRange DEF LedgerConstants
<1>3. /\ n \in Deal /\ n.op = "refcheckout" /\ n.u = u /\ n.p = p /\ n.step = 0 /\ ~n.promo
      /\ n.locks = {} /\ n.read = PriceUzs /\ ~n.ok
  <2>1. Books!Idle \in [op : Ops, u : Profiles \cup {"none"}, p : 0..NPayments, step : {0, 1},
                        promo : BOOLEAN, locks : SUBSET Profiles, read : Int, ok : BOOLEAN]
    BY IdleDeal DEF Deal
  <2>2. "refcheckout" \in Ops /\ PriceUzs \in Int
    BY <1>2 DEF Ops
  <2>3. n \in Deal
    BY <1>2, <2>1, <2>2 DEF Deal
  <2>4. QED
    BY <2>1, <2>3, IdleDeal
<1> HIDE DEF n
<1>4. Facts(n, pay, ents, redeemed, ledger)
  <2>1. OpensSale(n, pay)
    BY <1>1, <1>2, <1>3, FreshFacts DEF OpensSale
  <2>2. QED
    BY <1>3, <2>1 DEF Facts, Shape, Completes, Refunds, Room, Stacks, Withdraws, Adjusts
<1>5. \A v \in Workers \ {w} : Asunder(tx[v], n)
  BY <1>1, <1>3, FreshFacts DEF Asunder
<1>6. clock' \in Nat /\ upsets' \in Nat /\ percent' \in [Profiles -> Nat]
  BY <1>1 DEF LedgerIInv, Counter
<1>7. QED
  BY <1>1, <1>3, <1>4, <1>5, <1>6, FreshDeal

LEMMA ApplyReadKeeps ==
    ASSUME LedgerConstants, LedgerIInv, NEW w \in Workers, NEW u \in Profiles,
           Books!ApplyReferralRead(w, u)
    PROVE  LedgerIInv'
<1> DEFINE n == [Books!Idle EXCEPT !.op = "apply", !.u = u]
<1>1. Books!Begin(w, n) /\ UNCHANGED <<Rows, clock, percent, upsets>>
  BY DEF Books!ApplyReferralRead, Rows
<1>2. /\ n \in Deal /\ n.op = "apply" /\ n.u = u /\ n.p = 0 /\ n.step = 0 /\ ~n.promo
      /\ n.locks = {} /\ ~n.ok
  BY IdleDeal DEF Deal, Ops
<1> HIDE DEF n
<1>3. Facts(n, pay, ents, redeemed, ledger)
  BY <1>2 DEF Facts, Shape, OpensSale, Completes, Refunds, Room, Stacks, Withdraws, Adjusts
<1>4. \A v \in Workers \ {w} : Asunder(tx[v], n)
  BY <1>2 DEF Asunder
<1>5. clock' \in Nat /\ upsets' \in Nat /\ percent' \in [Profiles -> Nat]
  BY <1>1 DEF LedgerIInv, Counter
<1>6. QED
  BY <1>1, <1>2, <1>3, <1>4, <1>5, FreshDeal

LEMMA CompleteKeeps ==
    ASSUME LedgerConstants, LedgerIInv, NEW w \in Workers, NEW p \in Books!Purchases,
           Books!CompletePayment(w, p)
    PROVE  LedgerIInv'
<1> DEFINE u == pay[p].u
           good == pay[p].promo /\ Books!checkPromoRedeemable(u)
           n == [Books!Idle EXCEPT !.op = "complete", !.u = u, !.p = p, !.promo = pay[p].promo, !.ok = good]
<1>1. /\ pay[p].st = "created" /\ \A v \in Workers : tx[v].p # p
      /\ pay[p].promo => Books!PromoLockFree
      /\ Books!Begin(w, n) /\ UNCHANGED <<Rows, clock, percent, upsets>>
  BY DEF Books!CompletePayment, Rows
<1>2. p \in 0..NPayments /\ p # 0 /\ pay[p] \in Sale /\ u \in Profiles /\ good \in BOOLEAN
  BY <1>1, PurchaseRange DEF LedgerIInv, SaleRows
<1>3. good => pay[p].promo /\ Books!checkPromoRedeemable(u)
  OBVIOUS
<1> HIDE DEF good
<1>4. /\ n \in Deal /\ n.op = "complete" /\ n.u = u /\ n.p = p /\ n.step = 0
      /\ n.promo = pay[p].promo /\ n.locks = {} /\ n.ok = good
  BY <1>2, IdleDeal DEF Deal, Ops, Sale
<1> HIDE DEF n
<1>5. Facts(n, pay, ents, redeemed, ledger)
  <2>1. Room(n, redeemed, pay)
    BY <1>3, <1>4, RoomFacts DEF Room
  <2>2. Completes(n, pay) /\ Shape(n)
    BY <1>1, <1>2, <1>3, <1>4 DEF Completes, Shape
  <2>3. QED
    BY <1>4, <2>1, <2>2 DEF Facts, OpensSale, Refunds, Stacks, Withdraws, Adjusts
<1>6. \A v \in Workers \ {w} : Asunder(tx[v], n)
  BY <1>1, <1>4 DEF Asunder, Books!PromoLockFree
<1>7. clock' \in Nat /\ upsets' \in Nat /\ percent' \in [Profiles -> Nat]
  BY <1>1 DEF LedgerIInv, Counter
<1>8. QED
  BY <1>1, <1>4, <1>5, <1>6, <1>7, FreshDeal

\* A profile that was free to lock is locked by nobody else.
LEMMA LockedApart ==
    ASSUME NEW w \in Workers, NEW u, Books!LockProfileForGrant(w, u)
    PROVE  \A v \in Workers \ {w} : u \notin tx[v].locks
  BY DEF Books!LockProfileForGrant, Books!ProfileLockFree

LEMMA GrantBeginKeeps ==
    ASSUME LedgerConstants, LedgerIInv, NEW w \in Workers, NEW u \in Profiles, Books!grantUserVIP(w, u)
    PROVE  LedgerIInv'
<1> DEFINE n == [Books!Idle EXCEPT !.op = "grant", !.u = u, !.locks = {u},
                                   !.read = Books!ActiveEntitlementEnd(u)]
<1>1. /\ Books!LockProfileForGrant(w, u) /\ Books!Begin(w, n)
      /\ UNCHANGED <<Rows, clock, percent>> /\ upsets' = upsets + 1
  BY DEF Books!grantUserVIP, Rows, Books!Upset
<1>2. /\ Books!ActiveEntitlementEnd(u) \in Nat
      /\ \A e \in ents : e.u = u => e.ends <= Books!ActiveEntitlementEnd(u)
  BY EndFacts
<1>3. /\ n \in Deal /\ n.op = "grant" /\ n.u = u /\ n.p = 0 /\ n.step = 0 /\ ~n.promo
      /\ n.locks = {u} /\ n.read = Books!ActiveEntitlementEnd(u) /\ ~n.ok
  <2>1. Books!Idle \in [op : Ops, u : Profiles \cup {"none"}, p : 0..NPayments, step : {0, 1},
                        promo : BOOLEAN, locks : SUBSET Profiles, read : Int, ok : BOOLEAN]
    BY IdleDeal DEF Deal
  <2>2. "grant" \in Ops /\ Books!ActiveEntitlementEnd(u) \in Int
    BY <1>2 DEF Ops
  <2>3. n \in Deal
    BY <1>2, <2>1, <2>2 DEF Deal
  <2>4. QED
    BY <2>1, <2>3, IdleDeal
<1> HIDE DEF n
<1>4. Facts(n, pay, ents, redeemed, ledger)
  <2>1. Stacks(n, ents)
    BY <1>2, <1>3 DEF Stacks
  <2>2. QED
    BY <1>3, <2>1 DEF Facts, Shape, OpensSale, Completes, Refunds, Room, Withdraws, Adjusts
<1>5. \A v \in Workers \ {w} : Asunder(tx[v], n)
  BY <1>1, <1>3, LockedApart DEF Asunder
<1>6. clock' \in Nat /\ upsets' \in Nat /\ percent' \in [Profiles -> Nat]
  BY <1>1 DEF LedgerIInv, Counter
<1>7. QED
  BY <1>1, <1>3, <1>4, <1>5, <1>6, FreshDeal

LEMMA RefundBeginKeeps ==
    ASSUME LedgerConstants, LedgerIInv, NEW w \in Workers, NEW p \in Books!Purchases,
           Books!RefundLock(w, p)
    PROVE  LedgerIInv'
<1> DEFINE u == pay[p].u
           n == [Books!Idle EXCEPT !.op = "refund", !.u = u, !.p = p, !.locks = {u}]
<1>1. /\ pay[p].st = "paid" /\ \A v \in Workers : tx[v].p # p
      /\ Books!LockProfileForGrant(w, u) /\ Books!Begin(w, n)
      /\ UNCHANGED <<Rows, clock, percent, upsets>>
  BY DEF Books!RefundLock, Rows
<1>2. p \in 0..NPayments /\ p # 0 /\ u \in Profiles
  BY <1>1, PurchaseRange DEF LedgerIInv, SaleRows
<1>3. /\ n \in Deal /\ n.op = "refund" /\ n.u = u /\ n.p = p /\ n.step = 0 /\ ~n.promo
      /\ n.locks = {u} /\ ~n.ok
  BY <1>2, IdleDeal DEF Deal, Ops
<1> HIDE DEF n
<1>4. Facts(n, pay, ents, redeemed, ledger)
  <2>1. Refunds(n, pay)
    BY <1>1, <1>3 DEF Refunds
  <2>2. QED
    BY <1>2, <1>3, <2>1 DEF Facts, Shape, OpensSale, Completes, Room, Stacks, Withdraws, Adjusts
<1>5. \A v \in Workers \ {w} : Asunder(tx[v], n)
  BY <1>1, <1>3, LockedApart DEF Asunder
<1>6. clock' \in Nat /\ upsets' \in Nat /\ percent' \in [Profiles -> Nat]
  BY <1>1 DEF LedgerIInv, Counter
<1>7. QED
  BY <1>1, <1>3, <1>4, <1>5, <1>6, FreshDeal

LEMMA PayoutBeginKeeps ==
    ASSUME LedgerConstants, LedgerIInv, NEW w \in Workers, NEW u \in Profiles, NEW a \in PayoutAmounts,
           Books!PayoutLock(w, u, a)
    PROVE  LedgerIInv'
<1> DEFINE n == [Books!Idle EXCEPT !.op = "payout", !.u = u, !.locks = {u}, !.read = a]
<1>1. /\ Books!LockProfileForGrant(w, u) /\ a > 0 /\ Books!GetReferralBalance(u) >= a
      /\ Books!Begin(w, n) /\ UNCHANGED <<Rows, clock, percent, upsets>>
  BY DEF Books!PayoutLock, Rows
<1>2. a \in Nat \ {0} /\ Balance(ledger, u) >= a
  BY <1>1, CountsAre DEF LedgerConstants
<1>3. /\ n \in Deal /\ n.op = "payout" /\ n.u = u /\ n.p = 0 /\ n.step = 0 /\ ~n.promo
      /\ n.locks = {u} /\ n.read = a /\ ~n.ok
  <2>1. Books!Idle \in [op : Ops, u : Profiles \cup {"none"}, p : 0..NPayments, step : {0, 1},
                        promo : BOOLEAN, locks : SUBSET Profiles, read : Int, ok : BOOLEAN]
    BY IdleDeal DEF Deal
  <2>2. "payout" \in Ops /\ a \in Int
    BY <1>2 DEF Ops
  <2>3. n \in Deal
    BY <1>2, <2>1, <2>2 DEF Deal
  <2>4. QED
    BY <2>1, <2>3, IdleDeal
<1> HIDE DEF n
<1>4. Facts(n, pay, ents, redeemed, ledger)
  <2>1. Withdraws(n, ledger)
    BY <1>2, <1>3 DEF Withdraws
  <2>2. QED
    BY <1>3, <2>1 DEF Facts, Shape, OpensSale, Completes, Refunds, Room, Stacks, Adjusts
<1>5. \A v \in Workers \ {w} : Asunder(tx[v], n)
  BY <1>1, <1>3, LockedApart DEF Asunder
<1>6. clock' \in Nat /\ upsets' \in Nat /\ percent' \in [Profiles -> Nat]
  BY <1>1 DEF LedgerIInv, Counter
<1>7. QED
  BY <1>1, <1>3, <1>4, <1>5, <1>6, FreshDeal

LEMMA AdjustBeginKeeps ==
    ASSUME LedgerConstants, LedgerIInv, NEW w \in Workers, NEW u \in Profiles, NEW t \in {0, 1},
           Books!SetBalanceLock(w, u, t)
    PROVE  LedgerIInv'
<1> DEFINE b == Balance(ledger, u)
           n == [Books!Idle EXCEPT !.op = "adjust", !.u = u, !.locks = {u}, !.read = t - b]
<1>1. /\ Books!LockProfileForGrant(w, u) /\ Books!Begin(w, n)
      /\ UNCHANGED <<Rows, clock, percent>> /\ upsets' = upsets + 1
  BY CountsAre DEF Books!SetBalanceLock, Rows, Books!Upset
<1>2. b \in Int
  BY BalanceFacts DEF LedgerIInv
<1>3. b + (t - b) >= 0 /\ t - b \in Int
  <2> HIDE DEF b
  <2>1. QED
    BY <1>2
<1>4. /\ n \in Deal /\ n.op = "adjust" /\ n.u = u /\ n.p = 0 /\ n.step = 0 /\ ~n.promo
      /\ n.locks = {u} /\ n.read = t - b /\ ~n.ok
  <2> HIDE DEF b
  <2>1. QED
    BY <1>3, IdleDeal DEF Deal, Ops
<1> HIDE DEF n
<1>5. Facts(n, pay, ents, redeemed, ledger)
  <2>1. Adjusts(n, ledger)
    BY <1>3, <1>4 DEF Adjusts
  <2>2. QED
    BY <1>4, <2>1 DEF Facts, Shape, OpensSale, Completes, Refunds, Room, Stacks, Withdraws
<1>6. \A v \in Workers \ {w} : Asunder(tx[v], n)
  BY <1>1, <1>4, LockedApart DEF Asunder
<1>7. clock' \in Nat /\ upsets' \in Nat /\ percent' \in [Profiles -> Nat]
  BY <1>1 DEF LedgerIInv, Counter
<1>8. QED
  BY <1>1, <1>4, <1>5, <1>6, <1>7, FreshDeal

\* The profile is locked and the end of its grants is read.
LEMMA LockKeeps ==
    ASSUME LedgerConstants, LedgerIInv, NEW w \in Workers,
           Books!GrantDaysLock(w) \/ Books!FreeCheckoutLock(w)
    PROVE  LedgerIInv'
<1> DEFINE t == tx[w]
           u == t.u
           n == [t EXCEPT !.step = 1, !.locks = {u}, !.read = Books!ActiveEntitlementEnd(u)]
<1>1. /\ t.op \in {"checkout", "complete"} /\ Books!LockProfileForGrant(w, u)
      /\ tx' = [tx EXCEPT ![w].step = 1, ![w].locks = {u}, ![w].read = Books!ActiveEntitlementEnd(u)]
      /\ UNCHANGED <<Rows, clock, percent, upsets>>
  BY DEF Books!GrantDaysLock, Books!FreeCheckoutLock, Books!At, Rows
<1>2. /\ Transactions(tx, pay, ents, redeemed, ledger) /\ t \in Deal
      /\ Facts(t, pay, ents, redeemed, ledger) /\ tx \in [Workers -> Deal] /\ Apart(tx)
  BY DEF LedgerIInv, Transactions
<1>3. u \in Profiles
  BY <1>1, <1>2 DEF Facts, Shape
<1>4. /\ Books!ActiveEntitlementEnd(u) \in Nat /\ Books!ActiveEntitlementEnd(u) \in Int
      /\ \A e \in ents : e.u = u => e.ends <= Books!ActiveEntitlementEnd(u)
  BY EndFacts
<1>5. /\ n \in Deal /\ n.op = t.op /\ n.u = u /\ n.p = t.p /\ n.step = 1 /\ n.promo = t.promo
      /\ n.locks = {u} /\ n.read = Books!ActiveEntitlementEnd(u) /\ n.ok = t.ok
  BY <1>2, <1>3, <1>4 DEF Deal
<1>6. tx' = [tx EXCEPT ![w] = n]
  BY <1>1, <1>2 DEF Deal
<1> HIDE DEF n, t
<1>7. Facts(n, pay, ents, redeemed, ledger)
  <2>1. Stacks(n, ents)
    BY <1>4, <1>5 DEF Stacks
  <2>2. OpensSale(n, pay) /\ Completes(n, pay) /\ Room(n, redeemed, pay) /\ Shape(n)
    BY <1>1, <1>2, <1>5 DEF Facts, OpensSale, Completes, Room, Shape
  <2>3. QED
    BY <1>1, <1>5, <2>1, <2>2 DEF Facts, Refunds, Withdraws, Adjusts
<1>8. \A v \in Workers \ {w} : Asunder(tx[v], n)
  <2> SUFFICES ASSUME NEW v \in Workers \ {w} PROVE Asunder(tx[v], n)
    OBVIOUS
  <2>1. Asunder(tx[v], t)
    BY <1>2 DEF Apart, t
  <2>2. u \notin tx[v].locks
    BY <1>1, LockedApart
  <2>3. QED
    BY <1>5, <2>1, <2>2 DEF Asunder
<1>9. Transactions(tx', pay, ents, redeemed, ledger)
  BY <1>2, <1>5, <1>6, <1>7, <1>8, DealKeeps DEF Transactions
<1>10. clock' \in Nat /\ upsets' \in Nat /\ percent' \in [Profiles -> Nat]
  BY <1>1 DEF LedgerIInv, Counter
<1>11. QED
  BY <1>1, <1>9, <1>10, RowsStay

LEMMA RollbackKeeps ==
    ASSUME LedgerConstants, LedgerIInv, NEW w \in Workers, Books!Rollback(w)
    PROVE  LedgerIInv'
<1>1. Books!Close(w) /\ UNCHANGED <<Rows, clock, percent>> /\ upsets' = upsets + 1
  BY DEF Books!Rollback, Rows, Books!Upset
<1>2. Transactions(tx', pay, ents, redeemed, ledger)
  BY <1>1, CloseKeeps DEF LedgerIInv, Transactions
<1>3. clock' \in Nat /\ upsets' \in Nat /\ percent' \in [Profiles -> Nat]
  BY <1>1 DEF LedgerIInv, Counter
<1>4. QED
  BY <1>1, <1>2, <1>3, RowsStay

\* The clock, the switches of the console and the referrer's percentage.
LEMMA AroundKeeps ==
    ASSUME LedgerConstants, LedgerIInv,
           \/ Books!Tick \/ Books!PromoEnds \/ \E on \in BOOLEAN : Books!SetProviderEnabled(on)
           \/ \E u \in Profiles, pct \in {0, Percent} : Books!UpdateUserReferralCommissionPercent(u, pct)
    PROVE  LedgerIInv'
<1>1. UNCHANGED <<Rows, tx>>
  BY DEF Books!Tick, Books!PromoEnds, Books!SetProviderEnabled,
         Books!UpdateUserReferralCommissionPercent, Rows
<1>2. clock \in Nat /\ upsets \in Nat /\ percent \in [Profiles -> Nat] /\ Percent \in Nat
  BY DEF LedgerIInv, Counter, LedgerConstants
<1>3. clock' \in Nat
  BY <1>2 DEF Books!Tick, Books!PromoEnds, Books!SetProviderEnabled,
              Books!UpdateUserReferralCommissionPercent
<1>4. upsets' \in Nat
  BY <1>2 DEF Books!Tick, Books!PromoEnds, Books!SetProviderEnabled,
              Books!UpdateUserReferralCommissionPercent, Books!Upset
<1>5. percent' \in [Profiles -> Nat]
  BY <1>2 DEF Books!Tick, Books!PromoEnds, Books!SetProviderEnabled,
              Books!UpdateUserReferralCommissionPercent
<1>6. Transactions(tx', pay, ents, redeemed, ledger)
  BY <1>1 DEF LedgerIInv
<1>7. QED
  BY <1>1, <1>3, <1>4, <1>5, <1>6, RowsStay

-----------------------------------------------------------------------------
(* A sale is made or changes its state.                                     *)

LEMMA SaleKeeps ==
    ASSUME LedgerConstants, LedgerIInv, NEW p \in Books!Purchases, NEW x \in Sale,
           pay' = [pay EXCEPT ![p] = x],
           x.st # "none", x.u \in Profiles, ~x.promo => x.amount = PriceUzs,
           pay[p].st \in Done => x.u = pay[p].u /\ x.st = "refunded"
    PROVE  /\ SaleRows(pay') /\ pay'[p] = x /\ \A q \in Books!Purchases \ {p} : pay'[q] = pay[q]
           /\ GrantRows(ents, pay') /\ Worth(ents, redeemed, pay') /\ Redeemed(redeemed, pay')
           /\ \A u \in Profiles \cup {"none"} : Uses(redeemed, pay', u) = Uses(redeemed, pay, u)
           /\ \A t \in Deal : Facts(t, pay, ents, redeemed, ledger) /\ t.p # p
                                => Facts(t, pay', ents, redeemed, ledger)
           /\ pay[p].st \notin Done => Settled(ledger, pay', referral)
<1>1. SaleRows(pay) /\ GrantRows(ents, pay) /\ Worth(ents, redeemed, pay) /\ Redeemed(redeemed, pay)
  BY DEF LedgerIInv
<1>2. pay'[p] = x /\ \A q \in Books!Purchases \ {p} : pay'[q] = pay[q]
  BY <1>1 DEF SaleRows
<1>3. SaleRows(pay')
  BY <1>1, <1>2 DEF SaleRows
<1>4. \A e \in ents : e.p # 0 => e.p \in Books!Purchases
  BY <1>1 DEF GrantRows, Grant, Books!Purchases, LedgerConstants
<1>5. \A q \in Books!Purchases : pay[q].st \in Done =>
        /\ pay'[q].st \in Done /\ pay'[q].u = pay[q].u
        /\ pay'[q].st = "paid" => pay'[q] = pay[q]
  BY <1>2 DEF Done
<1>6. GrantRows(ents, pay')
  BY <1>1, <1>4, <1>5 DEF GrantRows
<1>7. Worth(ents, redeemed, pay')
  <2> SUFFICES ASSUME NEW e \in ents, Generous(e, pay') PROVE e.p \in redeemed
    BY DEF Worth
  <2>1. e.p # 0 /\ pay[e.p].st \in Done /\ pay'[e.p].st = "paid"
    BY <1>1 DEF GrantRows, Generous
  <2>2. pay'[e.p] = pay[e.p]
    BY <1>4, <1>5, <2>1
  <2>3. Generous(e, pay)
    BY <2>2 DEF Generous
  <2>4. QED
    BY <1>1, <2>3 DEF Worth
<1>8. \A u \in Profiles \cup {"none"} : Uses(redeemed, pay', u) = Uses(redeemed, pay, u)
  BY <1>1, <1>5 DEF Uses, Redeemed
<1>9. Redeemed(redeemed, pay')
  BY <1>1, <1>5, <1>8 DEF Redeemed
<1>10. ASSUME NEW t \in Deal, Facts(t, pay, ents, redeemed, ledger), t.p # p
       PROVE  Facts(t, pay', ents, redeemed, ledger)
  <2>1. t.u \in Profiles \cup {"none"}
    BY DEF Deal
  <2>2. Room(t, redeemed, pay')
    BY <1>8, <1>10, <2>1 DEF Facts, Room
  <2>3. OpensSale(t, pay') /\ Completes(t, pay') /\ Refunds(t, pay')
    BY <1>2, <1>10 DEF Facts, OpensSale, Completes, Refunds
  <2>4. QED
    BY <1>10, <2>2, <2>3 DEF Facts
<1>11. ASSUME pay[p].st \notin Done PROVE Settled(ledger, pay', referral)
  <2>1. Settled(ledger, pay, referral)
    BY DEF LedgerIInv
  <2>2. \A c \in Commissions(ledger) : c.ref \in Books!Purchases /\ c.ref # p /\ pay'[c.ref] = pay[c.ref]
    BY <1>2, <1>11, <2>1 DEF Settled, CommissionOk
  <2>3. \A r \in ledger : r.type = "clawback" =>
          r.ref \in Books!Purchases /\ r.ref # p /\ pay'[r.ref] = pay[r.ref]
    BY <1>2, <1>11, <2>1 DEF Settled, ClawbackOk, Done
  <2>4. \A c \in Commissions(ledger) : CommissionOk(c, pay', ledger, referral)
    BY <2>1, <2>2 DEF Settled, CommissionOk
  <2>5. \A r \in ledger : r.type = "clawback" => ClawbackOk(r, pay', ledger)
    BY <2>1, <2>3 DEF Settled, ClawbackOk
  <2>6. \A c, d \in Commissions(ledger) : pay'[c.ref].u = pay'[d.ref].u => c = d
    BY <2>1, <2>2 DEF Settled
  <2>7. QED
    BY <2>1, <2>4, <2>5, <2>6 DEF Settled
<1>12. QED
  BY <1>2, <1>3, <1>6, <1>7, <1>8, <1>9, <1>10, <1>11

\* Nobody who was invited is invited again, and no reward hangs on a new invitation.
LEMMA InviteKeeps ==
    ASSUME LedgerConstants, LedgerIInv, NEW u \in Profiles, NEW r \in Profiles, NEW py,
           Books!CreateReferral(u, r), Settled(ledger, py, referral)
    PROVE  Invites(referral') /\ Settled(ledger, py, referral')
<1>1. referral[u].st = "none" /\ referral' = [referral EXCEPT ![u] = [by |-> r, st |-> "pending"]]
  BY DEF Books!CreateReferral
<1>2. Invites(referral)
  BY DEF LedgerIInv
<1>3. Invites(referral')
  BY <1>1, <1>2 DEF Invites, Invite
<1>4. \A v \in Profiles : referral[v].st = "rewarded" => referral'[v] = referral[v]
  BY <1>1, <1>2 DEF Invites
<1>5. referral'[u].st = "pending" /\ \A v \in Profiles \ {u} : referral'[v] = referral[v]
  BY <1>1, <1>2 DEF Invites
<1>6. \A x \in Profiles : Rewarded(referral', x) = Rewarded(referral, x)
  BY <1>1, <1>4, <1>5 DEF Rewarded
<1>7. \A c \in Commissions(ledger) : CommissionOk(c, py, ledger, referral')
  <2> SUFFICES ASSUME NEW c \in Commissions(ledger) PROVE CommissionOk(c, py, ledger, referral')
    OBVIOUS
  <2>1. CommissionOk(c, py, ledger, referral)
    BY DEF Settled
  <2>2. CASE py[c.ref].u \in Profiles
    BY <1>4, <2>1, <2>2 DEF CommissionOk
  <2>3. CASE py[c.ref].u \notin Profiles
    <3>1. referral'[py[c.ref].u] = referral[py[c.ref].u]
      BY <1>1, <1>2, <2>3 DEF Invites
    <3>2. QED
      BY <2>1, <3>1 DEF CommissionOk
  <2>4. QED
    BY <2>2, <2>3
<1>8. QED
  BY <1>3, <1>6, <1>7 DEF Settled

\* The payments the other transactions hold are others.
LEMMA OthersElsewhere ==
    ASSUME LedgerIInv, NEW w \in Workers, tx[w].p # 0
    PROVE  \A v \in Workers \ {w} : tx[v].p # tx[w].p
  BY DEF LedgerIInv, Transactions, Apart, Asunder

LEMMA OpenedSale ==
    ASSUME LedgerConstants, LedgerIInv, NEW w \in Workers,
           Books!At(w, "checkout", 0) \/ Books!At(w, "refcheckout", 0), Books!CreatePayment(w, "created")
    PROVE  \E p \in Books!Purchases, x \in Sale :
             /\ pay' = [pay EXCEPT ![p] = x] /\ x.st = "created" /\ x.u \in Profiles
             /\ ~x.promo => x.amount = PriceUzs
             /\ pay[p].st = "none" /\ p = tx[w].p /\ p # 0 /\ x.u = tx[w].u
<1> DEFINE t == tx[w]
           x == [st |-> "created", u |-> t.u, amount |-> t.read, promo |-> t.promo]
<1>1. t \in Deal /\ Facts(t, pay, ents, redeemed, ledger)
  BY DEF LedgerIInv, Transactions
<1>2. t.op \in {"checkout", "refcheckout"} /\ t.step = 0
  BY DEF Books!At
<1>3. /\ t.p \in Books!Purchases /\ pay[t.p].st = "none" /\ t.u \in Profiles /\ t.read \in Nat
      /\ t.op = "checkout" => t.promo
      /\ t.op = "refcheckout" => t.read = PriceUzs
  BY <1>1, <1>2 DEF Facts, OpensSale, Shape
<1>4. x \in Sale /\ (~x.promo => x.amount = PriceUzs)
  BY <1>1, <1>2, <1>3 DEF Sale, Deal
<1>5. t.p # 0
  BY <1>3, PurchaseRange
<1>6. pay' = [pay EXCEPT ![t.p] = x]
  BY DEF Books!CreatePayment
<1>7. QED
  BY <1>3, <1>4, <1>5, <1>6

LEMMA StartCheckoutKeeps ==
    ASSUME LedgerConstants, LedgerIInv, NEW w \in Workers, NEW u \in Profiles, NEW p \in Books!Purchases,
           Books!StartCheckout(w, u, p)
    PROVE  LedgerIInv'
<1> DEFINE x == [st |-> "created", u |-> u, amount |-> PriceUzs, promo |-> FALSE]
<1>1. /\ Books!FreshPayment(p) /\ pay' = [pay EXCEPT ![p] = x]
      /\ UNCHANGED <<clock, ents, redeemed, referral, percent, ledger, payout, tx, upsets, promoKind>>
  BY DEF Books!StartCheckout
<1>2. x \in Sale /\ x.st = "created" /\ x.u \in Profiles /\ x.amount = PriceUzs
  BY DEF Sale, LedgerConstants
<1> HIDE DEF x
<1>3. pay[p].st = "none" /\ \A v \in Workers : tx[v].p # p
  BY <1>1, FreshFacts
<1>4. pay[p].st \notin Done
  BY <1>3 DEF Done
<1>5. /\ SaleRows(pay') /\ GrantRows(ents, pay') /\ Worth(ents, redeemed, pay') /\ Redeemed(redeemed, pay')
      /\ \A t \in Deal : Facts(t, pay, ents, redeemed, ledger) /\ t.p # p
                           => Facts(t, pay', ents, redeemed, ledger)
      /\ Settled(ledger, pay', referral)
  BY <1>1, <1>2, <1>4, SaleKeeps
<1>6. Transactions(tx', pay', ents, redeemed, ledger)
  BY <1>1, <1>3, <1>5 DEF LedgerIInv, Transactions
<1>7. QED
  BY <1>1, <1>5, <1>6 DEF LedgerIInv, Counter

LEMMA CheckoutCommitKeeps ==
    ASSUME LedgerConstants, LedgerIInv, NEW w \in Workers,
           Books!CheckoutCommit(w) \/ Books!ReferralCheckoutCommit(w)
    PROVE  LedgerIInv'
<1>1. /\ Books!At(w, "checkout", 0) \/ Books!At(w, "refcheckout", 0)
      /\ Books!CreatePayment(w, "created") /\ Books!Close(w)
      /\ UNCHANGED <<clock, ents, redeemed, percent, ledger, payout, upsets, promoKind>>
      /\ UNCHANGED referral \/ \E r \in Profiles : Books!CreateReferral(tx[w].u, r)
  BY DEF Books!CheckoutCommit, Books!ReferralCheckoutCommit
<1>2. PICK p \in Books!Purchases, x \in Sale :
             /\ pay' = [pay EXCEPT ![p] = x] /\ x.st = "created" /\ x.u \in Profiles
             /\ ~x.promo => x.amount = PriceUzs
             /\ pay[p].st = "none" /\ p = tx[w].p /\ p # 0 /\ x.u = tx[w].u
  BY <1>1, OpenedSale
<1>3. pay[p].st \notin Done
  BY <1>2 DEF Done
<1>4. /\ SaleRows(pay') /\ GrantRows(ents, pay') /\ Worth(ents, redeemed, pay') /\ Redeemed(redeemed, pay')
      /\ \A t \in Deal : Facts(t, pay, ents, redeemed, ledger) /\ t.p # p
                           => Facts(t, pay', ents, redeemed, ledger)
      /\ Settled(ledger, pay', referral)
  BY <1>2, <1>3, SaleKeeps
<1>5. \A v \in Workers \ {w} : tx[v].p # p
  BY <1>2, OthersElsewhere
<1>6. Transactions(tx', pay', ents, redeemed, ledger)
  <2>1. tx \in [Workers -> Deal] /\ Apart(tx) /\ \A v \in Workers : Facts(tx[v], pay, ents, redeemed, ledger)
    BY DEF LedgerIInv, Transactions
  <2>2. \A v \in Workers \ {w} : Facts(tx[v], pay', ents, redeemed, ledger)
    BY <1>4, <1>5, <2>1
  <2>3. QED
    BY <1>1, <2>1, <2>2, CloseKeeps
<1>7. Invites(referral') /\ Settled(ledger, pay', referral')
  <2>1. CASE UNCHANGED referral
    BY <1>4, <2>1 DEF LedgerIInv
  <2>2. CASE \E r \in Profiles : Books!CreateReferral(tx[w].u, r)
    <3>1. PICK r \in Profiles : Books!CreateReferral(tx[w].u, r)
      BY <2>2
    <3>2. tx[w].u \in Profiles
      BY <1>2
    <3>3. QED
      BY <1>4, <3>1, <3>2, InviteKeeps
  <2>3. QED
    BY <1>1, <2>1, <2>2
<1>8. QED
  BY <1>1, <1>4, <1>6, <1>7 DEF LedgerIInv, Counter

LEMMA ApplyKeeps ==
    ASSUME LedgerConstants, LedgerIInv, NEW w \in Workers, Books!ApplyReferralCode(w)
    PROVE  LedgerIInv'
<1>1. /\ Books!At(w, "apply", 0) /\ Books!Close(w)
      /\ UNCHANGED <<clock, pay, ents, redeemed, percent, ledger, payout, upsets, promoKind>>
      /\ UNCHANGED referral \/ \E r \in Profiles : Books!CreateReferral(tx[w].u, r)
  BY DEF Books!ApplyReferralCode
<1>2. Transactions(tx', pay, ents, redeemed, ledger)
  BY <1>1, CloseKeeps DEF LedgerIInv, Transactions
<1>3. tx[w].u \in Profiles
  BY <1>1 DEF LedgerIInv, Transactions, Facts, Shape, Books!At
<1>4. Invites(referral) /\ Settled(ledger, pay, referral)
  BY DEF LedgerIInv
<1>5. Invites(referral') /\ Settled(ledger, pay, referral')
  <2>1. CASE UNCHANGED referral
    BY <1>4, <2>1
  <2>2. CASE \E r \in Profiles : Books!CreateReferral(tx[w].u, r)
    <3>1. PICK r \in Profiles : Books!CreateReferral(tx[w].u, r)
      BY <2>2
    <3>2. QED
      BY <1>3, <1>4, <3>1, InviteKeeps
  <2>3. QED
    BY <1>1, <2>1, <2>2
<1>6. QED
  BY <1>1, <1>2, <1>5 DEF LedgerIInv, Counter

-----------------------------------------------------------------------------
(* A grant is written behind the profile's other grants.                    *)

LEMMA OthersKeep ==
    ASSUME LedgerIInv, NEW w \in Workers, NEW py, NEW es, NEW rd, NEW lg, LedgerRows(lg),
           \A v \in Workers \ {w} : Facts(tx[v], py, ents, redeemed, ledger),
           \A e \in es : e \in ents \/ e.u \in tx[w].locks,
           rd = redeemed \/ tx[w].promo,
           \A v \in Workers \ {w} : tx[v].u \in tx[v].locks
                => Balance(lg, tx[v].u) >= Balance(ledger, tx[v].u)
    PROVE  \A v \in Workers \ {w} : Facts(tx[v], py, es, rd, lg)
<1> SUFFICES ASSUME NEW v \in Workers \ {w} PROVE Facts(tx[v], py, es, rd, lg)
  OBVIOUS
<1> DEFINE t == tx[v]
<1>1. /\ Facts(t, py, ents, redeemed, ledger) /\ t \in Deal /\ Asunder(tx[w], t)
  BY DEF LedgerIInv, Transactions, Apart
<1>2. t.u \in t.locks => Balance(lg, t.u) >= Balance(ledger, t.u)
  OBVIOUS
<1>3. Balance(lg, t.u) \in Int /\ Balance(ledger, t.u) \in Int /\ t.read \in Int
  BY <1>1, BalanceFacts DEF LedgerIInv, Deal
<1> HIDE DEF t
<1>4. Stacks(t, es)
  BY <1>1 DEF Facts, Stacks, Asunder
<1>5. Room(t, rd, py)
  BY <1>1 DEF Facts, Room, Asunder, OpensSale, Shape
<1>6. Withdraws(t, lg)
  BY <1>1, <1>2, <1>3 DEF Facts, Withdraws
<1>7. Adjusts(t, lg)
  BY <1>1, <1>2, <1>3 DEF Facts, Adjusts
<1>8. QED
  BY <1>1, <1>4, <1>5, <1>6, <1>7 DEF Facts, t

LEMMA SameBalance ==
    ASSUME NEW lg, LedgerRows(lg), NEW u
    PROVE  Balance(lg, u) >= Balance(lg, u)
<1> DEFINE b == Balance(lg, u)
<1>1. b \in Int
  BY BalanceFacts
<1> HIDE DEF b
<1>2. b >= b
  BY <1>1
<1>3. QED
  BY <1>2 DEF b

LEMMA GrantAdds ==
    ASSUME NEW es, NEW py, NEW rd, GrantRows(es, py), Stacked(es), Worth(es, rd, py),
           NEW g \in Grant, g.starts < g.ends,
           g.source \in {"purchase", "promo"} => g.p # 0,
           g.p # 0 => py[g.p].st \in Done /\ py[g.p].u = g.u,
           \A e \in es : e.u = g.u => e.ends <= g.starts,
           Generous(g, py) => g.p \in rd
    PROVE  GrantRows(es \cup {g}, py) /\ Stacked(es \cup {g}) /\ Worth(es \cup {g}, rd, py)
<1>1. IsFiniteSet(es \cup {g})
  BY FS_AddElement DEF GrantRows
<1>2. GrantRows(es \cup {g}, py)
  BY <1>1 DEF GrantRows
<1>3. Stacked(es \cup {g})
  BY DEF Stacked
<1>4. Worth(es \cup {g}, rd, py)
  BY DEF Worth
<1>5. QED
  BY <1>2, <1>3, <1>4

LEMMA RedeemAdds ==
    ASSUME LedgerConstants, NEW rd, NEW py, NEW p \in Books!Purchases, Redeemed(rd, py),
           py[p].st \in Done, py[p].u \in Profiles,
           Cardinality(Uses(rd, py, py[p].u)) < PerUserLimit, Cardinality(rd) < MaxUses
    PROVE  Redeemed(rd \cup {p}, py)
<1>1. IsFiniteSet(rd) /\ \A u : IsFiniteSet(Uses(rd, py, u)) /\ Uses(rd, py, u) \subseteq rd
  BY FS_Subset DEF Redeemed, Uses
<1>2. \A S : IsFiniteSet(S) => /\ IsFiniteSet(S \cup {p}) /\ Cardinality(S) \in Nat
                               /\ Cardinality(S \cup {p}) \in {Cardinality(S), Cardinality(S) + 1}
  BY FS_AddElement, FS_CardinalityType
<1>3. Cardinality(rd \cup {p}) <= MaxUses
  <2> DEFINE a == Cardinality(rd)  b == Cardinality(rd \cup {p})
  <2>1. a \in Nat /\ b \in {a, a + 1} /\ a < MaxUses /\ MaxUses \in Nat
    BY <1>1, <1>2 DEF LedgerConstants
  <2> HIDE DEF a, b
  <2>2. b <= MaxUses
    BY <2>1
  <2>3. QED
    BY <2>2 DEF b
<1>4. ASSUME NEW u \in Profiles PROVE Cardinality(Uses(rd \cup {p}, py, u)) <= PerUserLimit
  <2>1. CASE u # py[p].u
    <3>1. Uses(rd \cup {p}, py, u) = Uses(rd, py, u)
      BY <2>1 DEF Uses
    <3>2. QED
      BY <3>1 DEF Redeemed
  <2>2. CASE u = py[p].u
    <3> DEFINE S == Uses(rd, py, u)
    <3>1. Uses(rd \cup {p}, py, u) = S \cup {p}
      BY <2>2 DEF Uses
    <3> DEFINE a == Cardinality(S)  b == Cardinality(S \cup {p})
    <3>2. a \in Nat /\ b \in {a, a + 1} /\ a < PerUserLimit /\ PerUserLimit \in Nat
      BY <1>1, <1>2, <2>2 DEF LedgerConstants
    <3> HIDE DEF a, b
    <3>3. b <= PerUserLimit
      BY <3>2
    <3>4. QED
      BY <3>1, <3>3 DEF b
  <2>3. QED
    BY <2>1, <2>2
<1>5. IsFiniteSet(rd \cup {p}) /\ rd \cup {p} \subseteq Books!Purchases
  BY <1>1, <1>2 DEF Redeemed
<1>6. QED
  BY <1>3, <1>4, <1>5 DEF Redeemed

LEMMA GrantDaysKeeps ==
    ASSUME LedgerConstants, LedgerIInv, NEW w \in Workers, Books!GrantDays(w)
    PROVE  LedgerIInv'
<1> DEFINE t == tx[w]
           g == Books!InsertEntitlement(t.u, 0, "admin", t.read, 1)
<1>1. /\ t.op = "grant" /\ Books!Close(w) /\ ents' = ents \cup {g}
      /\ UNCHANGED <<clock, pay, redeemed, referral, percent, ledger, payout, upsets, promoKind>>
  BY DEF Books!GrantDays, Books!At, Books!NoPay
<1>2. /\ tx \in [Workers -> Deal] /\ Apart(tx) /\ Facts(t, pay, ents, redeemed, ledger)
      /\ \A v \in Workers : Facts(tx[v], pay, ents, redeemed, ledger)
  BY DEF LedgerIInv, Transactions
<1>3. /\ t.u \in Profiles /\ t.u \in t.locks /\ t.read \in Nat
      /\ \A e \in ents : e.u = t.u => e.ends <= t.read
  BY <1>1, <1>2 DEF Facts, Shape, Stacks
<1> HIDE DEF t
<1>4. g = [u |-> t.u, p |-> 0, source |-> "admin", starts |-> t.read, ends |-> t.read + 1]
  BY DEF Books!InsertEntitlement
<1>5. /\ g \in Grant /\ g.starts = t.read /\ g.ends = t.read + 1 /\ g.starts < g.ends
      /\ g.u = t.u /\ g.p = 0 /\ g.source = "admin"
  BY <1>3, <1>4 DEF Grant, LedgerConstants
<1> HIDE DEF g
<1>6. GrantRows(ents, pay) /\ Stacked(ents) /\ Worth(ents, redeemed, pay) /\ LedgerRows(ledger)
  BY DEF LedgerIInv
<1>7. GrantRows(ents', pay) /\ Stacked(ents') /\ Worth(ents', redeemed, pay)
  <2>1. g.source \notin {"purchase", "promo"}
    BY <1>5
  <2>2. \A e \in ents : e.u = g.u => e.ends <= g.starts
    BY <1>3, <1>5
  <2>3. ents' = ents \cup {g}
    BY <1>1
  <2>4. /\ g.source \in {"purchase", "promo"} => g.p # 0
        /\ g.p # 0 => pay[g.p].st \in Done /\ pay[g.p].u = g.u
    BY <1>5, <2>1
  <2>5. g \in Grant /\ g.starts < g.ends
    BY <1>5
  <2>6. /\ GrantRows(ents \cup {g}, pay) /\ Stacked(ents \cup {g})
        /\ Worth(ents \cup {g}, redeemed, pay)
    <3>1. ~Generous(g, pay)
      BY <2>1 DEF Generous
    <3>2. QED
      BY <1>6, <2>2, <2>4, <2>5, <3>1, GrantAdds
  <2>7. QED
    BY <2>3, <2>6
<1>8. \A v \in Workers \ {w} : Facts(tx[v], pay, ents', redeemed, ledger)
  <2>1. \A e \in ents' : e \in ents \/ e.u \in tx[w].locks
    BY <1>1, <1>3, <1>5 DEF t
  <2>2. \A u : Balance(ledger, u) >= Balance(ledger, u)
    BY <1>6, SameBalance
  <2>3. QED
    BY <1>2, <1>6, <2>1, <2>2, OthersKeep
<1>9. Transactions(tx', pay, ents', redeemed, ledger)
  BY <1>1, <1>2, <1>8, CloseKeeps
<1>10. QED
  BY <1>1, <1>7, <1>9 DEF LedgerIInv, Counter

LEMMA FreeCommitKeeps ==
    ASSUME LedgerConstants, LedgerIInv, NEW w \in Workers, Books!FreeCheckoutCommit(w)
    PROVE  LedgerIInv'
<1> DEFINE t == tx[w]
           p == t.p
           x == [st |-> "paid", u |-> t.u, amount |-> 0, promo |-> TRUE]
           days == TariffDays + Books!BonusOfPromo
           g == Books!InsertEntitlement(t.u, p, "promo", t.read, days)
<1>1. /\ t.op = "checkout" /\ t.step = 1 /\ Books!Close(w)
      /\ pay' = [pay EXCEPT ![p] = x] /\ ents' = ents \cup {g} /\ redeemed' = redeemed \cup {p}
      /\ UNCHANGED <<clock, referral, percent, ledger, payout, upsets, promoKind>>
  BY DEF Books!FreeCheckoutCommit, Books!At
<1>2. /\ tx \in [Workers -> Deal] /\ Apart(tx) /\ Facts(t, pay, ents, redeemed, ledger)
      /\ \A v \in Workers : Facts(tx[v], pay, ents, redeemed, ledger)
  BY DEF LedgerIInv, Transactions
<1>3. /\ t.u \in Profiles /\ t.u \in t.locks /\ t.read \in Nat /\ t.promo
      /\ \A e \in ents : e.u = t.u => e.ends <= t.read
      /\ p \in Books!Purchases /\ pay[p].st = "none"
      /\ Cardinality(Uses(redeemed, pay, t.u)) < PerUserLimit /\ Cardinality(redeemed) < MaxUses
  BY <1>1, <1>2 DEF Facts, Shape, Stacks, OpensSale, Room
<1>4. days \in Nat \ {0} /\ p \in 0..NPayments /\ p # 0 /\ pay[p].st \notin Done
  BY <1>3, PromoPrice, PurchaseRange DEF LedgerConstants, Done
<1>5. /\ x \in Sale /\ x.st = "paid" /\ x.u = t.u /\ x.promo
  BY <1>3 DEF Sale
<1> HIDE DEF x, days
<1>6. /\ SaleRows(pay') /\ pay'[p] = x
      /\ GrantRows(ents, pay') /\ Worth(ents, redeemed, pay') /\ Redeemed(redeemed, pay')
      /\ \A u \in Profiles \cup {"none"} : Uses(redeemed, pay', u) = Uses(redeemed, pay, u)
      /\ \A s \in Deal : Facts(s, pay, ents, redeemed, ledger) /\ s.p # p
                           => Facts(s, pay', ents, redeemed, ledger)
      /\ Settled(ledger, pay', referral)
  <2>1. x.st # "none" /\ x.u \in Profiles /\ (~x.promo => x.amount = PriceUzs)
    BY <1>3, <1>5
  <2>2. pay' = [pay EXCEPT ![p] = x] /\ p \in Books!Purchases /\ x \in Sale
    BY <1>1, <1>3, <1>5
  <2>3. QED
    BY <1>4, <2>1, <2>2, SaleKeeps
<1>7. g = [u |-> t.u, p |-> p, source |-> "promo", starts |-> t.read, ends |-> t.read + days]
  BY DEF Books!InsertEntitlement
<1>8. /\ g \in Grant /\ g.starts = t.read /\ g.starts < g.ends
      /\ g.u = t.u /\ g.p = p /\ g.source = "promo"
  <2>1. t.read + days \in Nat /\ t.read < t.read + days
    BY <1>3, <1>4
  <2>2. QED
    BY <1>3, <1>4, <1>7, <2>1 DEF Grant
<1> HIDE DEF g
<1>9. x.st \in Done
  BY <1>5 DEF Done
<1>10. Redeemed(redeemed', pay')
  BY <1>1, <1>3, <1>5, <1>6, <1>9, RedeemAdds
<1>11. Worth(ents, redeemed', pay')
  BY <1>1, <1>6 DEF Worth
<1>12. GrantRows(ents', pay') /\ Stacked(ents') /\ Worth(ents', redeemed', pay')
  <2>1. Stacked(ents) /\ p \in redeemed'
    BY <1>1 DEF LedgerIInv
  <2>2. QED
    BY <1>1, <1>3, <1>4, <1>5, <1>6, <1>8, <1>9, <1>11, <2>1, GrantAdds
<1>13. \A v \in Workers \ {w} : Facts(tx[v], pay', ents', redeemed', ledger)
  <2>1. LedgerRows(ledger)
    BY DEF LedgerIInv
  <2>2. \A e \in ents' : e \in ents \/ e.u \in tx[w].locks
    BY <1>1, <1>3, <1>8
  <2>3. \A u : Balance(ledger, u) >= Balance(ledger, u)
    BY <2>1, SameBalance
  <2>4. \A v \in Workers \ {w} : Facts(tx[v], pay', ents, redeemed, ledger)
    BY <1>2, <1>4, <1>6, OthersElsewhere
  <2>5. redeemed' = redeemed \/ tx[w].promo
    BY <1>3
  <2>6. QED
    BY <2>1, <2>2, <2>3, <2>4, <2>5, OthersKeep
<1>14. Transactions(tx', pay', ents', redeemed', ledger)
  BY <1>1, <1>2, <1>13, CloseKeeps
<1>15. QED
  BY <1>1, <1>6, <1>10, <1>12, <1>14 DEF LedgerIInv, Counter

-----------------------------------------------------------------------------
(* A row is written into the ledger.                                        *)

Counts(b, n) == IF b THEN n ELSE 0

Gives(r, x) == Counts(r.u = x, r.amount)
Claws(r, x) == Counts(r.u = x /\ r.type = "clawback", r.amount)
Withholds(r, x) == Counts(r.u = x /\ r.type \in HoldTypes, r.amount)

LEMMA RowPuts ==
    ASSUME NEW lg, LedgerRows(lg), NEW r \in Entry, r \notin lg, NEW x
    PROVE  /\ LedgerRows(lg \cup {r})
           /\ Balance(lg \cup {r}, x) = Balance(lg, x) + Gives(r, x)
           /\ Clawed(lg \cup {r}, x) = Clawed(lg, x) + Claws(r, x)
           /\ HeldBack(lg \cup {r}, x) = HeldBack(lg, x) + Withholds(r, x)
           /\ r.amount \in Int /\ Balance(lg, x) \in Int /\ Clawed(lg, x) \in Int /\ HeldBack(lg, x) \in Int
<1>1. LedgerRows(lg \cup {r})
  BY FS_AddElement DEF LedgerRows
<1>2. r.amount \in Int
  BY DEF Entry
<1>3. ASSUME NEW S, S \subseteq lg, Amounts(S)
      PROVE  Books!SumOf(S \cup {r}) = Books!SumOf(S) + r.amount /\ Books!SumOf(S) \in Int
  <2>1. r \notin S
    BY <1>3
  <2>2. Books!SumOf(S) \in Int /\ Books!SumOf(S \cup {r}) = r.amount + Books!SumOf(S)
    BY <1>2, <1>3, <2>1, SumPut
  <2> DEFINE a == Books!SumOf(S)  b == Books!SumOf(S \cup {r})  k == r.amount
  <2>3. a \in Int /\ k \in Int /\ b = k + a
    BY <1>2, <2>2
  <2> HIDE DEF a, b, k
  <2>4. b = a + k /\ a \in Int
    BY <2>3
  <2>5. QED
    BY <2>4 DEF a, b, k
<1>4. \A i \in Int : i + 0 = i
  OBVIOUS
<1>5. /\ Amounts(RowsOf(lg, x)) /\ Balance(lg, x) \in Int
      /\ Amounts({s \in lg : s.u = x /\ s.type = "clawback"}) /\ Clawed(lg, x) \in Int
      /\ Amounts({s \in lg : s.u = x /\ s.type \in HoldTypes}) /\ HeldBack(lg, x) \in Int
  BY BalanceFacts
<1>6. Balance(lg \cup {r}, x) = Balance(lg, x) + Gives(r, x)
  <2> DEFINE S == RowsOf(lg, x)
  <2>1. CASE r.u = x
    <3>1. RowsOf(lg \cup {r}, x) = S \cup {r} /\ S \subseteq lg
      BY <2>1 DEF RowsOf
    <3>2. QED
      BY <1>3, <1>5, <2>1, <3>1 DEF Balance, Gives, Counts
  <2>2. CASE r.u # x
    <3>1. RowsOf(lg \cup {r}, x) = S
      BY <2>2 DEF RowsOf
    <3>2. QED
      BY <1>4, <1>5, <2>2, <3>1 DEF Balance, Gives, Counts
  <2>3. QED
    BY <2>1, <2>2
<1>7. Clawed(lg \cup {r}, x) = Clawed(lg, x) + Claws(r, x)
  <2> DEFINE S == {s \in lg : s.u = x /\ s.type = "clawback"}
             T == {s \in lg \cup {r} : s.u = x /\ s.type = "clawback"}
  <2>1. CASE r.u = x /\ r.type = "clawback"
    <3>1. T = S \cup {r} /\ S \subseteq lg
      BY <2>1
    <3>2. QED
      BY <1>3, <1>5, <2>1, <3>1 DEF Clawed, Claws, Counts
  <2>2. CASE ~(r.u = x /\ r.type = "clawback")
    <3>1. T = S
      BY <2>2
    <3>2. QED
      BY <1>4, <1>5, <2>2, <3>1 DEF Clawed, Claws, Counts
  <2>3. QED
    BY <2>1, <2>2
<1>8. HeldBack(lg \cup {r}, x) = HeldBack(lg, x) + Withholds(r, x)
  <2> DEFINE S == {s \in lg : s.u = x /\ s.type \in HoldTypes}
             T == {s \in lg \cup {r} : s.u = x /\ s.type \in HoldTypes}
  <2>1. CASE r.u = x /\ r.type \in HoldTypes
    <3>1. T = S \cup {r} /\ S \subseteq lg
      BY <2>1
    <3>2. QED
      BY <1>3, <1>5, <2>1, <3>1 DEF HeldBack, Withholds, Counts
  <2>2. CASE ~(r.u = x /\ r.type \in HoldTypes)
    <3>1. T = S
      BY <2>2
    <3>2. QED
      BY <1>4, <1>5, <2>2, <3>1 DEF HeldBack, Withholds, Counts
  <2>3. QED
    BY <2>1, <2>2
<1>9. QED
  BY <1>1, <1>2, <1>5, <1>6, <1>7, <1>8

\* A commission only adds to its owner's balance.
LEMMA CommissionAdds ==
    ASSUME LedgerIInv, NEW c \in Entry, c \notin ledger, c.type = "commission", c.amount \in Nat
    PROVE  /\ LedgerRows(ledger \cup {c}) /\ Solvent(ledger \cup {c}) /\ Holds(ledger \cup {c}, payout)
           /\ \A x : Balance(ledger \cup {c}, x) >= Balance(ledger, x)
<1> DEFINE lg == ledger \cup {c}
<1>1. LedgerRows(ledger) /\ Solvent(ledger) /\ Holds(ledger, payout)
  BY DEF LedgerIInv
<1>2. c.type # "clawback" /\ c.type \notin HoldTypes
  BY DEF HoldTypes
<1>3. ASSUME NEW x
      PROVE  /\ LedgerRows(lg) /\ Clawed(lg, x) = Clawed(ledger, x) /\ HeldBack(lg, x) = HeldBack(ledger, x)
             /\ Balance(lg, x) >= Balance(ledger, x)
             /\ Balance(lg, x) \in Int /\ Balance(ledger, x) \in Int /\ Clawed(ledger, x) \in Int
  <2> DEFINE a == Balance(lg, x)  b == Balance(ledger, x)  k == Gives(c, x)
             d == Clawed(lg, x)  e == Clawed(ledger, x)  f == HeldBack(lg, x)  g == HeldBack(ledger, x)
  <2>1. k \in Nat
    BY DEF Gives, Claws, Withholds, Counts
  <2>2. /\ Claws(c, x) = 0
        /\ Withholds(c, x) = 0
    BY <1>2 DEF Gives, Claws, Withholds, Counts
  <2>3. /\ LedgerRows(lg) /\ a = b + k /\ d = e + 0 /\ f = g + 0 /\ b \in Int /\ e \in Int /\ g \in Int
    BY <1>1, <2>2, RowPuts
  <2> HIDE DEF a, b, k, d, e, f, g
  <2>4. a >= b /\ a \in Int /\ b \in Int /\ d = e /\ e \in Int /\ f = g
    BY <2>1, <2>3
  <2>5. QED
    BY <2>3, <2>4 DEF a, b, d, e, f, g
<1>4. LedgerRows(lg)
  BY <1>3
<1>5. Solvent(lg)
  <2> SUFFICES ASSUME NEW u \in Profiles PROVE Clawed(lg, u) <= 0 /\ Balance(lg, u) >= Clawed(lg, u)
    BY DEF Solvent
  <2> DEFINE a == Balance(lg, u)  b == Balance(ledger, u)  d == Clawed(lg, u)  e == Clawed(ledger, u)
  <2>1. e <= 0 /\ b >= e /\ a >= b /\ d = e /\ a \in Int /\ b \in Int /\ e \in Int
    BY <1>1, <1>3 DEF Solvent
  <2> HIDE DEF a, b, d, e
  <2>2. d <= 0 /\ a >= d
    BY <2>1
  <2>3. QED
    BY <2>2 DEF a, d
<1>6. Holds(lg, payout)
  <2>1. /\ payout \in [Books!Payouts -> Withdrawal]
        /\ \A k \in Books!Payouts : payout[k].st # "none" => payout[k].u \in Profiles
    BY <1>1 DEF Holds
  <2>2. \A r \in lg : r.type = "payout_hold" => r.ref \in Books!Payouts /\ payout[r.ref].st # "none"
    BY <1>1, <1>2 DEF Holds, HoldTypes
  <2>3. \A r \in lg : r.type = "payout_reject_release" => r.ref \in Books!Payouts /\ payout[r.ref].st = "rejected"
    BY <1>1, <1>2 DEF Holds, HoldTypes
  <2>4. \A u \in Profiles :
          Summed(payout, Asked(payout, u, "paid")) + Summed(payout, Asked(payout, u, "pending"))
            = - HeldBack(lg, u)
    BY <1>1, <1>3 DEF Holds
  <2>5. QED
    BY <2>1, <2>2, <2>3, <2>4 DEF Holds
<1>7. QED
  BY <1>3, <1>4, <1>5, <1>6

\* A completed sale rewards the referral behind it, once.
LEMMA RewardSettles ==
    ASSUME LedgerConstants, LedgerIInv, NEW p \in Books!Purchases, NEW u \in Profiles, NEW py,
           pay[p].st \notin Done, pay[p].amount \in Nat, py[p].st = "paid", py[p].u = u,
           \A q \in Books!Purchases \ {p} : py[q] = pay[q],
           Books!processReferralRewardOnPayment(u, p)
    PROVE  /\ Invites(referral') /\ LedgerRows(ledger') /\ Settled(ledger', py, referral')
           /\ Solvent(ledger') /\ Holds(ledger', payout)
           /\ \A x : Balance(ledger', x) >= Balance(ledger, x)
<1> DEFINE r == referral[u].by
           k == Books!CommissionUZS(pay[p].amount, percent[r])
           c == Books!InsertReferralLedger(r, "commission", k, p)
           claim == referral[u].st = "pending"
<1>1. /\ referral' = [referral EXCEPT ![u].st = IF claim THEN "rewarded" ELSE @]
      /\ ledger' = ledger \cup (IF claim /\ k > 0 THEN {c} ELSE {})
  BY DEF Books!processReferralRewardOnPayment, Books!creditReferralCommission,
         Books!ClaimPendingReferralForReferee
<1>2. /\ Invites(referral) /\ Settled(ledger, pay, referral) /\ LedgerRows(ledger) /\ Solvent(ledger)
      /\ Holds(ledger, payout) /\ percent \in [Profiles -> Nat]
  BY DEF LedgerIInv
<1>3. p \in Nat
  BY PurchaseRange DEF LedgerConstants
<1>4. claim => r \in Profiles
  BY <1>2 DEF Invites
<1>5. /\ referral'[u].by = r /\ referral'[u].st = (IF claim THEN "rewarded" ELSE referral[u].st)
      /\ \A v \in Profiles \ {u} : referral'[v] = referral[v]
      /\ referral' \in [Profiles -> Invite]
  BY <1>1, <1>2 DEF Invites, Invite
<1>6. Invites(referral')
  BY <1>2, <1>5 DEF Invites
<1>7. claim => k \in Nat /\ c \in Entry /\ c.u = r /\ c.type = "commission" /\ c.amount = k /\ c.ref = p
  <2> SUFFICES ASSUME claim PROVE k \in Nat /\ c \in Entry /\ c.u = r /\ c.type = "commission" /\ c.amount = k /\ c.ref = p
    OBVIOUS
  <2>1. percent[r] \in Nat
    BY <1>2, <1>4
  <2> DEFINE a == pay[p].amount  b == percent[r]
  <2>2. a \in Nat /\ b \in Nat
    BY <2>1
  <2>3. k = (a * b) \div 100
    BY DEF Books!CommissionUZS
  <2> HIDE DEF a, b, k
  <2>4. a * b \in Nat
    BY <2>2
  <2>5. k \in Nat
    BY <2>3, <2>4
  <2>6. c = [u |-> r, type |-> "commission", amount |-> k, ref |-> p]
    BY DEF Books!InsertReferralLedger
  <2>7. QED
    BY <1>3, <1>4, <2>5, <2>6 DEF Entry, EntryTypes
<1> HIDE DEF c, k, r
\* What was a commission before.
<1>8. \A d \in Commissions(ledger) :
        /\ d.ref \in Books!Purchases /\ d.ref # p /\ py[d.ref] = pay[d.ref]
        /\ CommissionOk(d, pay, ledger, referral)
  BY <1>2 DEF Settled, CommissionOk
<1>9. c \notin ledger \/ ~claim
  BY <1>7, <1>8 DEF Commissions
<1>10. /\ LedgerRows(ledger') /\ Solvent(ledger') /\ Holds(ledger', payout)
       /\ \A x : Balance(ledger', x) >= Balance(ledger, x)
  <2>1. CASE claim /\ k > 0
    <3>1. ledger' = ledger \cup {c}
      BY <1>1, <2>1
    <3>2. c \in Entry /\ c \notin ledger /\ c.type = "commission" /\ c.amount \in Nat
      BY <1>7, <1>9, <2>1
    <3>3. QED
      BY <3>1, <3>2, CommissionAdds
  <2>2. CASE ~(claim /\ k > 0)
    <3>1. ledger' = ledger
      BY <1>1, <2>2
    <3>2. \A x : Balance(ledger, x) >= Balance(ledger, x)
      BY <1>2, SameBalance
    <3>3. QED
      BY <1>2, <3>1, <3>2
  <2>3. QED
    BY <2>1, <2>2
<1>11. \A d \in Commissions(ledger) : referral'[pay[d.ref].u] = referral[pay[d.ref].u]
  <2> SUFFICES ASSUME NEW d \in Commissions(ledger)
               PROVE  referral'[pay[d.ref].u] = referral[pay[d.ref].u]
    OBVIOUS
  <2> DEFINE v == pay[d.ref].u
  <2>1. CASE v = u
    <3>1. referral[u].st = "rewarded"
      BY <1>8, <2>1 DEF CommissionOk
    <3>2. ~claim
      BY <3>1
    <3>3. referral' = referral
      BY <1>1, <1>2, <3>2 DEF Invites, Invite
    <3>4. QED
      BY <3>3
  <2>2. CASE v # u
    BY <1>1, <1>2, <2>2 DEF Invites
  <2>3. QED
    BY <2>1, <2>2
<1>12. ledger \subseteq ledger' /\ \A d \in ledger' : d \in ledger \/ (d = c /\ claim)
  BY <1>1
<1>13. ASSUME NEW d \in Commissions(ledger) PROVE CommissionOk(d, py, ledger', referral')
  BY <1>8, <1>11, <1>12 DEF CommissionOk
<1>14. ASSUME claim PROVE CommissionOk(c, py, ledger', referral')
  <2>1. py[c.ref].st = "paid" /\ py[c.ref].u = u /\ c.ref \in Books!Purchases
    BY <1>7, <1>14
  <2>2. "paid" \in Done
    BY DEF Done
  <2>3. c.amount \in Nat /\ referral'[u].st = "rewarded" /\ referral'[u].by = c.u
    BY <1>5, <1>7, <1>14
  <2>4. QED
    BY <2>1, <2>2, <2>3 DEF CommissionOk
<1>15. \A d \in Commissions(ledger') : d \in Commissions(ledger) \/ (d = c /\ claim)
  BY <1>12 DEF Commissions
<1>16. \A d \in Commissions(ledger') : CommissionOk(d, py, ledger', referral')
  BY <1>13, <1>14, <1>15
<1>17. ASSUME NEW d \in Commissions(ledger), claim PROVE py[d.ref].u # py[c.ref].u
  <2>1. py[c.ref].u = u /\ referral[u].st # "rewarded"
    BY <1>7, <1>17
  <2>2. referral[pay[d.ref].u].st = "rewarded" /\ py[d.ref].u = pay[d.ref].u
    BY <1>8 DEF CommissionOk
  <2>3. QED
    BY <2>1, <2>2
<1>18. \A d, e \in Commissions(ledger) : py[d.ref].u = py[e.ref].u => d = e
  BY <1>2, <1>8 DEF Settled
<1>19. \A d, e \in Commissions(ledger') : py[d.ref].u = py[e.ref].u => d = e
  BY <1>15, <1>17, <1>18
<1>20. ASSUME NEW e \in ledger', e.type = "clawback" PROVE ClawbackOk(e, py, ledger')
  <2>1. e \in ledger
    BY <1>7, <1>12, <1>20
  <2>2. ClawbackOk(e, pay, ledger)
    BY <1>2, <1>20, <2>1 DEF Settled
  <2>3. PICK d \in Commissions(ledger) : d.ref = e.ref /\ e = Clawback(d)
    BY <2>2 DEF ClawbackOk
  <2>4. e.ref \in Books!Purchases /\ py[e.ref].st = "refunded"
    BY <1>8, <2>2, <2>3 DEF ClawbackOk
  <2>5. d \in Commissions(ledger')
    BY <1>12 DEF Commissions
  <2>6. QED
    BY <2>3, <2>4, <2>5 DEF ClawbackOk
<1>21. ASSUME NEW v \in Profiles
       PROVE  Cardinality(RowsOf(Commissions(ledger'), v)) <= Cardinality(Rewarded(referral', v))
  <2> DEFINE S == RowsOf(Commissions(ledger), v)  T == RowsOf(Commissions(ledger'), v)
             A == Rewarded(referral, v)  B == Rewarded(referral', v)
  <2>1. IsFiniteSet(S) /\ IsFiniteSet(T) /\ IsFiniteSet(A) /\ IsFiniteSet(B)
    <3>1. S \subseteq ledger /\ T \subseteq ledger' /\ A \subseteq Profiles /\ B \subseteq Profiles
      BY DEF RowsOf, Commissions, Rewarded
    <3>2. IsFiniteSet(ledger) /\ IsFiniteSet(ledger') /\ IsFiniteSet(Profiles)
      BY <1>2, <1>10 DEF LedgerRows, LedgerConstants
    <3>3. QED
      BY <3>1, <3>2, FS_Subset
  <2>2. Cardinality(S) <= Cardinality(A)
    BY <1>2 DEF Settled
  <2>3. A \subseteq B
    <3> SUFFICES ASSUME NEW x \in A PROVE x \in B
      OBVIOUS
    <3>1. x \in Profiles /\ referral[x].by = v /\ referral[x].st = "rewarded"
      BY DEF Rewarded
    <3>2. referral'[x].by = v /\ referral'[x].st = "rewarded"
      BY <1>5, <3>1 DEF r
    <3>3. QED
      BY <3>1, <3>2 DEF Rewarded
  <2>4. Cardinality(A) <= Cardinality(B) /\ Cardinality(A) \in Nat /\ Cardinality(B) \in Nat
        /\ Cardinality(S) \in Nat /\ Cardinality(T) \in Nat
    BY <2>1, <2>3, FS_Subset, FS_CardinalityType
  <2>5. CASE claim /\ v = r
    <3>1. T \subseteq S \cup {c}
      BY <1>15 DEF RowsOf
    <3>2. B = A \cup {u} /\ u \notin A
      BY <1>5, <2>5 DEF Rewarded, r
    <3>3. Cardinality(B) = Cardinality(A) + 1
      BY <2>1, <3>2, FS_AddElement
    <3>4. IsFiniteSet(S \cup {c}) /\ Cardinality(S \cup {c}) \in {Cardinality(S), Cardinality(S) + 1}
      BY <2>1, FS_AddElement
    <3>5. Cardinality(T) <= Cardinality(S \cup {c})
      BY <3>1, <3>4, FS_Subset
    <3> DEFINE cs == Cardinality(S)  ct == Cardinality(T)  ca == Cardinality(A)  cb == Cardinality(B)
               cc == Cardinality(S \cup {c})
    <3>6. cs \in Nat /\ ct \in Nat /\ ca \in Nat /\ cb = ca + 1 /\ cs <= ca /\ cc \in {cs, cs + 1} /\ ct <= cc
      BY <2>2, <2>4, <3>3, <3>4, <3>5
    <3> HIDE DEF cs, ct, ca, cb, cc
    <3>7. ct <= cb
      BY <3>6
    <3>8. QED
      BY <3>7 DEF ct, cb
  <2>6. CASE ~(claim /\ v = r)
    <3>1. T = S
      BY <1>7, <1>12, <1>15, <2>6 DEF RowsOf, Commissions
    <3> DEFINE cs == Cardinality(S)  ca == Cardinality(A)  cb == Cardinality(B)
    <3>2. cs \in Nat /\ ca \in Nat /\ cb \in Nat /\ cs <= ca /\ ca <= cb
      BY <2>2, <2>4
    <3> HIDE DEF cs, ca, cb
    <3>3. cs <= cb
      BY <3>2
    <3>4. QED
      BY <3>1, <3>3 DEF cs, cb
  <2>7. QED
    BY <2>5, <2>6
<1>22. QED
  BY <1>6, <1>10, <1>16, <1>19, <1>20, <1>21 DEF Settled

\* A share of the term, never less than a day.
LEMMA ShareOfTerm ==
    ASSUME LedgerConstants, NEW a \in Nat
    PROVE  /\ Books!proRatedDays(a) \in Nat \ {0}
           /\ Books!proRatedDays(PriceUzs) = TariffDays
<1> DEFINE d == (TariffDays * a) \div PriceUzs
<1>1. PriceUzs \in Nat \ {0} /\ TariffDays \in Nat \ {0} /\ TariffDays * a \in Nat
  BY DEF LedgerConstants
<1>2. d \in Int
  BY <1>1
<1>3. Books!proRatedDays(a) = IF a >= PriceUzs THEN TariffDays ELSE IF d < 1 THEN 1 ELSE d
  BY DEF Books!proRatedDays
<1> HIDE DEF d
<1>4. Books!proRatedDays(a) \in Nat \ {0}
  BY <1>1, <1>2, <1>3
<1>5. Books!proRatedDays(PriceUzs) = TariffDays
  BY <1>1 DEF Books!proRatedDays
<1>6. QED
  BY <1>4, <1>5

LEMMA ProcessKeeps ==
    ASSUME LedgerConstants, LedgerIInv, NEW w \in Workers, Books!ProcessPaymentGrant(w)
    PROVE  LedgerIInv'
<1> DEFINE t == tx[w]
           p == t.p
           u == t.u
           x == [pay[p] EXCEPT !.st = "paid"]
           days == Books!DaysBought(p, t.ok)
           g == Books!InsertEntitlement(u, p, "purchase", t.read, days)
           h == Books!InsertEntitlement(u, p, "referral_buyer", t.read + days, BonusDays)
           more == Books!BuyerReferralBonusDays(u, p, t.read + days)
           one == ents \cup {g}
<1>1. /\ t.op = "complete" /\ t.step = 1 /\ Books!Close(w)
      /\ pay' = [pay EXCEPT ![p].st = "paid"]
      /\ redeemed' = (IF t.ok THEN redeemed \cup {p} ELSE redeemed)
      /\ ents' = one \cup more
      /\ Books!processReferralRewardOnPayment(u, p)
      /\ UNCHANGED <<clock, percent, payout, upsets, promoKind>>
  BY DEF Books!ProcessPaymentGrant, Books!At
<1>2. /\ tx \in [Workers -> Deal] /\ Apart(tx) /\ Facts(t, pay, ents, redeemed, ledger)
      /\ \A v \in Workers : Facts(tx[v], pay, ents, redeemed, ledger)
      /\ t.ok \in BOOLEAN
  BY DEF LedgerIInv, Transactions, Deal
<1>3. /\ u \in Profiles /\ u \in t.locks /\ t.read \in Nat /\ (t.ok => t.promo)
      /\ \A e \in ents : e.u = u => e.ends <= t.read
      /\ p \in Books!Purchases /\ pay[p].st = "created" /\ u = pay[p].u
  BY <1>1, <1>2 DEF Facts, Shape, Stacks, Completes
<1>4. t.ok => Cardinality(Uses(redeemed, pay, u)) < PerUserLimit /\ Cardinality(redeemed) < MaxUses
  BY <1>2 DEF Facts, Room
<1>5. p \in 0..NPayments /\ p # 0 /\ pay[p].st \notin Done /\ pay[p] \in Sale
      /\ pay[p].amount \in Nat /\ (~pay[p].promo => pay[p].amount = PriceUzs)
  BY <1>3, PurchaseRange DEF Done, LedgerIInv, SaleRows, Sale
<1>6. days \in Nat \ {0}
  BY <1>5, PromoPrice, ShareOfTerm DEF LedgerConstants, Books!DaysBought
<1>7. t.ok \/ days = Books!proRatedDays(pay[p].amount)
  <2>1. CASE pay[p].promo
    BY <2>1 DEF Books!DaysBought
  <2>2. CASE ~pay[p].promo
    <3>1. Books!proRatedDays(pay[p].amount) = TariffDays /\ TariffDays + 0 = TariffDays
      BY <1>5, <2>2, ShareOfTerm DEF LedgerConstants
    <3>2. t.ok \/ days = TariffDays + 0
      BY <2>2 DEF Books!DaysBought
    <3>3. QED
      BY <3>1, <3>2
  <2>3. QED
    BY <2>1, <2>2
<1>8. /\ x \in Sale /\ x.st = "paid" /\ x.u = u /\ x.amount = pay[p].amount /\ x.promo = pay[p].promo
      /\ pay' = [pay EXCEPT ![p] = x]
  BY <1>1, <1>3, <1>5 DEF Sale, LedgerIInv, SaleRows
<1> HIDE DEF x, days
<1>9. /\ SaleRows(pay') /\ pay'[p] = x /\ \A q \in Books!Purchases \ {p} : pay'[q] = pay[q]
      /\ GrantRows(ents, pay') /\ Worth(ents, redeemed, pay') /\ Redeemed(redeemed, pay')
      /\ \A v \in Profiles \cup {"none"} : Uses(redeemed, pay', v) = Uses(redeemed, pay, v)
      /\ \A s \in Deal : Facts(s, pay, ents, redeemed, ledger) /\ s.p # p
                           => Facts(s, pay', ents, redeemed, ledger)
  <2>1. x.st # "none" /\ x.u \in Profiles /\ (~x.promo => x.amount = PriceUzs)
    BY <1>3, <1>5, <1>8
  <2>2. QED
    BY <1>3, <1>5, <1>8, <2>1, SaleKeeps
<1>10. "paid" \in Done /\ x.st \in Done
  BY <1>8 DEF Done
<1>11. /\ Invites(referral') /\ LedgerRows(ledger') /\ Settled(ledger', pay', referral')
       /\ Solvent(ledger') /\ Holds(ledger', payout)
       /\ \A v : Balance(ledger', v) >= Balance(ledger, v)
  <2>1. pay'[p].st = "paid" /\ pay'[p].u = u
    BY <1>8, <1>9
  <2>2. /\ p \in Books!Purchases /\ u \in Profiles /\ pay[p].st \notin Done /\ pay[p].amount \in Nat
        /\ \A q \in Books!Purchases \ {p} : pay'[q] = pay[q]
    BY <1>3, <1>5, <1>9
  <2>3. Books!processReferralRewardOnPayment(u, p)
    BY <1>1
  <2> HIDE DEF u, p
  <2>4. QED
    BY <2>1, <2>2, <2>3, RewardSettles
<1>12. Redeemed(redeemed', pay')
  <2>1. CASE t.ok
    <3>1. /\ pay'[p].u = u /\ Cardinality(Uses(redeemed, pay', u)) < PerUserLimit
          /\ Cardinality(redeemed) < MaxUses
      BY <1>3, <1>4, <1>8, <1>9, <2>1
    <3>2. redeemed' = redeemed \cup {p}
      BY <1>1, <2>1
    <3>3. QED
      BY <1>3, <1>9, <1>10, <3>1, <3>2, RedeemAdds
  <2>2. CASE ~t.ok
    BY <1>1, <1>9, <2>2
  <2>3. QED
    BY <2>1, <2>2
<1>13. Worth(ents, redeemed', pay')
  BY <1>1, <1>9 DEF Worth
<1>14. g = [u |-> u, p |-> p, source |-> "purchase", starts |-> t.read, ends |-> t.read + days]
  BY DEF Books!InsertEntitlement
<1>15. t.read + days \in Nat /\ t.read < t.read + days /\ (t.read + days) - t.read = days
  BY <1>3, <1>6
<1>16. /\ g \in Grant /\ g.starts = t.read /\ g.ends = t.read + days /\ g.starts < g.ends
       /\ g.u = u /\ g.p = p /\ g.source = "purchase" /\ g.ends - g.starts = days
  BY <1>3, <1>5, <1>14, <1>15 DEF Grant
<1>17. h = [u |-> u, p |-> p, source |-> "referral_buyer", starts |-> t.read + days,
            ends |-> (t.read + days) + BonusDays]
  BY DEF Books!InsertEntitlement
<1>18. more = {} \/ (more = {h} /\ BonusDays > 0)
  BY DEF Books!BuyerReferralBonusDays
<1> HIDE DEF g, h, more
<1>19. Generous(g, pay') => g.p \in redeemed'
  <2>1. CASE t.ok
    BY <1>1, <1>16, <2>1
  <2>2. CASE ~t.ok
    <3>1. g.ends - g.starts = Books!proRatedDays(pay'[g.p].amount) /\ g.ends - g.starts \in Nat
      BY <1>6, <1>7, <1>8, <1>9, <1>16, <2>2
    <3> DEFINE a == g.ends - g.starts  b == Books!proRatedDays(pay'[g.p].amount)
    <3>2. a = b /\ a \in Nat
      BY <3>1
    <3> HIDE DEF a, b
    <3>3. ~(a > b)
      BY <3>2
    <3>4. QED
      BY <3>3 DEF Generous, a, b
  <2>3. QED
    BY <2>1, <2>2
<1>20. GrantRows(one, pay') /\ Stacked(one) /\ Worth(one, redeemed', pay')
  <2>1. \A e \in ents : e.u = g.u => e.ends <= g.starts
    BY <1>3, <1>16
  <2>2. /\ g.source \in {"purchase", "promo"} => g.p # 0
        /\ g.p # 0 => pay'[g.p].st \in Done /\ pay'[g.p].u = g.u
    BY <1>5, <1>8, <1>9, <1>10, <1>16
  <2>3. g \in Grant /\ g.starts < g.ends /\ Stacked(ents)
    BY <1>16 DEF LedgerIInv
  <2>4. QED
    BY <1>9, <1>13, <1>19, <2>1, <2>2, <2>3, GrantAdds
<1>21. GrantRows(ents', pay') /\ Stacked(ents') /\ Worth(ents', redeemed', pay')
  <2>1. CASE more = {}
    <3>1. ents' = one
      BY <1>1, <2>1
    <3>2. QED
      BY <1>20, <3>1
  <2>2. CASE more = {h} /\ BonusDays > 0
    <3>1. ents' = one \cup {h}
      BY <1>1, <2>2
    <3> DEFINE m == t.read + days
    <3>2. m \in Nat /\ t.read < m /\ g.ends = m
      BY <1>15, <1>16
    <3> HIDE DEF m
    <3>3. m + BonusDays \in Nat /\ m < m + BonusDays /\ m \in Nat
      BY <2>2, <3>2 DEF LedgerConstants
    <3>4. /\ h \in Grant /\ h.starts = m /\ h.starts < h.ends
          /\ h.u = u /\ h.p = p /\ h.source = "referral_buyer"
      BY <1>3, <1>5, <1>17, <3>3 DEF Grant, m
    <3>5. \A e \in one : e.u = h.u => e.ends <= h.starts
      <4>1. \A e \in ents : e.ends \in Nat
        BY DEF LedgerIInv, GrantRows, Grant
      <4>2. \A e \in ents : e.u = u => e.ends <= m
        <5> SUFFICES ASSUME NEW e \in ents, e.u = u PROVE e.ends <= m
          OBVIOUS
        <5> DEFINE a == e.ends  b == t.read
        <5>1. a \in Nat /\ b \in Nat /\ a <= b /\ b < m /\ m \in Nat
          BY <1>3, <3>2, <4>1
        <5> HIDE DEF a, b
        <5>2. a <= m
          BY <5>1
        <5>3. QED
          BY <5>2 DEF a
      <4>3. g.ends <= m
        BY <3>2
      <4>4. QED
        BY <3>4, <4>2, <4>3
    <3>6. /\ h.source \in {"purchase", "promo"} => h.p # 0
          /\ h.p # 0 => pay'[h.p].st \in Done /\ pay'[h.p].u = h.u
      BY <1>5, <1>8, <1>9, <1>10, <3>4
    <3>7. ~Generous(h, pay')
      BY <3>4 DEF Generous
    <3> HIDE DEF one
    <3>8. h \in Grant /\ h.starts < h.ends
      BY <3>4
    <3>9. GrantRows(one \cup {h}, pay') /\ Stacked(one \cup {h}) /\ Worth(one \cup {h}, redeemed', pay')
      BY <1>20, <3>5, <3>6, <3>7, <3>8, GrantAdds
    <3>10. QED
      BY <3>1, <3>9
  <2>3. QED
    BY <1>18, <2>1, <2>2
<1>22. \A v \in Workers \ {w} : Facts(tx[v], pay', ents', redeemed', ledger')
  <2>1. h.u = u /\ g.u = u
    BY <1>16, <1>17
  <2>2. \A e \in ents' : e \in ents \/ e.u \in tx[w].locks
    BY <1>1, <1>3, <1>18, <2>1
  <2>3. \A v \in Workers \ {w} : Facts(tx[v], pay', ents, redeemed, ledger)
    BY <1>2, <1>5, <1>9, OthersElsewhere
  <2>4. redeemed' = redeemed \/ tx[w].promo
    BY <1>1, <1>3
  <2>5. QED
    BY <1>11, <2>2, <2>3, <2>4, OthersKeep
<1>23. Transactions(tx', pay', ents', redeemed', ledger')
  BY <1>1, <1>2, <1>22, CloseKeeps
<1>24. UNCHANGED <<clock, upsets, promoKind, percent, payout>>
  BY <1>1
<1>25. QED
  BY <1>9, <1>11, <1>12, <1>21, <1>23, <1>24 DEF LedgerIInv, Counter

-----------------------------------------------------------------------------
(* A refund cuts what the payment bought and takes the commission back.     *)

Cut(e, p, to) ==
    IF e.p = p /\ e.ends > to
    THEN [e EXCEPT !.ends = IF e.starts >= to THEN e.starts + 1 ELSE to] ELSE e

\* A cut grant starts when it did and ends no later.
LEMMA CutFacts ==
    ASSUME NEW e \in Grant, e.starts < e.ends, NEW p, NEW to \in Nat
    PROVE  /\ Cut(e, p, to) \in Grant
           /\ Cut(e, p, to).u = e.u /\ Cut(e, p, to).p = e.p /\ Cut(e, p, to).source = e.source
           /\ Cut(e, p, to).starts = e.starts /\ e.starts < Cut(e, p, to).ends
           /\ Cut(e, p, to).ends <= e.ends
           /\ Cut(e, p, to) = e \/ e.p = p
<1> DEFINE f == Cut(e, p, to)
           n == IF e.starts >= to THEN e.starts + 1 ELSE to
<1>1. e.starts \in Nat /\ e.ends \in Nat
  BY DEF Grant
<1>2. CASE ~(e.p = p /\ e.ends > to)
  <2>1. f = e
    BY <1>2 DEF Cut
  <2>2. QED
    BY <1>1, <2>1
<1>3. CASE e.p = p /\ e.ends > to
  <2>1. f = [e EXCEPT !.ends = n]
    BY <1>3 DEF Cut
  <2>2. n \in Nat /\ e.starts < n /\ n <= e.ends
    BY <1>1, <1>3
  <2> HIDE DEF n
  <2>3. /\ f \in Grant /\ f.u = e.u /\ f.p = e.p /\ f.source = e.source
        /\ f.starts = e.starts /\ f.ends = n
    BY <2>1, <2>2 DEF Grant
  <2>4. QED
    BY <1>3, <2>2, <2>3
<1>4. QED
  BY <1>2, <1>3

LEMMA CutsKeep ==
    ASSUME NEW es, NEW py, NEW rd, GrantRows(es, py), Stacked(es), Worth(es, rd, py),
           NEW p, NEW to \in Nat, py[p].st = "refunded"
    PROVE  LET new == {Cut(e, p, to) : e \in es} IN
           GrantRows(new, py) /\ Stacked(new) /\ Worth(new, rd, py)
<1> DEFINE new == {Cut(e, p, to) : e \in es}
           f == [e \in es |-> Cut(e, p, to)]
<1>1. \A e \in es : e \in Grant /\ e.starts < e.ends
  BY DEF GrantRows
<1>2. IsFiniteSet(new)
  <2>1. f \in Surjection(es, new)
    BY DEF Surjection
  <2>2. QED
    BY <2>1, FS_Surjection DEF GrantRows
<1>3. ASSUME NEW g \in new
      PROVE  \E e \in es : /\ g = Cut(e, p, to) /\ g \in Grant /\ g.u = e.u /\ g.p = e.p
                           /\ g.source = e.source /\ g.starts = e.starts /\ g.starts < g.ends
                           /\ g.ends <= e.ends /\ (g = e \/ e.p = p)
  <2>1. PICK e \in es : g = Cut(e, p, to)
    OBVIOUS
  <2>2. e \in Grant /\ e.starts < e.ends
    BY <1>1
  <2>3. /\ g \in Grant /\ g.u = e.u /\ g.p = e.p /\ g.source = e.source
        /\ g.starts = e.starts /\ e.starts < g.ends /\ g.ends <= e.ends /\ (g = e \/ e.p = p)
    BY <2>1, <2>2, CutFacts
  <2>4. QED
    BY <2>1, <2>3
<1> HIDE DEF new
<1>4. GrantRows(new, py)
  <2>1. new \subseteq Grant
    BY <1>3
  <2>2. ASSUME NEW g \in new
        PROVE  /\ g.starts < g.ends
               /\ g.source \in {"purchase", "promo"} => g.p # 0
               /\ g.p # 0 => py[g.p].st \in Done /\ py[g.p].u = g.u
    <3>1. PICK e \in es : /\ g.u = e.u /\ g.p = e.p /\ g.source = e.source /\ g.starts < g.ends
      BY <1>3
    <3>2. QED
      BY <3>1 DEF GrantRows
  <2>3. QED
    BY <1>2, <2>1, <2>2 DEF GrantRows
<1>5. Stacked(new)
  <2> SUFFICES ASSUME NEW g \in new, NEW h \in new, g.u = h.u, g # h
               PROVE  g.ends <= h.starts \/ h.ends <= g.starts
    BY DEF Stacked
  <2>1. PICK e \in es : g = Cut(e, p, to) /\ g.u = e.u /\ g.starts = e.starts /\ g.ends <= e.ends /\ g \in Grant
    BY <1>3
  <2>2. PICK d \in es : h = Cut(d, p, to) /\ h.u = d.u /\ h.starts = d.starts /\ h.ends <= d.ends /\ h \in Grant
    BY <1>3
  <2>3. e.ends <= d.starts \/ d.ends <= e.starts
    BY <2>1, <2>2 DEF Stacked
  <2>4. e \in Grant /\ d \in Grant
    BY <1>1
  <2> DEFINE ge == g.ends  gs == g.starts  he == h.ends  hs == h.starts  ee == e.ends  de == d.ends
  <2>5. /\ ge \in Nat /\ gs \in Nat /\ he \in Nat /\ hs \in Nat /\ ee \in Nat /\ de \in Nat
        /\ ge <= ee /\ he <= de /\ (ee <= hs \/ de <= gs)
    BY <2>1, <2>2, <2>3, <2>4 DEF Grant
  <2> HIDE DEF ge, gs, he, hs, ee, de
  <2>6. ge <= hs \/ he <= gs
    BY <2>5
  <2>7. QED
    BY <2>6 DEF ge, gs, he, hs
<1>6. Worth(new, rd, py)
  <2> SUFFICES ASSUME NEW g \in new, Generous(g, py) PROVE g.p \in rd
    BY DEF Worth
  <2>1. PICK e \in es : g.p = e.p /\ (g = e \/ e.p = p)
    BY <1>3
  <2>2. g.p # p
    BY DEF Generous
  <2>3. g \in es
    BY <2>1, <2>2
  <2>4. QED
    BY <2>3 DEF Worth
<1>7. QED
  BY <1>4, <1>5, <1>6 DEF new

\* The clawback takes what the commission gave and what the balance loses.
LEMMA ClawbackAdds ==
    ASSUME LedgerIInv, NEW c \in Commissions(ledger), Clawback(c) \notin ledger, c.amount \in Nat
    PROVE  /\ LedgerRows(ledger \cup {Clawback(c)}) /\ Solvent(ledger \cup {Clawback(c)})
           /\ Holds(ledger \cup {Clawback(c)}, payout)
           /\ \A x : x # c.u => Balance(ledger \cup {Clawback(c)}, x) = Balance(ledger, x)
<1> DEFINE r == Clawback(c)
           lg == ledger \cup {r}
<1>1. LedgerRows(ledger) /\ Solvent(ledger) /\ Holds(ledger, payout)
  BY DEF LedgerIInv
<1>2. - c.amount \in Int /\ - c.amount <= 0
  <2> DEFINE k == c.amount
  <2>1. k \in Nat
    OBVIOUS
  <2> HIDE DEF k
  <2>2. - k \in Int /\ - k <= 0
    BY <2>1
  <2>3. QED
    BY <2>2 DEF k
<1>3. c \in Entry
  BY <1>1 DEF Commissions, LedgerRows
<1>4. /\ r \in Entry /\ r.u = c.u /\ r.type = "clawback" /\ r.amount = - c.amount /\ r.ref = c.ref
      /\ r.type \notin HoldTypes
  BY <1>2, <1>3 DEF Clawback, Entry, EntryTypes, HoldTypes
<1> HIDE DEF r
<1>5. r \notin ledger
  BY DEF r
<1>6. ASSUME NEW x
      PROVE  /\ LedgerRows(lg) /\ HeldBack(lg, x) = HeldBack(ledger, x)
             /\ x # c.u => Balance(lg, x) = Balance(ledger, x)
             /\ Clawed(ledger, x) <= 0 /\ Balance(ledger, x) >= Clawed(ledger, x)
                  => Clawed(lg, x) <= 0 /\ Balance(lg, x) >= Clawed(lg, x)
  <2> DEFINE k == r.amount
             a == Balance(lg, x)  b == Balance(ledger, x)
             d == Clawed(lg, x)  e == Clawed(ledger, x)  f == HeldBack(lg, x)  g == HeldBack(ledger, x)
  <2>1. Withholds(r, x) = 0
    BY <1>4 DEF Gives, Claws, Withholds, Counts
  <2>2. /\ r.u = x => Gives(r, x) = k
                      /\ Claws(r, x) = k
        /\ r.u # x => Gives(r, x) = 0
                      /\ Claws(r, x) = 0
    BY <1>4 DEF Gives, Claws, Withholds, Counts
  <2>3. /\ LedgerRows(lg) /\ b \in Int /\ e \in Int /\ g \in Int /\ f = g + 0
        /\ r.u = x => a = b + k /\ d = e + k
        /\ r.u # x => a = b + 0 /\ d = e + 0
    <3> DEFINE i == Gives(r, x)
               j == Claws(r, x)
               m == Withholds(r, x)
    <3>1. r \in Entry /\ r \notin ledger
      BY <1>4, <1>5
    <3>2. LedgerRows(lg) /\ b \in Int /\ e \in Int /\ g \in Int /\ a = b + i /\ d = e + j /\ f = g + m
      BY <1>1, <3>1, RowPuts
    <3> HIDE DEF a, b, d, e, f, g, i, j, m
    <3>3. m = 0 /\ (r.u = x => i = k /\ j = k) /\ (r.u # x => i = 0 /\ j = 0)
      BY <2>1, <2>2 DEF i, j, m
    <3>4. QED
      BY <3>2, <3>3
  <2>4. k \in Int /\ k <= 0
    BY <1>2, <1>4
  <2> HIDE DEF a, b, d, e, f, g, k
  <2>5. /\ f = g
        /\ r.u # x => a = b
        /\ e <= 0 /\ b >= e => d <= 0 /\ a >= d
    BY <2>3, <2>4
  <2>6. QED
    BY <1>4, <2>3, <2>5 DEF a, b, d, e, f, g
<1>7. LedgerRows(lg) /\ Solvent(lg)
  BY <1>1, <1>6 DEF Solvent
<1>8. Holds(lg, payout)
  <2>1. /\ payout \in [Books!Payouts -> Withdrawal]
        /\ \A k \in Books!Payouts : payout[k].st # "none" => payout[k].u \in Profiles
    BY <1>1 DEF Holds
  <2>2. \A s \in lg : s.type = "payout_hold" => s.ref \in Books!Payouts /\ payout[s.ref].st # "none"
    BY <1>1, <1>4 DEF Holds, HoldTypes
  <2>3. \A s \in lg : s.type = "payout_reject_release" => s.ref \in Books!Payouts /\ payout[s.ref].st = "rejected"
    BY <1>1, <1>4 DEF Holds, HoldTypes
  <2>4. \A u \in Profiles :
          Summed(payout, Asked(payout, u, "paid")) + Summed(payout, Asked(payout, u, "pending"))
            = - HeldBack(lg, u)
    BY <1>1, <1>6 DEF Holds
  <2>5. QED
    BY <2>1, <2>2, <2>3, <2>4 DEF Holds
<1>9. \A x : x # c.u => Balance(lg, x) = Balance(ledger, x)
  BY <1>6
<1>10. QED
  BY <1>7, <1>8, <1>9 DEF r

LEMMA RefundSettles ==
    ASSUME LedgerConstants, LedgerIInv, NEW p \in Books!Purchases, NEW py,
           pay[p].st = "paid", py[p].st = "refunded", py[p].u = pay[p].u,
           \A q \in Books!Purchases \ {p} : py[q] = pay[q],
           ledger' = ledger \cup Books!ClawbackReferralCommissionOnRefund(p)
    PROVE  /\ LedgerRows(ledger') /\ Solvent(ledger') /\ Holds(ledger', payout)
           /\ Settled(ledger', py, referral)
           /\ \A x : (\A c \in Books!GetCommissionByPaymentID(p) : x # c.u)
                        => Balance(ledger', x) = Balance(ledger, x)
<1>1. LedgerRows(ledger) /\ Solvent(ledger) /\ Holds(ledger, payout) /\ Settled(ledger, pay, referral)
  BY DEF LedgerIInv
<1> DEFINE C == Books!GetCommissionByPaymentID(p)
<1>2. C = {r \in ledger : r.type = "commission" /\ r.ref = p} /\ C \subseteq Commissions(ledger)
  BY DEF Books!GetCommissionByPaymentID, Commissions
<1>3. \A r \in ledger : r.type = "clawback" =>
        r.ref \in Books!Purchases /\ r.ref # p /\ pay[r.ref].st = "refunded" /\ ClawbackOk(r, pay, ledger)
  BY <1>1 DEF Settled, ClawbackOk
<1>4. Books!GetClawbackByPaymentID(p) = {}
  BY <1>3 DEF Books!GetClawbackByPaymentID
<1>5. ledger' = ledger \cup {Clawback(c) : c \in C}
  <2>1. Books!ClawbackReferralCommissionOnRefund(p)
          = {Books!InsertReferralLedger(r.u, "clawback", - r.amount, p) : r \in C}
    BY <1>4 DEF Books!ClawbackReferralCommissionOnRefund
  <2>2. \A r \in C : Books!InsertReferralLedger(r.u, "clawback", - r.amount, p) = Clawback(r)
    BY <1>2 DEF Books!InsertReferralLedger, Clawback
  <2>3. QED
    BY <2>1, <2>2
<1>6. \A c \in C : c.ref = p /\ c \in Commissions(ledger)
  BY <1>2
<1>7. \A c \in Commissions(ledger) : c.ref = p => c \in C
  BY <1>2 DEF Commissions
<1>8. \A c, d \in C : c = d
  BY <1>1, <1>6 DEF Settled
<1>9. \A c : Clawback(c).type = "clawback" /\ Clawback(c).ref = c.ref /\ Clawback(c).u = c.u
  BY DEF Clawback
<1>10. \A c \in C : Clawback(c) \notin ledger /\ c.amount \in Nat
  <2>1. \A c \in C : c.amount \in Nat
    BY <1>1, <1>6 DEF Settled, CommissionOk
  <2>2. \A c \in C : Clawback(c) \notin ledger
    BY <1>3, <1>6, <1>9
  <2>3. QED
    BY <2>1, <2>2
<1> HIDE DEF C
<1>11. /\ LedgerRows(ledger') /\ Solvent(ledger') /\ Holds(ledger', payout)
       /\ \A x : (\A c \in C : x # c.u) => Balance(ledger', x) = Balance(ledger, x)
  <2>1. CASE C = {}
    <3>1. ledger' = ledger
      BY <1>5, <2>1
    <3>2. QED
      BY <1>1, <3>1
  <2>2. CASE C # {}
    <3>1. PICK c \in C : TRUE
      BY <2>2
    <3>2. C = {c}
      BY <1>8, <3>1
    <3>3. ledger' = ledger \cup {Clawback(c)}
      BY <1>5, <3>2
    <3>4. c \in Commissions(ledger) /\ Clawback(c) \notin ledger /\ c.amount \in Nat
      BY <1>6, <1>10, <3>1
    <3>5. /\ LedgerRows(ledger \cup {Clawback(c)}) /\ Solvent(ledger \cup {Clawback(c)})
          /\ Holds(ledger \cup {Clawback(c)}, payout)
          /\ \A x : x # c.u => Balance(ledger \cup {Clawback(c)}, x) = Balance(ledger, x)
      BY <3>4, ClawbackAdds
    <3>6. QED
      BY <3>1, <3>3, <3>5
  <2>3. QED
    BY <2>1, <2>2
<1>12. \A r \in ledger' : r \in ledger \/ \E c \in C : r = Clawback(c)
  BY <1>5
<1>13. Commissions(ledger') = Commissions(ledger)
  <2>1. ledger \subseteq ledger' /\ \A r \in ledger' : r.type = "commission" => r \in ledger
    BY <1>5, <1>9, <1>12
  <2>2. QED
    BY <2>1 DEF Commissions
<1>14. \A c \in Commissions(ledger) : CommissionOk(c, pay, ledger, referral)
  BY <1>1 DEF Settled
<1>15. \A c \in Commissions(ledger) : c.ref \in Books!Purchases /\ py[c.ref].u = pay[c.ref].u
  BY <1>14 DEF CommissionOk
<1>16. "refunded" \in Done
  BY DEF Done
<1>17. ASSUME NEW c \in Commissions(ledger) PROVE CommissionOk(c, py, ledger', referral)
  <2>1. CASE c.ref = p
    <3>1. Clawback(c) \in ledger'
      BY <1>5, <1>7, <2>1
    <3>2. QED
      BY <1>14, <1>15, <1>16, <2>1, <3>1 DEF CommissionOk
  <2>2. CASE c.ref # p
    <3>1. py[c.ref] = pay[c.ref] /\ ledger \subseteq ledger'
      BY <1>5, <1>15, <2>2
    <3>2. QED
      BY <1>14, <3>1 DEF CommissionOk
  <2>3. QED
    BY <2>1, <2>2
<1>18. ASSUME NEW r \in ledger', r.type = "clawback" PROVE ClawbackOk(r, py, ledger')
  <2>1. CASE r \in ledger
    <3>1. /\ r.ref \in Books!Purchases /\ py[r.ref].st = "refunded" /\ ClawbackOk(r, pay, ledger)
      BY <1>3, <1>18, <2>1
    <3>2. QED
      BY <1>13, <3>1 DEF ClawbackOk
  <2>2. CASE \E c \in C : r = Clawback(c)
    <3>1. PICK c \in C : r = Clawback(c)
      BY <2>2
    <3>2. r.ref = p /\ c.ref = r.ref /\ c \in Commissions(ledger')
      BY <1>6, <1>9, <1>13, <3>1
    <3>3. QED
      BY <3>1, <3>2 DEF ClawbackOk
  <2>3. QED
    BY <1>12, <2>1, <2>2
<1>19. \A c, d \in Commissions(ledger) : py[c.ref].u = py[d.ref].u => c = d
  BY <1>1, <1>15 DEF Settled
<1>20. Settled(ledger', py, referral)
  BY <1>1, <1>13, <1>17, <1>18, <1>19 DEF Settled
<1>21. QED
  BY <1>11, <1>20 DEF C

LEMMA RevokeKeeps ==
    ASSUME LedgerConstants, LedgerIInv, NEW w \in Workers, Books!RevokeEntitlementForPayment(w)
    PROVE  LedgerIInv'
<1> DEFINE t == tx[w]
           p == t.p
           x == [pay[p] EXCEPT !.st = "refunded"]
<1>1. /\ t.op = "refund" /\ t.step = 0 /\ Books!Close(w)
      /\ \A r \in Books!GetCommissionByPaymentID(p) : Books!LockProfileForGrant(w, r.u)
      /\ \E e \in Books!GetEntitlementByPaymentID(p) :
           ents' = Books!ClampAllEntitlementsForPayment(p, Books!ClampTo(e))
      /\ ledger' = ledger \cup Books!ClawbackReferralCommissionOnRefund(p)
      /\ pay' = [pay EXCEPT ![p].st = "refunded"]
      /\ UNCHANGED <<clock, redeemed, referral, percent, payout, upsets, promoKind>>
  BY DEF Books!RevokeEntitlementForPayment, Books!At
<1>2. /\ tx \in [Workers -> Deal] /\ Apart(tx) /\ Facts(t, pay, ents, redeemed, ledger)
      /\ \A v \in Workers : Facts(tx[v], pay, ents, redeemed, ledger)
  BY DEF LedgerIInv, Transactions
<1>3. /\ t.u \in Profiles /\ t.u \in t.locks /\ p \in Books!Purchases
      /\ pay[p].st = "paid" /\ t.u = pay[p].u
  BY <1>1, <1>2 DEF Facts, Shape, Refunds
<1>4. p # 0 /\ pay[p] \in Sale /\ (~pay[p].promo => pay[p].amount = PriceUzs)
  BY <1>3, PurchaseRange DEF LedgerIInv, SaleRows
<1>5. /\ x \in Sale /\ x.st = "refunded" /\ x.u = t.u /\ x.amount = pay[p].amount /\ x.promo = pay[p].promo
      /\ pay' = [pay EXCEPT ![p] = x]
  BY <1>1, <1>3, <1>4 DEF Sale, LedgerIInv, SaleRows
<1> HIDE DEF x
<1>6. /\ SaleRows(pay') /\ pay'[p] = x /\ \A q \in Books!Purchases \ {p} : pay'[q] = pay[q]
      /\ GrantRows(ents, pay') /\ Worth(ents, redeemed, pay') /\ Redeemed(redeemed, pay')
      /\ \A s \in Deal : Facts(s, pay, ents, redeemed, ledger) /\ s.p # p
                           => Facts(s, pay', ents, redeemed, ledger)
  <2>1. x.st # "none" /\ x.u \in Profiles /\ (~x.promo => x.amount = PriceUzs)
        /\ x.u = pay[p].u /\ x.st = "refunded"
    BY <1>3, <1>4, <1>5
  <2>2. QED
    BY <1>3, <1>5, <2>1, SaleKeeps
<1>7. PICK e \in Books!GetEntitlementByPaymentID(p) :
        ents' = Books!ClampAllEntitlementsForPayment(p, Books!ClampTo(e))
  BY <1>1
<1> DEFINE to == Books!ClampTo(e)
<1>8. to \in Nat
  <2>1. e \in Grant /\ clock \in Nat
    BY DEF LedgerIInv, GrantRows, Counter, Books!GetEntitlementByPaymentID
  <2>2. QED
    BY <2>1 DEF Grant, Books!ClampTo
<1>9. ents' = {Cut(f, p, to) : f \in ents}
  BY <1>7 DEF Books!ClampAllEntitlementsForPayment, Cut
<1> HIDE DEF to
<1>10. pay'[p].st = "refunded" /\ pay'[p].u = pay[p].u
  BY <1>3, <1>5, <1>6
<1>11. GrantRows(ents', pay') /\ Stacked(ents') /\ Worth(ents', redeemed, pay')
  <2>1. Stacked(ents)
    BY DEF LedgerIInv
  <2>2. QED
    BY <1>6, <1>8, <1>9, <1>10, <2>1, CutsKeep
<1>12. /\ LedgerRows(ledger') /\ Solvent(ledger') /\ Holds(ledger', payout)
       /\ Settled(ledger', pay', referral)
       /\ \A v : (\A c \in Books!GetCommissionByPaymentID(p) : v # c.u)
                        => Balance(ledger', v) = Balance(ledger, v)
  <2>1. ledger' = ledger \cup Books!ClawbackReferralCommissionOnRefund(p)
    BY <1>1
  <2> HIDE DEF p
  <2>2. QED
    BY <1>3, <1>6, <1>10, <2>1, RefundSettles
<1>13. \A f \in ents' : f \in ents \/ f.u \in tx[w].locks
  <2> SUFFICES ASSUME NEW g \in ents PROVE Cut(g, p, to) = g \/ Cut(g, p, to).u \in t.locks
    BY <1>9
  <2>1. g \in Grant /\ g.starts < g.ends /\ (g.p # 0 => pay[g.p].u = g.u)
    BY DEF LedgerIInv, GrantRows
  <2>2. Cut(g, p, to).u = g.u /\ (Cut(g, p, to) = g \/ g.p = p)
    BY <1>8, <2>1, CutFacts
  <2>3. QED
    BY <1>3, <1>4, <2>1, <2>2
<1>14. \A v \in Workers \ {w} : tx[v].u \in tx[v].locks => Balance(ledger', tx[v].u) >= Balance(ledger, tx[v].u)
  <2> SUFFICES ASSUME NEW v \in Workers \ {w}, tx[v].u \in tx[v].locks
               PROVE  Balance(ledger', tx[v].u) >= Balance(ledger, tx[v].u)
    OBVIOUS
  <2>1. \A c \in Books!GetCommissionByPaymentID(p) : tx[v].u # c.u
    BY <1>1, LockedApart
  <2>2. Balance(ledger', tx[v].u) = Balance(ledger, tx[v].u)
    BY <1>12, <2>1
  <2>3. Balance(ledger, tx[v].u) >= Balance(ledger, tx[v].u)
    BY SameBalance DEF LedgerIInv
  <2>4. QED
    BY <2>2, <2>3
<1>15. \A v \in Workers \ {w} : Facts(tx[v], pay', ents', redeemed, ledger')
  <2>1. \A v \in Workers \ {w} : Facts(tx[v], pay', ents, redeemed, ledger)
    BY <1>2, <1>4, <1>6, OthersElsewhere
  <2>2. QED
    BY <1>12, <1>13, <1>14, <2>1, OthersKeep
<1>16. Transactions(tx', pay', ents', redeemed, ledger')
  BY <1>1, <1>2, <1>15, CloseKeeps
<1>17. UNCHANGED <<clock, redeemed, referral, percent, payout, upsets, promoKind>>
  BY <1>1
<1>18. QED
  BY <1>6, <1>11, <1>12, <1>16, <1>17 DEF LedgerIInv, Counter

-----------------------------------------------------------------------------
(* The wallet: withdrawals, refusals and corrections.                       *)

Slip(po, k) == [po[k] EXCEPT !.u = k]
Part(po, u, st) == Summed(po, Asked(po, u, st))

LEMMA SlipsAdd ==
    ASSUME LedgerConstants, NEW po \in [Books!Payouts -> Withdrawal], NEW K, K \subseteq Books!Payouts
    PROVE  /\ Summed(po, K) \in Int
           /\ \A k \in Books!Payouts \ K : Summed(po, K \cup {k}) = Summed(po, K) + po[k].amount
<1>1. \A k \in Books!Payouts : Slip(po, k) = [u |-> k, amount |-> po[k].amount, st |-> po[k].st]
  BY DEF Slip, Withdrawal
<1>2. \A k \in Books!Payouts : Slip(po, k).u = k /\ Slip(po, k).amount = po[k].amount
                               /\ po[k].amount \in Int
  BY <1>1 DEF Withdrawal
<1>3. \A L : Summed(po, L) = Books!SumOf({Slip(po, k) : k \in L})
  BY DEF Summed, Slip
<1>4. \A L : L \subseteq Books!Payouts => Amounts({Slip(po, k) : k \in L})
  <2> SUFFICES ASSUME NEW L, L \subseteq Books!Payouts PROVE Amounts({Slip(po, k) : k \in L})
    OBVIOUS
  <2> DEFINE S == {Slip(po, k) : k \in L}
             f == [k \in L |-> Slip(po, k)]
  <2>1. IsFiniteSet(1..NPayouts) /\ Books!Payouts = 1..NPayouts
    BY FS_Interval DEF LedgerConstants, Books!Payouts
  <2>2. IsFiniteSet(L)
    BY <2>1, FS_Subset
  <2>3. f \in Surjection(L, S)
    BY DEF Surjection
  <2>4. IsFiniteSet(S)
    BY <2>2, <2>3, FS_Surjection
  <2>5. QED
    BY <1>2, <2>4 DEF Amounts
<1> DEFINE S == {Slip(po, j) : j \in K}
<1>5. Amounts(S)
  BY <1>4
<1>6. Books!SumOf(S) \in Int
  <2>1. Books!SumOf(S) = SumFun(S)[S]
    BY SumIsSumFun
  <2>2. S \in SUBSET S
    OBVIOUS
  <2> HIDE DEF S
  <2>3. \A s \in SUBSET S : SumFun(S)[s] \in Int
    BY <1>5, SumFunIs
  <2>4. QED
    BY <2>1, <2>2, <2>3
<1>7. ASSUME NEW k \in Books!Payouts \ K
      PROVE  Summed(po, K \cup {k}) = Summed(po, K) + po[k].amount
  <2> DEFINE r == Slip(po, k)
  <2>1. r \notin S
    BY <1>2
  <2>2. r.amount \in Int /\ r.amount = po[k].amount
    BY <1>2
  <2>3. {Slip(po, j) : j \in K \cup {k}} = S \cup {r}
    OBVIOUS
  <2> HIDE DEF r, S
  <2>4. Books!SumOf(S \cup {r}) = r.amount + Books!SumOf(S)
    BY <1>5, <2>1, <2>2, SumPut
  <2>5. Summed(po, K \cup {k}) = Books!SumOf(S \cup {r}) /\ Summed(po, K) = Books!SumOf(S)
    BY <1>3, <2>3 DEF S
  <2> DEFINE a == Books!SumOf(S)  b == r.amount
  <2>6. a \in Int /\ b \in Int
    BY <1>6, <2>2
  <2> HIDE DEF a, b
  <2>7. b + a = a + b
    BY <2>6
  <2>8. QED
    BY <2>2, <2>4, <2>5, <2>7 DEF a, b
<1>8. QED
  BY <1>3, <1>6, <1>7

Falls(z, u, st) == Counts(z.u = u /\ z.st = st, z.amount)

LEMMA PartIs ==
    ASSUME LedgerConstants, NEW po \in [Books!Payouts -> Withdrawal], NEW k \in Books!Payouts, NEW u, NEW st
    PROVE  /\ Part(po, u, st) = Summed(po, Asked(po, u, st) \ {k})
                                + Falls(po[k], u, st)
           /\ Summed(po, Asked(po, u, st) \ {k}) \in Int
<1> DEFINE K == Asked(po, u, st) \ {k}
<1>1. K \subseteq Books!Payouts /\ k \notin K
  BY DEF Asked
<1>2. Summed(po, K) \in Int /\ Summed(po, K \cup {k}) = Summed(po, K) + po[k].amount
  BY <1>1, SlipsAdd
<1>3. CASE po[k].u = u /\ po[k].st = st
  <2>1. Asked(po, u, st) = K \cup {k}
    BY <1>3 DEF Asked
  <2>2. QED
    BY <1>2, <1>3, <2>1 DEF Part, Falls, Counts
<1>4. CASE ~(po[k].u = u /\ po[k].st = st)
  <2>1. Asked(po, u, st) = K
    BY <1>4 DEF Asked
  <2> DEFINE a == Summed(po, K)
  <2>2. a \in Int
    BY <1>2
  <2> HIDE DEF a
  <2>3. a + 0 = a
    BY <2>2
  <2>4. QED
    BY <1>2, <1>4, <2>1, <2>3 DEF Part, Falls, Counts, a
<1>5. QED
  BY <1>3, <1>4

\* A withdrawal changes: what it counted for, and what it counts for now.
LEMMA PartMoves ==
    ASSUME LedgerConstants, NEW po \in [Books!Payouts -> Withdrawal], NEW k \in Books!Payouts, NEW u, NEW st,
           NEW qo \in [Books!Payouts -> Withdrawal], \A j \in Books!Payouts \ {k} : qo[j] = po[j]
    PROVE  \E n \in Int : /\ Part(po, u, st) = n + Falls(po[k], u, st)
                          /\ Part(qo, u, st) = n + Falls(qo[k], u, st)
<1>2. Asked(qo, u, st) \ {k} = Asked(po, u, st) \ {k}
  BY DEF Asked
<1> DEFINE K == Asked(po, u, st) \ {k}
<1>3. \A j \in K : qo[j] = po[j]
  BY DEF Asked
<1>4. Summed(qo, K) = Summed(po, K)
  <2>1. {[qo[j] EXCEPT !.u = j] : j \in K} = {[po[j] EXCEPT !.u = j] : j \in K}
    BY <1>3
  <2>2. QED
    BY <2>1 DEF Summed
<1>5. Part(po, u, st) = Summed(po, K) + Falls(po[k], u, st)
      /\ Summed(po, K) \in Int
  BY PartIs
<1>6. Part(qo, u, st) = Summed(qo, Asked(qo, u, st) \ {k}) + Falls(qo[k], u, st)
  BY PartIs
<1>7. QED
  BY <1>2, <1>4, <1>5, <1>6

\* A row that is neither a commission nor a clawback settles nothing.
LEMMA OtherRow ==
    ASSUME NEW lg, NEW py, NEW rf, Settled(lg, py, rf), NEW r, r.type \notin {"commission", "clawback"}
    PROVE  Settled(lg \cup {r}, py, rf)
<1>1. Commissions(lg \cup {r}) = Commissions(lg)
  BY DEF Commissions
<1>2. ASSUME NEW c \in Commissions(lg) PROVE CommissionOk(c, py, lg \cup {r}, rf)
  BY DEF Settled, CommissionOk
<1>3. ASSUME NEW e \in lg \cup {r}, e.type = "clawback" PROVE ClawbackOk(e, py, lg \cup {r})
  <2>1. e \in lg
    BY <1>3
  <2>2. ClawbackOk(e, py, lg)
    BY <1>3, <2>1 DEF Settled
  <2>3. QED
    BY <1>1, <2>2 DEF ClawbackOk
<1>4. \A c, d \in Commissions(lg) : py[c.ref].u = py[d.ref].u => c = d
  BY DEF Settled
<1>5. \A u \in Profiles : Cardinality(RowsOf(Commissions(lg), u)) <= Cardinality(Rewarded(rf, u))
  BY DEF Settled
<1>6. QED
  BY <1>1, <1>2, <1>3, <1>4, <1>5 DEF Settled

Standing(z, x) == Falls(z, x, "paid") + Falls(z, x, "pending")

\* The ledger holds back what stands of the withdrawals, before and after.
LEMMA HoldsMove ==
    ASSUME LedgerConstants, NEW lg, NEW po, Holds(lg, po), NEW k \in Books!Payouts,
           NEW qo \in [Books!Payouts -> Withdrawal], \A j \in Books!Payouts \ {k} : qo[j] = po[j],
           NEW y, y = qo[k], NEW x \in Profiles,
           HeldBack(lg, x) \in Int, NEW h, h = HeldBack(lg, x) + Standing(po[k], x) - Standing(y, x)
    PROVE  Summed(qo, Asked(qo, x, "paid")) + Summed(qo, Asked(qo, x, "pending")) = - h
<1> DEFINE z == po[k]
           c1 == Falls(z, x, "paid")  c2 == Falls(z, x, "pending")
           d1 == Falls(y, x, "paid")  d2 == Falls(y, x, "pending")
           g == HeldBack(lg, x)
           p1 == Part(po, x, "paid")  p2 == Part(po, x, "pending")
           q1 == Part(qo, x, "paid")  q2 == Part(qo, x, "pending")
<1>1. po \in [Books!Payouts -> Withdrawal] /\ p1 + p2 = - g
  BY DEF Holds, Part
<1>2. z \in Withdrawal /\ y \in Withdrawal /\ z.amount \in Nat /\ y.amount \in Nat
  BY <1>1 DEF Withdrawal
<1>3. c1 \in Nat /\ c2 \in Nat /\ d1 \in Nat /\ d2 \in Nat
  BY <1>2 DEF Falls, Counts
<1>4. \E n \in Int : p1 = n + c1 /\ q1 = n + d1
  BY <1>1, PartMoves
<1>5. \E n \in Int : p2 = n + c2 /\ q2 = n + d2
  BY <1>1, PartMoves
<1>6. g \in Int /\ h = g + (c1 + c2) - (d1 + d2)
  BY DEF Standing
<1> HIDE DEF c1, c2, d1, d2, g, p1, p2, q1, q2
<1>7. q1 + q2 = - h
  <2>1. PICK n \in Int : p1 = n + c1 /\ q1 = n + d1
    BY <1>4
  <2>2. PICK m \in Int : p2 = m + c2 /\ q2 = m + d2
    BY <1>5
  <2>3. QED
    BY <1>1, <1>3, <1>6, <2>1, <2>2
<1>8. QED
  BY <1>7 DEF q1, q2, Part

LEMMA StandingIs ==
    ASSUME NEW z \in Withdrawal, NEW x
    PROVE  Standing(z, x) = Counts(z.u = x /\ z.st \in {"paid", "pending"}, z.amount)
<1> DEFINE n == z.amount
<1>1. n \in Nat
  BY DEF Withdrawal
<1> HIDE DEF n
<1>2. n + 0 = n /\ 0 + n = n /\ 0 + 0 = 0
  BY <1>1
<1>3. QED
  BY <1>2 DEF Standing, Falls, Counts, n

LEMMA MarkPaidKeeps ==
    ASSUME LedgerConstants, LedgerIInv, NEW k \in Books!Payouts, Books!MarkReferralPayoutPaid(k)
    PROVE  LedgerIInv'
<1> DEFINE y == [payout[k] EXCEPT !.st = "paid"]
<1>1. /\ payout[k].st = "pending" /\ payout' = [payout EXCEPT ![k].st = "paid"]
      /\ UNCHANGED <<clock, pay, ents, redeemed, referral, percent, ledger, tx, upsets, promoKind>>
  BY DEF Books!MarkReferralPayoutPaid, Books!GetReferralPayoutForUpdate
<1>2. Holds(ledger, payout) /\ payout \in [Books!Payouts -> Withdrawal] /\ LedgerRows(ledger)
  BY DEF LedgerIInv, Holds
<1>3. /\ payout' = [payout EXCEPT ![k] = y] /\ y \in Withdrawal /\ y.st = "paid" /\ y.u = payout[k].u
      /\ y.amount = payout[k].amount
  BY <1>1, <1>2 DEF Withdrawal
<1>4. payout' \in [Books!Payouts -> Withdrawal] /\ payout'[k] = y
      /\ \A j \in Books!Payouts \ {k} : payout'[j] = payout[j]
  BY <1>2, <1>3
<1> HIDE DEF y
<1>5. ASSUME NEW x \in Profiles
      PROVE  Summed(payout', Asked(payout', x, "paid")) + Summed(payout', Asked(payout', x, "pending"))
               = - HeldBack(ledger, x)
  <2> DEFINE h == HeldBack(ledger, x)  s == Standing(payout[k], x)  t == Standing(y, x)
  <2>1. s = t /\ s \in Int
    <3>1. payout[k] \in Withdrawal /\ payout[k].amount \in Nat
      BY <1>2 DEF Withdrawal
    <3>2. s = Counts(payout[k].u = x /\ payout[k].st \in {"paid", "pending"}, payout[k].amount)
      BY <3>1, StandingIs
    <3>3. t = Counts(y.u = x /\ y.st \in {"paid", "pending"}, y.amount)
      BY <1>3, StandingIs
    <3>4. QED
      BY <1>1, <1>3, <3>1, <3>2, <3>3 DEF Counts
  <2>2. h \in Int
    BY <1>2, BalanceFacts
  <2> HIDE DEF h, s, t
  <2>3. h = h + s - t
    BY <2>1, <2>2
  <2>4. HeldBack(ledger, x) = HeldBack(ledger, x) + Standing(payout[k], x) - Standing(y, x)
    BY <2>3 DEF h, s, t
  <2>5. HeldBack(ledger, x) \in Int
    BY <2>2 DEF h
  <2>6. QED
    <3>1. /\ Holds(ledger, payout) /\ payout' \in [Books!Payouts -> Withdrawal] /\ y = payout'[k]
          /\ \A j \in Books!Payouts \ {k} : payout'[j] = payout[j]
      BY <1>2, <1>4
    <3>2. QED
      BY <2>4, <2>5, <3>1, HoldsMove
<1>6. \A j \in Books!Payouts : payout'[j].st # "none" => payout'[j].u \in Profiles
  BY <1>1, <1>2, <1>3, <1>4 DEF Holds
<1>7. \A r \in ledger : r.type = "payout_hold" => r.ref \in Books!Payouts /\ payout'[r.ref].st # "none"
  BY <1>2, <1>3, <1>4 DEF Holds
<1>8. \A r \in ledger : r.type = "payout_reject_release" => r.ref \in Books!Payouts /\ payout'[r.ref].st = "rejected"
  BY <1>1, <1>2, <1>4 DEF Holds
<1>9. Holds(ledger, payout')
  BY <1>4, <1>5, <1>6, <1>7, <1>8 DEF Holds
<1>10. QED
  BY <1>1, <1>9 DEF LedgerIInv, Counter

LEMMA RejectKeeps ==
    ASSUME LedgerConstants, LedgerIInv, NEW k \in Books!Payouts, Books!RejectReferralPayout(k)
    PROVE  LedgerIInv'
<1> DEFINE y == [payout[k] EXCEPT !.st = "rejected"]
           n == payout[k].amount
           r == Books!InsertReferralLedger(payout[k].u, "payout_reject_release", n, k)
<1>1. /\ payout[k].st = "pending" /\ payout' = [payout EXCEPT ![k].st = "rejected"]
      /\ ledger' = ledger \cup {r}
      /\ UNCHANGED <<clock, pay, ents, redeemed, referral, percent, tx, upsets, promoKind>>
  BY DEF Books!RejectReferralPayout, Books!GetReferralPayoutForUpdate
<1>2. /\ Holds(ledger, payout) /\ payout \in [Books!Payouts -> Withdrawal] /\ LedgerRows(ledger)
      /\ Settled(ledger, pay, referral) /\ Solvent(ledger)
      /\ \A j \in Books!Payouts : payout[j].st # "none" => payout[j].u \in Profiles
  BY DEF LedgerIInv, Holds
<1>3. /\ payout' = [payout EXCEPT ![k] = y] /\ y \in Withdrawal /\ y.st = "rejected" /\ y.u = payout[k].u
      /\ y.amount = n /\ n \in Nat
  BY <1>1, <1>2 DEF Withdrawal
<1>4. payout' \in [Books!Payouts -> Withdrawal] /\ payout'[k] = y
      /\ \A j \in Books!Payouts \ {k} : payout'[j] = payout[j]
  BY <1>2, <1>3
<1>5. k \in Nat /\ payout[k].u \in Profiles
  BY <1>1, <1>2 DEF Books!Payouts, LedgerConstants
<1> HIDE DEF y
<1>6. /\ r \in Entry /\ r.u = payout[k].u /\ r.type = "payout_reject_release" /\ r.amount = n /\ r.ref = k
      /\ r.type \in HoldTypes /\ r.type # "clawback" /\ r.type \notin {"commission", "clawback"}
  <2>1. r = [u |-> payout[k].u, type |-> "payout_reject_release", amount |-> n, ref |-> k]
    BY DEF Books!InsertReferralLedger
  <2> HIDE DEF r, n
  <2>2. n \in Int
    BY <1>3
  <2>3. QED
    BY <1>5, <2>1, <2>2 DEF Entry, EntryTypes, HoldTypes
<1> HIDE DEF r, n
<1>7. r \notin ledger
  <2>1. \A e \in ledger : e.type = "payout_reject_release" => payout[e.ref].st = "rejected"
    BY <1>2 DEF Holds
  <2>2. QED
    BY <1>1, <1>6, <2>1
<1>8. ASSUME NEW x
      PROVE  /\ LedgerRows(ledger') /\ Clawed(ledger', x) = Clawed(ledger, x)
             /\ HeldBack(ledger', x) = HeldBack(ledger, x) + Counts(r.u = x, n)
             /\ Balance(ledger', x) >= Balance(ledger, x)
             /\ Balance(ledger', x) \in Int /\ Balance(ledger, x) \in Int /\ Clawed(ledger, x) \in Int
             /\ HeldBack(ledger, x) \in Int
  <2> DEFINE a == Balance(ledger', x)  b == Balance(ledger, x)
             d == Clawed(ledger', x)  e == Clawed(ledger, x)
             f == HeldBack(ledger', x)  g == HeldBack(ledger, x)
             i == Gives(r, x)
             j == Claws(r, x)
             m == Withholds(r, x)
  <2>1. LedgerRows(ledger') /\ b \in Int /\ e \in Int /\ g \in Int /\ a = b + i /\ d = e + j /\ f = g + m
    <3> DEFINE lg == ledger \cup {r}
    <3>1. /\ LedgerRows(lg) /\ Balance(lg, x) = Balance(ledger, x) + i
          /\ Clawed(lg, x) = Clawed(ledger, x) + j /\ HeldBack(lg, x) = HeldBack(ledger, x) + m
          /\ r.amount \in Int
          /\ Balance(ledger, x) \in Int /\ Clawed(ledger, x) \in Int /\ HeldBack(ledger, x) \in Int
      <4>1. LedgerRows(ledger) /\ r \in Entry /\ r \notin ledger
        BY <1>2, <1>6, <1>7
      <4>2. QED
        BY <4>1, RowPuts
    <3>2. lg = ledger'
      BY <1>1
    <3> HIDE DEF lg, i, j, m
    <3>3. QED
      BY <3>1, <3>2
  <2>2. i \in Nat /\ j = 0 /\ m = i /\ i = Counts(r.u = x, n)
    BY <1>3, <1>6 DEF Gives, Claws, Withholds, Counts
  <2> HIDE DEF a, b, d, e, f, g, i, j, m
  <2>3. a >= b /\ a \in Int /\ d = e /\ f = g + i
    BY <2>1, <2>2
  <2>4. QED
    BY <2>1, <2>2, <2>3 DEF a, b, d, e, f, g
<1>9. LedgerRows(ledger') /\ Solvent(ledger')
  <2>1. ASSUME NEW u \in Profiles PROVE Clawed(ledger', u) <= 0 /\ Balance(ledger', u) >= Clawed(ledger', u)
    <3> DEFINE a == Balance(ledger', u)  b == Balance(ledger, u)
               d == Clawed(ledger', u)  e == Clawed(ledger, u)
    <3>1. e <= 0 /\ b >= e /\ a >= b /\ d = e /\ a \in Int /\ b \in Int /\ e \in Int
      BY <1>2, <1>8 DEF Solvent
    <3> HIDE DEF a, b, d, e
    <3>2. d <= 0 /\ a >= d
      BY <3>1
    <3>3. QED
      BY <3>2 DEF a, d
  <2>2. QED
    BY <1>8, <2>1 DEF Solvent
<1>10. ASSUME NEW x \in Profiles
       PROVE  Summed(payout', Asked(payout', x, "paid")) + Summed(payout', Asked(payout', x, "pending"))
                = - HeldBack(ledger', x)
  <2> DEFINE h == HeldBack(ledger', x)  g == HeldBack(ledger, x)
             s == Standing(payout[k], x)  t == Standing(y, x)  c == Counts(r.u = x, n)
  <2>1. s = c /\ t = 0 /\ c \in Nat
    <3>1. payout[k] \in Withdrawal /\ payout[k].amount = n
      BY <1>2 DEF n
    <3>2. s = Counts(payout[k].u = x /\ payout[k].st \in {"paid", "pending"}, payout[k].amount)
      BY <3>1, StandingIs
    <3>3. t = Counts(y.u = x /\ y.st \in {"paid", "pending"}, y.amount)
      BY <1>3, StandingIs
    <3>4. t = 0
      BY <1>3, <3>3 DEF Counts
    <3>5. s = c /\ c \in Nat
      BY <1>1, <1>3, <1>6, <3>1, <3>2 DEF Counts
    <3>6. QED
      BY <3>4, <3>5
  <2>2. g \in Int /\ h = g + c
    BY <1>8
  <2> HIDE DEF h, g, s, t, c
  <2>3. h = g + s - t
    BY <2>1, <2>2
  <2>4. HeldBack(ledger', x) = HeldBack(ledger, x) + Standing(payout[k], x) - Standing(y, x)
    BY <2>3 DEF h, g, s, t
  <2>5. HeldBack(ledger, x) \in Int
    BY <2>2 DEF g
  <2>6. QED
    <3>1. /\ Holds(ledger, payout) /\ payout' \in [Books!Payouts -> Withdrawal] /\ y = payout'[k]
          /\ \A j \in Books!Payouts \ {k} : payout'[j] = payout[j]
      BY <1>2, <1>4
    <3>2. QED
      BY <2>4, <2>5, <3>1, HoldsMove
<1>11. \A j \in Books!Payouts : payout'[j].st # "none" => payout'[j].u \in Profiles
  BY <1>2, <1>3, <1>4, <1>5
<1>12. \A e \in ledger' : e.type = "payout_hold" => e.ref \in Books!Payouts /\ payout'[e.ref].st # "none"
  <2>1. \A e \in ledger : e.type = "payout_hold" => e.ref \in Books!Payouts /\ payout[e.ref].st # "none"
    BY <1>2 DEF Holds
  <2>2. QED
    BY <1>1, <1>3, <1>4, <1>6, <2>1
<1>13. \A e \in ledger' : e.type = "payout_reject_release" => e.ref \in Books!Payouts /\ payout'[e.ref].st = "rejected"
  <2>1. \A e \in ledger : e.type = "payout_reject_release" => e.ref \in Books!Payouts /\ payout[e.ref].st = "rejected"
    BY <1>2 DEF Holds
  <2>2. QED
    BY <1>1, <1>3, <1>4, <1>6, <2>1
<1>14. Holds(ledger', payout')
  BY <1>4, <1>10, <1>11, <1>12, <1>13 DEF Holds
<1>15. Settled(ledger', pay, referral)
  BY <1>1, <1>2, <1>6, OtherRow
<1>16. Transactions(tx', pay, ents, redeemed, ledger')
  <2>1. Transactions(tx, pay, ents, redeemed, ledger)
    BY DEF LedgerIInv
  <2>2. ASSUME NEW v \in Workers PROVE Facts(tx[v], pay, ents, redeemed, ledger')
    <3> DEFINE t == tx[v]  a == Balance(ledger', t.u)  b == Balance(ledger, t.u)
    <3>1. Facts(t, pay, ents, redeemed, ledger) /\ t \in Deal /\ t.read \in Int
      BY <2>1 DEF Transactions, Deal
    <3>2. a \in Int /\ b \in Int /\ a >= b
      BY <1>8
    <3> HIDE DEF t
    <3>3. t.op = "payout" => t.u \in t.locks /\ t.read \in Nat \ {0} /\ b >= t.read
      BY <3>1 DEF Facts, Withdraws
    <3>4. t.op = "adjust" => t.u \in t.locks /\ b + t.read >= 0
      BY <3>1 DEF Facts, Adjusts
    <3> HIDE DEF a, b
    <3>5. /\ t.op = "payout" => a >= t.read
          /\ t.op = "adjust" => a + t.read >= 0
      BY <3>1, <3>2, <3>3, <3>4
    <3>6. Withdraws(t, ledger') /\ Adjusts(t, ledger')
      BY <3>3, <3>4, <3>5 DEF Withdraws, Adjusts, a
    <3>7. QED
      BY <3>1, <3>6 DEF Facts, t
  <2>3. QED
    BY <1>1, <2>1, <2>2 DEF Transactions
<1>17. UNCHANGED <<clock, pay, ents, redeemed, referral, percent, tx, upsets, promoKind>>
  BY <1>1
<1>18. QED
  BY <1>9, <1>14, <1>15, <1>16, <1>17 DEF LedgerIInv, Counter

\* A row of the wallet that its owner's transaction writes under the profile's lock.
LEMMA OwnRow ==
    ASSUME LedgerConstants, LedgerIInv, NEW w \in Workers, tx[w].u \in tx[w].locks,
           NEW r \in Entry, r \notin ledger, r.u = tx[w].u,
           r.type \notin {"commission", "clawback"},
           Balance(ledger, r.u) + r.amount >= 0, Books!Close(w)
    PROVE  /\ LedgerRows(ledger \cup {r}) /\ Solvent(ledger \cup {r})
           /\ Settled(ledger \cup {r}, pay, referral)
           /\ Transactions(tx', pay, ents, redeemed, ledger \cup {r})
           /\ \A x : /\ HeldBack(ledger \cup {r}, x) = HeldBack(ledger, x) + Withholds(r, x)
                     /\ HeldBack(ledger, x) \in Int
<1> DEFINE lg == ledger \cup {r}
<1>1. LedgerRows(ledger) /\ Solvent(ledger) /\ Settled(ledger, pay, referral)
  BY DEF LedgerIInv
<1>2. /\ tx \in [Workers -> Deal] /\ Apart(tx)
      /\ \A v \in Workers : Facts(tx[v], pay, ents, redeemed, ledger)
  BY DEF LedgerIInv, Transactions
<1>3. ASSUME NEW x
      PROVE  /\ LedgerRows(lg)
             /\ Balance(lg, x) = Balance(ledger, x) + Gives(r, x)
             /\ Clawed(lg, x) = Clawed(ledger, x) + Claws(r, x)
             /\ HeldBack(lg, x) = HeldBack(ledger, x) + Withholds(r, x)
             /\ r.amount \in Int /\ Balance(ledger, x) \in Int /\ Clawed(ledger, x) \in Int
             /\ HeldBack(ledger, x) \in Int
  BY <1>1, RowPuts
<1>4. ASSUME NEW x
      PROVE  /\ r.u = x => Gives(r, x) = r.amount
             /\ r.u # x => Gives(r, x) = 0
             /\ Claws(r, x) = 0
  BY DEF Gives, Claws, Counts
<1>5. ASSUME NEW u \in Profiles PROVE Clawed(lg, u) <= 0 /\ Balance(lg, u) >= Clawed(lg, u)
  <2> DEFINE a == Balance(lg, u)  b == Balance(ledger, u)
             d == Clawed(lg, u)  e == Clawed(ledger, u)  i == Gives(r, u)
  <2>1. /\ a = b + i /\ d = e + 0 /\ b \in Int /\ e \in Int /\ r.amount \in Int
        /\ e <= 0 /\ b >= e
    BY <1>1, <1>3, <1>4 DEF Solvent
  <2>2. /\ r.u = u => i = r.amount /\ b + r.amount >= 0
        /\ r.u # u => i = 0
    BY <1>4
  <2> HIDE DEF a, b, d, e, i
  <2>3. d <= 0 /\ a >= d
    BY <2>1, <2>2
  <2>4. QED
    BY <2>3 DEF a, d
<1>6. LedgerRows(lg) /\ Solvent(lg)
  BY <1>3, <1>5 DEF Solvent
<1>7. Settled(lg, pay, referral)
  BY <1>1, OtherRow
<1>8. \A v \in Workers \ {w} : Facts(tx[v], pay, ents, redeemed, lg)
  <2>1. ASSUME NEW v \in Workers \ {w}, tx[v].u \in tx[v].locks
        PROVE  Balance(lg, tx[v].u) >= Balance(ledger, tx[v].u)
    <3>1. Asunder(tx[v], tx[w])
      BY <1>2 DEF Apart
    <3>2. r.u # tx[v].u
      BY <2>1, <3>1 DEF Asunder
    <3> DEFINE a == Balance(lg, tx[v].u)  b == Balance(ledger, tx[v].u)
    <3>3. a = b + 0 /\ b \in Int
      BY <1>3, <1>4, <3>2
    <3> HIDE DEF a, b
    <3>4. a >= b
      BY <3>3
    <3>5. QED
      BY <3>4 DEF a, b
  <2> HIDE DEF lg
  <2>2. \A e \in ents : e \in ents \/ e.u \in tx[w].locks
    OBVIOUS
  <2>3. \A v \in Workers \ {w} : Facts(tx[v], pay, ents, redeemed, ledger)
    BY <1>2
  <2>4. QED
    BY <1>6, <2>1, <2>2, <2>3, OthersKeep
<1>9. Transactions(tx', pay, ents, redeemed, lg)
  BY <1>2, <1>8, CloseKeeps
<1>10. \A x : HeldBack(lg, x) = HeldBack(ledger, x) + Withholds(r, x) /\ HeldBack(ledger, x) \in Int
  BY <1>3
<1>11. QED
  BY <1>6, <1>7, <1>9, <1>10

LEMMA RequestKeeps ==
    ASSUME LedgerConstants, LedgerIInv, NEW w \in Workers, Books!RequestReferralPayout(w)
    PROVE  LedgerIInv'
<1> DEFINE t == tx[w]
           u == t.u
           a == t.read
<1>1. /\ t.op = "payout" /\ Books!Close(w)
      /\ \E k \in Books!Payouts :
           /\ Books!CreateReferralPayout(k, u, a)
           /\ ledger' = ledger \cup {Books!InsertReferralLedger(u, "payout_hold", - a, k)}
      /\ UNCHANGED <<clock, pay, ents, redeemed, referral, percent, upsets, promoKind>>
  BY DEF Books!RequestReferralPayout, Books!At
<1>2. PICK k \in Books!Payouts :
           /\ Books!CreateReferralPayout(k, u, a)
           /\ ledger' = ledger \cup {Books!InsertReferralLedger(u, "payout_hold", - a, k)}
  BY <1>1
<1> DEFINE y == [u |-> u, amount |-> a, st |-> "pending"]
           r == Books!InsertReferralLedger(u, "payout_hold", - a, k)
<1>3. /\ payout[k].st = "none" /\ payout' = [payout EXCEPT ![k] = y] /\ ledger' = ledger \cup {r}
  BY <1>2 DEF Books!CreateReferralPayout
<1>4. t \in Deal /\ Facts(t, pay, ents, redeemed, ledger)
  BY DEF LedgerIInv, Transactions
<1>5. u \in Profiles /\ u \in t.locks /\ a \in Nat \ {0} /\ Balance(ledger, u) >= a
  BY <1>1, <1>4 DEF Facts, Shape, Withdraws
<1>6. /\ Holds(ledger, payout) /\ payout \in [Books!Payouts -> Withdrawal] /\ LedgerRows(ledger)
      /\ \A j \in Books!Payouts : payout[j].st # "none" => payout[j].u \in Profiles
  BY DEF LedgerIInv, Holds
<1>7. y \in Withdrawal /\ y.u = u /\ y.amount = a /\ y.st = "pending"
  BY <1>5 DEF Withdrawal
<1> HIDE DEF y
<1>8. payout' \in [Books!Payouts -> Withdrawal] /\ payout'[k] = y
      /\ \A j \in Books!Payouts \ {k} : payout'[j] = payout[j]
  BY <1>3, <1>6, <1>7
<1>9. - a \in Int /\ k \in Nat
  BY <1>5 DEF Books!Payouts, LedgerConstants
<1>10. /\ r \in Entry /\ r.u = u /\ r.type = "payout_hold" /\ r.amount = - a /\ r.ref = k
       /\ r.type \in HoldTypes /\ r.type \notin {"commission", "clawback"}
  <2>1. r = [u |-> u, type |-> "payout_hold", amount |-> - a, ref |-> k]
    BY DEF Books!InsertReferralLedger
  <2> HIDE DEF r
  <2>2. QED
    BY <1>5, <1>9, <2>1 DEF Entry, EntryTypes, HoldTypes
<1> HIDE DEF r
<1>11. r \notin ledger
  <2>1. \A e \in ledger : e.type = "payout_hold" => payout[e.ref].st # "none"
    BY <1>6 DEF Holds
  <2>2. QED
    BY <1>3, <1>10, <2>1
<1>12. Balance(ledger, r.u) + r.amount >= 0
  <2> DEFINE b == Balance(ledger, u)
  <2>1. b \in Int /\ b >= a /\ a \in Nat
    BY <1>5, <1>6, BalanceFacts
  <2> HIDE DEF b, a
  <2>2. b + (- a) >= 0
    BY <2>1
  <2>3. QED
    BY <1>10, <2>2 DEF b
<1>13. /\ LedgerRows(ledger') /\ Solvent(ledger') /\ Settled(ledger', pay, referral)
       /\ Transactions(tx', pay, ents, redeemed, ledger')
       /\ \A x : /\ HeldBack(ledger', x) = HeldBack(ledger, x) + Withholds(r, x)
                 /\ HeldBack(ledger, x) \in Int
  BY <1>1, <1>3, <1>5, <1>10, <1>11, <1>12, OwnRow
<1>14. ASSUME NEW x \in Profiles
       PROVE  Summed(payout', Asked(payout', x, "paid")) + Summed(payout', Asked(payout', x, "pending"))
                = - HeldBack(ledger', x)
  <2> DEFINE h == HeldBack(ledger', x)  g == HeldBack(ledger, x)  n == Withholds(r, x)
             s == Standing(payout[k], x)  c == Standing(y, x)
  <2>1. s = 0 /\ c \in Nat /\ n = - c
    <3>1. payout[k] \in Withdrawal
      BY <1>6
    <3>2. s = Counts(payout[k].u = x /\ payout[k].st \in {"paid", "pending"}, payout[k].amount)
      BY <3>1, StandingIs
    <3>3. c = Counts(y.u = x /\ y.st \in {"paid", "pending"}, y.amount)
      BY <1>7, StandingIs
    <3>4. s = 0
      BY <1>3, <3>2 DEF Counts
    <3>5. c = IF u = x THEN a ELSE 0
      BY <1>7, <3>3 DEF Counts
    <3>6. n = IF u = x THEN - a ELSE 0
      BY <1>10 DEF Withholds, Counts
    <3> HIDE DEF n, c, s
    <3>7. a \in Nat
      BY <1>5
    <3> HIDE DEF a
    <3>8. QED
      BY <3>4, <3>5, <3>6, <3>7
  <2>2. g \in Int /\ h = g + n
    BY <1>13
  <2> HIDE DEF h, g, s, c, n
  <2>3. h = g + s - c
    BY <2>1, <2>2
  <2>4. HeldBack(ledger', x) = HeldBack(ledger, x) + Standing(payout[k], x) - Standing(y, x)
    BY <2>3 DEF h, g, s, c
  <2>5. HeldBack(ledger, x) \in Int
    BY <2>2 DEF g
  <2>6. /\ Holds(ledger, payout) /\ payout' \in [Books!Payouts -> Withdrawal] /\ y = payout'[k]
        /\ \A j \in Books!Payouts \ {k} : payout'[j] = payout[j]
    BY <1>6, <1>8
  <2>7. QED
    BY <2>4, <2>5, <2>6, HoldsMove
<1>15. \A j \in Books!Payouts : payout'[j].st # "none" => payout'[j].u \in Profiles
  BY <1>5, <1>6, <1>7, <1>8
<1>16. \A e \in ledger' : e.type = "payout_hold" => e.ref \in Books!Payouts /\ payout'[e.ref].st # "none"
  <2>1. \A e \in ledger : e.type = "payout_hold" => e.ref \in Books!Payouts /\ payout[e.ref].st # "none"
    BY <1>6 DEF Holds
  <2>2. QED
    BY <1>3, <1>7, <1>8, <1>10, <2>1
<1>17. \A e \in ledger' : e.type = "payout_reject_release" => e.ref \in Books!Payouts /\ payout'[e.ref].st = "rejected"
  <2>1. \A e \in ledger : e.type = "payout_reject_release" => e.ref \in Books!Payouts /\ payout[e.ref].st = "rejected"
    BY <1>6 DEF Holds
  <2>2. QED
    BY <1>3, <1>8, <1>10, <2>1
<1>18. Holds(ledger', payout')
  BY <1>8, <1>14, <1>15, <1>16, <1>17 DEF Holds
<1>19. UNCHANGED <<clock, pay, ents, redeemed, referral, percent, upsets, promoKind>>
  BY <1>1
<1>20. QED
  BY <1>13, <1>18, <1>19 DEF LedgerIInv, Counter

LEMMA AdjustKeeps ==
    ASSUME LedgerConstants, LedgerIInv, NEW w \in Workers, Books!SetUserReferralBalance(w)
    PROVE  LedgerIInv'
<1> DEFINE t == tx[w]
           u == t.u
           a == t.read
           r == Books!InsertReferralLedger(u, "admin_adjust", a, upsets)
<1>1. /\ t.op = "adjust" /\ Books!Close(w) /\ ledger' = (IF a = 0 THEN ledger ELSE ledger \cup {r})
      /\ UNCHANGED <<clock, pay, ents, redeemed, referral, percent, payout, upsets, promoKind>>
  BY DEF Books!SetUserReferralBalance, Books!At
<1>2. t \in Deal /\ Facts(t, pay, ents, redeemed, ledger) /\ Transactions(tx, pay, ents, redeemed, ledger)
  BY DEF LedgerIInv, Transactions
<1>3. u \in Profiles /\ u \in t.locks /\ a \in Int /\ Balance(ledger, u) + a >= 0 /\ upsets \in Nat
  BY <1>1, <1>2 DEF Facts, Shape, Adjusts, Deal, LedgerIInv, Counter
<1>4. /\ r \in Entry /\ r.u = u /\ r.type = "admin_adjust" /\ r.amount = a
      /\ r.type \notin HoldTypes /\ r.type \notin {"commission", "clawback"}
  <2>1. r = [u |-> u, type |-> "admin_adjust", amount |-> a, ref |-> upsets]
    BY DEF Books!InsertReferralLedger
  <2> HIDE DEF r
  <2>2. QED
    BY <1>3, <2>1 DEF Entry, EntryTypes, HoldTypes
<1> HIDE DEF r
<1>5. CASE ledger' = ledger
  <2>1. Transactions(tx', pay, ents, redeemed, ledger)
    BY <1>1, <1>2, CloseKeeps DEF Transactions
  <2>2. QED
    BY <1>1, <1>5, <2>1 DEF LedgerIInv, Counter
<1>6. CASE ledger' = ledger \cup {r} /\ r \notin ledger
  <2>1. Balance(ledger, r.u) + r.amount >= 0
    BY <1>3, <1>4
  <2>2. /\ LedgerRows(ledger') /\ Solvent(ledger') /\ Settled(ledger', pay, referral)
        /\ Transactions(tx', pay, ents, redeemed, ledger')
        /\ \A x : /\ HeldBack(ledger', x) = HeldBack(ledger, x) + Withholds(r, x)
                  /\ HeldBack(ledger, x) \in Int
    BY <1>1, <1>3, <1>4, <1>6, <2>1, OwnRow
  <2>3. ASSUME NEW x PROVE HeldBack(ledger', x) = HeldBack(ledger, x)
    <3> DEFINE h == HeldBack(ledger', x)  g == HeldBack(ledger, x)
    <3>1. Withholds(r, x) = 0
      BY <1>4 DEF Withholds, Counts
    <3>2. h = g + 0 /\ g \in Int
      BY <2>2, <3>1
    <3> HIDE DEF h, g
    <3>3. h = g
      BY <3>2
    <3>4. QED
      BY <3>3 DEF h, g
  <2>4. Holds(ledger, payout)
    BY DEF LedgerIInv
  <2>5. \A e \in ledger' : e.type \in HoldTypes => e \in ledger
    BY <1>4, <1>6
  <2>6. \A e \in ledger' : e.type = "payout_hold" => e.ref \in Books!Payouts /\ payout[e.ref].st # "none"
    BY <2>4, <2>5 DEF Holds, HoldTypes
  <2>7. \A e \in ledger' : e.type = "payout_reject_release" => e.ref \in Books!Payouts /\ payout[e.ref].st = "rejected"
    BY <2>4, <2>5 DEF Holds, HoldTypes
  <2>8. Holds(ledger', payout)
    BY <2>3, <2>4, <2>6, <2>7 DEF Holds
  <2>9. UNCHANGED <<clock, pay, ents, redeemed, referral, percent, payout, upsets, promoKind>>
    BY <1>1
  <2>10. QED
    BY <2>2, <2>8, <2>9 DEF LedgerIInv, Counter
<1>7. ledger' = ledger \/ (ledger' = ledger \cup {r} /\ r \notin ledger)
  BY <1>1
<1>8. QED
  BY <1>5, <1>6, <1>7

-----------------------------------------------------------------------------
(* The books start in order, every step keeps them so, and what that says.  *)

LEMMA LedgerStarts ==
    ASSUME LedgerConstants, Books!LedgerInit
    PROVE  LedgerIInv
<1>1. /\ clock = 0 /\ upsets = 0
      /\ pay = [p \in Books!Purchases |-> Books!Unsold]
      /\ ents = {} /\ redeemed = {} /\ ledger = {}
      /\ promoKind \in PromoKinds
      /\ referral = [u \in Profiles |-> [by |-> "none", st |-> "none"]]
      /\ percent = [u \in Profiles |-> Percent]
      /\ payout = [k \in Books!Payouts |-> [u |-> "none", amount |-> 0, st |-> "none"]]
      /\ tx = [w \in Workers |-> Books!Idle]
  BY DEF Books!LedgerInit, Books!NoOne
<1>2. Cardinality({}) = 0 /\ IsFiniteSet({})
  BY FS_EmptySet
<1>3. Books!Unsold \in Sale /\ Books!Unsold.st = "none"
  BY DEF Books!Unsold, Sale, Books!NoOne
<1>4. SaleRows(pay)
  BY <1>1, <1>3 DEF SaleRows
<1>5. percent \in [Profiles -> Nat] /\ Counter
  BY <1>1 DEF LedgerConstants, Counter
<1>6. GrantRows(ents, pay) /\ Stacked(ents) /\ Worth(ents, redeemed, pay)
  BY <1>1, <1>2 DEF GrantRows, Stacked, Worth
<1>7. Redeemed(redeemed, pay)
  <2>1. \A u : Uses(redeemed, pay, u) = {}
    BY <1>1 DEF Uses
  <2>2. 0 <= MaxUses /\ 0 <= PerUserLimit
    BY DEF LedgerConstants
  <2>3. QED
    BY <1>1, <1>2, <2>1, <2>2 DEF Redeemed
<1>8. LedgerRows(ledger) /\ Invites(referral)
  BY <1>1, <1>2 DEF LedgerRows, Invites, Invite
<1>9. Settled(ledger, pay, referral)
  <2>1. Commissions(ledger) = {} /\ \A u : RowsOf(Commissions(ledger), u) = {}
    BY <1>1 DEF Commissions, RowsOf
  <2>2. \A u \in Profiles : Rewarded(referral, u) = {}
    BY <1>1 DEF Rewarded
  <2>3. \A u \in Profiles : Cardinality(RowsOf(Commissions(ledger), u)) <= Cardinality(Rewarded(referral, u))
    BY <1>2, <2>1, <2>2
  <2>4. QED
    BY <1>1, <2>1, <2>3 DEF Settled
<1>10. \A u : Balance(ledger, u) = 0 /\ Clawed(ledger, u) = 0 /\ HeldBack(ledger, u) = 0
  <2> SUFFICES ASSUME NEW u PROVE Balance(ledger, u) = 0 /\ Clawed(ledger, u) = 0 /\ HeldBack(ledger, u) = 0
    OBVIOUS
  <2>1. /\ RowsOf(ledger, u) = {} /\ {r \in ledger : r.u = u /\ r.type = "clawback"} = {}
        /\ {r \in ledger : r.u = u /\ r.type \in HoldTypes} = {}
    BY <1>1 DEF RowsOf
  <2>2. QED
    BY <2>1, SumEmpty DEF Balance, Clawed, HeldBack
<1>11. Solvent(ledger)
  BY <1>10 DEF Solvent
<1>12. Holds(ledger, payout)
  <2>1. payout \in [Books!Payouts -> Withdrawal] /\ \A k \in Books!Payouts : payout[k].st = "none"
    BY <1>1 DEF Withdrawal
  <2>2. \A u : Asked(payout, u, "paid") = {} /\ Asked(payout, u, "pending") = {}
    BY <2>1 DEF Asked
  <2>3. Summed(payout, {}) = 0
    BY SumEmpty DEF Summed
  <2>4. \A u \in Profiles :
          Summed(payout, Asked(payout, u, "paid")) + Summed(payout, Asked(payout, u, "pending")) = - HeldBack(ledger, u)
    BY <1>10, <2>2, <2>3
  <2>5. QED
    BY <1>1, <2>1, <2>4 DEF Holds
<1>13. Transactions(tx, pay, ents, redeemed, ledger)
  <2>1. \A w \in Workers : tx[w] = Books!Idle
    BY <1>1
  <2>2. tx \in [Workers -> Deal]
    BY <1>1, IdleDeal
  <2>3. Apart(tx)
    BY <2>1, IdleDeal DEF Apart, Asunder
  <2>4. QED
    BY <2>1, <2>2, <2>3, IdleFacts DEF Transactions
<1>14. QED
  BY <1>4, <1>5, <1>6, <1>7, <1>8, <1>9, <1>11, <1>12, <1>13 DEF LedgerIInv

LEMMA LedgerStep ==
    ASSUME LedgerConstants, LedgerIInv, [Books!LedgerNext]_Books!ledgerVars
    PROVE  LedgerIInv'
<1>1. CASE UNCHANGED Books!ledgerVars
  BY <1>1 DEF Books!ledgerVars, LedgerIInv, Counter
<1>2. ASSUME NEW w \in Workers, Books!checkout(w) PROVE LedgerIInv'
  BY <1>2, StartCheckoutKeeps, ValidateKeeps, ReferralCheckoutKeeps DEF Books!checkout
<1>3. ASSUME NEW w \in Workers,
             \/ Books!CheckoutCommit(w) \/ Books!ReferralCheckoutCommit(w)
             \/ Books!FreeCheckoutLock(w) \/ Books!FreeCheckoutCommit(w)
      PROVE  LedgerIInv'
  BY <1>3, CheckoutCommitKeeps, LockKeeps, FreeCommitKeeps
<1>4. ASSUME NEW w \in Workers, Books!applyReferral(w) PROVE LedgerIInv'
  BY <1>4, ApplyReadKeeps, ApplyKeeps DEF Books!applyReferral
<1>5. ASSUME NEW w \in Workers, NEW p \in Books!Purchases, Books!CompletePayment(w, p) \/ Books!RefundLock(w, p)
      PROVE  LedgerIInv'
  BY <1>5, CompleteKeeps, RefundBeginKeeps
<1>6. ASSUME NEW w \in Workers, Books!GrantDaysLock(w) \/ Books!ProcessPaymentGrant(w) PROVE LedgerIInv'
  BY <1>6, LockKeeps, ProcessKeeps
<1>7. ASSUME NEW w \in Workers, NEW u \in Profiles, Books!grantUserVIP(w, u) PROVE LedgerIInv'
  BY <1>7, GrantBeginKeeps
<1>8. ASSUME NEW w \in Workers, Books!GrantDays(w) \/ Books!RevokeEntitlementForPayment(w) PROVE LedgerIInv'
  BY <1>8, GrantDaysKeeps, RevokeKeeps
<1>9. ASSUME NEW w \in Workers, Books!requestReferralPayout(w) PROVE LedgerIInv'
  BY <1>9, PayoutBeginKeeps, RequestKeeps DEF Books!requestReferralPayout
<1>10. ASSUME NEW w \in Workers, Books!putUserReferralBalance(w) PROVE LedgerIInv'
  BY <1>10, AdjustBeginKeeps, AdjustKeeps DEF Books!putUserReferralBalance
<1>11. ASSUME NEW w \in Workers, Books!Rollback(w) PROVE LedgerIInv'
  BY <1>11, RollbackKeeps
<1>12. ASSUME NEW k \in Books!Payouts, Books!MarkReferralPayoutPaid(k) \/ Books!RejectReferralPayout(k)
       PROVE  LedgerIInv'
  BY <1>12, MarkPaidKeeps, RejectKeeps
<1>13. ASSUME \/ \E u \in Profiles, pct \in {0, Percent} : Books!UpdateUserReferralCommissionPercent(u, pct)
              \/ \E on \in BOOLEAN : Books!SetProviderEnabled(on)
              \/ Books!Tick \/ Books!PromoEnds
       PROVE  LedgerIInv'
  BY <1>13, AroundKeeps
<1>14. QED
  BY <1>1, <1>2, <1>3, <1>4, <1>5, <1>6, <1>7, <1>8, <1>9, <1>10, <1>11, <1>12, <1>13
     DEF Books!LedgerNext

\* What a payment's commission and its clawback come to.
LEMMA CommissionsCancel ==
    ASSUME LedgerIInv, NEW p \in Books!Purchases
    PROVE  Books!SumOf(Books!GetCommissionByPaymentID(p) \cup Books!GetClawbackByPaymentID(p))
             = IF pay[p].st = "paid" THEN Books!SumOf(Books!GetCommissionByPaymentID(p)) ELSE 0
<1> DEFINE C == Books!GetCommissionByPaymentID(p)
           K == Books!GetClawbackByPaymentID(p)
<1>1. Settled(ledger, pay, referral) /\ LedgerRows(ledger)
  BY DEF LedgerIInv
<1>2. \A c \in C : c \in Commissions(ledger) /\ c.ref = p /\ CommissionOk(c, pay, ledger, referral)
  BY <1>1 DEF Books!GetCommissionByPaymentID, Commissions, Settled
<1>3. \A r \in K : r \in ledger /\ r.ref = p /\ r.type = "clawback" /\ ClawbackOk(r, pay, ledger)
  BY <1>1 DEF Books!GetClawbackByPaymentID, Settled
<1>4. \A c \in Commissions(ledger) : c.ref = p => c \in C
  BY DEF Books!GetCommissionByPaymentID, Commissions
<1>5. \A r \in ledger : r.type = "clawback" /\ r.ref = p => r \in K
  BY DEF Books!GetClawbackByPaymentID
<1>6. \A c, d \in C : c = d
  BY <1>1, <1>2 DEF Settled
<1>7. \A r \in K : pay[p].st = "refunded" /\ \E c \in C : r = Clawback(c)
  BY <1>3, <1>4 DEF ClawbackOk
<1> HIDE DEF C, K
<1>8. CASE pay[p].st = "paid"
  <2>1. K = {}
    BY <1>7, <1>8
  <2>2. C \cup K = C
    BY <2>1
  <2>3. QED
    BY <1>8, <2>2 DEF C, K
<1>9. CASE pay[p].st # "paid"
  <2>1. CASE C = {}
    <3>1. C \cup K = {}
      BY <1>7, <2>1
    <3>2. QED
      BY <1>9, <3>1, SumEmpty DEF C, K
  <2>2. CASE C # {}
    <3>1. PICK c \in C : C = {c}
      BY <1>6, <2>2
    <3>2. Clawback(c) \in ledger /\ c.amount \in Nat
      BY <1>2, <1>9 DEF CommissionOk, Done
    <3> DEFINE b == Clawback(c)
    <3>3. b.type = "clawback" /\ b.ref = p /\ b.amount = - c.amount /\ c.type = "commission"
      BY <1>2 DEF Clawback, Commissions
    <3>4. K = {b}
      BY <1>5, <1>7, <3>1, <3>2, <3>3
    <3>5. b # c
      BY <3>3
    <3> DEFINE n == c.amount
    <3> HIDE DEF b, n
    <3>6. b.amount = - n /\ n \in Nat /\ c.amount = n /\ n \in Int /\ - n \in Int
      BY <3>2, <3>3 DEF n
    <3>7. Amounts({}) /\ c \notin {} /\ {} \cup {c} = {c}
      BY FS_EmptySet DEF Amounts
    <3>8. Amounts({c}) /\ Books!SumOf({c}) = c.amount + Books!SumOf({})
      BY <3>6, <3>7, SumPut
    <3>9. Books!SumOf({c} \cup {b}) = b.amount + Books!SumOf({c})
      BY <3>5, <3>6, <3>8, SumPut
    <3>10. Books!SumOf({c} \cup {b}) = - n + (n + 0)
      BY <3>6, <3>8, <3>9, SumEmpty
    <3>11. - n + (n + 0) = 0
      BY <3>6
    <3>12. QED
      BY <1>9, <3>1, <3>4, <3>10, <3>11 DEF C, K
  <2>3. QED
    BY <2>1, <2>2
<1>10. QED
  BY <1>8, <1>9

LEMMA LedgerMeans ==
    ASSUME LedgerIInv
    PROVE  LedgerInv
<1>1. Books!GrantsStack
  BY DEF LedgerIInv, Stacked, Books!GrantsStack
<1>2. Books!PromoWithinLimits
  BY CountsAre DEF LedgerIInv, Redeemed, Books!PromoWithinLimits
<1>3. Books!ValueForMoney
  BY DEF LedgerIInv, Worth, Generous, Books!ValueForMoney
<1>4. Settled(ledger, pay, referral)
  BY DEF LedgerIInv
<1>5. \A u : /\ Books!GetReferralStats(u).rewarded = Cardinality(Rewarded(referral, u))
             /\ Books!GetReferralStats(u).balance = Balance(ledger, u)
  <2>1. \A S : Books!Cardinality(S) = Cardinality(S)
    BY DEF Books!Cardinality, Cardinality
  <2>2. QED
    BY <2>1, CountsAre DEF Books!GetReferralStats, Rewarded
<1>6. Books!CommissionSettled
  <2>1. {x \in ledger : x.type = "commission"} = Commissions(ledger)
    BY DEF Commissions
  <2>2. \A r, s \in {x \in ledger : x.type = "commission"} : pay[r.ref].u = pay[s.ref].u => r = s
    BY <1>4, <2>1 DEF Settled
  <2>3. \A u \in Profiles : Books!Cardinality({r \in ledger : r.type = "commission" /\ r.u = u})
                              <= Books!GetReferralStats(u).rewarded
    <3> SUFFICES ASSUME NEW u \in Profiles
                 PROVE  Books!Cardinality({r \in ledger : r.type = "commission" /\ r.u = u})
                              <= Books!GetReferralStats(u).rewarded
      OBVIOUS
    <3>1. {r \in ledger : r.type = "commission" /\ r.u = u} = RowsOf(Commissions(ledger), u)
      BY DEF RowsOf, Commissions
    <3>2. \A S : Books!Cardinality(S) = Cardinality(S)
      BY DEF Books!Cardinality, Cardinality
    <3>3. Cardinality(RowsOf(Commissions(ledger), u)) <= Cardinality(Rewarded(referral, u))
      BY <1>4 DEF Settled
    <3>4. QED
      BY <1>5, <3>1, <3>2, <3>3
  <2>4. \A r \in ledger : r.type = "commission" => referral[pay[r.ref].u].by = r.u
    BY <1>4 DEF Settled, CommissionOk, Commissions
  <2>5. QED
    BY <2>2, <2>3, <2>4, CommissionsCancel DEF Books!CommissionSettled
<1>7. Books!NeverOverdrawn
  BY <1>5 DEF LedgerIInv, Solvent, Clawed, Books!NeverOverdrawn
<1>8. Books!HoldsMatchPayouts
  <2> SUFFICES ASSUME NEW u \in Profiles
               PROVE  Books!GetReferralActivity(u)["paid"] + Books!GetReferralActivity(u)["pending"]
                        = - Books!SumOf({r \in ledger : r.u = u /\ r.type \in HoldTypes})
    BY DEF Books!HoldsMatchPayouts, HoldTypes
  <2>1. \A st \in {"pending", "paid", "rejected"} :
          Books!GetReferralActivity(u)[st] = Summed(payout, Asked(payout, u, st))
    BY DEF Books!GetReferralActivity, Books!GetReferralPayoutSummaryForProfile, Summed, Asked
  <2>2. Holds(ledger, payout)
    BY DEF LedgerIInv
  <2>3. QED
    BY <2>1, <2>2 DEF Holds, HeldBack
<1>9. QED
  BY <1>1, <1>2, <1>3, <1>6, <1>7, <1>8 DEF LedgerInv, Books!LedgerInv

\* A row of entitlement only goes for a shorter one, when its payment is refunded.
GrantStands(e) ==
    /\ e.p # 0 /\ pay[e.p].st = "paid" /\ pay'[e.p].st = "refunded"
    /\ \E f \in ents' : f.p = e.p /\ f.source = e.source /\ f.starts = e.starts /\ f.ends < e.ends

LEMMA OnlyRefundsCut ==
    ASSUME LedgerConstants, LedgerIInv, [Books!LedgerNext]_Books!ledgerVars
    PROVE  \/ ents \subseteq ents'
           \/ \E w \in Workers : Books!RevokeEntitlementForPayment(w)
<1>1. CASE UNCHANGED Books!ledgerVars
  BY <1>1 DEF Books!ledgerVars
<1>2. ASSUME NEW w \in Workers,
             \/ Books!checkout(w) \/ Books!CheckoutCommit(w) \/ Books!ReferralCheckoutCommit(w)
             \/ Books!FreeCheckoutLock(w) \/ Books!FreeCheckoutCommit(w)
      PROVE  ents \subseteq ents'
  BY <1>2 DEF Books!checkout, Books!StartCheckout, Books!validatePromoLocked,
              Books!TryApplyReferralAtCheckout, Books!CheckoutCommit, Books!ReferralCheckoutCommit,
              Books!FreeCheckoutLock, Books!FreeCheckoutCommit
<1>3. ASSUME NEW w \in Workers, Books!applyReferral(w) PROVE ents \subseteq ents'
  BY <1>3 DEF Books!applyReferral, Books!ApplyReferralRead, Books!ApplyReferralCode
<1>4. ASSUME NEW w \in Workers, NEW p \in Books!Purchases, Books!CompletePayment(w, p) \/ Books!RefundLock(w, p)
      PROVE  ents \subseteq ents'
  BY <1>4 DEF Books!CompletePayment, Books!RefundLock
<1>5. ASSUME NEW w \in Workers, Books!GrantDaysLock(w) \/ Books!ProcessPaymentGrant(w)
      PROVE  ents \subseteq ents'
  BY <1>5 DEF Books!GrantDaysLock, Books!ProcessPaymentGrant
<1>6. ASSUME NEW w \in Workers, NEW u \in Profiles, Books!grantUserVIP(w, u) PROVE ents \subseteq ents'
  BY <1>6 DEF Books!grantUserVIP
<1>7. ASSUME NEW w \in Workers, Books!GrantDays(w) PROVE ents \subseteq ents'
  BY <1>7 DEF Books!GrantDays
<1>8. ASSUME NEW w \in Workers,
             \/ Books!requestReferralPayout(w) \/ Books!putUserReferralBalance(w) \/ Books!Rollback(w)
      PROVE  ents \subseteq ents'
  BY <1>8 DEF Books!requestReferralPayout, Books!PayoutLock, Books!RequestReferralPayout,
              Books!putUserReferralBalance, Books!SetBalanceLock, Books!SetUserReferralBalance, Books!Rollback
<1>9. ASSUME NEW k \in Books!Payouts, Books!MarkReferralPayoutPaid(k) \/ Books!RejectReferralPayout(k)
      PROVE  ents \subseteq ents'
  BY <1>9 DEF Books!MarkReferralPayoutPaid, Books!RejectReferralPayout
<1>10. ASSUME \/ \E u \in Profiles, pct \in {0, Percent} : Books!UpdateUserReferralCommissionPercent(u, pct)
              \/ \E on \in BOOLEAN : Books!SetProviderEnabled(on)
              \/ Books!Tick \/ Books!PromoEnds
       PROVE  ents \subseteq ents'
  BY <1>10 DEF Books!UpdateUserReferralCommissionPercent, Books!SetProviderEnabled, Books!Tick,
               Books!PromoEnds
<1>11. QED
  BY <1>1, <1>2, <1>3, <1>4, <1>5, <1>6, <1>7, <1>8, <1>9, <1>10 DEF Books!LedgerNext

LEMMA GrantsStep ==
    ASSUME LedgerConstants, LedgerIInv, [Books!LedgerNext]_Books!ledgerVars,
           NEW e \in ents \ ents'
    PROVE  GrantStands(e)
<1>1. PICK w \in Workers : Books!RevokeEntitlementForPayment(w)
  BY OnlyRefundsCut
<1> DEFINE p == tx[w].p
<1>2. /\ tx[w].op = "refund"
      /\ pay' = [pay EXCEPT ![p].st = "refunded"]
      /\ \E d \in Books!GetEntitlementByPaymentID(p) :
           ents' = Books!ClampAllEntitlementsForPayment(p, Books!ClampTo(d))
  BY <1>1 DEF Books!RevokeEntitlementForPayment, Books!At
<1>3. p \in Books!Purchases /\ pay[p].st = "paid"
  BY <1>2 DEF LedgerIInv, Transactions, Facts, Refunds
<1>4. p # 0 /\ pay'[p].st = "refunded"
  BY <1>2, <1>3, PurchaseRange DEF LedgerIInv, SaleRows, Sale
<1>5. PICK d \in Books!GetEntitlementByPaymentID(p) :
        ents' = Books!ClampAllEntitlementsForPayment(p, Books!ClampTo(d))
  BY <1>2
<1> DEFINE to == Books!ClampTo(d)
           n == IF e.starts >= to THEN e.starts + 1 ELSE to
<1>6. to \in Nat
  <2>1. d \in Grant /\ clock \in Nat
    BY DEF LedgerIInv, GrantRows, Counter, Books!GetEntitlementByPaymentID
  <2>2. QED
    BY <2>1 DEF Grant, Books!ClampTo
<1>7. ents' = {Cut(f, p, to) : f \in ents}
  BY <1>5 DEF Books!ClampAllEntitlementsForPayment, Cut
<1>8. e \in Grant /\ e.starts < e.ends /\ e.starts \in Nat /\ e.ends \in Nat
  BY DEF LedgerIInv, GrantRows, Grant
<1> HIDE DEF to
<1>9. Cut(e, p, to) \in ents' /\ Cut(e, p, to) # e
  BY <1>7
<1>10. e.p = p /\ e.ends > to /\ Cut(e, p, to) = [e EXCEPT !.ends = n]
  BY <1>9 DEF Cut
<1>11. n # e.ends
  BY <1>8, <1>9, <1>10 DEF Grant
<1>12. n <= e.ends /\ n \in Nat
  BY <1>6, <1>8, <1>10
<1>13. n < e.ends
  BY <1>8, <1>11, <1>12
<1>14. /\ Cut(e, p, to).p = e.p /\ Cut(e, p, to).source = e.source /\ Cut(e, p, to).starts = e.starts
       /\ Cut(e, p, to).ends = n
  BY <1>8, <1>10, <1>12 DEF Grant
<1>15. \E f \in ents' : f.p = e.p /\ f.source = e.source /\ f.starts = e.starts /\ f.ends < e.ends
  BY <1>9, <1>13, <1>14
<1>16. QED
  BY <1>3, <1>4, <1>10, <1>15 DEF GrantStands

(* The books of checkout, grants and wallet agree in every committed state:  *)
(* grants add up, promo codes stay within their limits, commissions are     *)
(* settled once and no wallet is overdrawn (ProcessPaymentGrant,            *)
(* RevokeEntitlementForPayment, requestReferralPayout).                     *)
THEOREM LedgerThm ==
    ASSUME LedgerConstants
    PROVE  Books!LedgerSpec => []LedgerInv
<1>1. Books!LedgerInit => LedgerIInv
  BY LedgerStarts
<1>2. LedgerIInv /\ [Books!LedgerNext]_Books!ledgerVars => LedgerIInv'
  BY LedgerStep
<1>3. LedgerIInv => LedgerInv
  BY LedgerMeans
<1>4. QED
  BY <1>1, <1>2, <1>3, PTL DEF Books!LedgerSpec

(* A row of entitlement is never removed, and its term is only cut by the   *)
(* refund of the payment that bought it (RevokeEntitlementForPayment).      *)
THEOREM GrantsThm ==
    ASSUME LedgerConstants
    PROVE  Books!LedgerSpec => GrantsStand
<1>1. Books!LedgerInit => LedgerIInv
  BY LedgerStarts
<1>2. LedgerIInv /\ [Books!LedgerNext]_Books!ledgerVars => LedgerIInv'
  BY LedgerStep
<1>3. LedgerIInv /\ [Books!LedgerNext]_Books!ledgerVars =>
        [\A e \in ents \ ents' :
          /\ e.p # Books!NoPay /\ pay[e.p].st = "paid" /\ pay'[e.p].st = "refunded"
          /\ \E f \in ents' : f.p = e.p /\ f.source = e.source /\ f.starts = e.starts /\ f.ends < e.ends
        ]_Books!ledgerVars
  BY GrantsStep DEF GrantStands, Books!NoPay
<1>4. QED
  BY <1>1, <1>2, <1>3, PTL DEF Books!LedgerSpec, GrantsStand, Books!GrantsStand
=============================================================================
