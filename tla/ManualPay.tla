------------------------------ MODULE ManualPay ------------------------------
(***************************************************************************)
(* Card-to-card checkout (backend/internal/billing/manual_pay.go): a       *)
(* customer is shown one of the receiving cards and a sum that no other    *)
(* open order on that card expects, transfers it, and the bank's push is   *)
(* matched back to the order by (the card's last four digits, sum).        *)
(*                                                                         *)
(* Confirm, Reject, Claim, Void and the sweeper each run in one database   *)
(* transaction that locks or conditionally updates both rows (payment and  *)
(* manual_pay_assignment), so each is one step; two of them that lock the  *)
(* rows in opposite orders deadlock, and the one Postgres rolls back is no *)
(* step.  StartManualCheckout is three steps (the statement snapshot, the  *)
(* card lock, the commit) and IngestHumoPush five, because their decisions *)
(* are taken on what an earlier statement read.                            *)
(***************************************************************************)
EXTENDS Integers, FiniteSets, FiniteSetsExt

CONSTANTS
    Payments,    \* checkouts; each is one customer's
    Cards,       \* manual_pay_card rows
    Numbers,     \* what pan_last4 can be; no two rows have the same
    FirstLast4,  \* the numbers the cards start with
    Price,       \* Price[p]: the tariff price of the checkout
    Slots,       \* manualAmountSlots
    Hold,        \* ManualHoldDuration, in ticks
    TTL,         \* ManualUnpaidTTL, in ticks
    Tolerance,   \* the 90 seconds of FindManualPayMatchCandidate, in ticks
    MaxTime,     \* bound on the clock
    MaxCrashes,  \* bound on API requests that die half-way
    MaxEdits,    \* bound on changes of a card's number
    None

ASSUME NumberAssumption ==
    /\ Slots \in Nat \ {0} /\ Hold \in Nat /\ TTL \in Nat /\ Tolerance \in Nat
    /\ MaxTime \in Nat /\ MaxCrashes \in Nat /\ MaxEdits \in Nat
    /\ Price \in [Payments -> Nat]
ASSUME NoneAssumption == None \notin Payments \cup Cards \cup Numbers
ASSUME CardAssumption ==
    /\ FirstLast4 \in [Cards -> Numbers]
    /\ \A c, d \in Cards : FirstLast4[c] = FirstLast4[d] => c = d

VARIABLES
    now,       \* the database clock
    status,    \* payment.status ("none": no such row yet)
    asg,       \* manual_pay_assignment of the payment
    enabled,   \* cards an admin has not retired
    last4,     \* manual_pay_card.pan_last4
    edits,     \* changes of a number so far
    cardLock,  \* FOR UPDATE OF c: the checkout that holds the card row
    co,        \* StartManualCheckout of the payment: where it is, what it read
    push,      \* the bank's push about the payer's transfer
    event,     \* manual_pay_event of that push
    ing,       \* IngestHumoPush of that push: where it is, its candidate
    grants,    \* how often ProcessPaymentGrant committed
    crashes    \* API requests that died so far

vars == <<now, status, asg, enabled, last4, edits, cardLock, co, push, event, ing, grants,
          crashes>>

Status == {"none", "pending", "paid", "canceled", "voided"}
OpenState == {"awaiting_transfer", "claimed", "awaiting_review"}
NoAsg == [state |-> "none", card |-> None, amount |-> 0, at |-> 0, released |-> TRUE]
NoPush == [sent |-> FALSE, number |-> None, amount |-> 0, at |-> 0]
Checkout(at, card, number) == [at |-> at, free |-> {}, card |-> card, number |-> number]

Assignment == [state : OpenState \cup {"none", "consumed", "rejected"}, card : Cards \cup {None},
               amount : Nat, at : 0..MaxTime, released : BOOLEAN]

TypeOK ==
    /\ now \in 0..MaxTime
    /\ status \in [Payments -> Status]
    /\ asg \in [Payments -> Assignment]
    /\ enabled \in SUBSET Cards
    /\ last4 \in [Cards -> Numbers]
    /\ edits \in 0..MaxEdits
    /\ cardLock \in [Cards -> Payments \cup {None}]
    /\ co \in [Payments -> [at : {"idle", "lock", "commit", "done"}, free : SUBSET Cards,
                            card : Cards \cup {None}, number : Numbers \cup {None}]]
    /\ push \in [Payments -> [sent : BOOLEAN, number : Numbers \cup {None}, amount : Nat,
                              at : 0..MaxTime]]
    /\ event \in [Payments -> [status : {"none", "unmatched", "matched", "ignored"},
                               match : Payments \cup {None}]]
    /\ ing \in [Payments -> [at : {"idle", "sweep", "find", "confirm", "mark"},
                             cand : Payments \cup {None}]]
    /\ grants \in [Payments -> Nat]
    /\ crashes \in 0..MaxCrashes

Init ==
    /\ now = 0
    /\ status = [p \in Payments |-> "none"]
    /\ asg = [p \in Payments |-> NoAsg]
    /\ enabled = Cards /\ last4 = FirstLast4 /\ edits = 0
    /\ cardLock = [c \in Cards |-> None]
    /\ co = [p \in Payments |-> Checkout("idle", None, None)]
    /\ push = [p \in Payments |-> NoPush]
    /\ event = [p \in Payments |-> [status |-> "none", match |-> None]]
    /\ ing = [p \in Payments |-> [at |-> "idle", cand |-> None]]
    /\ grants = [p \in Payments |-> 0]
    /\ crashes = 0

orders == <<status, asg, grants>>
cards == <<enabled, last4, edits>>
checkouts == <<cardLock, co>>
transfers == <<push, event, ing>>

-----------------------------------------------------------------------------
(* The two sweeps, each one UPDATE.                                        *)

\* ReleaseExpiredManualHolds: the card is free again, the order stays open.
Release(a) ==
    [p \in Payments |->
        IF ~a[p].released /\ a[p].at + Hold <= now
              /\ a[p].state \in {"awaiting_transfer", "claimed"}
           THEN [a[p] EXCEPT !.released = TRUE, !.state = "awaiting_review"] ELSE a[p]]

\* ExpireStaleManualPayments: pending for longer than TTL.
Stale(p) == status[p] = "pending" /\ asg[p].at + TTL < now

ExpireStatus == [p \in Payments |-> IF Stale(p) THEN "canceled" ELSE status[p]]

\* Mutant: the assignments under review are forgotten.
CloseStaleNoReview(a) ==
    [p \in Payments |->
        IF Stale(p) /\ a[p].state \in {"awaiting_transfer", "claimed"}
           THEN [a[p] EXCEPT !.state = "rejected", !.released = TRUE] ELSE a[p]]

CloseStale(a) ==
    [p \in Payments |->
        IF Stale(p) /\ a[p].state \in OpenState
           THEN [a[p] EXCEPT !.state = "rejected", !.released = TRUE] ELSE a[p]]

Sweep ==
    /\ status' = ExpireStatus
    /\ asg' = CloseStale(asg)

-----------------------------------------------------------------------------
(* StartManualCheckout.                                                    *)

\* The snapshot of LockFreeManualPayCard, after the transaction's own Release
\* and Expire: enabled cards without an unreleased hold.
CheckoutSnapshot(p) ==
    /\ co[p].at = "idle"
    /\ LET view == Release(CloseStale(asg))
       IN  co' = [co EXCEPT ![p] =
               [@ EXCEPT !.at = "lock",
                         !.free = {c \in enabled : \A q \in Payments :
                                      view[q].card = c => view[q].released}]]
    /\ UNCHANGED <<now, orders, cards, cardLock, transfers, crashes>>

\* FOR UPDATE OF c SKIP LOCKED LIMIT 1, or ErrManualNoCardAvailable; a card
\* retired since the snapshot fails the recheck of its row.
LockFreeManualPayCard(p) == {c \in co[p].free \cap enabled : cardLock[c] = None}

CheckoutLockCard(p) ==
    /\ co[p].at = "lock"
    /\ LET avail == LockFreeManualPayCard(p)
       IN  IF avail = {}
              THEN /\ co' = [co EXCEPT ![p] = Checkout("done", None, None)]
                   /\ UNCHANGED cardLock
              ELSE \E c \in avail :
                     /\ cardLock' = [cardLock EXCEPT ![c] = p]
                     /\ co' = [co EXCEPT ![p] = Checkout("commit", c, None)]
    /\ UNCHANGED <<now, orders, cards, transfers, crashes>>

\* An assignment that FindManualPayMatchCandidate can still match.
Matchable(p) ==
    /\ asg[p].state \in OpenState
    /\ status[p] = "pending"
    /\ asg[p].at + TTL >= now

\* ListOpenManualAmountsForCard.
OpenAmounts(c) == {asg[p].amount : p \in {q \in Payments : Matchable(q) /\ asg[q].card = c}}

\* uniqueManualAmount: the smallest free sum from the price on.
FreeAmounts(p, c) == {Price[p] + k : k \in 0..(Slots - 1)} \ OpenAmounts(c)

InsertManualPayAssignment(c, sum) ==
    [state |-> "awaiting_transfer", card |-> c, amount |-> sum, at |-> now, released |-> FALSE]

\* CreatePayment, SetPaymentPending, InsertManualPayAssignment and the
\* commit, answered with the number of the card; every sum taken is ErrManualNoCardAvailable and a rollback.
CheckoutCommit(p) ==
    /\ co[p].at = "commit"
    /\ LET c == co[p].card
           sums == FreeAmounts(p, c)
       IN  /\ IF sums = {}
                 THEN /\ co' = [co EXCEPT ![p] = Checkout("done", None, None)]
                      /\ UNCHANGED <<status, asg>>
                 ELSE /\ co' = [co EXCEPT ![p] =
                                   Checkout("done", None, last4[c])]
                      /\ status' = [ExpireStatus EXCEPT ![p] = "pending"]
                      /\ asg' = [Release(CloseStale(asg)) EXCEPT ![p] =
                                    InsertManualPayAssignment(c, Min(sums))]
           /\ cardLock' = [cardLock EXCEPT ![c] = None]
    /\ UNCHANGED <<now, cards, transfers, grants, crashes>>

\* The request dies before its commit: rolled back.
CheckoutCrash(p) ==
    /\ co[p].at \in {"lock", "commit"}
    /\ crashes < MaxCrashes
    /\ crashes' = crashes + 1
    /\ co' = [co EXCEPT ![p] = Checkout("done", None, None)]
    /\ cardLock' = [c \in Cards |-> IF cardLock[c] = p THEN None ELSE cardLock[c]]
    /\ UNCHANGED <<now, orders, cards, transfers>>

-----------------------------------------------------------------------------
(* The customer, the admin and the sweeper.                                *)

ClaimManualPayAssignment(a) ==
    IF a.state = "awaiting_transfer" THEN [a EXCEPT !.state = "claimed"] ELSE a

\* ClaimManualPayment: releases holds, then "I have paid".
Claim(p) ==
    /\ status[p] = "pending"
    /\ asg[p].state \in OpenState
    /\ asg' = [Release(asg) EXCEPT ![p] = ClaimManualPayAssignment(@)]
    /\ UNCHANGED <<now, status, grants, cards, checkouts, transfers, crashes>>

\* GetManualPaymentStatus and the admin queue also release.
ReleaseHolds ==
    /\ asg' = Release(asg)
    /\ asg' # asg
    /\ UNCHANGED <<now, status, grants, cards, checkouts, transfers, crashes>>

\* ConfirmManualPayment's guard: not paid or consumed (already), not rejected
\* or canceled (ErrManualAlreadyDone), and MarkPaymentPaidIfOpen hits a row.
CanConfirm(p) == status[p] = "pending" /\ asg[p].state \in OpenState

MarkPaymentPaidIfOpen(p) == status' = [status EXCEPT ![p] = "paid"]
MarkManualPayAssignmentConsumed(a) == [a EXCEPT !.state = "consumed", !.released = TRUE]

\* One transaction: the order, the days and the assignment.
ConfirmManualPayment(p) ==
    /\ MarkPaymentPaidIfOpen(p)
    /\ grants' = [grants EXCEPT ![p] = @ + 1]
    /\ asg' = [asg EXCEPT ![p] = MarkManualPayAssignmentConsumed(@)]

\* The admin works from the queue of open assignments.
ListOpenManualPayAssignments == {p \in Payments : asg[p].state \in OpenState}

AdminConfirm(p) ==
    /\ p \in ListOpenManualPayAssignments
    /\ CanConfirm(p)
    /\ ConfirmManualPayment(p)
    /\ UNCHANGED <<now, cards, checkouts, transfers, crashes>>

RejectManualPayAssignment(a) == [a EXCEPT !.state = "rejected", !.released = TRUE]

RejectManualPayment(p) ==
    /\ status[p] = "pending"
    /\ p \in ListOpenManualPayAssignments
    /\ asg' = [asg EXCEPT ![p] = RejectManualPayAssignment(@)]
    /\ status' = [status EXCEPT ![p] = "canceled"]
    /\ UNCHANGED <<now, grants, cards, checkouts, transfers, crashes>>

\* admin.Store.VoidPayment for a manual order: the events that were matched
\* to it go back to unmatched.
VoidPayment(p) ==
    /\ status[p] \in {"pending", "canceled"}
    /\ status' = [status EXCEPT ![p] = "voided"]
    /\ asg' = [asg EXCEPT ![p] = IF @.state = "consumed" THEN @
                                 ELSE [@ EXCEPT !.state = "rejected", !.released = TRUE]]
    /\ event' = [e \in Payments |->
                    IF event[e].match = p
                       THEN [status |-> IF event[e].status = "matched" THEN "unmatched"
                                        ELSE event[e].status, match |-> None]
                       ELSE event[e]]
    /\ UNCHANGED <<now, grants, cards, checkouts, push, ing, crashes>>

\* updateManualPayCard and retireManualPayCard: the UPDATE waits for a checkout
\* that holds the row and writes the switch and the number, whatever orders are
\* open on the card.  What a form leaves out is written back as it was read,
\* so an old number is among those it can write; another card's is refused.
UpdateManualPayCard(c) ==
    /\ cardLock[c] = None
    /\ \E n \in Numbers, on \in BOOLEAN :
          /\ \A d \in Cards \ {c} : last4[d] # n
          /\ last4' = [last4 EXCEPT ![c] = n]
          /\ edits' = IF n = last4[c] THEN edits ELSE edits + 1
          /\ enabled' = IF on THEN enabled \cup {c} ELSE enabled \ {c}
    /\ edits' <= MaxEdits
    /\ UNCHANGED <<now, orders, checkouts, transfers, crashes>>

\* RunManualExpireWorker's tick.
ExpireWorker ==
    /\ Sweep
    /\ status' # status
    /\ UNCHANGED <<now, grants, cards, checkouts, transfers, crashes>>

-----------------------------------------------------------------------------
(* The bank and IngestHumoPush.                                            *)

\* The payer transfers the sum shown, in time or late, to the number that the
\* checkout answered or the one GetManualPaymentStatus shows now; the push
\* carries number, sum and minute.
Transfer(p) ==
    /\ asg[p].card # None
    /\ ~push[p].sent
    /\ \E n \in {co[p].number, last4[asg[p].card]} :
          push' = [push EXCEPT ![p] = [sent |-> TRUE, number |-> n,
                                       amount |-> asg[p].amount, at |-> now]]
    /\ UNCHANGED <<now, orders, cards, checkouts, event, ing, crashes>>

IngestTo(e, at, cand) == ing' = [ing EXCEPT ![e] = [at |-> at, cand |-> cand]]

GetManualPayEventByFingerprint(e) == event[e].status # "none"
InsertManualPayEvent(e) == event' = [event EXCEPT ![e].status = "unmatched"]

\* A known fingerprint is answered as a duplicate and changes nothing.
IngestHumoPush(e) ==
    /\ push[e].sent
    /\ ing[e].at = "idle"
    /\ ~GetManualPayEventByFingerprint(e)
    /\ InsertManualPayEvent(e)
    /\ IngestTo(e, "sweep", None)
    /\ UNCHANGED <<now, orders, cards, checkouts, push, crashes>>

\* ReleaseExpiredManualHolds and ExpireStaleManualPayments.
IngestSweep(e) ==
    /\ ing[e].at = "sweep"
    /\ status' = ExpireStatus
    /\ asg' = CloseStale(Release(asg))
    /\ IngestTo(e, "find", None)
    /\ UNCHANGED <<now, grants, cards, checkouts, push, event, crashes>>

\* Mutant: the newest assignment on the card wins, whatever its sum.
CandidatesOnCard(e) ==
    {p \in Payments : Matchable(p) /\ last4[asg[p].card] = push[e].number}

\* FindManualPayMatchCandidate's WHERE clause; the number is the one the card
\* has now.
Candidates(e) ==
    {p \in Payments :
        /\ Matchable(p)
        /\ last4[asg[p].card] = push[e].number
        /\ asg[p].amount = push[e].amount
        /\ push[e].at \in (asg[p].at - Tolerance)..(asg[p].at + TTL)}

\* ORDER BY assigned_at DESC LIMIT 1, or no rows: unmatched.
IngestFind(e) ==
    /\ ing[e].at = "find"
    /\ IF Candidates(e) = {}
          THEN IngestTo(e, "idle", None)
          ELSE \E p \in Candidates(e) :
                 /\ \A q \in Candidates(e) : asg[q].at <= asg[p].at
                 /\ IngestTo(e, "confirm", p)
    /\ UNCHANGED <<now, orders, cards, checkouts, push, event, crashes>>

\* ConfirmManualPayment(cand, "bot"): confirmed now or already paid goes on
\* to the mark, ErrManualAlreadyDone leaves the event unmatched.
IngestConfirm(e) ==
    /\ ing[e].at = "confirm"
    /\ LET p == ing[e].cand
       IN  \/ /\ CanConfirm(p)
              /\ ConfirmManualPayment(p)
              /\ IngestTo(e, "mark", p)
           \/ /\ ~CanConfirm(p)
              /\ IF status[p] = "paid" THEN IngestTo(e, "mark", p) ELSE IngestTo(e, "idle", None)
              /\ UNCHANGED orders
    /\ UNCHANGED <<now, cards, checkouts, push, event, crashes>>

MarkManualPayEventMatched(e) ==
    event' = [event EXCEPT ![e] = [status |-> "matched", match |-> ing[e].cand]]

IngestMark(e) ==
    /\ ing[e].at = "mark"
    /\ MarkManualPayEventMatched(e)
    /\ IngestTo(e, "idle", None)
    /\ UNCHANGED <<now, orders, cards, checkouts, push, crashes>>

\* The request dies between two statements, or a statement fails.
IngestCrash(e) ==
    /\ ing[e].at # "idle"
    /\ crashes < MaxCrashes
    /\ crashes' = crashes + 1
    /\ IngestTo(e, "idle", None)
    /\ UNCHANGED <<now, orders, cards, checkouts, push, event>>

MarkManualPayEventIgnored(e) == event' = [event EXCEPT ![e].status = "ignored"]

\* ignoreManualEvent: unconditional, on a list that may have been loaded
\* before the event was matched.
IgnoreEvent(e) ==
    /\ event[e].status \in {"unmatched", "matched"}
    /\ MarkManualPayEventIgnored(e)
    /\ UNCHANGED <<now, orders, cards, checkouts, push, ing, crashes>>

Tick ==
    /\ now < MaxTime
    /\ now' = now + 1
    /\ UNCHANGED <<orders, cards, checkouts, transfers, crashes>>

Next ==
    \/ \E p \in Payments :
          \/ CheckoutSnapshot(p) \/ CheckoutLockCard(p) \/ CheckoutCommit(p) \/ CheckoutCrash(p)
          \/ Claim(p) \/ AdminConfirm(p) \/ RejectManualPayment(p) \/ VoidPayment(p)
          \/ Transfer(p)
          \/ IngestHumoPush(p) \/ IngestSweep(p) \/ IngestFind(p) \/ IngestConfirm(p)
          \/ IngestMark(p) \/ IngestCrash(p) \/ IgnoreEvent(p)
    \/ \E c \in Cards : UpdateManualPayCard(c)
    \/ ReleaseHolds \/ ExpireWorker \/ Tick

Spec == Init /\ [][Next]_vars

-----------------------------------------------------------------------------
(* Properties.                                                             *)

\* Payment and assignment never contradict each other, and days are granted
\* exactly for the paid orders, once (ConfirmManualPayment,
\* RejectManualPayment, VoidPayment and the sweeper write both rows).
AssignmentAgrees ==
    \A p \in Payments :
        /\ status[p] = "pending" <=> asg[p].state \in OpenState
        /\ status[p] = "paid" <=> asg[p].state = "consumed"
        /\ status[p] \in {"canceled", "voided"} <=> asg[p].state = "rejected"
        /\ grants[p] = IF status[p] = "paid" THEN 1 ELSE 0

\* Two matchable orders on one card never expect the same sum, even when two
\* checkouts raced for the card (uniqueManualAmount under the card lock).
OneCandidate ==
    \A p, q \in Payments :
        Matchable(p) /\ Matchable(q) /\ asg[p].card = asg[q].card /\ asg[p].amount = asg[q].amount
            => p = q

\* At most one order can match a push, so the "newest wins" order of the
\* lookup never decides, whatever numbers the cards were given meanwhile
\* (FindManualPayMatchCandidate joins on the number, the sums are kept apart
\* by card).
OneMatch == \A e \in Payments : \A p, q \in Candidates(e) : p = q

\* A card is held by an open order only: whatever closes an order also gives
\* its card back, so a card no checkout can take is never lost for good.
HoldsAreOpen ==
    \A p \in Payments : ~asg[p].released => asg[p].state \in {"awaiting_transfer", "claimed"}

\* While the payer's own order is open and its card has the number the money
\* went to, nobody else's order gets the transfer
\* (FindManualPayMatchCandidate).
PayerFirst ==
    [][\A e \in Payments :
          /\ ing'[e].at = "confirm" /\ ing[e].at = "find"
          /\ Matchable(e) /\ last4[asg[e].card] = push[e].number
          => ing'[e].cand = e]_vars

\* An order that is paid or voided stays so, and a canceled one can only be
\* voided: no late push, claim, sweep or checkout re-opens it.
ClosedIsFinal ==
    [][\A p \in Payments :
          /\ status[p] \in {"paid", "voided"} => status'[p] = status[p]
          /\ status[p] = "canceled" => status'[p] \in {"canceled", "voided"}]_vars

\* A push is recorded as matched only to an order that is paid, whatever the
\* admin does meanwhile (VoidPayment clears what it voids).
MatchedIsPaid ==
    \A e \in Payments : event[e].match # None => status[event[e].match] = "paid"

ManualInv ==
    TypeOK /\ AssignmentAgrees /\ OneCandidate /\ OneMatch /\ HoldsAreOpen /\ MatchedIsPaid

\* What a step never does: hand a transfer to somebody else before its payer,
\* or re-open a closed order.
ManualSteps == PayerFirst /\ ClosedIsFinal
=============================================================================
