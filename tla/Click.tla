------------------------------- MODULE Click -------------------------------
(***************************************************************************)
(* The Click Shop API webhook (backend/internal/billing/click) over the    *)
(* tables payment and click_transaction, with the admin's VoidPayment.     *)
(*                                                                         *)
(* Prepare and the first half of Complete run each statement on the pool,  *)
(* so each is a step.  confirmAndGrant locks the click_transaction row and *)
(* writes in one transaction (lock, then commit); rejectTransaction writes *)
(* row and order in one transaction without reading either.                *)
(***************************************************************************)
EXTENDS Integers, FiniteSets

CONSTANTS
    Payments,    \* orders whose checkout URL was built by BuildClickURL
    Rows,        \* click_transaction primary keys (gen_random_uuid)
    Paying,      \* click_trans_ids that Click may complete with error = 0
    Declining,   \* click_trans_ids that Click may complete with error < 0
    Workers,     \* requests that can be in flight at the same time
    None,        \* no owner, no payment, no transaction id
    MaxAborts    \* how many requests may die half-way

VARIABLES
    status,    \* payment.status
    tombs,     \* payments with a payment_void row
    row,       \* click_transaction: state, payment_id, click_trans_id
    rowLock,   \* the worker whose transaction holds the FOR UPDATE lock
    req,       \* what each worker is doing and what it has read so far
    grants,    \* how often ProcessPaymentGrant committed for the order
    aborts     \* requests that died so far

vars == <<status, tombs, row, rowLock, req, grants, aborts>>

ClickIds == Paying \cup Declining
Status == {"created", "pending", "paid", "failed", "canceled", "refunded", "voided"}
Waiting == 0
Confirmed == 1
Rejected == -1
NoRow == 2      \* a primary key not used yet
RowState == {Waiting, Confirmed, Rejected, NoRow}

Idle == [at |-> "idle", row |-> None, click |-> None, pay |-> None, seen |-> NoRow]
Points == {"idle", "payable", "lookup", "active", "insert", "mark",
           "status", "reject", "confirm", "grant"}

Active(r) == row[r].state \in {Waiting, Confirmed}
Of(p) == {r \in Rows : row[r].payment = p}

TypeOK ==
    /\ status \in [Payments -> Status]
    /\ tombs \in SUBSET Payments
    /\ row \in [Rows -> [state : RowState, payment : Payments \cup {None},
                         click : ClickIds \cup {None}]]
    /\ rowLock \in [Rows -> Workers \cup {None}]
    /\ req \in [Workers -> [at : Points, row : Rows \cup {None},
                            click : ClickIds \cup {None},
                            pay : Payments \cup {None}, seen : RowState]]
    /\ grants \in [Payments -> Nat]
    /\ aborts \in 0..MaxAborts

Init ==
    /\ status = [p \in Payments |-> "created"]
    /\ tombs = {}
    /\ row = [r \in Rows |-> [state |-> NoRow, payment |-> None, click |-> None]]
    /\ rowLock = [r \in Rows |-> None]
    /\ req = [w \in Workers |-> Idle]
    /\ grants = [p \in Payments |-> 0]
    /\ aborts = 0

GoTo(w, at) == req' = [req EXCEPT ![w].at = at]
End(w) == req' = [req EXCEPT ![w] = Idle]

-----------------------------------------------------------------------------
(* Prepare (action = 0).                                                   *)

Prepare(w, c, p) ==
    /\ req[w] = Idle
    /\ req' = [req EXCEPT ![w] = [Idle EXCEPT !.at = "payable", !.click = c, !.pay = p]]
    /\ UNCHANGED <<status, tombs, row, rowLock, grants, aborts>>

\* GetPaymentForPayme: paid is -4, any other status than created or pending
\* is -5.
PreparePayable(w) ==
    /\ req[w].at = "payable"
    /\ IF status[req[w].pay] \in {"created", "pending"} THEN GoTo(w, "lookup") ELSE End(w)
    /\ UNCHANGED <<status, tombs, row, rowLock, grants, aborts>>

\* GetClickTransactionByClickTransID: a known click_trans_id is a replay.
PrepareLookup(w) ==
    /\ req[w].at = "lookup"
    /\ IF \E r \in Rows : row[r].click = req[w].click THEN End(w) ELSE GoTo(w, "active")
    /\ UNCHANGED <<status, tombs, row, rowLock, grants, aborts>>

\* GetActiveClickTxByPayment.
PrepareActive(w) ==
    /\ req[w].at = "active"
    /\ IF \E r \in Of(req[w].pay) : Active(r) THEN End(w) ELSE GoTo(w, "insert")
    /\ UNCHANGED <<status, tombs, row, rowLock, grants, aborts>>

\* click_transaction_one_active_per_payment: the order has no other active
\* row than r (None for a row that is being inserted).
IndexAllows(r, p) == \A s \in Of(p) \ {r} : ~Active(s)

\* CreateClickTransaction, or a unique violation (-8).
PrepareInsert(w) ==
    /\ req[w].at = "insert"
    /\ \/ /\ IndexAllows(None, req[w].pay)
          /\ \E r \in Rows :
                /\ row[r].state = NoRow
                /\ row' = [row EXCEPT ![r] = [state |-> Waiting, payment |-> req[w].pay,
                                              click |-> req[w].click]]
          /\ GoTo(w, "mark")
       \/ /\ ~IndexAllows(None, req[w].pay)
          /\ End(w)
          /\ UNCHANGED row
    /\ UNCHANGED <<status, tombs, rowLock, grants, aborts>>

\* MarkPaymentPending: unconditional, whatever the status is by now.
PrepareMark(w) ==
    /\ req[w].at = "mark"
    /\ status' = [status EXCEPT ![req[w].pay] = "pending"]
    /\ End(w)
    /\ UNCHANGED <<tombs, row, rowLock, grants, aborts>>

-----------------------------------------------------------------------------
(* Complete (action = 1).                                                  *)

\* GetClickTransactionByID: the row is read without a lock.
Complete(w, r) ==
    /\ req[w] = Idle
    /\ row[r].state # NoRow
    /\ req' = [req EXCEPT ![w] = [at |-> "status", row |-> r, click |-> row[r].click,
                                  pay |-> row[r].payment, seen |-> row[r].state]]
    /\ UNCHANGED <<status, tombs, row, rowLock, grants, aborts>>

\* GetPaymentForPayme, then the checks in the code's order: paid is -4, a
\* rejected row -9, not pending -5; Click's own error code decides the rest.
CompleteStatus(w) ==
    /\ req[w].at = "status"
    /\ \/ /\ status[req[w].pay] # "pending" \/ req[w].seen = Rejected
          /\ End(w)
       \/ /\ status[req[w].pay] = "pending" /\ req[w].seen # Rejected
          /\ \/ req[w].click \in Declining /\ GoTo(w, "reject")
             \/ req[w].click \in Paying /\ GoTo(w, "confirm")
    /\ UNCHANGED <<status, tombs, row, rowLock, grants, aborts>>

\* rejectTransaction: the UPDATE waits for a row lock, then writes state -1
\* and 'canceled' unconditionally, in one transaction.
RejectTransaction(w) ==
    /\ req[w].at = "reject"
    /\ rowLock[req[w].row] = None
    /\ row' = [row EXCEPT ![req[w].row].state = Rejected]
    /\ status' = [status EXCEPT ![req[w].pay] = "canceled"]
    /\ End(w)
    /\ UNCHANGED <<tombs, rowLock, grants, aborts>>

\* Mutant: confirmAndGrant reads without FOR UPDATE.
ConfirmLockNoWait(w) ==
    /\ req[w].at = "confirm"
    /\ IF row[req[w].row].state = Confirmed THEN End(w) ELSE GoTo(w, "grant")
    /\ UNCHANGED <<status, tombs, row, rowLock, grants, aborts>>

\* confirmAndGrant, first half: lock and re-read; state 1 is already
\* confirmed and ends the transaction.
ConfirmLock(w) ==
    /\ req[w].at = "confirm"
    /\ rowLock[req[w].row] = None
    /\ IF row[req[w].row].state = Confirmed
          THEN /\ End(w)
               /\ UNCHANGED rowLock
          ELSE /\ GoTo(w, "grant")
               /\ rowLock' = [rowLock EXCEPT ![req[w].row] = w]
    /\ UNCHANGED <<status, tombs, row, grants, aborts>>

Unlock(w) == rowLock' = [r \in Rows |-> IF rowLock[r] = w THEN None ELSE rowLock[r]]

\* Second half: ConfirmClickTransaction, MarkPaymentPaid, ProcessPaymentGrant,
\* commit; a unique violation of the active index rolls everything back.
ConfirmAndGrant(w) ==
    /\ req[w].at = "grant"
    /\ IF IndexAllows(req[w].row, req[w].pay)
          THEN /\ row' = [row EXCEPT ![req[w].row].state = Confirmed]
               /\ status' = [status EXCEPT ![req[w].pay] = "paid"]
               /\ grants' = [grants EXCEPT ![req[w].pay] = @ + 1]
          ELSE UNCHANGED <<row, status, grants>>
    /\ End(w)
    /\ Unlock(w)
    /\ UNCHANGED <<tombs, aborts>>

-----------------------------------------------------------------------------
\* The request dies: committed statements stay, an open transaction is
\* rolled back and its lock released.
Abort(w) ==
    /\ req[w] # Idle
    /\ aborts < MaxAborts
    /\ aborts' = aborts + 1
    /\ End(w)
    /\ Unlock(w)
    /\ UNCHANGED <<status, tombs, row, grants>>

\* admin.Store.VoidPayment for an order that is not a manual one.
VoidPayment(p) ==
    /\ status[p] \in {"failed", "canceled"}
    /\ p \notin tombs
    /\ tombs' = tombs \cup {p}
    /\ status' = [status EXCEPT ![p] = "voided"]
    /\ UNCHANGED <<row, rowLock, req, grants, aborts>>

PrepareStep(w) ==
    PreparePayable(w) \/ PrepareLookup(w) \/ PrepareActive(w) \/ PrepareInsert(w) \/ PrepareMark(w)

CompleteStep(w) ==
    CompleteStatus(w) \/ RejectTransaction(w) \/ ConfirmLock(w) \/ ConfirmAndGrant(w)

Next ==
    \/ \E w \in Workers :
          \/ \E c \in ClickIds, p \in Payments : Prepare(w, c, p)
          \/ \E r \in Rows : Complete(w, r)
          \/ PrepareStep(w) \/ CompleteStep(w) \/ Abort(w)
    \/ \E p \in Payments : VoidPayment(p)

Spec == Init /\ [][Next]_vars

-----------------------------------------------------------------------------
(* Properties.                                                             *)

\* recon's paid_missing_confirm never fires: a paid order has a confirmed
\* click_transaction (recon.checkClickPayment).
PaidHasConfirm ==
    \A p \in Payments : status[p] = "paid" => \E r \in Of(p) : row[r].state = Confirmed

\* Transactions that Click both takes the money of and declines, and the
\* orders that have none of them.
Mixed == Paying \cap Declining
Steady(p) == \A r \in Of(p) : row[r].click \notin Mixed

\* However Prepares and Completes of an order overlap, are retried or die,
\* its entitlement is granted at most once, and only if one of its rows is
\* confirmed (confirmAndGrant's lock and the active index), as long as Click
\* does not both pay and decline one of its transactions.
OneGrantPerOrder ==
    \A p \in Payments : Steady(p) =>
        /\ grants[p] <= 1
        /\ grants[p] = 1 <=> \E r \in Of(p) : row[r].state = Confirmed

\* A row that is confirmed or rejected keeps its verdict, unless Click both
\* pays and declines the transaction; even then a rejected row is confirmed
\* only by a request that read it before it was rejected (complete).
Overtaken(r) == \E w \in Workers : req[w].at = "grant" /\ req[w].row = r /\ req[w].seen # Rejected
VerdictKept(r) ==
    row'[r] # row[r] => row[r].click \in Mixed /\ (row[r].state = Rejected => Overtaken(r))
VerdictIsFinal ==
    [][\A r \in Rows : row[r].state \in {Confirmed, Rejected} => VerdictKept(r)]_vars

ClickInv == TypeOK /\ PaidHasConfirm /\ OneGrantPerOrder

\* complete's comment: an order that is not pending "must not be confirmed,
\* or a dead order could be granted entitlement out from under an admin's
\* decision".
OnlyPendingGranted ==
    [][\A p \in Payments : grants'[p] # grants[p] => status[p] = "pending"]_vars
=============================================================================
