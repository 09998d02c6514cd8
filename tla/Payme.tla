------------------------------- MODULE Payme -------------------------------
(***************************************************************************)
(* The Payme Merchant API webhook (backend/internal/billing/payme) over    *)
(* the tables payment and payme_transaction, with the admin's VoidPayment. *)
(*                                                                         *)
(* A worker is one HTTP request being served.  CreateTransaction runs its  *)
(* five statements on the pool, each its own transaction, so every one of  *)
(* them is a step of its own.  PerformTransaction and CancelTransaction    *)
(* lock the payme_transaction row (SELECT ... FOR UPDATE) and write        *)
(* everything in one database transaction: a step that takes the lock and  *)
(* reads, and a step that commits.  Early returns that write nothing       *)
(* (replays, -31003, -31050) end the request.                              *)
(***************************************************************************)
EXTENDS Integers, FiniteSets

CONSTANTS
    Payments,    \* orders whose checkout URL was built by BuildPaymeURL
    PaymeIds,    \* Payme's own transaction ids (params.id)
    Workers,     \* requests that can be in flight at the same time
    None,        \* no owner, no payment
    MaxAborts    \* how many requests may die half-way

ASSUME NoneAssumption == None \notin Payments \cup PaymeIds \cup Workers
ASSUME MaxAbortsAssumption == MaxAborts \in Nat

VARIABLES
    status,    \* payment.status
    txn,       \* payme_transaction: state (0: no such row) and payment_id
    aged,      \* rows with create_time + paymeTxTimeoutMs < now
    rowLock,   \* the worker whose transaction holds the FOR UPDATE lock
    req,       \* what each worker is doing and what it has read so far
    grants,    \* how often ProcessPaymentGrant ran for this transaction
    tombs,     \* payments with a payment_void row
    live,      \* entitlement grants of this payment that are not revoked
    aborts     \* requests that died so far

vars == <<status, txn, aged, rowLock, req, grants, live, tombs, aborts>>

Status == {"created", "pending", "paid", "failed", "canceled", "refunded", "voided"}
NoRow == 0
Pending == 1
Performed == 2
TxnState == {NoRow, Pending, Performed, -1, -2}

Idle == [at |-> "idle", id |-> None, pay |-> None, seen |-> NoRow]
Points == {"idle", "validate", "active", "insert", "mark", "perform", "cancel"}

Active(t) == txn[t].state \in {Pending, Performed}
Of(p) == {t \in PaymeIds : txn[t].payment = p}
HasPerformed(p) == \E t \in Of(p) : txn[t].state = Performed

TypeOK ==
    /\ status \in [Payments -> Status]
    /\ txn \in [PaymeIds -> [state : TxnState, payment : Payments \cup {None}]]
    /\ aged \in SUBSET PaymeIds
    /\ rowLock \in [PaymeIds -> Workers \cup {None}]
    /\ req \in [Workers -> [at : Points, id : PaymeIds \cup {None},
                            pay : Payments \cup {None}, seen : TxnState]]
    /\ grants \in [PaymeIds -> Nat]
    /\ live \in [Payments -> Nat]
    /\ tombs \in SUBSET Payments
    /\ aborts \in 0..MaxAborts

Init ==
    /\ status = [p \in Payments |-> "created"]
    /\ txn = [t \in PaymeIds |-> [state |-> NoRow, payment |-> None]]
    /\ aged = {}
    /\ rowLock = [t \in PaymeIds |-> None]
    /\ req = [w \in Workers |-> Idle]
    /\ grants = [t \in PaymeIds |-> 0]
    /\ live = [p \in Payments |-> 0]
    /\ tombs = {}
    /\ aborts = 0

-----------------------------------------------------------------------------
(* CreateTransaction: five statements, no transaction around them.         *)

\* GetPaymeTransaction found no row: a genuinely new payme_id.  (A row that
\* exists is a replay and is answered from it without writing.)
CreateTransaction(w, t, p) ==
    /\ req[w] = Idle
    /\ txn[t].state = NoRow
    /\ req' = [req EXCEPT ![w] = [at |-> "validate", id |-> t, pay |-> p, seen |-> NoRow]]
    /\ UNCHANGED <<status, txn, aged, rowLock, grants, live, tombs, aborts>>

\* validateAccountAmount with allowPending = true.
ValidateAccountAmount(w) ==
    /\ req[w].at = "validate"
    /\ req' = [req EXCEPT ![w] = IF status[req[w].pay] \in {"created", "pending"}
                                    THEN [@ EXCEPT !.at = "active"] ELSE Idle]
    /\ UNCHANGED <<status, txn, aged, rowLock, grants, live, tombs, aborts>>

\* GetActivePaymeTxByPayment: a second payme_id cannot claim the order.
CheckNoActive(w) ==
    /\ req[w].at = "active"
    /\ req' = [req EXCEPT ![w] = IF \E t \in Of(req[w].pay) : Active(t)
                                    THEN Idle ELSE [@ EXCEPT !.at = "insert"]]
    /\ UNCHANGED <<status, txn, aged, rowLock, grants, live, tombs, aborts>>

\* The primary key and payme_transaction_one_active_per_payment.
InsertAllowed(t, p) ==
    /\ txn[t].state = NoRow
    /\ \A u \in Of(p) : ~Active(u)

\* CreatePaymeTransaction: state 1, or a unique violation (-31008).
InsertTransaction(w) ==
    /\ req[w].at = "insert"
    /\ IF InsertAllowed(req[w].id, req[w].pay)
          THEN /\ txn' = [txn EXCEPT ![req[w].id] =
                             [state |-> Pending, payment |-> req[w].pay]]
               /\ req' = [req EXCEPT ![w].at = "mark"]
          ELSE /\ req' = [req EXCEPT ![w] = Idle]
               /\ UNCHANGED txn
    /\ UNCHANGED <<status, aged, rowLock, grants, live, tombs, aborts>>

\* SetPaymentStatus(pending): unconditional, whatever the status is by now.
MarkPending(w) ==
    /\ req[w].at = "mark"
    /\ status' = [status EXCEPT ![req[w].pay] = "pending"]
    /\ req' = [req EXCEPT ![w] = Idle]
    /\ UNCHANGED <<txn, aged, rowLock, grants, live, tombs, aborts>>

-----------------------------------------------------------------------------
(* PerformTransaction and CancelTransaction: one transaction, row locked.  *)

\* Mutant: a plain SELECT instead of SELECT ... FOR UPDATE.
LockRowNoWait(w, t, at) ==
    /\ req[w] = Idle
    /\ txn[t].state # NoRow
    /\ req' = [req EXCEPT ![w] = [at |-> at, id |-> t, pay |-> txn[t].payment,
                                  seen |-> txn[t].state]]
    /\ UNCHANGED <<status, txn, aged, rowLock, grants, live, tombs, aborts>>

\* GetPaymeTransactionForUpdate waits for the row lock, then reads the row.
LockRow(w, t, at) ==
    /\ req[w] = Idle
    /\ txn[t].state # NoRow
    /\ rowLock[t] = None
    /\ rowLock' = [rowLock EXCEPT ![t] = w]
    /\ req' = [req EXCEPT ![w] = [at |-> at, id |-> t, pay |-> txn[t].payment,
                                  seen |-> txn[t].state]]
    /\ UNCHANGED <<status, txn, aged, grants, live, tombs, aborts>>

PerformTransaction(w, t) == LockRow(w, t, "perform")
CancelTransaction(w, t) == LockRow(w, t, "cancel")

\* The transaction ends (Commit, or the deferred Rollback): locks go.
EndRequest(w) ==
    /\ rowLock' = [t \in PaymeIds |-> IF rowLock[t] = w THEN None ELSE rowLock[t]]
    /\ req' = [req EXCEPT ![w] = Idle]

\* state 2 is a replay, -1/-2 is -31008: neither writes anything.
PerformReplay(w) ==
    /\ req[w].at = "perform"
    /\ req[w].seen # Pending
    /\ EndRequest(w)
    /\ UNCHANGED <<status, txn, aged, grants, live, tombs, aborts>>

\* The 12-hour window has passed: cancelled with reason 4.
PerformTimeout(w) ==
    /\ req[w].at = "perform"
    /\ req[w].seen = Pending
    /\ req[w].id \in aged
    /\ txn' = [txn EXCEPT ![req[w].id].state = -1]
    /\ status' = [status EXCEPT ![req[w].pay] = "canceled"]
    /\ EndRequest(w)
    /\ UNCHANGED <<aged, grants, live, tombs, aborts>>

\* PerformPaymeTransaction, MarkPaymentPaid, ProcessPaymentGrant, commit.
PerformCommit(w) ==
    /\ req[w].at = "perform"
    /\ req[w].seen = Pending
    /\ req[w].id \notin aged
    /\ txn' = [txn EXCEPT ![req[w].id].state = Performed]
    /\ status' = [status EXCEPT ![req[w].pay] = "paid"]
    /\ grants' = [grants EXCEPT ![req[w].id] = @ + 1]
    /\ live' = [live EXCEPT ![req[w].pay] = @ + 1]
    /\ EndRequest(w)
    /\ UNCHANGED <<aged, tombs, aborts>>

CancelReplay(w) ==
    /\ req[w].at = "cancel"
    /\ req[w].seen \in {-1, -2}
    /\ EndRequest(w)
    /\ UNCHANGED <<status, txn, aged, grants, live, tombs, aborts>>

\* A pending transaction is cancelled: state -1, payment canceled.
CancelPending(w) ==
    /\ req[w].at = "cancel"
    /\ req[w].seen = Pending
    /\ txn' = [txn EXCEPT ![req[w].id].state = -1]
    /\ status' = [status EXCEPT ![req[w].pay] = "canceled"]
    /\ EndRequest(w)
    /\ UNCHANGED <<aged, grants, live, tombs, aborts>>

\* Mutant: a refund that forgets RevokeEntitlementForPayment.
CancelPerformedNoRevoke(w) ==
    /\ req[w].at = "cancel"
    /\ req[w].seen = Performed
    /\ txn' = [txn EXCEPT ![req[w].id].state = -2]
    /\ status' = [status EXCEPT ![req[w].pay] = "refunded"]
    /\ EndRequest(w)
    /\ UNCHANGED <<aged, grants, live, tombs, aborts>>

\* A performed one is refunded: state -2, RevokeEntitlementForPayment clamps
\* every entitlement linked to the payment.
CancelPerformed(w) ==
    /\ req[w].at = "cancel"
    /\ req[w].seen = Performed
    /\ txn' = [txn EXCEPT ![req[w].id].state = -2]
    /\ status' = [status EXCEPT ![req[w].pay] = "refunded"]
    /\ live' = [live EXCEPT ![req[w].pay] = 0]
    /\ EndRequest(w)
    /\ UNCHANGED <<aged, grants, tombs, aborts>>

-----------------------------------------------------------------------------
\* The request dies at any point (statement error, closed connection, crash
\* of the process): an open transaction is rolled back and its lock released,
\* statements already committed on the pool stay.
Abort(w) ==
    /\ req[w] # Idle
    /\ aborts < MaxAborts
    /\ aborts' = aborts + 1
    /\ EndRequest(w)
    /\ UNCHANGED <<status, txn, aged, grants, live, tombs>>

\* 12 hours go by for a pending row.
WindowPasses(t) ==
    /\ txn[t].state = Pending
    /\ t \notin aged
    /\ aged' = aged \cup {t}
    /\ UNCHANGED <<status, txn, rowLock, req, grants, live, tombs, aborts>>

\* Mutant: a paid order can be voided too.
VoidPaymentPaid(p) ==
    /\ status[p] \in {"failed", "canceled", "paid"}
    /\ p \notin tombs
    /\ tombs' = tombs \cup {p}
    /\ status' = [status EXCEPT ![p] = "voided"]
    /\ UNCHANGED <<txn, aged, rowLock, req, grants, live, aborts>>

\* admin.Store.VoidPayment for an order that is not a manual one: payment_id
\* is the primary key of payment_void, so a second INSERT fails.
VoidPayment(p) ==
    /\ status[p] \in {"failed", "canceled"}
    /\ p \notin tombs
    /\ tombs' = tombs \cup {p}
    /\ status' = [status EXCEPT ![p] = "voided"]
    /\ UNCHANGED <<txn, aged, rowLock, req, grants, live, aborts>>

Commit(w) ==
    \/ PerformReplay(w) \/ PerformTimeout(w) \/ PerformCommit(w)
    \/ CancelReplay(w) \/ CancelPending(w) \/ CancelPerformed(w)

CreateStep(w) ==
    \/ ValidateAccountAmount(w) \/ CheckNoActive(w)
    \/ InsertTransaction(w) \/ MarkPending(w)

Next ==
    \/ \E w \in Workers :
          \/ \E t \in PaymeIds, p \in Payments : CreateTransaction(w, t, p)
          \/ \E t \in PaymeIds : PerformTransaction(w, t) \/ CancelTransaction(w, t)
          \/ CreateStep(w) \/ Commit(w) \/ Abort(w)
    \/ \E t \in PaymeIds : WindowPasses(t)
    \/ \E p \in Payments : VoidPayment(p)

Spec == Init /\ [][Next]_vars

\* A request that was started runs on, and Payme retries a perform until it
\* is answered.
Fairness ==
    /\ \A w \in Workers : WF_vars(CreateStep(w) \/ Commit(w))
    /\ \A t \in PaymeIds : SF_vars(\E w \in Workers : PerformTransaction(w, t))

FairSpec == Spec /\ Fairness

-----------------------------------------------------------------------------
(* Properties.                                                             *)

\* However Payme retries, and whichever requests overlap or die, one
\* transaction makes ProcessPaymentGrant run at most once, and exactly once
\* when it is in state 2 or -2 (performTransaction's FOR UPDATE lock and its
\* state == 2 branch).
GrantedOnce ==
    \A t \in PaymeIds : grants[t] = IF txn[t].state \in {Performed, -2} THEN 1 ELSE 0

\* The customer holds the entitlement of an order exactly as long as one of
\* its transactions is in state 2: a refund always takes the access away and
\* nothing else does (performTransaction, cancelTransaction and the unique
\* index payme_transaction_one_active_per_payment together).
AccessIffPerformed ==
    \A p \in Payments : live[p] = IF HasPerformed(p) THEN 1 ELSE 0

\* An order that is canceled, refunded or voided has no performed
\* transaction: the three writers of payment.status in performTransaction,
\* cancelTransaction and VoidPayment never contradict payme_transaction.
DeadOrderNotPerformed ==
    \A p \in Payments :
        status[p] \in {"failed", "canceled", "refunded", "voided"} => ~HasPerformed(p)

\* recon's paid_missing_perform never fires: a paid order has a transaction
\* in state 2 (recon.checkPaymePayment).
PaidHasPerform ==
    \A p \in Payments : status[p] = "paid" => HasPerformed(p)

\* The order's status and its transactions tell the same story, whatever
\* order performs, cancels and voids commit in.
StatusAgrees == TypeOK /\ DeadOrderNotPerformed /\ PaidHasPerform

\* A transaction that Payme keeps asking to perform leaves state 1: neither
\* a lock left behind nor an aborted request blocks it for ever.
PerformSettles ==
    \A t \in PaymeIds : (txn[t].state = Pending) ~> (txn[t].state # Pending)
=============================================================================
